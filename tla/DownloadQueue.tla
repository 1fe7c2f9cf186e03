--------------------------- MODULE DownloadQueue ---------------------------
(***************************************************************************)
(* The durable download queue (worker_repository.py) as the Worker         *)
(* processes (worker.py, worker_pool.py) and the API drive it.             *)
(*                                                                         *)
(* Every action that touches the database is one SQLite transaction: the   *)
(* repository opens each with BEGIN IMMEDIATE, so transactions are         *)
(* serialised and interleave only with one another.  Wall-clock time is    *)
(* reduced to the comparisons the code makes: job.live is                  *)
(* "lease_expires_at > now", job.due is "available_at <= now" and          *)
(* circuit.cooled is "cooldown_until <= now"; the actions Lapse, BecomeDue *)
(* and CoolDown are the passing of time.  A lease token is a fresh uuid    *)
(* per claim, so it is identified with the attempt number it was issued    *)
(* with (0 is NULL).  Jobs are numbered in the order they were created.    *)
(***************************************************************************)
EXTENDS RetryPolicy, FiniteSets

CONSTANTS
    Jobs,               \* flat download jobs; the numbers give created_at order
    Platforms,
    PlatformOf,         \* the platform of each job's source
    Workers,            \* Worker processes
    Slots,              \* execution threads of all the Workers
    WorkerOf,           \* the Worker a slot belongs to
    MAX_ACTIVE_JOBS,    \* 2 in the code
    RateLimitThreshold, \* RATE_LIMIT_MANUAL_RESET_THRESHOLD, 3 in the code
    BrokenThreshold,    \* PLATFORM_FAILURE_THRESHOLDS[extractor_broken], 2
    Errors,             \* the codes an adapter or a validation fails with
    MaxGeneration       \* bound: manual retries stop at this run_generation

ASSUME QueueAssumption ==
    /\ Jobs \subseteq Nat \ {0}
    /\ PlatformOf \in [Jobs -> Platforms]
    /\ WorkerOf \in [Slots -> Workers]
    /\ MAX_ACTIVE_JOBS \in Nat \ {0}
    /\ RateLimitThreshold \in Nat \ {0}
    /\ BrokenThreshold \in Nat \ {0}
    /\ Errors \subseteq ErrorCode
    /\ MaxGeneration \in Nat \ {0}

VARIABLES
    job,       \* download_jobs
    attempt,   \* job_attempts.status by job and attempt number
    pending,   \* attempts of each job that own asset_commit_intents rows
    circuit,   \* platform_circuits
    paused,    \* queue_control.paused
    orphaned,  \* unexpired recovery claims whose process is gone
    latched,   \* Workers with _pause_persistence_failed
    stopping,  \* Workers whose stop_event is set
    scanned,   \* idle Workers between intent recovery and the claim itself
    cleaning,  \* the recovery claims each Worker is working through
    lease,     \* the <<job, attempt>> that each slot was handed
    phase      \* where execute_claimed stands in each slot

dbVars     == <<job, attempt, pending, circuit, paused, orphaned>>
workerVars == <<latched, stopping, scanned, cleaning>>
slotVars   == <<lease, phase>>
vars       == <<dbVars, workerVars, slotVars>>

ACTIVE_STATUSES == {"probing", "downloading", "postprocessing", "verifying"}
JobStatus       == ACTIVE_STATUSES \cup {"queued", "ready", "failed", "canceled"}
AttemptStatus   == {"running", "succeeded", "failed", "canceled", "abandoned"}
AttemptNos      == 1..(MaxGeneration * MAX_ATTEMPTS)
Phases          == {"idle", "run", "storage", "cleanup", "raised"}
TrackedErrors   == {"rate_limited", "extractor_broken"}
NoLease         == <<0, 0>>
Leases          == (Jobs \X AttemptNos) \cup {NoLease}

JobRecord ==
    [status : JobStatus, token : AttemptNos \cup {0}, live : BOOLEAN,
     cancel : BOOLEAN, due : BOOLEAN, gen : 1..MaxGeneration,
     used : 0..MAX_ATTEMPTS, total : Nat]

CircuitRecord ==
    [state : {"closed", "open", "half_open"}, failures : Nat,
     last : TrackedErrors \cup {"none"}, cooled : BOOLEAN, manual : BOOLEAN,
     probe : Leases]

Active(r) == r.status \in ACTIVE_STATUSES

ActiveJobs(jb) == {j \in Jobs : Active(jb[j])}

WorkerSlots(w) == {s \in Slots : WorkerOf[s] = w}

\* "not active" in run_concurrent_worker: no slot executes or cleans up.
Quiescent(w) == \A s \in WorkerSlots(w) : phase[s] = "idle"

-----------------------------------------------------------------------------
(***************************************************************************)
(* platform_circuits                                                       *)
(***************************************************************************)
\* _record_platform_success_locked and reset_platform_circuit; a platform
\* without a row behaves the same.
ClosedCircuit ==
    [state |-> "closed", failures |-> 0, last |-> "none", cooled |-> FALSE,
     manual |-> FALSE, probe |-> NoLease]

\* _release_half_open_locked
ReleaseHalfOpen(c, j, n) ==
    IF c.state = "half_open" /\ c.probe = <<j, n>>
    THEN [c EXCEPT !.state = "open", !.cooled = TRUE, !.manual = FALSE,
                   !.probe = NoLease]
    ELSE c

ThresholdReached(failures, threshold) == failures >= threshold

\* _record_platform_failure_locked
RecordPlatformFailure(c, j, n, code) ==
    LET isProbe  == c.state = "half_open" /\ c.probe = <<j, n>>
        failures == 1 + (IF c.last = code THEN c.failures ELSE 0)
        broken   == isProbe \/ ThresholdReached(failures, BrokenThreshold)
        limited  == code = "rate_limited"
    IN  IF code \notin TrackedErrors
        THEN ReleaseHalfOpen(c, j, n)
        ELSE [state    |-> IF limited \/ broken THEN "open" ELSE "closed",
              failures |-> failures,
              last     |-> code,
              cooled   |-> FALSE,
              manual   |-> IF limited THEN ThresholdReached(failures, RateLimitThreshold)
                                      ELSE broken,
              probe    |-> NoLease]

\* The circuit test of the claim query.
Admits(c) == \/ c.state = "closed"
             \/ c.state = "open" /\ ~c.manual /\ c.cooled

-----------------------------------------------------------------------------
(***************************************************************************)
(* Leases                                                                  *)
(***************************************************************************)
\* The WHERE clause that fences every write of an attempt.
Holds(j, n) == Active(job[j]) /\ job[j].token = n /\ job[j].live

\* The assignments by which a job leaves its lease; a cancellation request is
\* kept only by a canceled job.
Released(r, status) ==
    [r EXCEPT !.status = status, !.token = 0, !.live = FALSE,
              !.cancel = r.cancel /\ status = "canceled", !.due = TRUE]

\* Mutant: recovery ignores the cancellation.
LostStatus_IgnoresCancel(r) ==
    IF r.used >= MAX_ATTEMPTS THEN "failed" ELSE "queued"

\* What recovery decides for a job whose worker is gone.
LostStatus(r) ==
    IF r.cancel THEN "canceled"
    ELSE IF r.used >= MAX_ATTEMPTS THEN "failed" ELSE "queued"

LostAttempt(r) == IF r.cancel THEN "canceled" ELSE "abandoned"

\* Job, attempt and circuit tables after the jobs in lost were recovered.
JobsWithout(lost) ==
    [j \in Jobs |-> IF j \in lost THEN Released(job[j], LostStatus(job[j]))
                                  ELSE job[j]]
\* Mutant: recovery forgets the attempt row.
AttemptsWithout_Kept(lost) == attempt

AttemptsWithout(lost) ==
    [j \in Jobs |-> [n \in AttemptNos |->
        IF j \in lost /\ n = job[j].token /\ attempt[j][n] = "running"
        THEN LostAttempt(job[j])
        ELSE attempt[j][n]]]
\* Mutant: recovery forgets the half-open probe.
CircuitsWithout_Kept(lost) == circuit

CircuitsWithout(lost) ==
    [p \in Platforms |->
        IF \E j \in lost : circuit[p].probe = <<j, job[j].token>>
        THEN ReleaseHalfOpen(circuit[p], circuit[p].probe[1],
                             circuit[p].probe[2])
        ELSE circuit[p]]

-----------------------------------------------------------------------------
Init ==
    /\ job = [j \in Jobs |->
                [status |-> "queued", token |-> 0, live |-> FALSE,
                 cancel |-> FALSE, due |-> TRUE, gen |-> 1, used |-> 0,
                 total |-> 0]]
    /\ attempt = [j \in Jobs |-> [n \in AttemptNos |-> "none"]]
    /\ pending = [j \in Jobs |-> {}]
    /\ circuit = [p \in Platforms |-> ClosedCircuit]
    /\ paused = FALSE /\ orphaned = {}
    /\ latched = {} /\ stopping = {} /\ scanned = {}
    /\ cleaning = [w \in Workers |-> {}]
    /\ lease = [s \in Slots |-> NoLease]
    /\ phase = [s \in Slots |-> "idle"]

\* Worker._pause: the pause is persisted, or the Worker latches it locally.
Pause(w) == \/ paused' = TRUE /\ UNCHANGED latched
            \/ latched' = latched \cup {w} /\ UNCHANGED paused

-----------------------------------------------------------------------------
(***************************************************************************)
(* Claiming.  claim_once of an idle Worker first recovers stale intents    *)
(* (FenceIntents, then one CompleteIntent per intent), then claims; a      *)
(* Worker with a busy slot claims without recovery.                        *)
(***************************************************************************)
\* An intent whose attempt may still publish (exact_active).
\* Mutant: an intent of a lapsed lease still counts as being published.
ExactActive_IgnoresLapse(j, n) ==
    job[j].status = "verifying" /\ job[j].token = n /\ ~job[j].cancel

ExactActive(j, n) ==
    /\ job[j].status = "verifying" /\ Holds(j, n) /\ ~job[j].cancel
    /\ attempt[j][n] = "running"

MayClaim(w) == ~paused /\ w \notin latched /\ w \notin stopping

\* recover_asset_commit_intents, first phase.  Recovery claims that have not
\* expired are left alone: those of dead processes in orphaned, and those of
\* the running Workers in fresh.  The claims of one Worker expire together;
\* the Workers that lose theirs find out when they complete one, and raise.
FenceIntents(w) ==
    /\ MayClaim(w) /\ Quiescent(w) /\ w \notin scanned
    /\ \E fresh \in SUBSET {v \in Workers \ {w} : cleaning[v] /= {}} :
        LET held  == orphaned \cup UNION {cleaning[v] : v \in fresh}
            stale == {i \in Jobs \X AttemptNos :
                        /\ i[2] \in pending[i[1]] /\ i \notin held
                        /\ ~ExactActive(i[1], i[2])}
            lost  == {j \in Jobs : Active(job[j]) /\ <<j, job[j].token>> \in stale}
        IN  /\ job' = JobsWithout(lost)
            /\ attempt' = AttemptsWithout(lost)
            /\ circuit' = CircuitsWithout(lost)
            /\ cleaning' = [v \in Workers |->
                              IF v = w THEN stale
                              ELSE IF v \in fresh THEN cleaning[v] ELSE {}]
            /\ stopping' = stopping \cup
                   {v \in Workers \ (fresh \cup {w}) : cleaning[v] /= {}}
    /\ scanned' = scanned \cup {w}
    /\ UNCHANGED <<pending, paused, orphaned, latched, slotVars>>

\* Second and third phase for one intent: remove its files, then delete it.
CompleteIntent(w, j, n) ==
    /\ <<j, n>> \in cleaning[w]
    /\ pending' = [pending EXCEPT ![j] = @ \ {n}]
    /\ cleaning' = [cleaning EXCEPT ![w] = @ \ {<<j, n>>}]
    /\ UNCHANGED <<job, attempt, circuit, paused, orphaned, latched, stopping,
                   scanned, slotVars>>

\* reconcile_attempt_directories or remove_pending_asset raises: the claims are
\* released; _claim_once pauses the queue after an OSError, and lets any other
\* exception end the Worker.
RecoveryFails(w) ==
    /\ \/ MayClaim(w) /\ Quiescent(w) /\ w \notin scanned
       \/ cleaning[w] /= {}
    /\ cleaning' = [cleaning EXCEPT ![w] = {}]
    /\ scanned' = scanned \ {w}
    /\ \/ Pause(w) /\ UNCHANGED stopping
       \/ stopping' = stopping \cup {w} /\ UNCHANGED <<paused, latched>>
    /\ UNCHANGED <<job, attempt, pending, circuit, orphaned, slotVars>>

\* _recover_expired: jobs with intents are left to FenceIntents.
Expired == {j \in Jobs : Active(job[j]) /\ ~job[j].live /\ pending[j] = {}}

\* Mutant: the query forgets the pending intents.
Eligible_IgnoresIntents(jb, cb, excluded) ==
    {j \in Jobs \ excluded :
        /\ jb[j].status = "queued" /\ jb[j].due
        /\ jb[j].used < MAX_ATTEMPTS /\ Admits(cb[PlatformOf[j]])
        /\ Cardinality(ActiveJobs(jb)) < MAX_ACTIVE_JOBS
        /\ \A k \in ActiveJobs(jb) : PlatformOf[k] /= PlatformOf[j]}

\* The jobs the claim query may select, given the tables after recovery.
Eligible(jb, cb, excluded) ==
    {j \in Jobs \ excluded :
        /\ jb[j].status = "queued" /\ jb[j].due
        /\ pending[j] = {}
        /\ jb[j].used < MAX_ATTEMPTS
        /\ Admits(cb[PlatformOf[j]])
        /\ Cardinality(ActiveJobs(jb)) < MAX_ACTIVE_JOBS
        /\ \A k \in ActiveJobs(jb) : PlatformOf[k] /= PlatformOf[j]}

\* excluded_job_ids: the jobs of the claims this Worker is still executing or
\* cleaning up, whatever the database says of them by now.
\* Mutant: the coordinator does not exclude its own live claims.
Excluded_None(w) == {0}

Excluded(w) == {lease[t][1] : t \in WorkerSlots(w)}

\* The leased job's row after the claim.
Claimed(r) ==
    [r EXCEPT !.status = "probing", !.token = r.total + 1, !.live = TRUE,
              !.used = @ + 1, !.total = @ + 1]

\* claim_next, from BEGIN IMMEDIATE to COMMIT.  invalid is the set of jobs
\* whose credential snapshot does not validate at this moment: those in front
\* of the first valid one fail, and the first valid one is leased to slot s.
ClaimNext(s) ==
    LET w         == WorkerOf[s]
        recovery  == Quiescent(w)
        lost      == IF recovery THEN Expired ELSE {}
        jb        == JobsWithout(lost)
        ab        == AttemptsWithout(lost)
        cb        == CircuitsWithout(lost)
        eligible  == Eligible(jb, cb, Excluded(w))
    IN
    /\ MayClaim(w) /\ phase[s] = "idle"
    /\ recovery => w \in scanned /\ cleaning[w] = {}
    /\ \E invalid \in SUBSET eligible :
        LET valid    == eligible \ invalid
            rejected == {j \in invalid : \A k \in valid : j < k}
            jr       == [j \in Jobs |-> IF j \in rejected
                                        THEN Released(jb[j], "failed")
                                        ELSE jb[j]]
        IN  \/ /\ valid = {}
               /\ job' = jr /\ attempt' = ab /\ circuit' = cb
               /\ UNCHANGED <<lease, phase>>
            \/ \E j \in valid :
                LET n == jb[j].total + 1
                    p == PlatformOf[j]
                IN  /\ \A k \in valid : j <= k
                    /\ job' = [jr EXCEPT ![j] = Claimed(@)]
                    /\ attempt' = [ab EXCEPT ![j][n] = "running"]
                    /\ circuit' = IF cb[p].state = "open"
                                  THEN [cb EXCEPT ![p].state = "half_open",
                                                  ![p].probe = <<j, n>>]
                                  ELSE cb
                    /\ lease' = [lease EXCEPT ![s] = <<j, n>>]
                    /\ phase' = [phase EXCEPT ![s] = "run"]
    /\ scanned' = scanned \ {w}
    /\ UNCHANGED <<pending, paused, orphaned, latched, stopping, cleaning>>

-----------------------------------------------------------------------------
(***************************************************************************)
(* Executing a claimed attempt (execute_claimed).  A slot acts on the job  *)
(* j = lease[s][1] with the token n = lease[s][2]; every write is refused  *)
(* with LostLease unless Holds(j, n).                                      *)
(***************************************************************************)
Runs(s, j, n) == phase[s] = "run" /\ lease[s] = <<j, n>>

Interrupted(s) == WorkerOf[s] \in stopping

\* _transition_allowed, without the self-loops that only report progress.
NextStatus ==
    [probing        |-> {"downloading"},
     downloading    |-> {"postprocessing", "verifying"},
     postprocessing |-> {"verifying"},
     verifying      |-> {}]

\* transition: the status advances and the lease is extended.  _check_stopping
\* precedes each transition.
Transition(s, j, n) ==
    /\ Runs(s, j, n) /\ ~Interrupted(s) /\ Holds(j, n)
    /\ \E status \in NextStatus[job[j].status] :
          job' = [job EXCEPT ![j].status = status]
    /\ UNCHANGED <<attempt, pending, circuit, paused, orphaned, workerVars,
                   slotVars>>

\* record_asset_commit_intent
RecordIntent(s, j, n) ==
    /\ Runs(s, j, n) /\ ~Interrupted(s) /\ Holds(j, n)
    /\ job[j].status = "verifying" /\ attempt[j][n] = "running"
    /\ n \notin pending[j]
    /\ pending' = [pending EXCEPT ![j] = @ \cup {n}]
    /\ UNCHANGED <<job, attempt, circuit, paused, orphaned, workerVars,
                   slotVars>>

\* _finish_canceled_locked and _remove_and_delete_intents_locked
CancelAttempt(j, n) ==
    /\ circuit' = [p \in Platforms |-> ReleaseHalfOpen(circuit[p], j, n)]
    /\ job' = [job EXCEPT ![j] = Released(@, "canceled")]
    /\ attempt' = [attempt EXCEPT ![j][n] = "canceled"]
    /\ pending' = [pending EXCEPT ![j] = @ \ {n}]

Settle(s) == phase' = [phase EXCEPT ![s] = "cleanup"] /\ UNCHANGED lease

\* finalize_asset_commit_intents: a pending cancellation wins over the result.
Finalize(s, j, n) ==
    /\ Runs(s, j, n) /\ ~Interrupted(s) /\ Holds(j, n)
    /\ job[j].status = "verifying" /\ attempt[j][n] = "running"
    /\ n \in pending[j]
    /\ \/ job[j].cancel /\ CancelAttempt(j, n)
       \/ /\ ~job[j].cancel
          /\ circuit' = [circuit EXCEPT ![PlatformOf[j]] = ClosedCircuit]
          /\ job' = [job EXCEPT ![j] = Released(@, "ready")]
          /\ attempt' = [attempt EXCEPT ![j][n] = "succeeded"]
          /\ pending' = [pending EXCEPT ![j] = @ \ {n}]
    /\ Settle(s)
    /\ UNCHANGED <<paused, orphaned, workerVars>>

\* finish_canceled, after a heartbeat reported the cancellation request.
FinishCanceled(s, j, n) ==
    /\ Runs(s, j, n) /\ ~Interrupted(s) /\ Holds(j, n) /\ job[j].cancel
    /\ CancelAttempt(j, n)
    /\ Settle(s)
    /\ UNCHANGED <<paused, orphaned, workerVars>>

\* _handle_failure: what the policy decides after the attempts of this
\* generation, all on the one adapter the Worker has.
Decision(j, code) ==
    Decide(code, [total |-> job[j].used, onAdapter |-> job[j].used,
                  fallbackAvailable |-> FALSE, fallbackUsed |-> FALSE,
                  retryAfter |-> 0])

\* finish_failure
FinishFailure(j, n, code) ==
    LET d     == Decision(j, code)
        retry == d.action = "retry" /\ job[j].used < MAX_ATTEMPTS
    IN  \/ job[j].cancel /\ CancelAttempt(j, n)
        \/ /\ ~job[j].cancel
           /\ circuit' = [circuit EXCEPT ![PlatformOf[j]] =
                            RecordPlatformFailure(@, j, n, code)]
           /\ job' = [job EXCEPT ![j] =
                        [Released(@, IF retry THEN "queued" ELSE "failed")
                         EXCEPT !.due = ~retry \/ d.delay = 0]]
           /\ attempt' = [attempt EXCEPT ![j][n] = "failed"]
           /\ UNCHANGED pending

\* The attempt fails with an adapter, validation or internal error, or with
\* worker_lost once the Worker was told to stop (_check_stopping).
FailAttempt(s, j, n) ==
    /\ Runs(s, j, n) /\ Holds(j, n)
    /\ \E code \in Errors \cup (IF Interrupted(s) THEN {"worker_lost"} ELSE {}) :
          FinishFailure(j, n, code)
    /\ Settle(s)
    /\ UNCHANGED <<paused, orphaned, workerVars>>

\* An OSError: the queue is paused first, the attempt fails afterwards.
StorageError(s, j, n) ==
    /\ Runs(s, j, n)
    /\ Pause(WorkerOf[s])
    /\ phase' = [phase EXCEPT ![s] = "storage"]
    /\ UNCHANGED <<job, attempt, pending, circuit, orphaned, stopping, scanned,
                   cleaning, lease>>

FailStorage(s, j, n) ==
    /\ phase[s] = "storage" /\ lease[s] = <<j, n>> /\ Holds(j, n)
    /\ FinishFailure(j, n, "storage_error")
    /\ Settle(s)
    /\ UNCHANGED <<paused, orphaned, workerVars>>

\* LostLease from a heartbeat, a transition or a commit is a normal result.
NoticeLostLease(s, j, n) ==
    /\ Runs(s, j, n) /\ ~Holds(j, n)
    /\ Settle(s)
    /\ UNCHANGED <<dbVars, workerVars>>

\* finish_failure inside an exception handler raises LostLease, or cannot
\* remove the files of a canceled attempt and rolls back: execute_claimed is
\* left as an exception, after the final cleanup.
RaiseFromHandler(s, j, n) ==
    /\ phase[s] \in {"run", "storage"} /\ lease[s] = <<j, n>>
    /\ ~Holds(j, n) \/ (job[j].cancel /\ n \in pending[j])
    /\ phase' = [phase EXCEPT ![s] = "raised"]
    /\ UNCHANGED <<dbVars, workerVars, lease>>

\* The finally block; it pauses the queue when the files cannot be removed.
\* run_concurrent_worker stops the whole Worker when a slot raised.
Cleanup(s) ==
    /\ phase[s] \in {"cleanup", "raised"}
    /\ \/ UNCHANGED <<paused, latched>>
       \/ Pause(WorkerOf[s])
    /\ phase' = [phase EXCEPT ![s] = "idle"]
    /\ lease' = [lease EXCEPT ![s] = NoLease]
    /\ stopping' = IF phase[s] = "raised" THEN stopping \cup {WorkerOf[s]}
                                          ELSE stopping
    /\ UNCHANGED <<job, attempt, pending, circuit, orphaned, scanned, cleaning>>

-----------------------------------------------------------------------------
(***************************************************************************)
(* Processes, time and the API                                             *)
(***************************************************************************)
\* The process of Worker w dies and a fresh one is started in its place, or
\* an interrupted Worker exits after its last slot and is started again.
Restart(w) ==
    /\ ~Quiescent(w) \/ cleaning[w] /= {} \/ w \in stopping \cup latched
    /\ orphaned' = orphaned \cup cleaning[w]
    /\ latched' = latched \ {w} /\ stopping' = stopping \ {w}
    /\ scanned' = scanned \ {w}
    /\ cleaning' = [cleaning EXCEPT ![w] = {}]
    /\ lease' = [s \in Slots |-> IF WorkerOf[s] = w THEN NoLease ELSE lease[s]]
    /\ phase' = [s \in Slots |-> IF WorkerOf[s] = w THEN "idle" ELSE phase[s]]
    /\ UNCHANGED <<job, attempt, pending, circuit, paused>>

\* No heartbeat renewed the lease in time.
Lapse(j) ==
    /\ Active(job[j]) /\ job[j].live
    /\ job' = [job EXCEPT ![j].live = FALSE]
    /\ UNCHANGED <<attempt, pending, circuit, paused, orphaned, workerVars,
                   slotVars>>

BecomeDue(j) ==
    /\ ~job[j].due
    /\ job' = [job EXCEPT ![j].due = TRUE]
    /\ UNCHANGED <<attempt, pending, circuit, paused, orphaned, workerVars,
                   slotVars>>

CoolDown(p) ==
    /\ circuit[p].state = "open" /\ ~circuit[p].cooled /\ ~circuit[p].manual
    /\ circuit' = [circuit EXCEPT ![p].cooled = TRUE]
    /\ UNCHANGED <<job, attempt, pending, paused, orphaned, workerVars, slotVars>>

\* recovery_expires_at of the claims that dead processes left behind.
ExpireClaims ==
    /\ orphaned /= {}
    /\ orphaned' = {}
    /\ UNCHANGED <<job, attempt, pending, circuit, paused, workerVars, slotVars>>

\* request_cancel
RequestCancel(j) ==
    /\ \/ /\ job[j].status = "queued"
          /\ job' = [job EXCEPT ![j].status = "canceled", ![j].cancel = TRUE,
                                ![j].due = TRUE]
       \/ /\ Active(job[j])
          /\ job' = [job EXCEPT ![j].cancel = TRUE]
    /\ UNCHANGED <<attempt, pending, circuit, paused, orphaned, workerVars,
                   slotVars>>

\* request_retry of a failed flat download
RequestRetry(j) ==
    /\ job[j].status = "failed" /\ job[j].gen < MaxGeneration
    /\ job' = [job EXCEPT ![j].status = "queued", ![j].cancel = FALSE,
                          ![j].due = TRUE, ![j].gen = @ + 1, ![j].used = 0]
    /\ UNCHANGED <<attempt, pending, circuit, paused, orphaned, workerVars,
                   slotVars>>

\* resume_queue
ResumeQueue ==
    /\ paused
    /\ paused' = FALSE
    /\ UNCHANGED <<job, attempt, pending, circuit, orphaned, workerVars, slotVars>>

\* reset_platform_circuit
ResetCircuit(p) ==
    /\ circuit[p].manual
    /\ circuit' = [circuit EXCEPT ![p] = ClosedCircuit]
    /\ UNCHANGED <<job, attempt, pending, paused, orphaned, workerVars, slotVars>>

-----------------------------------------------------------------------------
SlotStep(s, j, n) ==
    \/ Transition(s, j, n)     \/ RecordIntent(s, j, n)
    \/ Finalize(s, j, n)       \/ FinishCanceled(s, j, n)
    \/ FailAttempt(s, j, n)    \/ StorageError(s, j, n)
    \/ FailStorage(s, j, n)    \/ NoticeLostLease(s, j, n)
    \/ RaiseFromHandler(s, j, n)

Next ==
    \/ \E w \in Workers : FenceIntents(w) \/ RecoveryFails(w) \/ Restart(w)
    \/ \E w \in Workers, j \in Jobs, n \in AttemptNos : CompleteIntent(w, j, n)
    \/ \E s \in Slots : ClaimNext(s) \/ Cleanup(s)
    \/ \E s \in Slots, j \in Jobs, n \in AttemptNos : SlotStep(s, j, n)
    \/ \E j \in Jobs : \/ Lapse(j) \/ BecomeDue(j)
                       \/ RequestCancel(j) \/ RequestRetry(j)
    \/ \E p \in Platforms : CoolDown(p) \/ ResetCircuit(p)
    \/ ExpireClaims
    \/ ResumeQueue

Spec == Init /\ [][Next]_vars

(***************************************************************************)
(* Fairness.  A running attempt makes progress or ends (the adapter has a  *)
(* deadline) and its cleanup returns; the coordinator loop polls; time     *)
(* passes, and a lease nobody renews lapses.  Strong fairness of           *)
(* CompleteIntent: a Worker does not die in every single recovery.         *)
(* Nothing is assumed of the API, of crashes or of storage errors.         *)
(***************************************************************************)
Orphan(j) == \A s \in Slots : lease[s] /= <<j, job[j].token>>

Fairness ==
    /\ \A s \in Slots :
          /\ WF_vars(\E j \in Jobs, n \in AttemptNos : SlotStep(s, j, n))
          /\ WF_vars(Cleanup(s))
    /\ \A w \in Workers :
          /\ WF_vars(FenceIntents(w))
          /\ SF_vars(\E j \in Jobs, n \in AttemptNos : CompleteIntent(w, j, n))
          /\ WF_vars(\E s \in WorkerSlots(w) : ClaimNext(s))
    /\ \A j \in Jobs : WF_vars(BecomeDue(j)) /\ WF_vars(Orphan(j) /\ Lapse(j))
    /\ \A p \in Platforms : WF_vars(CoolDown(p))
    /\ WF_vars(ExpireClaims)

FairSpec == Spec /\ Fairness

-----------------------------------------------------------------------------
(***************************************************************************)
(* Properties                                                              *)
(***************************************************************************)
\* Every table and every in-memory variable keeps its shape.
TypeOK ==
    /\ job \in [Jobs -> JobRecord]
    /\ attempt \in [Jobs -> [AttemptNos -> AttemptStatus \cup {"none"}]]
    /\ pending \in [Jobs -> SUBSET AttemptNos]
    /\ circuit \in [Platforms -> CircuitRecord]
    /\ paused \in BOOLEAN
    /\ orphaned \subseteq Jobs \X AttemptNos
    /\ latched \subseteq Workers
    /\ stopping \subseteq Workers
    /\ scanned \subseteq Workers
    /\ cleaning \in [Workers -> SUBSET (Jobs \X AttemptNos)]
    /\ lease \in [Slots -> Leases]
    /\ phase \in [Slots -> Phases]

\* The job and attempt tables, written by different statements on every path
\* (claim, finish, recovery of leases, recovery of intents), never disagree:
\* an attempt runs exactly when its number is the token of an active job, and
\* attempt rows exist exactly for the numbers issued so far.
LeaseMatchesAttempt ==
    \A j \in Jobs :
        /\ Active(job[j]) <=> job[j].token /= 0
        /\ \A n \in AttemptNos :
            /\ attempt[j][n] = "running" <=> Active(job[j]) /\ job[j].token = n
            /\ attempt[j][n] = "none" <=> n > job[j].total

\* An open circuit admits nothing: no job of the platform is active.  A
\* half-open circuit is always owned by the platform's only active job and its
\* current token, so whatever ends that lease also releases the probe.  The
\* consecutive-failure count never passes its threshold, and a circuit that
\* reached it waits for a manual reset.
CircuitGuardsPlatform ==
    \A p \in Platforms :
        LET busy  == {j \in ActiveJobs(job) : PlatformOf[j] = p}
            limit == IF circuit[p].last = "rate_limited" THEN RateLimitThreshold
                                                        ELSE BrokenThreshold
        IN  /\ circuit[p].state = "open" => busy = {}
            /\ circuit[p].state = "half_open" =>
                   \E j \in busy : circuit[p].probe = <<j, job[j].token>>
            /\ circuit[p].state /= "half_open" => circuit[p].probe = NoLease
            /\ circuit[p].manual => circuit[p].state = "open"
            /\ Cardinality(busy) <= 1
            /\ circuit[p].failures <= limit
            /\ circuit[p].failures = limit => circuit[p].manual

\* Two slots of one Worker never execute or clean up the same job, even when
\* the first one's lease lapsed and another Worker put the job back.
SlotsDisjoint ==
    \A s, t \in Slots :
        s /= t /\ WorkerOf[s] = WorkerOf[t] /\ phase[s] /= "idle"
            /\ phase[t] /= "idle" => lease[s][1] /= lease[t][1]

\* Intents never pile up: a job has those of one attempt at most, an active job
\* only those of its current attempt, and that attempt is verifying.  Recovery
\* therefore never removes files under a newer attempt of the same job, and a
\* registered (succeeded) attempt has no intent that would delete its files.
IntentsFenceClaims ==
    \A j \in Jobs :
        /\ \A m, n \in pending[j] : m = n
        /\ \A n \in pending[j] :
            /\ attempt[j][n] \in {"running", "failed", "canceled", "abandoned"}
            /\ Active(job[j]) => n = job[j].token /\ job[j].status = "verifying"

\* The tables, the attempts, the slots and the file intents agree on who
\* executes what, and whose files recovery may remove.
LeasesSound == TypeOK /\ LeaseMatchesAttempt /\ SlotsDisjoint /\ IntentsFenceClaims

\* Once cancellation of an active job was requested, the job can only go on
\* or end canceled: it is never published, failed or requeued.
CancelWins ==
    [][\A j \in Jobs : Active(job[j]) /\ job[j].cancel =>
          \/ Active(job'[j]) /\ job'[j].cancel /\ job'[j].token = job[j].token
          \/ job'[j].status = "canceled"]_vars

\* Claims are refused: the queue is paused or every Worker has latched a pause
\* or is stopping.
Halted == paused \/ Workers \subseteq latched \cup stopping

\* No job is ever stuck.  Unless an operator is needed (the queue is halted or
\* the platform's circuit demands a manual reset), every queued or running job
\* reaches ready, failed or canceled: lost leases are recovered, half-open
\* probes are released, pending intents are cleaned up, retries come due.
NoJobStuck ==
    \A j \in Jobs :
        job[j].status \notin {"ready", "failed", "canceled"} ~>
            \/ job[j].status \in {"ready", "failed", "canceled"}
            \/ Halted
            \/ circuit[PlatformOf[j]].manual
=============================================================================
