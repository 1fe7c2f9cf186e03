------------------------------ MODULE LocalApp ------------------------------
(***************************************************************************)
(* The local application (local_app.py): a supervisor process that starts  *)
(* a control child and a Worker child, hands the Worker the right to claim *)
(* through the durable claim gate (worker_repository.py), and takes it     *)
(* back before it stops them.                                              *)
(*                                                                         *)
(* A run is one life of the supervisor with its fresh run_id.  A run that  *)
(* is killed leaves its children to the operating system, which closes     *)
(* their command channels at once and ends them some time later; the next  *)
(* run can start in between.  Deadlines are steps that may always be       *)
(* taken.  A command channel is the sequence of commands sent and a flag   *)
(* that says it was closed: what was sent before can still be received.    *)
(***************************************************************************)
EXTENDS Integers, Sequences

CONSTANTS
    Runs,       \* run_ids
    MaxActive,  \* execution slots of the Worker, 2 in the code
    MaxClaims   \* bound: claims of one run

ASSUME LocalAppAssumption ==
    /\ MaxActive \in Nat \ {0}
    /\ MaxClaims \in Nat \ {0}

NoRun == "none"

ASSUME NoRunAssumption == NoRun \notin Runs

VARIABLES
    gate,        \* the worker_claim_gate row
    appLock,     \* holder of .local-app.lock
    workerLock,  \* holder of .local-worker.lock
    sup,         \* where _run_local_app_with_listener stands in each run
    control,     \* the control child
    worker,      \* the Worker child
    command,     \* the Worker's command channel
    open,        \* whether the supervisor's end of it is open
    controlOpen, \* whether the control child's command channel is open
    ready,       \* messages of the Worker's ready channel
    active,      \* claims the Worker is executing
    claims       \* claims each run has made

supVars    == <<appLock, sup>>
childVars  == <<control, worker, workerLock, active, claims>>
pipeVars   == <<command, open, controlOpen, ready>>
vars       == <<gate, supVars, childVars, pipeVars>>

GateRecord ==
    [run : Runs \cup {NoRun}, accepting : BOOLEAN, activated : BOOLEAN,
     stopped : BOOLEAN]

Starting  == {"spawned", "prepared", "preflight", "activated", "claiming"}
Cleanup   == {"stop_gate", "kill_job", "close_worker", "join_worker",
              "join_control", "reap"}
SupState  == Starting \cup Cleanup \cup {"new", "online", "unwind", "done",
                                        "dead"}
ControlState == {"none", "starting", "ready", "exited"}
WorkerState  == {"none", "waiting", "launched", "preflight", "polling",
                 "claiming", "draining", "exited"}

ControlAlive(r) == control[r] \notin {"none", "exited"}
WorkerAlive(r)  == worker[r] \notin {"none", "exited"}

-----------------------------------------------------------------------------
(***************************************************************************)
(* The claim gate                                                          *)
(***************************************************************************)
\* Mutant: a gate that is open stays with the run that has it.
PrepareClaimGate_KeepOpen(r) ==
    IF gate.accepting THEN gate
    ELSE [gate EXCEPT !.run = r, !.activated = FALSE, !.stopped = FALSE]

PrepareClaimGate(r) ==
    [run |-> r, accepting |-> FALSE, activated |-> FALSE, stopped |-> FALSE]

Prepared(r) ==
    /\ gate.run = r
    /\ ~gate.accepting /\ ~gate.activated /\ ~gate.stopped

ActivateClaimGate(r) ==
    /\ Prepared(r)
    /\ gate' = [run |-> r, accepting |-> TRUE, activated |-> TRUE, stopped |-> FALSE]

StopClaimGate(r) ==
    IF gate.run # r THEN gate
    ELSE [run |-> r, accepting |-> FALSE, activated |-> gate.activated,
          stopped |-> TRUE]

\* The test at the start of claim_next's transaction
GateAdmits(r) ==
    gate.run = r /\ gate.accepting /\ gate.activated /\ ~gate.stopped

-----------------------------------------------------------------------------
(***************************************************************************)
(* The supervisor                                                          *)
(***************************************************************************)
AppLockFree == appLock = NoRun

\* From _exclusive_local_app to the launch command of the control child.
Launch(r) ==
    /\ sup[r] = "new" /\ AppLockFree
    /\ appLock' = r
    /\ sup' = [sup EXCEPT ![r] = "spawned"]
    /\ control' = [control EXCEPT ![r] = "starting"]
    /\ worker' = [worker EXCEPT ![r] = "waiting"]
    /\ open' = [open EXCEPT ![r] = TRUE]
    /\ controlOpen' = [controlOpen EXCEPT ![r] = TRUE]
    /\ UNCHANGED <<gate, workerLock, active, claims, command, ready>>

\* _await_ready and _verify_control of the control child, then the gate is
\* prepared; a prepare that fails goes to the cleanup with the gate as it is.
PrepareGate(r) ==
    /\ sup[r] = "spawned" /\ control[r] = "ready"
    /\ gate' = PrepareClaimGate(r)
    /\ sup' = [sup EXCEPT ![r] = "prepared"]
    /\ UNCHANGED <<appLock, childVars, pipeVars>>

\* _send_child_command, which fails when the child has closed its end
Send(r, c) == worker[r] # "exited" /\ command' = [command EXCEPT ![r] = Append(@, c)]

LaunchWorker(r) ==
    /\ sup[r] = "prepared"
    /\ Send(r, "launch")
    /\ sup' = [sup EXCEPT ![r] = "preflight"]
    /\ UNCHANGED <<gate, appLock, childVars, open, controlOpen, ready>>

\* _await_ready of one phase of the Worker
Await(r, phase) ==
    /\ ready[r] # <<>> /\ Head(ready[r]) = phase
    /\ ready' = [ready EXCEPT ![r] = Tail(@)]

\* --check ends here without opening the gate.
CheckComplete(r) ==
    /\ sup[r] = "preflight" /\ Await(r, "worker_preflight_ready")
    /\ ControlAlive(r) /\ Send(r, "check_complete")
    /\ sup' = [sup EXCEPT ![r] = "stop_gate"]
    /\ UNCHANGED <<gate, appLock, childVars, open, controlOpen>>

ActivateGate(r) ==
    /\ sup[r] = "preflight" /\ Await(r, "worker_preflight_ready")
    /\ ControlAlive(r) /\ ActivateClaimGate(r)
    /\ sup' = [sup EXCEPT ![r] = "activated"]
    /\ UNCHANGED <<appLock, childVars, command, open, controlOpen>>

SendClaim(r) ==
    /\ sup[r] = "activated"
    /\ Send(r, "claim")
    /\ sup' = [sup EXCEPT ![r] = "claiming"]
    /\ UNCHANGED <<gate, appLock, childVars, open, controlOpen, ready>>

BecomeOnline(r) ==
    /\ sup[r] = "claiming" /\ Await(r, "worker_ready") /\ ControlAlive(r)
    /\ sup' = [sup EXCEPT ![r] = "online"]
    /\ UNCHANGED <<gate, appLock, childVars, command, open, controlOpen>>

\* A failed or timed-out step of the startup, an interrupt, or a child that
\* died.  The gate is stopped only if the startup came as far as opening the
\* supervisor's own connection to it.
BeginCleanup(r) ==
    /\ sup[r] \in Starting \cup {"online"}
    /\ \E next \in {"stop_gate", "close_worker"} :
         /\ sup[r] # "spawned" => next = "stop_gate"
         /\ sup' = [sup EXCEPT ![r] = next]
    /\ UNCHANGED <<gate, appLock, childVars, pipeVars>>

StopGate(r) ==
    /\ sup[r] = "stop_gate"
    /\ gate' = StopClaimGate(r)
    /\ sup' = [sup EXCEPT ![r] = "close_worker"]
    /\ UNCHANGED <<appLock, childVars, pipeVars>>

\* Mutant: the channel is closed first and the processes are ended later.
AfterFailedStop_PipeFirst == "close_worker"

AfterFailedStop == "kill_job"

\* stop_claim_gate raises.
StopGateFails(r) ==
    /\ sup[r] = "stop_gate"
    /\ sup' = [sup EXCEPT ![r] = AfterFailedStop]
    /\ UNCHANGED <<gate, appLock, childVars, pipeVars>>

\* job.terminate, or process.terminate of each child: the Worker dies with
\* its claims and its lock.
EndWorker(r) ==
    /\ worker' = [worker EXCEPT ![r] = IF @ = "none" THEN @ ELSE "exited"]
    /\ active' = [active EXCEPT ![r] = 0]
    /\ workerLock' = IF workerLock = r THEN NoRun ELSE workerLock

EndChildren(r) ==
    /\ EndWorker(r)
    /\ control' = [control EXCEPT ![r] = IF @ = "none" THEN @ ELSE "exited"]

KillJob(r) ==
    /\ sup[r] = "kill_job"
    /\ EndChildren(r)
    /\ sup' = [sup EXCEPT ![r] = "close_worker"]
    /\ UNCHANGED <<gate, appLock, claims, pipeVars>>

CloseWorker(r) ==
    /\ sup[r] = "close_worker"
    /\ open' = [open EXCEPT ![r] = FALSE]
    /\ sup' = [sup EXCEPT ![r] = "join_worker"]
    /\ UNCHANGED <<gate, appLock, childVars, command, controlOpen, ready>>

\* Mutant: the join has no deadline.
JoinEnds_Wait(r) == ~WorkerAlive(r)

\* Process.join with a timeout comes back in any case.
JoinEnds(r) == TRUE

\* _join_until the Worker is gone or the deadline has passed, then the
\* control child's channel is closed.
JoinWorker(r) ==
    /\ sup[r] = "join_worker" /\ JoinEnds(r)
    /\ controlOpen' = [controlOpen EXCEPT ![r] = FALSE]
    /\ sup' = [sup EXCEPT ![r] = "join_control"]
    /\ UNCHANGED <<gate, appLock, childVars, command, open, ready>>

JoinControl(r) ==
    /\ sup[r] = "join_control"
    /\ sup' = [sup EXCEPT ![r] = "reap"]
    /\ UNCHANGED <<gate, appLock, childVars, pipeVars>>

\* Whatever is still alive is terminated; closing the job object ends the
\* rest and the application lock is released.
Reap(r) ==
    /\ sup[r] = "reap"
    /\ EndChildren(r)
    /\ sup' = [sup EXCEPT ![r] = "done"]
    /\ appLock' = NoRun
    /\ UNCHANGED <<gate, claims, pipeVars>>

\* A further console interrupt during the cleanup: KeyboardInterrupt is not
\* caught there, and the finally around it closes every channel first.
InterruptCleanup(r) ==
    /\ sup[r] \in Cleanup
    /\ sup' = [sup EXCEPT ![r] = "unwind"]
    /\ open' = [open EXCEPT ![r] = FALSE]
    /\ controlOpen' = [controlOpen EXCEPT ![r] = FALSE]
    /\ UNCHANGED <<gate, appLock, childVars, command, ready>>

\* ... and the job object, which ends the children, after that.
UnwindJob(r) ==
    /\ sup[r] = "unwind"
    /\ EndChildren(r)
    /\ sup' = [sup EXCEPT ![r] = "done"]
    /\ appLock' = NoRun
    /\ UNCHANGED <<gate, claims, pipeVars>>

\* The supervisor is killed: its lock and its ends of the channels go with it.
SupervisorDies(r) ==
    /\ sup[r] \notin {"new", "done", "dead"}
    /\ sup' = [sup EXCEPT ![r] = "dead"]
    /\ appLock' = NoRun
    /\ open' = [open EXCEPT ![r] = FALSE]
    /\ controlOpen' = [controlOpen EXCEPT ![r] = FALSE]
    /\ UNCHANGED <<gate, childVars, command, ready>>

\* The last handle of the kill-on-close job is gone.
JobClosed(r) ==
    /\ sup[r] = "dead"
    /\ ControlAlive(r) \/ WorkerAlive(r)
    /\ EndChildren(r)
    /\ UNCHANGED <<gate, supVars, claims, pipeVars>>

-----------------------------------------------------------------------------
(***************************************************************************)
(* The children                                                            *)
(***************************************************************************)
ControlReady(r) ==
    /\ control[r] = "starting"
    /\ control' = [control EXCEPT ![r] = "ready"]
    /\ UNCHANGED <<gate, supVars, worker, workerLock, active, claims, pipeVars>>

\* observe_stop, or a failure
ControlExits(r) ==
    /\ ControlAlive(r)
    /\ control' = [control EXCEPT ![r] = "exited"]
    /\ UNCHANGED <<gate, supVars, worker, workerLock, active, claims, pipeVars>>

\* _wait_for_child_command: the command if there is one, otherwise the loop
\* goes on until the channel is closed.
Receive(r, c, next) ==
    /\ command[r] # <<>> /\ Head(command[r]) = c
    /\ command' = [command EXCEPT ![r] = Tail(@)]
    /\ worker' = [worker EXCEPT ![r] = next]

ReceiveLaunch(r) ==
    /\ worker[r] = "waiting" /\ Receive(r, "launch", "launched")
    /\ UNCHANGED <<gate, supVars, control, workerLock, active, claims, open,
                   controlOpen, ready>>

\* Mutant: the lock file is not locked.
LockFree_Any == TRUE

LockFree == workerLock = NoRun

\* _exclusive_local_worker and the preflight
Preflight(r) ==
    /\ worker[r] = "launched" /\ LockFree
    /\ workerLock' = r
    /\ worker' = [worker EXCEPT ![r] = "preflight"]
    /\ ready' = [ready EXCEPT ![r] = Append(@, "worker_preflight_ready")]
    /\ UNCHANGED <<gate, supVars, control, active, claims, command, open,
                   controlOpen>>

ReceiveCheckComplete(r) ==
    /\ worker[r] = "preflight" /\ Receive(r, "check_complete", "exited")
    /\ workerLock' = NoRun
    /\ UNCHANGED <<gate, supVars, control, active, claims, open, controlOpen,
                   ready>>

ReceiveClaim(r) ==
    /\ worker[r] = "preflight" /\ Receive(r, "claim", "polling")
    /\ ready' = [ready EXCEPT ![r] = Append(@, "worker_ready")]
    /\ UNCHANGED <<gate, supVars, control, workerLock, active, claims, open,
                   controlOpen>>

\* The Worker's wait ends with the channel, or the Worker fails.
WorkerExits(r) ==
    /\ WorkerAlive(r)
    /\ EndWorker(r)
    /\ UNCHANGED <<gate, supVars, control, claims, pipeVars>>

\* The stop test just before a claim: run_concurrent_worker's wait(0.0)
PollStop(r) ==
    /\ worker[r] = "polling"
    /\ worker' = [worker EXCEPT ![r] =
                    IF ~open[r] THEN "draining"
                    ELSE IF active[r] < MaxActive THEN "claiming" ELSE @]
    /\ worker' # worker
    /\ UNCHANGED <<gate, supVars, control, workerLock, active, claims, pipeVars>>

\* claim_next: a lease if the gate admits the run and there is work
Claim(r) ==
    /\ worker[r] = "claiming"
    /\ \/ /\ GateAdmits(r) /\ claims[r] < MaxClaims
          /\ active' = [active EXCEPT ![r] = @ + 1]
          /\ claims' = [claims EXCEPT ![r] = @ + 1]
       \/ UNCHANGED <<active, claims>>
    /\ worker' = [worker EXCEPT ![r] = "polling"]
    /\ UNCHANGED <<gate, supVars, control, workerLock, pipeVars>>

FinishJob(r) ==
    /\ active[r] > 0
    /\ active' = [active EXCEPT ![r] = @ - 1]
    /\ UNCHANGED <<gate, supVars, control, worker, workerLock, claims, pipeVars>>

\* run_concurrent_worker returns once nothing is active.
Drained(r) ==
    /\ worker[r] = "draining" /\ active[r] = 0
    /\ EndWorker(r)
    /\ UNCHANGED <<gate, supVars, control, claims, pipeVars>>

-----------------------------------------------------------------------------
Init ==
    /\ gate = [run |-> NoRun, accepting |-> FALSE, activated |-> FALSE,
               stopped |-> FALSE]
    /\ appLock = NoRun /\ workerLock = NoRun
    /\ sup = [r \in Runs |-> "new"]
    /\ control = [r \in Runs |-> "none"]
    /\ worker = [r \in Runs |-> "none"]
    /\ command = [r \in Runs |-> <<>>]
    /\ open = [r \in Runs |-> FALSE]
    /\ controlOpen = [r \in Runs |-> FALSE]
    /\ ready = [r \in Runs |-> <<>>]
    /\ active = [r \in Runs |-> 0]
    /\ claims = [r \in Runs |-> 0]

StartupStep(r) ==
    \/ PrepareGate(r) \/ LaunchWorker(r) \/ CheckComplete(r) \/ ActivateGate(r)
    \/ SendClaim(r) \/ BecomeOnline(r) \/ BeginCleanup(r)

CleanupStep(r) ==
    \/ StopGate(r) \/ StopGateFails(r) \/ KillJob(r) \/ CloseWorker(r)
    \/ JoinWorker(r) \/ JoinControl(r) \/ Reap(r) \/ UnwindJob(r)

WorkerStep(r) ==
    \/ ReceiveLaunch(r) \/ Preflight(r) \/ ReceiveCheckComplete(r)
    \/ ReceiveClaim(r) \/ WorkerExits(r) \/ PollStop(r) \/ Claim(r)
    \/ FinishJob(r) \/ Drained(r)

Finished == (\A r \in Runs : sup[r] \in {"done", "dead"}) /\ UNCHANGED vars

Next ==
    \/ \E r \in Runs :
         \/ Launch(r) \/ StartupStep(r) \/ CleanupStep(r)
         \/ InterruptCleanup(r) \/ SupervisorDies(r) \/ JobClosed(r)
         \/ ControlReady(r) \/ ControlExits(r) \/ WorkerStep(r)
    \/ Finished

Spec == Init /\ [][Next]_vars

\* The supervisor's own steps only: nothing is assumed of the children, whose
\* every answer is awaited with a deadline.
Fairness ==
    \A r \in Runs : WF_vars(StartupStep(r)) /\ WF_vars(CleanupStep(r))

FairSpec == Spec /\ Fairness

-----------------------------------------------------------------------------
(***************************************************************************)
(* Properties                                                              *)
(***************************************************************************)
AppLockHeld ==
    \A r \in Runs : sup[r] \notin {"new", "done", "dead"} => appLock = r

\* Every variable has a value of its kind, and a run whose supervisor is
\* between its launch and its end holds the application lock.
TypeOK ==
    /\ gate \in GateRecord
    /\ appLock \in Runs \cup {NoRun}
    /\ workerLock \in Runs \cup {NoRun}
    /\ sup \in [Runs -> SupState]
    /\ control \in [Runs -> ControlState]
    /\ worker \in [Runs -> WorkerState]
    /\ command \in [Runs -> Seq({"launch", "claim", "check_complete"})]
    /\ open \in [Runs -> BOOLEAN] /\ controlOpen \in [Runs -> BOOLEAN]
    /\ ready \in [Runs -> Seq({"worker_preflight_ready", "worker_ready"})]
    /\ active \in [Runs -> 0..MaxActive]
    /\ claims \in [Runs -> 0..MaxClaims]
    /\ AppLockHeld

Claims(r) == claims'[r] # claims[r]

\* A Worker claims only between the moment its supervisor, having verified
\* both children, opened the gate and the moment the supervisor either closed
\* it or ended the Worker, however late the Worker notices its closed channel.
\* A supervisor that is killed, or whose cleanup is interrupted, has no such
\* moment: its Worker may claim until it is ended.
ClaimWindow ==
    [][\A r \in Runs : Claims(r) =>
         sup[r] \in {"activated", "claiming", "online", "stop_gate",
                     "kill_job", "unwind", "dead"}]_vars

\* What the runbook says of every stop by the supervisor: the Worker's channel
\* is closed only once the gate is closed in the database or the Worker was
\* ended.
GateBeforePipe ==
    \A r \in Runs :
      sup[r] # "dead" /\ ~open[r] /\ GateAdmits(r) => ~WorkerAlive(r)

\* Once a new run has prepared the gate, a Worker that a killed supervisor
\* left behind claims nothing more.
PrepareFences ==
    [][\A r, other \in Runs :
         Claims(r) /\ other # r =>
           sup[other] \notin {"prepared", "preflight", "activated", "claiming",
                              "online"}]_vars

\* Whatever becomes of the supervisor, a Worker claims only within the window
\* of its own run's gate and never once a later run has prepared its gate.
ClaimsGated == ClaimWindow /\ PrepareFences

\* The Workers of two runs never execute claims at the same time.
OneWorker ==
    \A r, other \in Runs : active[r] > 0 /\ active[other] > 0 => r = other

\* Startup and shutdown come to an end even if the children never answer,
\* hang in a download or cannot be asked to stop.  (A run that has begun is
\* never new again, and the application lock admits one at a time.)
RunSettles ==
    (\E r \in Runs : sup[r] \in Starting \cup Cleanup)
    ~> (\A r \in Runs : sup[r] \in {"new", "online", "done", "dead"})
=============================================================================
