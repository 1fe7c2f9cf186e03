--------------------------- MODULE Processes_proofs --------------------------
(***************************************************************************)
(* Theorems about the processes around the queues, for every value of the  *)
(* constants: the supervisor and its children (LocalApp), a child of the   *)
(* Worker (ChildProcess), the two egress servers (EgressProxy, UnixRelay)  *)
(* and the short-link resolution (ShortLink), each with its inductive      *)
(* invariant; and, from these and from the theorem about the AI runtime's  *)
(* calls, the invariants of the specification that MCProcesses checks.     *)
(***************************************************************************)
EXTENDS MCProcesses, AiCall_proofs, FiniteSetTheorems

-----------------------------------------------------------------------------
(***************************************************************************)
(* The supervisor and its children                                         *)
(***************************************************************************)
\* The states in which a supervisor has verified its Worker and neither closed
\* the gate nor ended the Worker.
Window == {"activated", "claiming", "online", "stop_gate", "kill_job",
           "unwind", "dead"}

AfterStop == {"close_worker", "join_worker", "join_control", "reap", "done"}

\* The singleton lock belongs to the Worker that is past its preflight.
WorkerLockInv ==
    \A r \in Runs :
      active[r] > 0 \/ worker[r] \in {"preflight", "polling", "claiming", "draining"}
        => workerLock = r

\* An open gate belongs to a run inside its window, or to one that ended its
\* Worker because the gate could not be closed.
GateInv ==
    \A r \in Runs : GateAdmits(r) =>
      sup[r] \in Window \/ (sup[r] \in AfterStop /\ worker[r] = "exited")

\* From its preparation on, the gate carries the run that is starting or online.
PreparedInv ==
    \A r \in Runs :
      sup[r] \in {"prepared", "preflight", "activated", "claiming", "online"}
        => gate.run = r

\* A run has children exactly from its launch on.
LaunchedInv == \A r \in Runs : sup[r] = "new" <=> worker[r] = "none"

\* Only a Worker in its claim loop executes, and one about to claim has a slot
\* for what it gets.
SlotInv ==
    \A r \in Runs :
      /\ worker[r] = "claiming" => active[r] < MaxActive
      /\ worker[r] \in {"none", "waiting", "launched", "preflight", "exited"}
           => active[r] = 0

\* The inductive invariant.
IInv ==
    /\ TypeOK /\ WorkerLockInv /\ GateInv /\ PreparedInv /\ LaunchedInv
    /\ SlotInv

LEMMA TailType ==
  ASSUME NEW S, NEW s \in Seq(S), s # <<>>
  PROVE  Tail(s) \in Seq(S)
  OBVIOUS

LEMMA InitInv == Init => IInv
  BY LocalAppAssumption, NoRunAssumption
  DEF Init, IInv, TypeOK, AppLockHeld, WorkerLockInv, GateInv, PreparedInv,
      LaunchedInv, SlotInv, GateRecord, SupState, ControlState, WorkerState,
      Starting, Cleanup, GateAdmits

LEMMA SupInv ==
  ASSUME NEW r \in Runs, IInv,
      Launch(r) \/ StartupStep(r) \/ InterruptCleanup(r) \/ SupervisorDies(r)
  PROVE  IInv'
  <1> USE LocalAppAssumption, NoRunAssumption
          DEF IInv, supVars, childVars, pipeVars
  <1>1. CASE Launch(r)
    <2>1. AppLockHeld'
      BY <1>1 DEF TypeOK, AppLockHeld, Starting, Cleanup, Launch, AppLockFree
    <2>2. TypeOK'
      BY <1>1, <2>1, SMTT(30) DEF TypeOK, GateRecord, SupState, ControlState,
         WorkerState, Starting, Cleanup, SlotInv, Launch, AppLockFree
    <2>3. (WorkerLockInv /\ LaunchedInv /\ SlotInv)'
      BY <1>1, SMTT(30) DEF TypeOK, WorkerLockInv, LaunchedInv, SlotInv, WorkerState,
         Starting, Cleanup, Launch, AppLockFree
    <2>4. (GateInv /\ PreparedInv)'
      BY <1>1, SMTT(30) DEF TypeOK, AppLockHeld, GateInv, PreparedInv, LaunchedInv,
         GateAdmits, Window, AfterStop, GateRecord, Starting, Cleanup, Launch, AppLockFree
    <2> QED BY <2>2, <2>3, <2>4
  <1>2. CASE PrepareGate(r)
    <2>1. AppLockHeld'
      BY <1>2 DEF TypeOK, AppLockHeld, Starting, Cleanup, PrepareGate, PrepareClaimGate
    <2>2. TypeOK'
      BY <1>2, <2>1, SMTT(30) DEF TypeOK, GateRecord, SupState, ControlState,
         WorkerState, Starting, Cleanup, SlotInv, PrepareGate, PrepareClaimGate
    <2>3. (WorkerLockInv /\ LaunchedInv /\ SlotInv)'
      BY <1>2, SMTT(30) DEF TypeOK, WorkerLockInv, LaunchedInv, SlotInv, WorkerState,
         Starting, Cleanup, PrepareGate, PrepareClaimGate
    <2>4. \A x \in Runs : x # r => sup[x] \in {"new", "done", "dead"}
      <3>1. AppLockHeld /\ sup[r] = "spawned"
        BY <1>2 DEF TypeOK, PrepareGate
      <3> QED BY <3>1 DEF AppLockHeld
    <2>5. gate' = PrepareClaimGate(r) /\ sup' = [sup EXCEPT ![r] = "prepared"]
      BY <1>2 DEF PrepareGate
    <2>6. ~\E x \in Runs : GateAdmits(x)'
      BY <2>5 DEF GateAdmits, PrepareClaimGate
    <2>7. GateInv'
      BY <2>6 DEF GateInv
    <2>8. PreparedInv'
      BY <2>4, <2>5 DEF TypeOK, PreparedInv, PrepareClaimGate
    <2> QED BY <2>2, <2>3, <2>7, <2>8
  <1>3. CASE LaunchWorker(r)
    <2>1. AppLockHeld'
      BY <1>3 DEF TypeOK, AppLockHeld, Starting, Cleanup, LaunchWorker, Send
    <2>2. TypeOK'
      BY <1>3, <2>1, SMTT(30) DEF TypeOK, GateRecord, SupState, ControlState,
         WorkerState, Starting, Cleanup, SlotInv, LaunchWorker, Send
    <2>3. (WorkerLockInv /\ LaunchedInv /\ SlotInv)'
      BY <1>3, SMTT(30) DEF TypeOK, WorkerLockInv, LaunchedInv, SlotInv, WorkerState,
         Starting, Cleanup, LaunchWorker, Send
    <2>4. (GateInv /\ PreparedInv)'
      BY <1>3, SMTT(30) DEF TypeOK, AppLockHeld, GateInv, PreparedInv, LaunchedInv,
         GateAdmits, Window, AfterStop, GateRecord, Starting, Cleanup, LaunchWorker, Send
    <2> QED BY <2>2, <2>3, <2>4
  <1>4. CASE CheckComplete(r)
    <2>1. AppLockHeld'
      BY <1>4 DEF TypeOK, AppLockHeld, Starting, Cleanup, CheckComplete, Send, Await,
                  ControlAlive
    <2>2. TypeOK'
      BY <1>4, <2>1, TailType, SMTT(30) DEF TypeOK, GateRecord, SupState, ControlState,
         WorkerState, Starting, Cleanup, SlotInv, CheckComplete, Send, Await, ControlAlive
    <2>3. (WorkerLockInv /\ LaunchedInv /\ SlotInv)'
      BY <1>4, SMTT(30) DEF TypeOK, WorkerLockInv, LaunchedInv, SlotInv, WorkerState,
         Starting, Cleanup, CheckComplete, Send, Await, ControlAlive
    <2>4. (GateInv /\ PreparedInv)'
      BY <1>4, SMTT(30) DEF TypeOK, AppLockHeld, GateInv, PreparedInv, LaunchedInv,
         GateAdmits, Window, AfterStop, GateRecord, Starting, Cleanup, CheckComplete, Send,
             Await, ControlAlive
    <2> QED BY <2>2, <2>3, <2>4
  <1>5. CASE ActivateGate(r)
    <2>1. AppLockHeld'
      BY <1>5 DEF TypeOK, AppLockHeld, Starting, Cleanup, ActivateGate, ActivateClaimGate,
                  Prepared, Await, ControlAlive
    <2>2. TypeOK'
      BY <1>5, <2>1, TailType, SMTT(30) DEF TypeOK, GateRecord, SupState, ControlState,
         WorkerState, Starting, Cleanup, SlotInv, ActivateGate, ActivateClaimGate, Prepared,
             Await, ControlAlive
    <2>3. (WorkerLockInv /\ LaunchedInv /\ SlotInv)'
      BY <1>5, SMTT(30) DEF TypeOK, WorkerLockInv, LaunchedInv, SlotInv, WorkerState,
         Starting, Cleanup, ActivateGate, ActivateClaimGate, Prepared, Await, ControlAlive
    <2>4. (GateInv /\ PreparedInv)'
      BY <1>5, SMTT(30) DEF TypeOK, AppLockHeld, GateInv, PreparedInv, LaunchedInv,
         GateAdmits, Window, AfterStop, GateRecord, Starting, Cleanup, ActivateGate,
             ActivateClaimGate, Prepared, Await, ControlAlive
    <2> QED BY <2>2, <2>3, <2>4
  <1>6. CASE SendClaim(r)
    <2>1. AppLockHeld'
      BY <1>6 DEF TypeOK, AppLockHeld, Starting, Cleanup, SendClaim, Send
    <2>2. TypeOK'
      BY <1>6, <2>1, SMTT(30) DEF TypeOK, GateRecord, SupState, ControlState,
         WorkerState, Starting, Cleanup, SlotInv, SendClaim, Send
    <2>3. (WorkerLockInv /\ LaunchedInv /\ SlotInv)'
      BY <1>6, SMTT(30) DEF TypeOK, WorkerLockInv, LaunchedInv, SlotInv, WorkerState,
         Starting, Cleanup, SendClaim, Send
    <2>4. (GateInv /\ PreparedInv)'
      BY <1>6, SMTT(30) DEF TypeOK, AppLockHeld, GateInv, PreparedInv, LaunchedInv,
         GateAdmits, Window, AfterStop, GateRecord, Starting, Cleanup, SendClaim, Send
    <2> QED BY <2>2, <2>3, <2>4
  <1>7. CASE BecomeOnline(r)
    <2>1. AppLockHeld'
      BY <1>7 DEF TypeOK, AppLockHeld, Starting, Cleanup, BecomeOnline, Await, ControlAlive
    <2>2. TypeOK'
      BY <1>7, <2>1, TailType, SMTT(30) DEF TypeOK, GateRecord, SupState, ControlState,
         WorkerState, Starting, Cleanup, SlotInv, BecomeOnline, Await, ControlAlive
    <2>3. (WorkerLockInv /\ LaunchedInv /\ SlotInv)'
      BY <1>7, SMTT(30) DEF TypeOK, WorkerLockInv, LaunchedInv, SlotInv, WorkerState,
         Starting, Cleanup, BecomeOnline, Await, ControlAlive
    <2>4. (GateInv /\ PreparedInv)'
      BY <1>7, SMTT(30) DEF TypeOK, AppLockHeld, GateInv, PreparedInv, LaunchedInv,
         GateAdmits, Window, AfterStop, GateRecord, Starting, Cleanup, BecomeOnline, Await,
             ControlAlive
    <2> QED BY <2>2, <2>3, <2>4
  <1>8. CASE BeginCleanup(r)
    <2>1. AppLockHeld'
      BY <1>8 DEF TypeOK, AppLockHeld, Starting, Cleanup, BeginCleanup
    <2>2. TypeOK'
      BY <1>8, <2>1, SMTT(30) DEF TypeOK, GateRecord, SupState, ControlState,
         WorkerState, Starting, Cleanup, SlotInv, BeginCleanup
    <2>3. (WorkerLockInv /\ LaunchedInv /\ SlotInv)'
      BY <1>8, SMTT(30) DEF TypeOK, WorkerLockInv, LaunchedInv, SlotInv, WorkerState,
         Starting, Cleanup, BeginCleanup
    <2>4. (GateInv /\ PreparedInv)'
      BY <1>8, SMTT(30) DEF TypeOK, AppLockHeld, GateInv, PreparedInv, LaunchedInv,
         GateAdmits, Window, AfterStop, GateRecord, Starting, Cleanup, BeginCleanup
    <2> QED BY <2>2, <2>3, <2>4
  <1>9. CASE InterruptCleanup(r)
    <2>1. AppLockHeld'
      BY <1>9 DEF TypeOK, AppLockHeld, Starting, Cleanup, InterruptCleanup
    <2>2. TypeOK'
      BY <1>9, <2>1, SMTT(30) DEF TypeOK, GateRecord, SupState, ControlState,
         WorkerState, Starting, Cleanup, SlotInv, InterruptCleanup
    <2>3. (WorkerLockInv /\ LaunchedInv /\ SlotInv)'
      BY <1>9, SMTT(30) DEF TypeOK, WorkerLockInv, LaunchedInv, SlotInv, WorkerState,
         Starting, Cleanup, InterruptCleanup
    <2>4. (GateInv /\ PreparedInv)'
      BY <1>9, SMTT(30) DEF TypeOK, AppLockHeld, GateInv, PreparedInv, LaunchedInv,
         GateAdmits, Window, AfterStop, GateRecord, Starting, Cleanup, InterruptCleanup
    <2> QED BY <2>2, <2>3, <2>4
  <1>10. CASE SupervisorDies(r)
    <2>1. AppLockHeld'
      BY <1>10 DEF TypeOK, AppLockHeld, Starting, Cleanup, SupervisorDies
    <2>2. TypeOK'
      BY <1>10, <2>1, SMTT(30) DEF TypeOK, GateRecord, SupState, ControlState,
         WorkerState, Starting, Cleanup, SlotInv, SupervisorDies
    <2>3. (WorkerLockInv /\ LaunchedInv /\ SlotInv)'
      BY <1>10, SMTT(30) DEF TypeOK, WorkerLockInv, LaunchedInv, SlotInv, WorkerState,
         Starting, Cleanup, SupervisorDies
    <2>4. (GateInv /\ PreparedInv)'
      BY <1>10, SMTT(30) DEF TypeOK, AppLockHeld, GateInv, PreparedInv, LaunchedInv,
         GateAdmits, Window, AfterStop, GateRecord, Starting, Cleanup, SupervisorDies
    <2> QED BY <2>2, <2>3, <2>4
  <1> QED
    BY <1>1, <1>2, <1>3, <1>4, <1>5, <1>6, <1>7, <1>8, <1>9, <1>10 DEF StartupStep

LEMMA CleanupInv ==
  ASSUME NEW r \in Runs, IInv, CleanupStep(r)
  PROVE  IInv'
  <1> USE LocalAppAssumption, NoRunAssumption
          DEF IInv, supVars, childVars, pipeVars
  <1>1. CASE StopGate(r)
    <2>1. AppLockHeld'
      BY <1>1 DEF TypeOK, AppLockHeld, Starting, Cleanup, StopGate, StopClaimGate
    <2>2. TypeOK'
      BY <1>1, <2>1, SMTT(30) DEF TypeOK, GateRecord, SupState, ControlState,
         WorkerState, Starting, Cleanup, SlotInv, StopGate, StopClaimGate
    <2>3. (WorkerLockInv /\ LaunchedInv /\ SlotInv)'
      BY <1>1, SMTT(30) DEF TypeOK, WorkerLockInv, LaunchedInv, SlotInv, WorkerState,
         Starting, Cleanup, StopGate, StopClaimGate
    <2>4. (GateInv /\ PreparedInv)'
      BY <1>1, SMTT(30) DEF TypeOK, AppLockHeld, GateInv, PreparedInv, LaunchedInv,
         GateAdmits, Window, AfterStop, GateRecord, Starting, Cleanup, StopGate, StopClaimGate
    <2> QED BY <2>2, <2>3, <2>4
  <1>2. CASE StopGateFails(r)
    <2>1. AppLockHeld'
      BY <1>2 DEF TypeOK, AppLockHeld, Starting, Cleanup, StopGateFails, AfterFailedStop
    <2>2. TypeOK'
      BY <1>2, <2>1, SMTT(30) DEF TypeOK, GateRecord, SupState, ControlState,
         WorkerState, Starting, Cleanup, SlotInv, StopGateFails, AfterFailedStop
    <2>3. (WorkerLockInv /\ LaunchedInv /\ SlotInv)'
      BY <1>2, SMTT(30) DEF TypeOK, WorkerLockInv, LaunchedInv, SlotInv, WorkerState,
         Starting, Cleanup, StopGateFails, AfterFailedStop
    <2>4. (GateInv /\ PreparedInv)'
      BY <1>2, SMTT(30) DEF TypeOK, AppLockHeld, GateInv, PreparedInv, LaunchedInv,
         GateAdmits, Window, AfterStop, GateRecord, Starting, Cleanup, StopGateFails,
             AfterFailedStop
    <2> QED BY <2>2, <2>3, <2>4
  <1>3. CASE KillJob(r)
    <2>1. AppLockHeld'
      BY <1>3 DEF TypeOK, AppLockHeld, Starting, Cleanup, KillJob, EndChildren, EndWorker
    <2>2. TypeOK'
      BY <1>3, <2>1, SMTT(30) DEF TypeOK, GateRecord, SupState, ControlState,
         WorkerState, Starting, Cleanup, SlotInv, KillJob, EndChildren, EndWorker
    <2>3. (WorkerLockInv /\ LaunchedInv /\ SlotInv)'
      BY <1>3, SMTT(30) DEF TypeOK, WorkerLockInv, LaunchedInv, SlotInv, WorkerState,
         Starting, Cleanup, KillJob, EndChildren, EndWorker
    <2>4. (GateInv /\ PreparedInv)'
      BY <1>3, SMTT(30) DEF TypeOK, AppLockHeld, GateInv, PreparedInv, LaunchedInv,
         GateAdmits, Window, AfterStop, GateRecord, Starting, Cleanup, KillJob, EndChildren,
             EndWorker
    <2> QED BY <2>2, <2>3, <2>4
  <1>4. CASE CloseWorker(r)
    <2>1. AppLockHeld'
      BY <1>4 DEF TypeOK, AppLockHeld, Starting, Cleanup, CloseWorker
    <2>2. TypeOK'
      BY <1>4, <2>1, SMTT(30) DEF TypeOK, GateRecord, SupState, ControlState,
         WorkerState, Starting, Cleanup, SlotInv, CloseWorker
    <2>3. (WorkerLockInv /\ LaunchedInv /\ SlotInv)'
      BY <1>4, SMTT(30) DEF TypeOK, WorkerLockInv, LaunchedInv, SlotInv, WorkerState,
         Starting, Cleanup, CloseWorker
    <2>4. (GateInv /\ PreparedInv)'
      BY <1>4, SMTT(30) DEF TypeOK, AppLockHeld, GateInv, PreparedInv, LaunchedInv,
         GateAdmits, Window, AfterStop, GateRecord, Starting, Cleanup, CloseWorker
    <2> QED BY <2>2, <2>3, <2>4
  <1>5. CASE JoinWorker(r)
    <2>1. AppLockHeld'
      BY <1>5 DEF TypeOK, AppLockHeld, Starting, Cleanup, JoinWorker
    <2>2. TypeOK'
      BY <1>5, <2>1, SMTT(30) DEF TypeOK, GateRecord, SupState, ControlState,
         WorkerState, Starting, Cleanup, SlotInv, JoinWorker
    <2>3. (WorkerLockInv /\ LaunchedInv /\ SlotInv)'
      BY <1>5, SMTT(30) DEF TypeOK, WorkerLockInv, LaunchedInv, SlotInv, WorkerState,
         Starting, Cleanup, JoinWorker
    <2>4. (GateInv /\ PreparedInv)'
      BY <1>5, SMTT(30) DEF TypeOK, AppLockHeld, GateInv, PreparedInv, LaunchedInv,
         GateAdmits, Window, AfterStop, GateRecord, Starting, Cleanup, JoinWorker
    <2> QED BY <2>2, <2>3, <2>4
  <1>6. CASE JoinControl(r)
    <2>1. AppLockHeld'
      BY <1>6 DEF TypeOK, AppLockHeld, Starting, Cleanup, JoinControl
    <2>2. TypeOK'
      BY <1>6, <2>1, SMTT(30) DEF TypeOK, GateRecord, SupState, ControlState,
         WorkerState, Starting, Cleanup, SlotInv, JoinControl
    <2>3. (WorkerLockInv /\ LaunchedInv /\ SlotInv)'
      BY <1>6, SMTT(30) DEF TypeOK, WorkerLockInv, LaunchedInv, SlotInv, WorkerState,
         Starting, Cleanup, JoinControl
    <2>4. (GateInv /\ PreparedInv)'
      BY <1>6, SMTT(30) DEF TypeOK, AppLockHeld, GateInv, PreparedInv, LaunchedInv,
         GateAdmits, Window, AfterStop, GateRecord, Starting, Cleanup, JoinControl
    <2> QED BY <2>2, <2>3, <2>4
  <1>7. CASE Reap(r)
    <2>1. AppLockHeld'
      BY <1>7 DEF TypeOK, AppLockHeld, Starting, Cleanup, Reap, EndChildren, EndWorker
    <2>2. TypeOK'
      BY <1>7, <2>1, SMTT(30) DEF TypeOK, GateRecord, SupState, ControlState,
         WorkerState, Starting, Cleanup, SlotInv, Reap, EndChildren, EndWorker
    <2>3. (WorkerLockInv /\ LaunchedInv /\ SlotInv)'
      BY <1>7, SMTT(30) DEF TypeOK, WorkerLockInv, LaunchedInv, SlotInv, WorkerState,
         Starting, Cleanup, Reap, EndChildren, EndWorker
    <2>4. (GateInv /\ PreparedInv)'
      BY <1>7, SMTT(30) DEF TypeOK, AppLockHeld, GateInv, PreparedInv, LaunchedInv,
         GateAdmits, Window, AfterStop, GateRecord, Starting, Cleanup, Reap, EndChildren,
             EndWorker
    <2> QED BY <2>2, <2>3, <2>4
  <1>8. CASE UnwindJob(r)
    <2>1. AppLockHeld'
      BY <1>8 DEF TypeOK, AppLockHeld, Starting, Cleanup, UnwindJob, EndChildren, EndWorker
    <2>2. TypeOK'
      BY <1>8, <2>1, SMTT(30) DEF TypeOK, GateRecord, SupState, ControlState,
         WorkerState, Starting, Cleanup, SlotInv, UnwindJob, EndChildren, EndWorker
    <2>3. (WorkerLockInv /\ LaunchedInv /\ SlotInv)'
      BY <1>8, SMTT(30) DEF TypeOK, WorkerLockInv, LaunchedInv, SlotInv, WorkerState,
         Starting, Cleanup, UnwindJob, EndChildren, EndWorker
    <2>4. (GateInv /\ PreparedInv)'
      BY <1>8, SMTT(30) DEF TypeOK, AppLockHeld, GateInv, PreparedInv, LaunchedInv,
         GateAdmits, Window, AfterStop, GateRecord, Starting, Cleanup, UnwindJob,
             EndChildren, EndWorker
    <2> QED BY <2>2, <2>3, <2>4
  <1> QED
    BY <1>1, <1>2, <1>3, <1>4, <1>5, <1>6, <1>7, <1>8 DEF CleanupStep

LEMMA ChildInv ==
  ASSUME NEW r \in Runs, IInv,
      JobClosed(r) \/ ControlReady(r) \/ ControlExits(r) \/ WorkerStep(r)
  PROVE  IInv'
  <1> USE LocalAppAssumption, NoRunAssumption
          DEF IInv, supVars, childVars, pipeVars
  <1>1. CASE JobClosed(r)
    <2>1. AppLockHeld'
      BY <1>1 DEF TypeOK, AppLockHeld, Starting, Cleanup, JobClosed, EndChildren, EndWorker,
                  ControlAlive, WorkerAlive
    <2>2. TypeOK'
      BY <1>1, <2>1, SMTT(30) DEF TypeOK, GateRecord, SupState, ControlState,
         WorkerState, Starting, Cleanup, SlotInv, JobClosed, EndChildren, EndWorker,
             ControlAlive, WorkerAlive
    <2>3. (WorkerLockInv /\ LaunchedInv /\ SlotInv)'
      BY <1>1, SMTT(30) DEF TypeOK, WorkerLockInv, LaunchedInv, SlotInv, WorkerState,
         Starting, Cleanup, JobClosed, EndChildren, EndWorker, ControlAlive, WorkerAlive
    <2>4. (GateInv /\ PreparedInv)'
      BY <1>1, SMTT(30) DEF TypeOK, AppLockHeld, GateInv, PreparedInv, LaunchedInv,
         GateAdmits, Window, AfterStop, GateRecord, Starting, Cleanup, JobClosed,
             EndChildren, EndWorker, ControlAlive, WorkerAlive
    <2> QED BY <2>2, <2>3, <2>4
  <1>2. CASE ControlReady(r)
    <2>1. AppLockHeld'
      BY <1>2 DEF TypeOK, AppLockHeld, Starting, Cleanup, ControlReady
    <2>2. TypeOK'
      BY <1>2, <2>1, SMTT(30) DEF TypeOK, GateRecord, SupState, ControlState,
         WorkerState, Starting, Cleanup, SlotInv, ControlReady
    <2>3. (WorkerLockInv /\ LaunchedInv /\ SlotInv)'
      BY <1>2, SMTT(30) DEF TypeOK, WorkerLockInv, LaunchedInv, SlotInv, WorkerState,
         Starting, Cleanup, ControlReady
    <2>4. (GateInv /\ PreparedInv)'
      BY <1>2, SMTT(30) DEF TypeOK, AppLockHeld, GateInv, PreparedInv, LaunchedInv,
         GateAdmits, Window, AfterStop, GateRecord, Starting, Cleanup, ControlReady
    <2> QED BY <2>2, <2>3, <2>4
  <1>3. CASE ControlExits(r)
    <2>1. AppLockHeld'
      BY <1>3 DEF TypeOK, AppLockHeld, Starting, Cleanup, ControlExits, ControlAlive
    <2>2. TypeOK'
      BY <1>3, <2>1, SMTT(30) DEF TypeOK, GateRecord, SupState, ControlState,
         WorkerState, Starting, Cleanup, SlotInv, ControlExits, ControlAlive
    <2>3. (WorkerLockInv /\ LaunchedInv /\ SlotInv)'
      BY <1>3, SMTT(30) DEF TypeOK, WorkerLockInv, LaunchedInv, SlotInv, WorkerState,
         Starting, Cleanup, ControlExits, ControlAlive
    <2>4. (GateInv /\ PreparedInv)'
      BY <1>3, SMTT(30) DEF TypeOK, AppLockHeld, GateInv, PreparedInv, LaunchedInv,
         GateAdmits, Window, AfterStop, GateRecord, Starting, Cleanup, ControlExits,
             ControlAlive
    <2> QED BY <2>2, <2>3, <2>4
  <1>4. CASE ReceiveLaunch(r)
    <2>1. AppLockHeld'
      BY <1>4 DEF TypeOK, AppLockHeld, Starting, Cleanup, ReceiveLaunch, Receive
    <2>2. TypeOK'
      BY <1>4, <2>1, TailType, SMTT(30) DEF TypeOK, GateRecord, SupState, ControlState,
         WorkerState, Starting, Cleanup, SlotInv, ReceiveLaunch, Receive
    <2>3. (WorkerLockInv /\ LaunchedInv /\ SlotInv)'
      BY <1>4, SMTT(30) DEF TypeOK, WorkerLockInv, LaunchedInv, SlotInv, WorkerState,
         Starting, Cleanup, ReceiveLaunch, Receive
    <2>4. (GateInv /\ PreparedInv)'
      BY <1>4, SMTT(30) DEF TypeOK, AppLockHeld, GateInv, PreparedInv, LaunchedInv,
         GateAdmits, Window, AfterStop, GateRecord, Starting, Cleanup, ReceiveLaunch, Receive
    <2> QED BY <2>2, <2>3, <2>4
  <1>5. CASE Preflight(r)
    <2>1. AppLockHeld'
      BY <1>5 DEF TypeOK, AppLockHeld, Starting, Cleanup, Preflight, LockFree
    <2>2. TypeOK'
      BY <1>5, <2>1, SMTT(30) DEF TypeOK, GateRecord, SupState, ControlState,
         WorkerState, Starting, Cleanup, SlotInv, Preflight, LockFree
    <2>3. (WorkerLockInv /\ LaunchedInv /\ SlotInv)'
      BY <1>5, SMTT(30) DEF TypeOK, WorkerLockInv, LaunchedInv, SlotInv, WorkerState,
         Starting, Cleanup, Preflight, LockFree
    <2>4. (GateInv /\ PreparedInv)'
      BY <1>5, SMTT(30) DEF TypeOK, AppLockHeld, GateInv, PreparedInv, LaunchedInv,
         GateAdmits, Window, AfterStop, GateRecord, Starting, Cleanup, Preflight, LockFree
    <2> QED BY <2>2, <2>3, <2>4
  <1>6. CASE ReceiveCheckComplete(r)
    <2>1. AppLockHeld'
      BY <1>6 DEF TypeOK, AppLockHeld, Starting, Cleanup, ReceiveCheckComplete, Receive
    <2>2. TypeOK'
      BY <1>6, <2>1, TailType, SMTT(30) DEF TypeOK, GateRecord, SupState, ControlState,
         WorkerState, Starting, Cleanup, SlotInv, ReceiveCheckComplete, Receive
    <2>3. (WorkerLockInv /\ LaunchedInv /\ SlotInv)'
      BY <1>6, SMTT(30) DEF TypeOK, WorkerLockInv, LaunchedInv, SlotInv, WorkerState,
         Starting, Cleanup, ReceiveCheckComplete, Receive
    <2>4. (GateInv /\ PreparedInv)'
      BY <1>6, SMTT(30) DEF TypeOK, AppLockHeld, GateInv, PreparedInv, LaunchedInv,
         GateAdmits, Window, AfterStop, GateRecord, Starting, Cleanup, ReceiveCheckComplete,
             Receive
    <2> QED BY <2>2, <2>3, <2>4
  <1>7. CASE ReceiveClaim(r)
    <2>1. AppLockHeld'
      BY <1>7 DEF TypeOK, AppLockHeld, Starting, Cleanup, ReceiveClaim, Receive
    <2>2. TypeOK'
      BY <1>7, <2>1, TailType, SMTT(30) DEF TypeOK, GateRecord, SupState, ControlState,
         WorkerState, Starting, Cleanup, SlotInv, ReceiveClaim, Receive
    <2>3. (WorkerLockInv /\ LaunchedInv /\ SlotInv)'
      BY <1>7, SMTT(30) DEF TypeOK, WorkerLockInv, LaunchedInv, SlotInv, WorkerState,
         Starting, Cleanup, ReceiveClaim, Receive
    <2>4. (GateInv /\ PreparedInv)'
      BY <1>7, SMTT(30) DEF TypeOK, AppLockHeld, GateInv, PreparedInv, LaunchedInv,
         GateAdmits, Window, AfterStop, GateRecord, Starting, Cleanup, ReceiveClaim, Receive
    <2> QED BY <2>2, <2>3, <2>4
  <1>8. CASE WorkerExits(r)
    <2>1. AppLockHeld'
      BY <1>8 DEF TypeOK, AppLockHeld, Starting, Cleanup, WorkerExits, WorkerAlive, EndWorker
    <2>2. TypeOK'
      BY <1>8, <2>1, SMTT(30) DEF TypeOK, GateRecord, SupState, ControlState,
         WorkerState, Starting, Cleanup, SlotInv, WorkerExits, WorkerAlive, EndWorker
    <2>3. (WorkerLockInv /\ LaunchedInv /\ SlotInv)'
      BY <1>8, SMTT(30) DEF TypeOK, WorkerLockInv, LaunchedInv, SlotInv, WorkerState,
         Starting, Cleanup, WorkerExits, WorkerAlive, EndWorker
    <2>4. (GateInv /\ PreparedInv)'
      BY <1>8, SMTT(30) DEF TypeOK, AppLockHeld, GateInv, PreparedInv, LaunchedInv,
         GateAdmits, Window, AfterStop, GateRecord, Starting, Cleanup, WorkerExits,
             WorkerAlive, EndWorker
    <2> QED BY <2>2, <2>3, <2>4
  <1>9. CASE PollStop(r)
    <2>1. AppLockHeld'
      BY <1>9 DEF TypeOK, AppLockHeld, Starting, Cleanup, PollStop
    <2>2. TypeOK'
      BY <1>9, <2>1, SMTT(30) DEF TypeOK, GateRecord, SupState, ControlState,
         WorkerState, Starting, Cleanup, SlotInv, PollStop
    <2>3. (WorkerLockInv /\ LaunchedInv /\ SlotInv)'
      BY <1>9, SMTT(30) DEF TypeOK, WorkerLockInv, LaunchedInv, SlotInv, WorkerState,
         Starting, Cleanup, PollStop
    <2>4. (GateInv /\ PreparedInv)'
      BY <1>9, SMTT(30) DEF TypeOK, AppLockHeld, GateInv, PreparedInv, LaunchedInv,
         GateAdmits, Window, AfterStop, GateRecord, Starting, Cleanup, PollStop
    <2> QED BY <2>2, <2>3, <2>4
  <1>10. CASE Claim(r)
    <2>1. AppLockHeld'
      BY <1>10 DEF TypeOK, AppLockHeld, Starting, Cleanup, Claim
    <2>2. TypeOK'
      <3>1. CASE UNCHANGED <<active, claims>>
        BY <1>10, <2>1, <3>1, SMT DEF TypeOK, WorkerState, Claim
      <3>2. CASE /\ claims[r] < MaxClaims
                 /\ active' = [active EXCEPT ![r] = @ + 1]
                 /\ claims' = [claims EXCEPT ![r] = @ + 1]
        <4>1. active[r] < MaxActive
          BY <1>10 DEF SlotInv, Claim
        <4>2. active[r] + 1 \in 0..MaxActive /\ claims[r] + 1 \in 0..MaxClaims
          BY <3>2, <4>1, SMT DEF TypeOK
        <4>3. active' \in [Runs -> 0..MaxActive]
          BY <3>2, <4>2 DEF TypeOK
        <4>4. claims' \in [Runs -> 0..MaxClaims]
          BY <3>2, <4>2 DEF TypeOK
        <4>5. worker' \in [Runs -> WorkerState]
          BY <1>10 DEF TypeOK, WorkerState, Claim
        <4> QED BY <1>10, <2>1, <4>3, <4>4, <4>5 DEF TypeOK, Claim
      <3> QED BY <1>10, <3>1, <3>2 DEF Claim
    <2>3. (WorkerLockInv /\ LaunchedInv /\ SlotInv)'
      BY <1>10, SMTT(30) DEF TypeOK, WorkerLockInv, LaunchedInv, SlotInv, WorkerState,
         Starting, Cleanup, Claim
    <2>4. (GateInv /\ PreparedInv)'
      BY <1>10, SMTT(30) DEF TypeOK, AppLockHeld, GateInv, PreparedInv, LaunchedInv,
         GateAdmits, Window, AfterStop, GateRecord, Starting, Cleanup, Claim
    <2> QED BY <2>2, <2>3, <2>4
  <1>11. CASE FinishJob(r)
    <2>1. AppLockHeld'
      BY <1>11 DEF TypeOK, AppLockHeld, Starting, Cleanup, FinishJob
    <2>2. TypeOK'
      BY <1>11, <2>1, SMTT(30) DEF TypeOK, GateRecord, SupState, ControlState,
         WorkerState, Starting, Cleanup, SlotInv, FinishJob
    <2>3. (WorkerLockInv /\ LaunchedInv /\ SlotInv)'
      BY <1>11, SMTT(30) DEF TypeOK, WorkerLockInv, LaunchedInv, SlotInv, WorkerState,
         Starting, Cleanup, FinishJob
    <2>4. (GateInv /\ PreparedInv)'
      BY <1>11, SMTT(30) DEF TypeOK, AppLockHeld, GateInv, PreparedInv, LaunchedInv,
         GateAdmits, Window, AfterStop, GateRecord, Starting, Cleanup, FinishJob
    <2> QED BY <2>2, <2>3, <2>4
  <1>12. CASE Drained(r)
    <2>1. AppLockHeld'
      BY <1>12 DEF TypeOK, AppLockHeld, Starting, Cleanup, Drained, EndWorker
    <2>2. TypeOK'
      BY <1>12, <2>1, SMTT(30) DEF TypeOK, GateRecord, SupState, ControlState,
         WorkerState, Starting, Cleanup, SlotInv, Drained, EndWorker
    <2>3. (WorkerLockInv /\ LaunchedInv /\ SlotInv)'
      BY <1>12, SMTT(30) DEF TypeOK, WorkerLockInv, LaunchedInv, SlotInv, WorkerState,
         Starting, Cleanup, Drained, EndWorker
    <2>4. (GateInv /\ PreparedInv)'
      BY <1>12, SMTT(30) DEF TypeOK, AppLockHeld, GateInv, PreparedInv, LaunchedInv,
         GateAdmits, Window, AfterStop, GateRecord, Starting, Cleanup, Drained, EndWorker
    <2> QED BY <2>2, <2>3, <2>4
  <1> QED
    BY <1>1, <1>2, <1>3, <1>4, <1>5, <1>6, <1>7, <1>8, <1>9, <1>10, <1>11, <1>12 DEF WorkerStep

LEMMA NextInv == IInv /\ [Next]_vars => IInv'
  <1> SUFFICES ASSUME IInv, [Next]_vars PROVE IInv'
    OBVIOUS
  <1>1. ASSUME NEW r \in Runs,
               Launch(r) \/ StartupStep(r) \/ InterruptCleanup(r) \/ SupervisorDies(r)
        PROVE  IInv'
    BY <1>1, SupInv
  <1>2. ASSUME NEW r \in Runs, CleanupStep(r) PROVE IInv'
    BY <1>2, CleanupInv
  <1>3. ASSUME NEW r \in Runs,
               JobClosed(r) \/ ControlReady(r) \/ ControlExits(r) \/ WorkerStep(r)
        PROVE  IInv'
    BY <1>3, ChildInv
  <1>4. CASE UNCHANGED vars
    BY <1>4
    DEF IInv, TypeOK, AppLockHeld, WorkerLockInv, GateInv, PreparedInv, LaunchedInv,
        SlotInv, GateAdmits, vars, supVars, childVars, pipeVars
  <1> QED BY <1>1, <1>2, <1>3, <1>4 DEF Next, Finished

\* The invariant holds in every reachable state.
THEOREM Invariance == Spec => []IInv
  BY InitInv, NextInv, PTL DEF Spec

\* Every variable keeps its type, and a run that is not over has the
\* application lock.
THEOREM TypeCorrect == Spec => []TypeOK
  BY Invariance, PTL DEF IInv

\* However the supervisor dies and is started again, the Workers of two runs
\* never execute claims at once.
THEOREM WorkersExclude == Spec => []OneWorker
  <1>1. IInv => OneWorker
    BY DEF IInv, TypeOK, WorkerLockInv, OneWorker
  <1> QED BY <1>1, Invariance, PTL

\* Only the Worker's own claim changes the number of claims, and the gate
\* admitted it.
LEMMA ClaimStep ==
  ASSUME IInv, Next, NEW r \in Runs, Claims(r)
  PROVE  GateAdmits(r) /\ worker[r] = "claiming"
  <1>1. PICK x \in Runs : Claim(x)
    BY DEF Next, Finished, Claims, vars, supVars, childVars, pipeVars, Launch,
       StartupStep, CleanupStep, WorkerStep, PrepareGate, LaunchWorker, CheckComplete,
       ActivateGate, SendClaim, BecomeOnline, BeginCleanup, StopGate, StopGateFails,
       KillJob, CloseWorker, JoinWorker, JoinControl, Reap, UnwindJob,
       InterruptCleanup, SupervisorDies, JobClosed, ControlReady, ControlExits,
       ReceiveLaunch, Preflight, ReceiveCheckComplete, ReceiveClaim, WorkerExits,
       PollStop, FinishJob, Drained
  <1>2. claims' = [claims EXCEPT ![x] = @ + 1] /\ GateAdmits(x)
    BY <1>1 DEF Claim, Claims
  <1>3. x = r
    BY <1>2 DEF Claims, IInv, TypeOK
  <1> QED BY <1>1, <1>2, <1>3 DEF Claim

\* Claims fall into the window of the run's gate, although the Worker tests
\* its stop channel and claims in two steps.
THEOREM ClaimsInWindow == Spec => ClaimWindow
  <1>1. ASSUME IInv, Next, NEW r \in Runs, Claims(r)
        PROVE  sup[r] \in Window
    BY <1>1, ClaimStep DEF IInv, GateInv
  <1>2. IInv /\ [Next]_vars =>
          [\A r \in Runs : Claims(r) =>
             sup[r] \in {"activated", "claiming", "online", "stop_gate",
                         "kill_job", "unwind", "dead"}]_vars
    BY <1>1 DEF Window
  <1> QED BY <1>2, Invariance, PTL DEF Spec, ClaimWindow

\* A prepared gate fences the Workers of every earlier run.
THEOREM GateFences == Spec => PrepareFences
  <1>1. ASSUME IInv, Next, NEW r \in Runs, NEW other \in Runs, Claims(r), other # r
        PROVE  sup[other] \notin {"prepared", "preflight", "activated", "claiming",
                                  "online"}
    BY <1>1, ClaimStep DEF IInv, PreparedInv, GateAdmits
  <1>2. IInv /\ [Next]_vars =>
          [\A r, other \in Runs : Claims(r) /\ other # r =>
             sup[other] \notin {"prepared", "preflight", "activated", "claiming",
                                "online"}]_vars
    BY <1>1
  <1> QED BY <1>2, Invariance, PTL DEF Spec, PrepareFences

\* Every claim is gated, across the deaths and restarts of the supervisor.
THEOREM ClaimsAreGated == Spec => ClaimsGated
  BY ClaimsInWindow, GateFences DEF ClaimsGated

-----------------------------------------------------------------------------
(***************************************************************************)
(* A child of the Worker                                                   *)
(***************************************************************************)
\* What a reader has not taken or kept of a stream, and when it may stop.
StreamInv(s) ==
    /\ buffer[s] <= OutputLimit /\ buffer[s] + pipe[s] <= wrote[s]
    /\ ~over[s] => wrote[s] = buffer[s] + pipe[s]
    /\ reader[s] = "done" => pipe[s] = 0 /\ ~Writers

\* A call without a failure started both readers, and ends after they did.
CallEnds ==
    /\ call \in {"idle", "joining", "ended"} => root # "alive"
    /\ call = "idle" => /\ verdict = "none" /\ kin = "none"
                        /\ \A s \in Streams : wrote[s] = 0 /\ reader[s] = "off"
    /\ call \in {"setup"} => verdict = "none" /\ \A s \in Streams : reader[s] = "off"
    /\ verdict = "none" => call \notin {"terminating", "shutdown"}
    /\ verdict = "none" /\ call \in {"polling", "observing", "waiting", "joining"} =>
         \A s \in Streams : reader[s] # "off"
    /\ verdict = "none" /\ call = "ended" =>
         \A s \in Streams : reader[s] = "done" /\ buffer[s] = wrote[s] /\ seen[s] = wrote[s]

CommandInv == ChildTypeOK /\ (\A s \in Streams : StreamInv(s)) /\ CallEnds

LEMMA ChildTypes ==
    ASSUME ChildTypeOK
    PROVE  /\ wrote \in [Streams -> 0..MaxOutput] /\ pipe \in [Streams -> 0..MaxOutput]
           /\ buffer \in [Streams -> 0..MaxOutput] /\ seen \in [Streams -> 0..MaxOutput]
  BY DEF ChildTypeOK

LEMMA ChildInitInv == ChildInit => CommandInv
  <1> SUFFICES ASSUME ChildInit PROVE CommandInv
    OBVIOUS
  <1>1. ChildTypeOK
    <2>1. Silent \in [Streams -> 0..MaxOutput]
      BY OutputAssumption DEF Silent
    <2>2. /\ over \in [Streams -> BOOLEAN]
          /\ reader \in [Streams -> {"off", "reading", "done"}]
      BY DEF ChildInit
    <2> QED BY <2>1, <2>2 DEF ChildInit, ChildTypeOK, Calls, Failures
  <1>2. ASSUME NEW s \in Streams PROVE StreamInv(s)
    BY OutputAssumption DEF ChildInit, StreamInv, Silent
  <1>3. CallEnds
    BY DEF ChildInit, CallEnds, Silent
  <1> QED BY <1>1, <1>2, <1>3 DEF CommandInv

\* A step of run() that leaves the streams and the tree alone.
LEMMA RunInv ==
    ASSUME CommandInv, Poll \/ Observe \/ WaitProcess \/ Finish
    PROVE  CommandInv'
  <1>u. UNCHANGED <<root, kin, wrote, pipe, buffer, over, reader, stop, late, killFaults>>
    BY DEF Poll, Observe, WaitProcess, Finish, treeVars, outputVars
  <1>1. ChildTypeOK'
    <2>1. seen' \in [Streams -> 0..MaxOutput]
      BY ChildTypes DEF CommandInv, Poll, Observe, WaitProcess, Finish
    <2>2. call' \in Calls /\ verdict' \in Failures
      BY DEF CommandInv, ChildTypeOK, Poll, Observe, WaitProcess, Finish, Fail, Calls,
             Failures,
             LateLimit
    <2> QED BY <1>u, <2>1, <2>2 DEF CommandInv, ChildTypeOK
  <1>2. ASSUME NEW s \in Streams PROVE StreamInv(s)'
    BY <1>u DEF CommandInv, StreamInv, Writers
  <1>3. CallEnds'
    <2>1. CASE Poll
      BY <1>u, <2>1 DEF Poll, Fail, CommandInv, CallEnds
    <2>2. CASE Observe
      BY <1>u, <2>2 DEF Observe, Fail, CommandInv, CallEnds
    <2>3. CASE WaitProcess
      BY <1>u, <2>3 DEF WaitProcess, CommandInv, CallEnds
    <2>4. CASE Finish
      <3>1. call' = "ended" /\ root # "alive" /\ call = "joining"
        BY <2>4 DEF Finish, Fail, CommandInv, CallEnds
      <3>2. ASSUME verdict' = "none", NEW s \in Streams
            PROVE  reader[s] = "done" /\ buffer[s] = wrote[s] /\ seen'[s] = wrote[s]
        <4>1. LateLimit = "none" /\ verdict = "none" /\ ~over[s] /\ seen' = buffer
          BY <2>4, <3>2 DEF Finish, Fail, LateLimit, Exceeded
        <4>2. reader[s] = "done"
          BY <2>4, <3>1, <4>1 DEF Finish, CommandInv, CallEnds, ChildTypeOK
        <4>3. wrote[s] = buffer[s] + pipe[s] /\ pipe[s] = 0 /\ buffer[s] \in 0..MaxOutput
          BY <4>1, <4>2, ChildTypes DEF CommandInv, StreamInv
        <4> QED BY <4>1, <4>2, <4>3, OutputAssumption
      <3> QED BY <1>u, <3>1, <3>2 DEF CallEnds
    <2> QED BY <2>1, <2>2, <2>3, <2>4
  <1> QED BY <1>1, <1>2, <1>3 DEF CommandInv

\* The tree is taken down, or a process of it ends.
LEMMA TreeInv ==
    ASSUME CommandInv, Terminate \/ Shutdown \/ RootExits \/ KinExits
    PROVE  CommandInv'
  <1>u. UNCHANGED <<wrote, pipe, buffer, over, reader, seen, stop, late>>
    BY DEF Terminate, Shutdown, RootExits, KinExits, outputVars
  <1>1. ChildTypeOK'
    <2>1. call' \in Calls /\ verdict' \in Failures
      BY DEF CommandInv, ChildTypeOK, Terminate, Shutdown, RootExits, KinExits, Fail, Calls,
             Failures
    <2>2. root' \in {"none", "alive", "exited", "killed"} /\ kin' \in {"none", "alive", "gone"}
      BY DEF CommandInv, ChildTypeOK, Terminate, Shutdown, RootExits, KinExits, KilledRoot,
             KilledKin, treeVars
    <2>3. killFaults' \in {0, 1}
      BY DEF CommandInv, ChildTypeOK, Terminate, Shutdown, RootExits, KinExits
    <2> QED BY <1>u, <2>1, <2>2, <2>3 DEF CommandInv, ChildTypeOK
  <1>2. root' = "alive" => root = "alive"
    BY DEF Terminate, Shutdown, RootExits, KinExits, KilledRoot, treeVars
  <1>3. kin' = "alive" => kin = "alive"
    BY DEF Terminate, Shutdown, RootExits, KinExits, KilledKin, treeVars
  <1>4. ASSUME NEW s \in Streams PROVE StreamInv(s)'
    BY <1>u, <1>2, <1>3 DEF CommandInv, StreamInv, Writers
  <1>5. CallEnds'
    BY <1>u, <1>2 DEF CommandInv, CallEnds, Terminate, Shutdown, RootExits, KinExits,
                      KilledRoot,
                      KilledKin, Fail
  <1> QED BY <1>1, <1>4, <1>5 DEF CommandInv

LEMMA SpawnInv ==
    ASSUME CommandInv, SpawnChild \/ StartReaders \/ SpawnKin
    PROVE  CommandInv'
  <1>u. UNCHANGED <<wrote, pipe, buffer, over, seen, stop, late, killFaults>>
    BY DEF SpawnChild, StartReaders, SpawnKin, outputVars
  <1>1. ChildTypeOK'
    <2>1. reader' \in [Streams -> {"off", "reading", "done"}]
      BY DEF CommandInv, ChildTypeOK, SpawnChild, StartReaders, SpawnKin, outputVars
    <2>2. call' \in Calls /\ verdict' \in Failures
          /\ root' \in {"none", "alive", "exited", "killed"}
          /\ kin' \in {"none", "alive", "gone"}
      BY DEF CommandInv, ChildTypeOK, SpawnChild, StartReaders, SpawnKin, Fail, Calls,
             Failures,
             treeVars
    <2> QED BY <1>u, <2>1, <2>2 DEF CommandInv, ChildTypeOK
  <1>2. ASSUME NEW s \in Streams PROVE StreamInv(s)'
    <2>1. reader'[s] # "done" \/ (reader'[s] = reader[s] /\ call # "idle")
      BY DEF CommandInv, CallEnds, SpawnChild, StartReaders, SpawnKin, outputVars
    <2>2. reader'[s] = "done" => root' = root /\ (kin' = kin \/ root = "alive")
      BY <2>1 DEF SpawnChild, StartReaders, SpawnKin, treeVars
    <2> QED BY <1>u, <2>1, <2>2 DEF CommandInv, StreamInv, Writers
  <1>3. CallEnds'
    <2>1. CASE SpawnChild
      <3>1. CASE call' = "ended"
        BY <1>u, <2>1, <3>1 DEF CommandInv, CallEnds, SpawnChild, Fail, outputVars
      <3>2. CASE call' = "setup"
        <4>1. UNCHANGED <<kin, reader, verdict>>
          BY <2>1, <3>2 DEF SpawnChild, Fail, outputVars
        <4>2. call = "idle"
          BY <2>1 DEF SpawnChild
        <4>3. \A s \in Streams : reader[s] = "off"
          BY <4>2 DEF CommandInv, CallEnds
        <4>4. verdict = "none"
          BY <4>2 DEF CommandInv, CallEnds
        <4> QED BY <1>u, <3>2, <4>1, <4>3, <4>4 DEF CallEnds
      <3> QED BY <2>1, <3>1, <3>2 DEF SpawnChild, Fail
    <2>2. CASE StartReaders
      BY <1>u, <2>2 DEF CommandInv, CallEnds, StartReaders, Fail, treeVars
    <2>3. CASE SpawnKin
      BY <1>u, <2>3 DEF CommandInv, CallEnds, SpawnKin, outputVars
    <2> QED BY <2>1, <2>2, <2>3
  <1> QED BY <1>1, <1>2, <1>3 DEF CommandInv

LEMMA NextCommandInv == ASSUME CommandInv, NextCommand PROVE CommandInv'
  <1>1. ChildTypeOK'
    <2>1. Silent \in [Streams -> 0..MaxOutput]
      BY OutputAssumption DEF Silent
    <2>2. /\ over' \in [Streams -> BOOLEAN]
          /\ reader' \in [Streams -> {"off", "reading", "done"}]
      BY DEF NextCommand
    <2> QED BY <2>1, <2>2 DEF CommandInv, ChildTypeOK, NextCommand, Calls, Failures
  <1>2. ASSUME NEW s \in Streams PROVE StreamInv(s)'
    BY OutputAssumption DEF NextCommand, StreamInv, Silent
  <1>3. CallEnds'
    BY DEF NextCommand, CallEnds, Silent
  <1> QED BY <1>1, <1>2, <1>3 DEF CommandInv

LEMMA ReadChunkInv == ASSUME CommandInv, NEW s \in Streams, ReadChunk(s) PROVE CommandInv'
  <1> DEFINE room == OutputLimit - buffer[s]
             kept == IF pipe[s] > room THEN room ELSE pipe[s]
  <1>u. UNCHANGED <<call, verdict, root, kin, wrote, reader, seen, stop, late, killFaults>>
    BY DEF ReadChunk, treeVars
  <1>t. /\ wrote[s] \in 0..MaxOutput /\ pipe[s] \in 0..MaxOutput /\ buffer[s] \in 0..MaxOutput
        /\ pipe \in [Streams -> 0..MaxOutput] /\ buffer \in [Streams -> 0..MaxOutput]
        /\ over \in [Streams -> BOOLEAN] /\ OutputLimit \in Nat /\ MaxOutput \in Nat
    BY ChildTypes, OutputAssumption DEF CommandInv, ChildTypeOK
  <1>s. /\ StreamInv(s) /\ pipe[s] > 0 /\ reader[s] = "reading"
    BY DEF CommandInv, ReadChunk
  <1>r. /\ buffer' = [buffer EXCEPT ![s] = buffer[s] + kept]
        /\ over' = [over EXCEPT ![s] = over[s] \/ pipe[s] > room]
        /\ pipe' = [pipe EXCEPT ![s] = 0]
    BY DEF ReadChunk
  <1>k. /\ kept \in Nat /\ kept <= pipe[s] /\ buffer[s] + kept <= OutputLimit
        /\ kept # pipe[s] => pipe[s] > room
    BY <1>t, <1>s DEF StreamInv
  <1>b. buffer[s] + kept \in 0..MaxOutput
    BY <1>t, <1>s, <1>k DEF StreamInv
  <1> HIDE DEF kept
  <1>1. /\ buffer' \in [Streams -> 0..MaxOutput] /\ pipe' \in [Streams -> 0..MaxOutput]
        /\ over' \in [Streams -> BOOLEAN]
    BY <1>t, <1>r, <1>b
  <1>2. ChildTypeOK'
    BY <1>u, <1>1 DEF CommandInv, ChildTypeOK
  <1>3. ASSUME NEW q \in Streams PROVE StreamInv(q)'
    <2>1. CASE q = s
      <3>1. /\ buffer'[s] = buffer[s] + kept /\ pipe'[s] = 0
            /\ ~over'[s] => ~over[s] /\ ~(pipe[s] > room)
        BY <1>t, <1>r
      <3>2. /\ buffer'[s] <= OutputLimit /\ buffer'[s] + pipe'[s] <= wrote[s]
            /\ ~over'[s] => wrote[s] = buffer'[s] + pipe'[s]
        BY <1>s, <1>t, <1>k, <3>1 DEF StreamInv
      <3> QED BY <1>u, <1>s, <2>1, <3>2 DEF StreamInv
    <2>2. CASE q # s
      <3>1. buffer'[q] = buffer[q] /\ pipe'[q] = pipe[q] /\ over'[q] = over[q]
        BY <1>t, <1>r, <2>2
      <3> QED BY <1>u, <3>1 DEF CommandInv, StreamInv, Writers
    <2> QED BY <2>1, <2>2
  <1>4. CallEnds'
    <2>1. ~(verdict = "none" /\ call = "ended")
      BY <1>s DEF CommandInv, CallEnds
    <2> QED BY <1>u, <2>1 DEF CommandInv, CallEnds
  <1> QED BY <1>2, <1>3, <1>4 DEF CommandInv

LEMMA EndOfStreamInv == ASSUME CommandInv, NEW s \in Streams, EndOfStream(s) PROVE CommandInv'
  <1>u. UNCHANGED <<call, verdict, root, kin, wrote, pipe, buffer, over, seen, stop, late,
                    killFaults>>
    BY DEF EndOfStream, treeVars
  <1>1. /\ reader' \in [Streams -> {"off", "reading", "done"}]
        /\ \A q \in Streams : reader'[q] = IF q = s THEN "done" ELSE reader[q]
    BY DEF EndOfStream, CommandInv, ChildTypeOK
  <1>2. ChildTypeOK'
    BY <1>u, <1>1 DEF CommandInv, ChildTypeOK
  <1>3. ASSUME NEW q \in Streams PROVE StreamInv(q)'
    BY <1>u, <1>1 DEF CommandInv, StreamInv, Writers, EndOfStream
  <1>4. CallEnds'
    <2>1. reader[s] = "reading"
      BY DEF EndOfStream
    <2> QED BY <1>u, <1>1, <2>1 DEF CommandInv, CallEnds
  <1> QED BY <1>2, <1>3, <1>4 DEF CommandInv

LEMMA ChildWritesInv == ASSUME CommandInv, NEW s \in Streams, ChildWrites(s) PROVE CommandInv'
  <1>u. UNCHANGED <<call, verdict, root, kin, buffer, over, reader, seen, stop, late,
                    killFaults>>
    BY DEF ChildWrites, treeVars
  <1>t. /\ wrote[s] \in 0..MaxOutput /\ pipe[s] \in 0..MaxOutput /\ buffer[s] \in 0..MaxOutput
        /\ pipe \in [Streams -> 0..MaxOutput] /\ wrote \in [Streams -> 0..MaxOutput]
        /\ OutputLimit \in Nat /\ MaxOutput \in Nat
    BY ChildTypes, OutputAssumption DEF CommandInv
  <1>s. StreamInv(s) /\ Writers /\ wrote[s] < MaxOutput
    BY DEF CommandInv, ChildWrites
  <1>r. /\ wrote[s] + 1 \in 0..MaxOutput /\ pipe[s] + 1 \in 0..MaxOutput
        /\ reader[s] # "done"
    BY <1>t, <1>s DEF StreamInv
  <1>1. /\ wrote' \in [Streams -> 0..MaxOutput] /\ pipe' \in [Streams -> 0..MaxOutput]
        /\ wrote'[s] = wrote[s] + 1 /\ pipe'[s] = pipe[s] + 1
        /\ \A q \in Streams : q # s => wrote'[q] = wrote[q] /\ pipe'[q] = pipe[q]
    BY <1>t, <1>r DEF ChildWrites
  <1>2. ChildTypeOK'
    BY <1>u, <1>1 DEF CommandInv, ChildTypeOK
  <1>3. ASSUME NEW q \in Streams PROVE StreamInv(q)'
    <2>1. CASE q = s
      BY <1>u, <1>t, <1>s, <1>r, <1>1, <2>1 DEF StreamInv
    <2>2. CASE q # s
      BY <1>u, <1>1, <2>2 DEF CommandInv, StreamInv, Writers
    <2> QED BY <2>1, <2>2
  <1>4. CallEnds'
    <2>1. ~(verdict = "none" /\ call = "ended") /\ call # "idle"
      BY <1>s, <1>r DEF CommandInv, CallEnds, Writers
    <2> QED BY <1>u, <2>1 DEF CommandInv, CallEnds
  <1> QED BY <1>2, <1>3, <1>4 DEF CommandInv

LEMMA ChildNextInv == CommandInv /\ [ChildNext]_procVars => CommandInv'
  <1> SUFFICES ASSUME CommandInv, [ChildNext]_procVars PROVE CommandInv'
    OBVIOUS
  <1>1. CASE SpawnChild \/ NextCommand \/ SpawnKin \/ RootExits \/ KinExits
    BY <1>1, SpawnInv, NextCommandInv, TreeInv
  <1>2. CASE RunStep
    BY <1>2, SpawnInv, RunInv, TreeInv DEF RunStep
  <1>3. CASE ReaderStep
    BY <1>3, ReadChunkInv, EndOfStreamInv DEF ReaderStep
  <1>4. CASE \E s \in Streams : ChildWrites(s)
    BY <1>4, ChildWritesInv
  <1>5. CASE RequestStop \/ DeadlinePasses \/ UNCHANGED procVars
    <2>1. /\ UNCHANGED <<call, verdict, root, kin, wrote, pipe, buffer, over, reader, seen,
                         killFaults>>
          /\ stop' \in BOOLEAN /\ late' \in BOOLEAN
      BY <1>5 DEF RequestStop, DeadlinePasses, procVars, treeVars, outputVars, CommandInv,
                  ChildTypeOK
    <2>2. ChildTypeOK'
      BY <2>1 DEF CommandInv, ChildTypeOK
    <2>3. CallEnds' /\ \A s \in Streams : StreamInv(s)'
      BY <2>1 DEF CommandInv, CallEnds, StreamInv, Writers
    <2> QED BY <2>2, <2>3 DEF CommandInv
  <1> QED BY <1>1, <1>2, <1>3, <1>4, <1>5 DEF ChildNext

\* A child of the Worker, its two readers, the observer and the polling loop stay
\* within CommandInv.
THEOREM ChildInvariance == ChildSpec => []CommandInv
  BY ChildInitInv, ChildNextInv, PTL DEF ChildSpec

\* A call of run() that succeeds has read and shown the whole output of a tree
\* whose process ended, however the readers, the observers and a late limit
\* interleave with the polling loop; and no call leaves its process alive.
THEOREM OutputIsWhole == ChildSpec => []OutputWhole
  <1>1. CommandInv => OutputWhole
    BY DEF CommandInv, CallEnds, OutputWhole
  <1> QED BY <1>1, ChildInvariance, PTL

-----------------------------------------------------------------------------
(***************************************************************************)
(* The forward proxy                                                       *)
(***************************************************************************)
Handlers == {c \in Clients : stage[c] \in Handling}

\* The counter of connections is that of the handlers.
CountInv ==
    /\ IsFiniteSet(Handlers)
    /\ admitted = Cardinality(Handlers) /\ admitted <= MaxConnections

Words == {"refusal", "answer", "end"}

\* What one connection carries.
LegTypes ==
    /\ stage \in [Clients -> Stages]
    /\ exchange \in [Clients -> {"none", "tunnel", "plain"}]
    /\ DOMAIN answers = Clients /\ DOMAIN dialed = Clients
    /\ told \in [Clients -> SUBSET Words]
    /\ body \in [Clients -> [framing : Framings, size : 0..(MaxUnits + 1)]]
    /\ carried \in [Clients -> [Directions -> 0..MaxUnits]]
    /\ flow \in [Clients -> [Directions -> {"open", "eof", "failed"}]]

\* The upstream leg is one of the approved addresses and the handler's.
DialInv(c) ==
    /\ stage[c] = "dialing" => answers[c] \in Seq(Public)
    /\ dialed[c] # "none" => dialed[c] \in Public /\ stage[c] \in {"head", "relay", "report"}

\* What the client was told, by the stage of its handler.
TellInv(c) ==
    /\ stage[c] \in {"none", "rejecting", "request", "resolving", "dialing"} => told[c] = {}
    /\ ~({"answer", "refusal"} \subseteq told[c])
    /\ "end" \in told[c] \/ "refusal" \in told[c] => stage[c] = "closing"

\* The announced body: only a plain answer being relayed has one.
BodyInv(c) ==
    /\ stage[c] \in {"none", "rejecting", "request", "resolving", "dialing", "head"} =>
         body[c] = NoBody
    /\ exchange[c] = "tunnel" => body[c] = NoBody
    /\ "end" \in told[c] /\ body[c].framing \in {"length", "chunked"} => Complete(c)

ConnInv == \A c \in Clients : DialInv(c) /\ TellInv(c) /\ BodyInv(c)
ProxyInv == CountInv /\ LegTypes /\ ConnInv

LEMMA ProxyInitInv == ProxyInit => ProxyInv
  <1> SUFFICES ASSUME ProxyInit PROVE ProxyInv
    OBVIOUS
  <1>1. CountInv
    <2>1. Handlers = {}
      BY DEF ProxyInit, Handlers, Handling
    <2> QED BY <2>1, FS_EmptySet, ProxyAssumption DEF CountInv, ProxyInit
  <1>2. LegTypes
    BY ProxyAssumption DEF ProxyInit, LegTypes, Words, Stages, NoBody, Still, Open, Framings,
                           Directions
  <1>3. ConnInv
    BY DEF ProxyInit, ConnInv, DialInv, TellInv, BodyInv, NoBody
  <1> QED BY <1>1, <1>2, <1>3 DEF ProxyInv

\* A handler that goes on to another stage stays counted.
LEMMA HandlersKept ==
    ASSUME ProxyInv, NEW c \in Clients, stage[c] \in Handling, UNCHANGED admitted,
           \/ stage' = stage
           \/ \E to \in Handling : stage' = [stage EXCEPT ![c] = to]
    PROVE  CountInv'
  <1>1. Handlers' = Handlers
    BY DEF ProxyInv, LegTypes, Handlers
  <1> QED BY <1>1 DEF ProxyInv, CountInv

\* The other connections see nothing of a step of this one.
Others(c) == \A b \in Clients \ {c} :
    UNCHANGED <<stage[b], exchange[b], answers[b], dialed[b], body[b], carried[b], told[b]>>

LEMMA OthersKept ==
    ASSUME ProxyInv, NEW c \in Clients, Others(c), DialInv(c)', TellInv(c)', BodyInv(c)'
    PROVE  ConnInv'
  BY DEF ProxyInv, ConnInv, Others, DialInv, TellInv, BodyInv, Complete

LEMMA ServerInv ==
    ASSUME ProxyInv, StartProxy \/ ReplacePath \/ CloseProxy \/ ProxyDrained \/ ProxyStopped
                     \/ ClearPath \/ UNCHANGED proxyVars
    PROVE  ProxyInv'
  <1>1. UNCHANGED <<admitted, stage, exchange, answers, dialed, body, carried, flow, told>>
    BY DEF StartProxy, ReplacePath, CloseProxy, ProxyDrained, ProxyStopped, ClearPath,
           wireVars,
           proxyVars
  <1> QED BY <1>1 DEF ProxyInv, CountInv, LegTypes, ConnInv, DialInv, TellInv, BodyInv,
                      Complete,
                      Handlers

LEMMA AcceptInv == ASSUME ProxyInv, NEW c \in Clients, Accept(c) \/ Reject(c) PROVE ProxyInv'
  <1>u. UNCHANGED <<exchange, answers, dialed, body, carried, flow, told>>
    BY DEF Accept, Reject, wireVars
  <1>s. PICK to \in {"none", "rejecting", "request"} : stage' = [stage EXCEPT ![c] = to]
    BY DEF Accept, Reject
  <1>f. stage[c] \in {"none", "rejecting"}
    BY DEF Accept, Reject
  <1>1. CountInv'
    <2>1. CASE to = "request"
      <3>1. Accept(c) /\ admitted < MaxConnections /\ admitted' = admitted + 1
        BY <1>s, <2>1, ProxyAssumption, FS_CardinalityType
           DEF Accept, Reject, ProxyInv, CountInv, LegTypes
      <3>2. Handlers' = Handlers \union {c} /\ c \notin Handlers
        BY <1>s, <1>f, <2>1 DEF ProxyInv, LegTypes, Handlers, Handling
      <3>3. IsFiniteSet(Handlers') /\ Cardinality(Handlers') = Cardinality(Handlers) + 1
        BY <3>2, FS_AddElement DEF ProxyInv, CountInv
      <3>4. admitted \in Nat
        BY FS_CardinalityType DEF ProxyInv, CountInv
      <3> QED BY <3>1, <3>3, <3>4, ProxyAssumption DEF ProxyInv, CountInv
    <2>2. CASE to # "request"
      <3>1. UNCHANGED admitted
        BY <1>s, <2>2 DEF Accept, Reject, ProxyInv, LegTypes, serverVars
      <3>2. Handlers' = Handlers
        BY <1>s, <1>f, <2>2 DEF ProxyInv, LegTypes, Handlers, Handling
      <3> QED BY <3>1, <3>2 DEF ProxyInv, CountInv
    <2> QED BY <2>1, <2>2
  <1>2. LegTypes'
    BY <1>u, <1>s DEF ProxyInv, LegTypes, Stages
  <1>3. ConnInv'
    <2>1. Others(c)
      BY <1>u, <1>s DEF Others, ProxyInv, LegTypes
    <2>2. stage'[c] = to
      BY <1>s DEF ProxyInv, LegTypes
    <2>3. DialInv(c)' /\ TellInv(c)' /\ BodyInv(c)'
      BY <1>u, <1>f, <2>2 DEF ProxyInv, ConnInv, DialInv, TellInv, BodyInv, Complete
    <2> QED BY <2>1, <2>3, OthersKept
  <1> QED BY <1>1, <1>2, <1>3 DEF ProxyInv

LEMMA SafeAnswers ==
    ASSUME NEW addresses \in DnsAnswers, Approved(addresses)
    PROVE  addresses \in Seq(Public)
  <1>1. CASE \E a \in Public \union Private : addresses = <<a>>
    <2>1. PICK a \in Public \union Private : addresses = <<a>>
      BY <1>1
    <2>2. addresses[1] \in Public
      BY <2>1 DEF Approved
    <2> QED BY <2>1, <2>2
  <1>2. CASE addresses \in Public \X (Public \union Private)
    <2>1. addresses = <<addresses[1], addresses[2]>> /\ Len(addresses) = 2
      BY <1>2
    <2>2. addresses[1] \in Public /\ addresses[2] \in Public
      BY <2>1 DEF Approved
    <2>3. <<addresses[1], addresses[2]>> \in Seq(Public)
      BY <2>2
    <2> QED BY <2>1, <2>3
  <1> QED BY <1>1, <1>2 DEF DnsAnswers

\* The request, the resolution and the connection.
LEMMA LegInv ==
    ASSUME ProxyInv, NEW c \in Clients, ReadRequest(c) \/ Resolve(c) \/ Dial(c)
    PROVE  ProxyInv'
  <1>u. UNCHANGED <<admitted, body, carried, flow, told>>
    BY DEF ReadRequest, Resolve, Dial, serverVars
  <1>f. stage[c] \in {"request", "resolving", "dialing"}
    BY DEF ReadRequest, Resolve, Dial, At
  <1>s. \/ stage' = stage
        \/ \E to \in {"resolving", "dialing", "head", "report"} :
              stage' = [stage EXCEPT ![c] = to]
    BY DEF ReadRequest, Resolve, Dial, At
  <1>t. stage'[c] \in {"request", "resolving", "dialing", "head", "report"}
    BY <1>f, <1>s DEF ProxyInv, LegTypes
  <1>1. CountInv'
    BY <1>u, <1>f, <1>s, HandlersKept DEF Handling
  <1>2. LegTypes'
    <2>1. stage' \in [Clients -> Stages]
      BY <1>s DEF ProxyInv, LegTypes, Stages
    <2>2. exchange' \in [Clients -> {"none", "tunnel", "plain"}]
      BY DEF ReadRequest, Resolve, Dial, ProxyInv, LegTypes
    <2>3. DOMAIN answers' = Clients /\ DOMAIN dialed' = Clients
      BY DEF ReadRequest, Resolve, Dial, ProxyInv, LegTypes
    <2> QED BY <1>u, <2>1, <2>2, <2>3 DEF ProxyInv, LegTypes
  <1>3. ConnInv'
    <2>1. Others(c)
      BY <1>u, <1>s DEF Others, ProxyInv, LegTypes, ReadRequest, Resolve, Dial
    <2>d. DialInv(c) /\ TellInv(c) /\ BodyInv(c)
      BY DEF ProxyInv, ConnInv
    <2>2. DialInv(c)'
      <3>1. CASE ReadRequest(c)
        BY <2>d, <3>1, <1>s DEF ReadRequest, At, DialInv, ProxyInv, LegTypes
      <3>2. CASE Resolve(c)
        BY <2>d, <3>2, SafeAnswers DEF Resolve, At, DialInv, ProxyInv, LegTypes
      <3>3. CASE Dial(c)
        <4>1. answers[c] \in Seq(Public) /\ dialed[c] = "none"
          BY <2>d, <3>3 DEF Dial, DialInv
        <4>2. CASE UNCHANGED stage
          <5>1. answers' = [answers EXCEPT ![c] = Tail(answers[c])] /\ dialed' = dialed
                /\ answers[c] # <<>>
            BY <3>3, <4>2 DEF Dial, At, ProxyInv, LegTypes
          <5>2. answers'[c] \in Seq(Public)
            BY <4>1, <5>1 DEF ProxyInv, LegTypes
          <5> QED BY <4>1, <5>1, <5>2 DEF DialInv
        <4>3. CASE stage' # stage
          <5>1. stage'[c] = "head" \/ (stage'[c] = "report" /\ dialed' = dialed)
            BY <3>3, <4>3 DEF Dial, At, ProxyInv, LegTypes
          <5>2. stage'[c] = "head" =>
                  answers[c] # <<>> /\ dialed' = [dialed EXCEPT ![c] = Head(answers[c])]
            BY <3>3, <4>3 DEF Dial, At, ProxyInv, LegTypes
          <5>3. stage'[c] = "head" => dialed'[c] \in Public
            BY <4>1, <5>2 DEF ProxyInv, LegTypes
          <5> QED BY <4>1, <5>1, <5>3 DEF DialInv
        <4> QED BY <4>2, <4>3
      <3> QED BY <3>1, <3>2, <3>3
    <2>3. TellInv(c)'
      BY <1>u, <1>f, <1>t, <2>d DEF TellInv
    <2>4. BodyInv(c)'
      BY <1>u, <1>f, <1>t, <2>d DEF BodyInv, TellInv
    <2> QED BY <2>1, <2>2, <2>3, <2>4, OthersKept
  <1> QED BY <1>1, <1>2, <1>3 DEF ProxyInv

LEMMA ToldMore ==
    ASSUME told \in [Clients -> SUBSET Words], NEW c \in Clients, NEW word \in Words,
           told' = [told EXCEPT ![c] = told[c] \union {word}]
    PROVE  told' \in [Clients -> SUBSET Words]
  <1>1. told[c] \union {word} \in SUBSET Words
    OBVIOUS
  <1> QED BY <1>1

LEMMA TellTypes ==
    ASSUME ProxyInv, NEW c \in Clients, NEW s, told' = [told EXCEPT ![c] = s]
    PROVE  told'[c] = s /\ \A b \in Clients \ {c} : told'[b] = told[b]
  BY DEF ProxyInv, LegTypes

\* The head of the answer, of a tunnel or of a plain exchange.
LEMMA HeadInv ==
    ASSUME ProxyInv, NEW c \in Clients, Establish(c) \/ ForwardHead(c) \/ HeadFails(c)
    PROVE  ProxyInv'
  <1>u. UNCHANGED <<admitted, exchange, answers, carried, flow>>
    BY DEF Establish, ForwardHead, HeadFails, serverVars
  <1>f. stage[c] = "head"
    BY DEF Establish, ForwardHead, HeadFails, At
  <1>s. stage' = stage \/ \E to \in {"relay", "report"} : stage' = [stage EXCEPT ![c] = to]
    BY DEF Establish, ForwardHead, HeadFails, At
  <1>t. stage'[c] \in {"head", "relay", "report"}
    BY <1>f, <1>s DEF ProxyInv, LegTypes
  <1>w. told' = told \/ told' = [told EXCEPT ![c] = told[c] \union {"answer"}]
    BY DEF Establish, ForwardHead, HeadFails, Say, ProxyInv, LegTypes
  <1>b. \/ body' = body
        \/ /\ stage'[c] = "relay" /\ exchange[c] = "plain"
           /\ \E new \in [framing : Framings, size : 0..(MaxUnits + 1)] :
                  body' = [body EXCEPT ![c] = new]
    BY DEF Establish, ForwardHead, HeadFails, At, ProxyInv, LegTypes
  <1>d. dialed' = dialed \/ (stage'[c] = "report" /\ dialed' = [dialed EXCEPT ![c] = "none"])
    BY DEF Establish, ForwardHead, HeadFails, At, Drop, ProxyInv, LegTypes
  <1>1. CountInv'
    BY <1>u, <1>f, <1>s, HandlersKept DEF Handling
  <1>2. LegTypes'
    <2>1. stage' \in [Clients -> Stages]
      BY <1>s DEF ProxyInv, LegTypes, Stages
    <2>2. body' \in [Clients -> [framing : Framings, size : 0..(MaxUnits + 1)]]
      BY <1>b DEF ProxyInv, LegTypes
    <2>3. told' \in [Clients -> SUBSET Words]
      BY <1>w, ToldMore DEF ProxyInv, LegTypes, Words
    <2>4. DOMAIN dialed' = Clients
      BY <1>d DEF ProxyInv, LegTypes
    <2> QED BY <1>u, <2>1, <2>2, <2>3, <2>4 DEF ProxyInv, LegTypes
  <1>3. ConnInv'
    <2>1. Others(c)
      BY <1>u, <1>s, <1>w, <1>b, <1>d DEF Others, ProxyInv, LegTypes
    <2>i. DialInv(c) /\ TellInv(c) /\ BodyInv(c)
      BY DEF ProxyInv, ConnInv
    <2>2. DialInv(c)'
      BY <1>t, <1>d, <1>f, <2>i DEF DialInv, ProxyInv, LegTypes
    <2>3. told[c] \subseteq told'[c] /\ told'[c] \subseteq told[c] \union {"answer"}
      BY <1>w, TellTypes
    <2>4. TellInv(c)'
      BY <1>f, <1>t, <2>3, <2>i DEF TellInv
    <2>5. BodyInv(c)'
      BY <1>u, <1>f, <1>t, <1>b, <2>3, <2>i DEF BodyInv, TellInv
    <2> QED BY <2>1, <2>2, <2>4, <2>5, OthersKept
  <1> QED BY <1>1, <1>2, <1>3 DEF ProxyInv

\* A unit or the end of one direction.
LEMMA RelayUnitInv ==
    ASSUME ProxyInv, NEW c \in Clients, NEW d \in Directions, Relay(c, d) \/ TunnelEof(c, d)
    PROVE  ProxyInv'
  <1>u. UNCHANGED <<admitted, stage, exchange, answers, dialed, body, told>>
    BY DEF Relay, TunnelEof, serverVars
  <1>f. stage[c] = "relay"
    BY DEF Relay, TunnelEof
  <1>1. CountInv'
    BY <1>u, <1>f, HandlersKept DEF Handling
  <1>2. LegTypes'
    <2>1. carried' \in [Clients -> [Directions -> 0..MaxUnits]]
      <3>1. carried' = carried \/ (carried[c][d] < MaxUnits
                                   /\ carried' = [carried EXCEPT ![c][d] = carried[c][d] + 1])
        BY DEF Relay, TunnelEof, BudgetLeft, ProxyInv, LegTypes
      <3>2. /\ carried \in [Clients -> [Directions -> 0..MaxUnits]]
            /\ carried[c][d] \in 0..MaxUnits
        BY DEF ProxyInv, LegTypes
      <3> QED BY <3>1, <3>2, ProxyAssumption
    <2>2. flow' \in [Clients -> [Directions -> {"open", "eof", "failed"}]]
      <3>1. flow' = flow \/ \E end \in {"eof", "failed"} : flow' = [flow EXCEPT ![c][d] = end]
        BY DEF Relay, TunnelEof
      <3>2. flow \in [Clients -> [Directions -> {"open", "eof", "failed"}]]
        BY DEF ProxyInv, LegTypes
      <3>3. ASSUME NEW end \in {"eof", "failed"}
            PROVE  [flow EXCEPT ![c][d] = end] \in
                       [Clients -> [Directions -> {"open", "eof", "failed"}]]
        BY <3>2
      <3> QED BY <3>1, <3>2, <3>3
    <2> QED BY <1>u, <2>1, <2>2 DEF ProxyInv, LegTypes
  <1>3. ConnInv'
    <2>1. Others(c)
      BY <1>u DEF Others, ProxyInv, LegTypes, Relay, TunnelEof
    <2>2. DialInv(c)' /\ TellInv(c)' /\ BodyInv(c)'
      BY <1>u, <1>f DEF ProxyInv, ConnInv, DialInv, TellInv, BodyInv
    <2> QED BY <2>1, <2>2, OthersKept
  <1> QED BY <1>1, <1>2, <1>3 DEF ProxyInv

\* The ways an exchange ends, and the report of a failure.
LEMMA EndInv ==
    ASSUME ProxyInv, NEW c \in Clients,
           TunnelEnds(c) \/ ExchangeEnds(c) \/ Report(c) \/ TotalTimeout(c)
    PROVE  ProxyInv'
  <1>u. /\ UNCHANGED <<admitted, exchange, answers, body, carried, flow>>
        /\ dialed' = [dialed EXCEPT ![c] = "none"]
    BY DEF TunnelEnds, ExchangeEnds, Report, TotalTimeout, serverVars, Drop
  <1>f. stage[c] \in Handling /\ stage[c] # "closing"
    BY DEF TunnelEnds, ExchangeEnds, Report, TotalTimeout, At, Handling
  <1>s. \E to \in {"report", "closing"} : stage' = [stage EXCEPT ![c] = to]
    BY DEF TunnelEnds, ExchangeEnds, Report, TotalTimeout, At
  <1>t. stage'[c] \in {"report", "closing"} /\ dialed'[c] = "none"
    BY <1>u, <1>s DEF ProxyInv, LegTypes
  <1>w. \/ told' = told
        \/ \E more \in {"end", "refusal"} :
              /\ told' = [told EXCEPT ![c] = told[c] \union {more}] /\ stage'[c] = "closing"
              /\ more = "refusal" => "answer" \notin told[c]
              /\ more = "end" => Complete(c) \/ body[c].framing \notin {"length", "chunked"}
    <2>i. BodyInv(c) /\ c \in DOMAIN told /\ told = [b \in Clients |-> told[b]]
      BY DEF ProxyInv, ConnInv, LegTypes
    <2>1. CASE TunnelEnds(c)
      BY <2>1, <2>i DEF TunnelEnds, Say, At, BodyInv, NoBody, ProxyInv, LegTypes
    <2>2. CASE ExchangeEnds(c)
      BY <2>2, <2>i DEF ExchangeEnds, Say, At, ProxyInv, LegTypes
    <2>3. CASE Report(c)
      <3>1. PICK sent \in {Refusal(c), {}} : told' = [told EXCEPT ![c] = told[c] \union sent]
        BY <2>3 DEF Report
      <3>2. stage'[c] = "closing"
        BY <2>3 DEF Report, At, ProxyInv, LegTypes
      <3>3. CASE sent = {}
        <4>1. told' = told
          BY <3>1, <3>3, <2>i
        <4> QED BY <4>1
      <3>4. CASE sent # {}
        <4>1. sent = {"refusal"} /\ "answer" \notin told[c]
          BY <3>4 DEF Refusal
        <4> QED BY <3>1, <3>2, <4>1
      <3> QED BY <3>3, <3>4
    <2>4. CASE TotalTimeout(c)
      BY <2>4 DEF TotalTimeout
    <2> QED BY <2>1, <2>2, <2>3, <2>4
  <1>1. CountInv'
    BY <1>u, <1>f, <1>s, HandlersKept DEF Handling
  <1>2. LegTypes'
    <2>1. stage' \in [Clients -> Stages] /\ DOMAIN dialed' = Clients
      BY <1>u, <1>s DEF ProxyInv, LegTypes, Stages
    <2>2. told' \in [Clients -> SUBSET Words]
      BY <1>w, ToldMore DEF ProxyInv, LegTypes, Words
    <2> QED BY <1>u, <2>1, <2>2 DEF ProxyInv, LegTypes
  <1>3. ConnInv'
    <2>1. Others(c)
      BY <1>u, <1>s, <1>w DEF Others, ProxyInv, LegTypes
    <2>i. DialInv(c) /\ TellInv(c) /\ BodyInv(c)
      BY DEF ProxyInv, ConnInv
    <2>2. DialInv(c)'
      BY <1>t DEF DialInv
    <2>3. CASE told' = told
      BY <1>u, <1>t, <1>f, <2>1, <2>i, <2>2, <2>3, OthersKept DEF TellInv, BodyInv, Complete
    <2>4. ASSUME NEW more \in {"end", "refusal"},
                 told' = [told EXCEPT ![c] = told[c] \union {more}], stage'[c] = "closing",
                 more = "refusal" => "answer" \notin told[c],
                 more = "end" => Complete(c) \/ body[c].framing \notin {"length", "chunked"}
          PROVE  ConnInv'
      <3>1. told'[c] = told[c] \union {more}
        BY <2>4, TellTypes
      <3>2. "refusal" \notin told[c] /\ "end" \notin told[c]
        BY <1>f, <2>i DEF TellInv
      <3>3. TellInv(c)'
        BY <2>4, <3>1, <3>2, <2>i DEF TellInv
      <3>4. BodyInv(c)'
        BY <1>u, <2>4, <3>1, <3>2, <2>i DEF BodyInv, Complete
      <3> QED BY <2>1, <2>2, <3>3, <3>4, OthersKept
    <2> QED BY <1>w, <2>3, <2>4
  <1> QED BY <1>1, <1>2, <1>3 DEF ProxyInv

LEMMA CloseConnectionInv ==
    ASSUME ProxyInv, NEW c \in Clients, CloseConnection(c) PROVE ProxyInv'
  <1>s. /\ stage[c] = "closing" /\ stage' = [stage EXCEPT ![c] = "none"]
        /\ admitted' = admitted - 1 /\ UNCHANGED dialed
    BY DEF CloseConnection, At
  <1>1. CountInv'
    <2>1. Handlers' = Handlers \ {c} /\ c \in Handlers
      BY <1>s DEF ProxyInv, LegTypes, Handlers, Handling
    <2>2. IsFiniteSet(Handlers') /\ Cardinality(Handlers') = Cardinality(Handlers) - 1
      BY <2>1, FS_RemoveElement DEF ProxyInv, CountInv
    <2>3. Cardinality(Handlers) \in Nat
      BY FS_CardinalityType DEF ProxyInv, CountInv
    <2> QED BY <1>s, <2>2, <2>3, ProxyAssumption DEF ProxyInv, CountInv
  <1>2. LegTypes'
    <2>1. NoBody \in [framing : Framings, size : 0..(MaxUnits + 1)]
          /\ Still \in [Directions -> 0..MaxUnits]
          /\ Open \in [Directions -> {"open", "eof", "failed"}]
      BY ProxyAssumption DEF NoBody, Framings, Still, Open
    <2> QED BY <1>s, <2>1 DEF CloseConnection, ProxyInv, LegTypes, Stages
  <1>3. ConnInv'
    <2>1. Others(c)
      BY <1>s DEF CloseConnection, Others, ProxyInv, LegTypes
    <2>2. /\ stage'[c] = "none" /\ told'[c] = {} /\ body'[c] = NoBody /\ dialed'[c] = "none"
      BY <1>s DEF CloseConnection, ProxyInv, LegTypes, ConnInv, DialInv
    <2>3. DialInv(c)' /\ TellInv(c)' /\ BodyInv(c)'
      BY <2>2 DEF DialInv, TellInv, BodyInv
    <2> QED BY <2>1, <2>3, OthersKept
  <1> QED BY <1>1, <1>2, <1>3 DEF ProxyInv

LEMMA ProxyNextInv == ProxyInv /\ [ProxyNext]_proxyVars => ProxyInv'
  <1> SUFFICES ASSUME ProxyInv, [ProxyNext]_proxyVars PROVE ProxyInv'
    OBVIOUS
  <1> QED BY ServerInv, AcceptInv, LegInv, HeadInv, RelayUnitInv, EndInv, CloseConnectionInv
          DEF ProxyNext

\* The connections of the egress proxy, its handlers and its budgets stay within
\* ProxyInv, however many there are.
THEOREM ProxyInvariance == ProxySpec => []ProxyInv
  BY ProxyInitInv, ProxyNextInv, PTL DEF ProxySpec

LEMMA ProxyInvBounds == ProxyInv => EgressBounded
  <1> SUFFICES ASSUME ProxyInv PROVE EgressBounded
    OBVIOUS
  <1>1. admitted = Cardinality({c \in Clients : stage[c] \in Handling})
        /\ admitted <= MaxConnections
    BY DEF ProxyInv, CountInv, Handlers
  <1>2. ASSUME NEW c \in Clients, NEW d \in Directions PROVE carried[c][d] <= MaxUnits
    BY <1>2, ProxyAssumption DEF ProxyInv, LegTypes
  <1>3. ASSUME NEW c \in Clients
        PROVE  /\ dialed[c] # "none" =>
                    dialed[c] \in Public /\ stage[c] \in {"head", "relay", "report"}
               /\ ~({"answer", "refusal"} \subseteq told[c])
               /\ "end" \in told[c] /\ body[c].framing \in {"length", "chunked"} => Complete(c)
    BY <1>3 DEF ProxyInv, ConnInv, DialInv, TellInv, BodyInv
  <1> QED BY <1>1, <1>2, <1>3 DEF EgressBounded

-----------------------------------------------------------------------------
(***************************************************************************)
(* The relay to the socket                                                 *)
(***************************************************************************)
Admitted == {p \in Peers : at[p] \in Relaying}

RelayCount ==
    /\ IsFiniteSet(Admitted)
    /\ relays = Cardinality(Admitted) /\ relays <= MaxRelays

PumpTypes ==
    /\ at \in [Peers -> {"none", "rejected"} \union Relaying]
    /\ moved \in [Peers -> [Ways -> 0..RelayUnits]]
    /\ quiet \in [Peers -> Nat]
    /\ dog \in [Peers -> [left : Nat, changed : BOOLEAN]]
    /\ DOMAIN ended = Peers

\* The watchdog's clock against that of the activity: it wakes when the whole
\* timeout is over if nothing has moved since it fell asleep, and not later than
\* that if something has.
DogInv(p) ==
    /\ at[p] = "pumping" =>
         /\ quiet[p] + dog[p].left <= IdleTicks
         /\ ~dog[p].changed => quiet[p] + dog[p].left = IdleTicks
    /\ at[p] = "leaving" /\ ended[p] = "idle" => quiet[p] = IdleTicks

DogsInv == \A p \in Peers : DogInv(p)
RelayInv == RelayCount /\ PumpTypes /\ DogsInv

LEMMA RelayInitInv == RelayInit => RelayInv
  <1> SUFFICES ASSUME RelayInit PROVE RelayInv
    OBVIOUS
  <1>1. RelayCount
    <2>1. Admitted = {}
      BY DEF RelayInit, Admitted, Relaying
    <2> QED BY <2>1, FS_EmptySet, RelayAssumption DEF RelayCount, RelayInit
  <1>2. PumpTypes
    BY RelayAssumption DEF RelayInit, PumpTypes, Asleep, Ways
  <1>3. DogsInv
    BY DEF RelayInit, DogsInv, DogInv
  <1> QED BY <1>1, <1>2, <1>3 DEF RelayInv

\* The other connections' watchdogs see nothing of a step of this one.
Apart(p) == \A q \in Peers \ {p} : UNCHANGED <<at[q], quiet[q], dog[q], ended[q]>>

LEMMA DogsKept ==
    ASSUME RelayInv, NEW p \in Peers, Apart(p), DogInv(p)' PROVE DogsInv'
  BY DEF RelayInv, DogsInv, Apart, DogInv

LEMMA ListenerInv ==
    ASSUME RelayInv,
           StartRelay \/ SocketChanges \/ CloseRelay \/ RelayClosed \/ UNCHANGED relayVars
    PROVE  RelayInv'
  <1>1. UNCHANGED <<relays, at, moved, quiet, dog, ended>>
    BY DEF StartRelay, SocketChanges, CloseRelay, RelayClosed, relayVars, flowVars
  <1> QED BY <1>1 DEF RelayInv, RelayCount, PumpTypes, DogsInv, DogInv, Admitted

LEMMA AdmitInv == ASSUME RelayInv, NEW p \in Peers, Admit(p) \/ RejectPeer(p) PROVE RelayInv'
  <1>u. UNCHANGED <<moved, quiet, dog, ended>>
    BY DEF Admit, RejectPeer, flowVars
  <1>s. PICK to \in {"none", "rejected", "check"} : at' = [at EXCEPT ![p] = to]
    BY DEF Admit, RejectPeer
  <1>f. at[p] \in {"none", "rejected"}
    BY DEF Admit, RejectPeer
  <1>t. at'[p] = to
    BY <1>s DEF RelayInv, PumpTypes
  <1>1. RelayCount'
    <2>1. CASE to = "check"
      <3>1. ~(relays >= MaxRelays) /\ relays' = relays + 1
        BY <1>t, <2>1 DEF Admit, RejectPeer, RelayInv, PumpTypes
      <3>2. Admitted' = Admitted \union {p} /\ p \notin Admitted
        BY <1>s, <1>f, <2>1 DEF RelayInv, PumpTypes, Admitted, Relaying
      <3>3. IsFiniteSet(Admitted') /\ Cardinality(Admitted') = Cardinality(Admitted) + 1
        BY <3>2, FS_AddElement DEF RelayInv, RelayCount
      <3>4. relays \in Nat
        BY FS_CardinalityType DEF RelayInv, RelayCount
      <3> QED BY <3>1, <3>3, <3>4, RelayAssumption DEF RelayInv, RelayCount
    <2>2. CASE to # "check"
      <3>1. UNCHANGED relays
        BY <1>t, <2>2 DEF Admit, RejectPeer, RelayInv, PumpTypes
      <3>2. Admitted' = Admitted
        BY <1>s, <1>f, <2>2 DEF RelayInv, PumpTypes, Admitted, Relaying
      <3> QED BY <3>1, <3>2 DEF RelayInv, RelayCount
    <2> QED BY <2>1, <2>2
  <1>2. PumpTypes'
    BY <1>u, <1>s DEF RelayInv, PumpTypes, Relaying
  <1>3. DogsInv'
    <2>1. Apart(p) /\ DogInv(p)'
      BY <1>u, <1>s, <1>t DEF Apart, DogInv, RelayInv, PumpTypes
    <2> QED BY <2>1, DogsKept
  <1> QED BY <1>1, <1>2, <1>3 DEF RelayInv

\* A relay that is under way stays counted.
LEMMA StillAdmitted ==
    ASSUME RelayInv, NEW p \in Peers, at[p] \in Relaying, UNCHANGED relays,
           \/ at' = at
           \/ \E to \in Relaying : at' = [at EXCEPT ![p] = to]
    PROVE  RelayCount'
  <1>1. Admitted' = Admitted
    BY DEF RelayInv, PumpTypes, Admitted
  <1> QED BY <1>1 DEF RelayInv, RelayCount

\* The check and the connection, and every end that is not the watchdog's.
LEMMA LegOfRelayInv ==
    ASSUME RelayInv, NEW p \in Peers,
           CheckSocket(p) \/ ConnectUpstream(p) \/ PumpsEnd(p) \/ Expire(p) \/ CancelRelay(p)
    PROVE  RelayInv'
  <1>f. at[p] \in Relaying /\ UNCHANGED relays
    BY DEF CheckSocket, ConnectUpstream, PumpsEnd, Expire, CancelRelay, Relaying
  <1>s. \/ at' = [at EXCEPT ![p] = "connect"] /\ UNCHANGED <<moved, quiet, dog, ended>>
        \/ /\ at' = [at EXCEPT ![p] = "pumping"] /\ UNCHANGED ended
           /\ moved' = [moved EXCEPT ![p] = [w \in Ways |-> 0]]
           /\ quiet' = [quiet EXCEPT ![p] = 0] /\ dog' = [dog EXCEPT ![p] = Asleep]
        \/ /\ at' = [at EXCEPT ![p] = "leaving"] /\ UNCHANGED <<moved, quiet, dog>>
           /\ \E why \in {"unsafe", "failed", "completed", "canceled"} :
                 ended' = [ended EXCEPT ![p] = why]
    BY DEF CheckSocket, ConnectUpstream, PumpsEnd, Expire, CancelRelay, Leave
  <1>1. RelayCount'
    BY <1>f, <1>s, StillAdmitted DEF Relaying
  <1>2. PumpTypes'
    <2>1. /\ Asleep \in [left : Nat, changed : BOOLEAN]
          /\ [w \in Ways |-> 0] \in [Ways -> 0..RelayUnits]
      BY RelayAssumption DEF Asleep
    <2>2. at' \in [Peers -> {"none", "rejected"} \union Relaying] /\ DOMAIN ended' = Peers
      BY <1>s DEF RelayInv, PumpTypes, Relaying
    <2>3. moved' \in [Peers -> [Ways -> 0..RelayUnits]]
      BY <1>s, <2>1 DEF RelayInv, PumpTypes
    <2>4. quiet' \in [Peers -> Nat] /\ dog' \in [Peers -> [left : Nat, changed : BOOLEAN]]
      <3>1. quiet' = quiet \/ quiet' = [quiet EXCEPT ![p] = 0]
        BY <1>s
      <3>2. dog' = dog \/ dog' = [dog EXCEPT ![p] = Asleep]
        BY <1>s
      <3>3. quiet \in [Peers -> Nat] /\ dog \in [Peers -> [left : Nat, changed : BOOLEAN]]
        BY DEF RelayInv, PumpTypes
      <3>4. quiet' \in [Peers -> Nat]
        BY <3>1, <3>3
      <3>5. dog' \in [Peers -> [left : Nat, changed : BOOLEAN]]
        BY <2>1, <3>2, <3>3
      <3> QED BY <3>4, <3>5
    <2> QED BY <2>2, <2>3, <2>4 DEF PumpTypes
  <1>3. Apart(p)
    BY <1>s DEF Apart, RelayInv, PumpTypes
  <1>4. DogInv(p)'
    BY <1>s, RelayAssumption DEF DogInv, RelayInv, PumpTypes, Asleep
  <1> QED BY <1>1, <1>2, <1>3, <1>4, DogsKept DEF RelayInv

LEMMA TouchInv ==
    ASSUME RelayInv, NEW p \in Peers, at[p] = "pumping", Touch(p), UNCHANGED <<at, ended>>
    PROVE  /\ DogsInv' /\ quiet' \in [Peers -> Nat]
           /\ dog' \in [Peers -> [left : Nat, changed : BOOLEAN]]
  <1>1. dog[p] \in [left : Nat, changed : BOOLEAN] /\ quiet[p] \in Nat
    BY DEF RelayInv, PumpTypes
  <1>2. quiet' \in [Peers -> Nat] /\ dog' \in [Peers -> [left : Nat, changed : BOOLEAN]]
    BY DEF Touch, RelayInv, PumpTypes
  <1>3. quiet'[p] = 0 /\ dog'[p].left = dog[p].left /\ dog'[p].changed
    BY DEF Touch, RelayInv, PumpTypes
  <1>4. Apart(p)
    BY DEF Apart, Touch, RelayInv, PumpTypes
  <1>5. DogInv(p)'
    BY <1>1, <1>3, RelayAssumption DEF DogInv, RelayInv, DogsInv
  <1> QED BY <1>2, <1>4, <1>5, DogsKept

LEMMA PumpInv ==
    ASSUME RelayInv, NEW p \in Peers, NEW w \in Ways,
           Pump(p, w) \/ PumpEof(p, w) \/ PumpBreaks(p, w)
    PROVE  RelayInv'
  <1>f. at[p] \in Relaying /\ at[p] = "pumping" /\ UNCHANGED <<relays, at, ended>>
    BY DEF Pump, PumpEof, PumpBreaks, Relaying
  <1>t. Touch(p) \/ UNCHANGED <<quiet, dog>>
    BY DEF Pump, PumpEof, PumpBreaks
  <1>1. RelayCount'
    BY <1>f, StillAdmitted
  <1>2. moved' \in [Peers -> [Ways -> 0..RelayUnits]]
    <2>1. moved' = moved \/ (moved[p][w] < RelayUnits
                             /\ moved' = [moved EXCEPT ![p][w] = moved[p][w] + 1])
      BY DEF Pump, PumpEof, PumpBreaks, RelayInv, PumpTypes
    <2>2. moved \in [Peers -> [Ways -> 0..RelayUnits]] /\ moved[p][w] \in 0..RelayUnits
      BY DEF RelayInv, PumpTypes
    <2> QED BY <2>1, <2>2, RelayAssumption
  <1>3. CASE Touch(p)
    BY <1>1, <1>2, <1>3, <1>f, TouchInv DEF RelayInv, PumpTypes
  <1>4. CASE UNCHANGED <<quiet, dog>>
    BY <1>1, <1>2, <1>4, <1>f DEF RelayInv, PumpTypes, DogsInv, DogInv
  <1> QED BY <1>t, <1>3, <1>4

\* The watchdog goes back to sleep for the rest, or ends a silence that is over.
LEMMA DogWakesInv == ASSUME RelayInv, NEW p \in Peers, DogWakes(p) PROVE RelayInv'
  <1>f. at[p] \in Relaying /\ at[p] = "pumping" /\ UNCHANGED <<relays, moved, quiet>>
    BY DEF DogWakes, Relaying
  <1>q. /\ dog[p] \in [left : Nat, changed : BOOLEAN] /\ quiet[p] \in Nat /\ IdleTicks \in Nat
        /\ DogInv(p)
    BY RelayAssumption DEF RelayInv, PumpTypes, DogsInv
  <1>1. CASE dog[p].changed
    <2>1. /\ dog' = [dog EXCEPT ![p] = [left |-> IdleTicks - quiet[p], changed |-> FALSE]]
          /\ UNCHANGED <<at, ended>>
      BY <1>1 DEF DogWakes, Rearmed
    <2>2. IdleTicks - quiet[p] \in Nat
      BY <1>f, <1>q DEF DogInv
    <2>3. RelayCount'
      BY <1>f, <2>1, StillAdmitted
    <2>4. PumpTypes'
      BY <1>f, <2>1, <2>2 DEF RelayInv, PumpTypes
    <2>5. Apart(p)
      BY <1>f, <2>1 DEF Apart, RelayInv, PumpTypes
    <2>6. DogInv(p)'
      BY <1>f, <1>q, <2>1, <2>2 DEF DogInv, RelayInv, PumpTypes
    <2> QED BY <2>3, <2>4, <2>5, <2>6, DogsKept DEF RelayInv
  <1>2. CASE ~dog[p].changed
    <2>1. /\ dog[p].left = 0 /\ UNCHANGED dog
          /\ at' = [at EXCEPT ![p] = "leaving"] /\ ended' = [ended EXCEPT ![p] = "idle"]
      BY <1>2 DEF DogWakes, Rearmed, Leave
    <2>2. quiet[p] = IdleTicks
      BY <1>f, <1>q, <1>2, <2>1 DEF DogInv
    <2>3. RelayCount'
      BY <1>f, <2>1, StillAdmitted DEF Relaying
    <2>4. PumpTypes'
      BY <1>f, <2>1 DEF RelayInv, PumpTypes, Relaying
    <2>5. Apart(p)
      BY <1>f, <2>1 DEF Apart, RelayInv, PumpTypes
    <2>6. DogInv(p)'
      BY <1>f, <2>1, <2>2 DEF DogInv, RelayInv, PumpTypes
    <2> QED BY <2>3, <2>4, <2>5, <2>6, DogsKept DEF RelayInv
  <1> QED BY <1>1, <1>2

LEMMA RelayTickInv == ASSUME RelayInv, RelayTick PROVE RelayInv'
  <1>u. UNCHANGED <<relays, at, moved, ended>>
    BY DEF RelayTick
  <1>1. RelayCount'
    BY <1>u DEF RelayInv, RelayCount, Admitted
  <1>2. ASSUME NEW p \in Peers
        PROVE  /\ quiet'[p] \in Nat /\ dog'[p] \in [left : Nat, changed : BOOLEAN]
               /\ DogInv(p)'
    <2>1. /\ dog[p] \in [left : Nat, changed : BOOLEAN]
          /\ quiet[p] \in Nat /\ IdleTicks \in Nat /\ DogInv(p)
      BY RelayAssumption DEF RelayInv, PumpTypes, DogsInv
    <2>2. CASE at[p] = "pumping"
      <3>1. /\ quiet'[p] = quiet[p] + 1 /\ dog[p].left > 0
            /\ dog'[p] = [dog[p] EXCEPT !.left = dog[p].left - 1]
        BY <2>2 DEF RelayTick
      <3>2. dog'[p] = [left |-> dog[p].left - 1, changed |-> dog[p].changed]
        BY <2>1, <3>1
      <3>3. dog[p].left - 1 \in Nat /\ dog[p].changed \in BOOLEAN
        BY <2>1, <3>1
      <3>4. quiet'[p] \in Nat /\ dog'[p] \in [left : Nat, changed : BOOLEAN]
        BY <2>1, <3>1, <3>2, <3>3
      <3>5. DogInv(p)'
        BY <1>u, <2>1, <2>2, <3>1, <3>2, <3>3 DEF DogInv
      <3> QED BY <3>4, <3>5
    <2>3. CASE at[p] # "pumping"
      <3>1. quiet'[p] = quiet[p] /\ dog'[p] = dog[p]
        BY <2>3 DEF RelayTick
      <3> QED BY <1>u, <2>1, <2>3, <3>1 DEF DogInv
    <2> QED BY <2>2, <2>3
  <1>3. PumpTypes'
    <2>1. quiet' \in [Peers -> Nat] /\ dog' \in [Peers -> [left : Nat, changed : BOOLEAN]]
      BY <1>2 DEF RelayTick
    <2> QED BY <1>u, <2>1 DEF RelayInv, PumpTypes
  <1> QED BY <1>1, <1>2, <1>3 DEF RelayInv, DogsInv

LEMMA LeaveRelayInv == ASSUME RelayInv, NEW p \in Peers, LeaveRelay(p) PROVE RelayInv'
  <1>s. /\ at[p] = "leaving" /\ at' = [at EXCEPT ![p] = "none"] /\ relays' = relays - 1
        /\ moved' = [moved EXCEPT ![p] = [w \in Ways |-> 0]]
        /\ quiet' = [quiet EXCEPT ![p] = 0] /\ dog' = [dog EXCEPT ![p] = Asleep]
        /\ ended' = [ended EXCEPT ![p] = "-"]
    BY DEF LeaveRelay
  <1>1. RelayCount'
    <2>1. Admitted' = Admitted \ {p} /\ p \in Admitted
      BY <1>s DEF RelayInv, PumpTypes, Admitted, Relaying
    <2>2. IsFiniteSet(Admitted') /\ Cardinality(Admitted') = Cardinality(Admitted) - 1
      BY <2>1, FS_RemoveElement DEF RelayInv, RelayCount
    <2>3. Cardinality(Admitted) \in Nat
      BY FS_CardinalityType DEF RelayInv, RelayCount
    <2> QED BY <1>s, <2>2, <2>3, RelayAssumption DEF RelayInv, RelayCount
  <1>2. PumpTypes'
    <2>1. /\ Asleep \in [left : Nat, changed : BOOLEAN]
          /\ [w \in Ways |-> 0] \in [Ways -> 0..RelayUnits]
      BY RelayAssumption DEF Asleep
    <2> QED BY <1>s, <2>1 DEF RelayInv, PumpTypes
  <1>3. Apart(p) /\ DogInv(p)'
    BY <1>s DEF Apart, DogInv, RelayInv, PumpTypes
  <1> QED BY <1>1, <1>2, <1>3, DogsKept DEF RelayInv

LEMMA RelayNextInv == RelayInv /\ [RelayNext]_relayVars => RelayInv'
  <1> SUFFICES ASSUME RelayInv, [RelayNext]_relayVars PROVE RelayInv'
    OBVIOUS
  <1> QED BY ListenerInv, AdmitInv, LegOfRelayInv, PumpInv, DogWakesInv, RelayTickInv,
             LeaveRelayInv DEF RelayNext

\* The relay's connections, its pumps and the watchdog's clock stay within
\* RelayInv.
THEOREM RelayInvariance == RelaySpec => []RelayInv
  BY RelayInitInv, RelayNextInv, PTL DEF RelaySpec

LEMMA RelayInvSound == RelayInv => RelaySound
  <1> SUFFICES ASSUME RelayInv PROVE RelaySound
    OBVIOUS
  <1>1. relays = Cardinality({p \in Peers : at[p] \in Relaying}) /\ relays <= MaxRelays
    BY DEF RelayInv, RelayCount, Admitted
  <1>2. ASSUME NEW p \in Peers, NEW w \in Ways PROVE moved[p][w] <= RelayUnits
    BY <1>2, RelayAssumption DEF RelayInv, PumpTypes
  <1>3. \A p \in Peers : at[p] = "leaving" /\ ended[p] = "idle" => quiet[p] = IdleTicks
    BY DEF RelayInv, DogsInv, DogInv
  <1> QED BY <1>1, <1>2, <1>3 DEF RelaySound

-----------------------------------------------------------------------------
(***************************************************************************)
(* Short links: the requests                                               *)
(***************************************************************************)
WriteRecord == [nonce : Nonces \union {0}, now : Nat, lane : Lanes \union {0}]

\* The last moment at which a frame is taken.
Until(n) == Expires(n) + Skew
Holds(l, n) == lane[l].step = "consumed" /\ lane[l].nonce = n

LinkTypes ==
    /\ time \in Nat /\ time <= MaxClock /\ drift \in (-Skew)..Skew
    /\ frames \in [Nonces -> Int] /\ \A n \in Nonces : frames[n] <= MaxClock + Skew
    /\ lane \in [Lanes -> [step : Steps, nonce : Nonces \union {0}, answer : Answers]]
    /\ writer \in [ReplaySlots -> WriteRecord]
    /\ markers \in [Nonces -> Int] /\ fetched \in [Nonces -> Nat]

\* The frames that are under way were issued.
Issued(n) == n \in Nonces /\ frames[n] # Unsent

TicketInv ==
    /\ ticket \in [nonce : Nonces \union {0}, lane : Lanes \union {0}]
    /\ ticket.nonce # 0 => Issued(ticket.nonce)

LaneInv(l) == lane[l].step \in {"consuming", "consumed"} => Issued(lane[l].nonce)

\* A replay worker was told a time that has been; the connection that waits for
\* it, if there is one, waits for this worker alone and with this frame.
WriterInv(s) ==
    \/ writer[s] = NoWrite
    \/ /\ Issued(writer[s].nonce) /\ writer[s].now <= time
       /\ writer[s].lane # 0 => lane[writer[s].lane].step = "consuming"
                             /\ lane[writer[s].lane].nonce = writer[s].nonce

WritersApart ==
    \A s, t \in ReplaySlots : s # t /\ writer[s].lane # 0 => writer[s].lane # writer[t].lane

\* As long as a frame may still be taken, one connection at most is entitled to
\* fetch for it, none once it was fetched, and the marker of its nonce stands.
NonceInv(n) ==
    /\ fetched[n] \in {0, 1}
    /\ frames[n] = Unsent => fetched[n] = 0
    /\ time <= Until(n) =>
         /\ (fetched[n] = 1 \/ \E l \in Lanes : Holds(l, n)) => markers[n] >= Until(n)
         /\ fetched[n] = 1 => \A l \in Lanes : ~Holds(l, n)
         /\ \A l, k \in Lanes : Holds(l, n) /\ Holds(k, n) => l = k

RequestInv ==
    /\ LinkTypes /\ TicketInv /\ WritersApart
    /\ \A l \in Lanes : LaneInv(l)
    /\ \A s \in ReplaySlots : WriterInv(s)
    /\ \A n \in Nonces : NonceInv(n)

LEMMA LinkConstants ==
    /\ MaxRedirects \in Nat \ {0} /\ MaxDns \in Nat
    /\ Skew \in Nat /\ Validity \in Nat \ {0} /\ MaxClock \in Nat /\ MaxRepeats \in Nat
    /\ Nonces \subseteq Nat \ {0} /\ ReplaySlots \subseteq Nat /\ 0 \notin Lanes
  BY ShortLinkAssumption

LEMMA LastMoment ==
    ASSUME LinkTypes, NEW n \in Nonces
    PROVE  /\ Until(n) \in Int /\ frames[n] \in Int /\ markers[n] \in Int /\ time \in Nat
           /\ Forever >= Until(n) /\ Forever \in Int /\ Expires(n) \in Int
  BY LinkConstants DEF LinkTypes, WriteRecord, Until, Expires, Forever

LEMMA RequestInit == LinkInit => RequestInv
  <1> SUFFICES ASSUME LinkInit PROVE RequestInv
    OBVIOUS
  <1>1. LinkTypes
    <2>1. NoLane \in [step : Steps, nonce : Nonces \union {0}, answer : Answers]
      BY DEF NoLane, Steps, Answers
    <2>2. NoWrite \in WriteRecord
      BY DEF NoWrite, WriteRecord
    <2>3. Unsent \in Int /\ Unsent <= MaxClock + Skew /\ Absent \in Int
      BY LinkConstants DEF Unsent, Absent
    <2> QED BY <2>1, <2>2, <2>3, LinkConstants DEF LinkInit, LinkTypes, WriteRecord
  <1>2. TicketInv
    BY DEF LinkInit, TicketInv, NoTicket
  <1>3. WritersApart /\ \A s \in ReplaySlots : WriterInv(s)
    BY DEF LinkInit, WritersApart, WriterInv, NoWrite
  <1>4. \A l \in Lanes : LaneInv(l) /\ lane[l].step = "idle"
    BY DEF LinkInit, LaneInv, NoLane
  <1>5. \A n \in Nonces : NonceInv(n)
    BY <1>4 DEF LinkInit, NonceInv, Holds
  <1> QED BY <1>1, <1>2, <1>3, <1>4, <1>5 DEF RequestInv

\* The egress service sees nothing of a step of the batch.
LEMMA BatchStepRequest ==
    ASSUME RequestInv, UNCHANGED <<time, drift, frames, lane, writer, markers, fetched>>,
           TicketInv'
    PROVE  RequestInv'
  <1>1. /\ LinkTypes' /\ WritersApart' /\ \A l \in Lanes : LaneInv(l)'
    BY DEF RequestInv, LinkTypes, WriteRecord, WritersApart, LaneInv, Issued
  <1>2. \A s \in ReplaySlots : WriterInv(s)'
    BY DEF RequestInv, WriterInv, Issued
  <1>3. \A n \in Nonces : NonceInv(n)'
    BY DEF RequestInv, NonceInv, Holds, Until, Expires
  <1> QED BY <1>1, <1>2, <1>3 DEF RequestInv

LEMMA ControlRequest ==
    ASSUME RequestInv,
           \/ SubmitBatch \/ NextInput \/ BatchDeadline \/ Approve \/ LookupReturns \/ GiveUp
           \/ Judge \/ StartService \/ CloseService
    PROVE  RequestInv'
  <1>1. UNCHANGED <<time, drift, frames, lane, writer, markers, fetched>>
    BY DEF SubmitBatch, NextInput, BatchDeadline, Approve, LookupReturns, GiveUp, Judge,
           StartService, CloseService, sentVars, egressVars, hopVars, batchVars
  <1>2. ticket' = ticket \/ ticket' = NoTicket
    BY DEF SubmitBatch, NextInput, BatchDeadline, Approve, LookupReturns, GiveUp, Judge,
           StartService, CloseService, Settle, GoesTo, hopVars
  <1>3. TicketInv'
    BY <1>1, <1>2 DEF RequestInv, TicketInv, NoTicket, Issued
  <1> QED BY <1>1, <1>3, BatchStepRequest

\* A fresh nonce was never under way.
LEMMA AskRequest == ASSUME RequestInv, Ask PROVE RequestInv'
  <1>u. UNCHANGED <<time, drift, lane, writer, markers, fetched>>
    BY DEF Ask, egressVars
  <1>1. CASE UNCHANGED frames
    <2>1. \/ ticket' = NoTicket \/ ticket' = ticket
          \/ \E n \in Nonces :
                frames[n] = Unsent /\ frames' = [frames EXCEPT ![n] = time + drift]
      BY DEF Ask, Settle
    <2>2. \A n \in Nonces : frames[n] = Unsent => frames' # [frames EXCEPT ![n] = time + drift]
      BY <1>1, LinkConstants DEF RequestInv, LinkTypes, WriteRecord, Unsent
    <2>3. TicketInv'
      BY <1>1, <2>1, <2>2 DEF RequestInv, TicketInv, NoTicket, Issued
    <2> QED BY <1>u, <1>1, <2>3, BatchStepRequest
  <1>2. ASSUME NEW n \in Nonces, frames[n] = Unsent,
               frames' = [frames EXCEPT ![n] = time + drift],
               ticket' = [nonce |-> n, lane |-> 0]
        PROVE  RequestInv'
    <2>1. /\ frames' \in [Nonces -> Int]
          /\ frames'[n] # Unsent /\ frames'[n] <= MaxClock + Skew
          /\ \A m \in Nonces \ {n} : frames'[m] = frames[m]
      BY <1>2, LinkConstants DEF RequestInv, LinkTypes, WriteRecord, Unsent
    <2>2. LinkTypes'
      BY <1>u, <2>1 DEF RequestInv, LinkTypes, WriteRecord
    <2>3. \A m : Issued(m) => Issued(m)' /\ m # n
      BY <1>2, <2>1 DEF Issued
    <2>4. TicketInv'
      BY <1>2, <2>1 DEF TicketInv, Issued
    <2>5. WritersApart' /\ \A l \in Lanes : LaneInv(l)'
      BY <1>u, <2>3 DEF RequestInv, WritersApart, LaneInv
    <2>6. \A s \in ReplaySlots : WriterInv(s)'
      BY <1>u, <2>3 DEF RequestInv, WriterInv
    <2>7. ASSUME NEW m \in Nonces PROVE NonceInv(m)'
      <3>1. CASE m = n
        <4>1. fetched[m] = 0 /\ \A l \in Lanes : ~Holds(l, m)
          BY <1>2, <3>1, <2>3 DEF RequestInv, NonceInv, LaneInv, Holds
        <4> QED BY <1>u, <4>1 DEF NonceInv, Holds
      <3>2. CASE m # n
        BY <1>u, <2>1, <3>2 DEF RequestInv, NonceInv, Holds, Until, Expires
      <3> QED BY <3>1, <3>2
    <2> QED BY <2>2, <2>4, <2>5, <2>6, <2>7 DEF RequestInv
  <1> QED BY <1>1, <1>2 DEF Ask

\* No connection comes to hold a frame that did not hold it.
NoNewHolder == \A l \in Lanes, n \in Nonces : Holds(l, n)' => Holds(l, n)

LEMMA HoldersKept ==
    ASSUME RequestInv, NoNewHolder, UNCHANGED <<time, frames, markers, fetched>>
    PROVE  \A n \in Nonces : NonceInv(n)'
  <1> SUFFICES ASSUME NEW n \in Nonces PROVE NonceInv(n)'
    OBVIOUS
  <1>1. NonceInv(n)
    BY DEF RequestInv
  <1>2. Until(n)' = Until(n)
    BY DEF Until, Expires
  <1> QED BY <1>1, <1>2 DEF NonceInv, NoNewHolder

LEMMA ReplyTypes ==
    ASSUME RequestInv, NEW l \in Lanes, NEW answer \in Answers, Reply(l, answer)
    PROVE  /\ lane' \in [Lanes -> [step : Steps, nonce : Nonces \union {0}, answer : Answers]]
           /\ lane'[l].step = "answer" /\ \A k \in Lanes \ {l} : lane'[k] = lane[k]
           /\ lane'[l].answer = answer
  <1> DEFINE new == [NoLane EXCEPT !.step = "answer", !.answer = answer]
  <1>1. NoLane \in [step : Steps, nonce : Nonces \union {0}, answer : Answers]
    BY DEF NoLane, Steps, Answers
  <1>2. new \in [step : Steps, nonce : Nonces \union {0}, answer : Answers]
    BY <1>1 DEF Steps
  <1>3. new.step = "answer" /\ new.answer = answer
    BY DEF NoLane
  <1>4. lane' = [lane EXCEPT ![l] = new]
    BY DEF Reply
  <1> HIDE DEF new
  <1> QED BY <1>2, <1>3, <1>4 DEF RequestInv, LinkTypes, WriteRecord

\* A frame that is read reserves a worker, or is refused.
LEMMA FrameRequest ==
    ASSUME RequestInv, NEW l \in Lanes, NEW n \in Nonces, Issued(n), ReceiveFrame(l, n),
           UNCHANGED <<time, drift, frames, markers, fetched>>, TicketInv'
    PROVE  RequestInv'
  <1>i. lane[l].step = "idle"
    BY DEF ReceiveFrame, FreeLane
  <1>w. \A s \in ReplaySlots : writer[s].lane # l
    BY <1>i, LinkConstants DEF RequestInv, WriterInv, NoWrite
  <1>1. CASE Fresh(n) /\ Reservable(n)
    <2>1. PICK s \in FreeWriters :
             writer' = [writer EXCEPT ![s] = [nonce |-> n, now |-> time, lane |-> l]]
      <3>1. FreeWriters \in SUBSET Nat /\ FreeWriters # {}
        BY <1>1, LinkConstants DEF Reservable, FreeWriters
      <3>2. \E s \in FreeWriters : \A t \in FreeWriters : s <= t
        BY <3>1, LeastNumber
      <3> DEFINE first == CHOOSE s \in FreeWriters : \A t \in FreeWriters : s <= t
      <3>3. first \in FreeWriters
        BY <3>2
      <3>4. writer' = [writer EXCEPT ![first] = [nonce |-> n, now |-> time, lane |-> l]]
        BY <1>1 DEF ReceiveFrame
      <3> QED BY <3>3, <3>4
    <2> DEFINE new == [NoLane EXCEPT !.step = "consuming", !.nonce = n]
    <2>2. /\ lane' = [lane EXCEPT ![l] = new] /\ new.step = "consuming" /\ new.nonce = n
          /\ new \in [step : Steps, nonce : Nonces \union {0}, answer : Answers]
      <3>1. NoLane \in [step : Steps, nonce : Nonces \union {0}, answer : Answers]
        BY DEF NoLane, Steps, Answers
      <3>2. new \in [step : Steps, nonce : Nonces \union {0}, answer : Answers]
        BY <3>1 DEF Steps, Issued
      <3>3. new.step = "consuming" /\ new.nonce = n
        BY DEF NoLane
      <3> QED BY <1>1, <3>2, <3>3 DEF ReceiveFrame
    <2> HIDE DEF new
    <2>3. s \in ReplaySlots /\ writer[s] = NoWrite
      BY <2>1 DEF FreeWriters
    <2>4. /\ writer'[s] = [nonce |-> n, now |-> time, lane |-> l]
          /\ \A t \in ReplaySlots \ {s} : writer'[t] = writer[t]
      BY <2>1, <2>3 DEF RequestInv, LinkTypes, WriteRecord
    <2>5. /\ lane'[l].step = "consuming" /\ lane'[l].nonce = n
          /\ \A k \in Lanes \ {l} : lane'[k] = lane[k]
      BY <2>2 DEF RequestInv, LinkTypes, WriteRecord
    <2>6. LinkTypes'
      <3>1. writer' \in [ReplaySlots -> WriteRecord]
        BY <2>1 DEF RequestInv, LinkTypes, WriteRecord
      <3>2. lane' \in [Lanes -> [step : Steps, nonce : Nonces \union {0}, answer : Answers]]
        BY <2>2 DEF RequestInv, LinkTypes, WriteRecord
      <3> QED BY <3>1, <3>2 DEF RequestInv, LinkTypes, WriteRecord
    <2>7. ASSUME NEW t \in ReplaySlots PROVE WriterInv(t)'
      <3>1. CASE t = s
        BY <3>1, <2>4, <2>5 DEF WriterInv, Issued, RequestInv, LinkTypes, WriteRecord
      <3>2. CASE t # s
        <4>1. writer'[t] = writer[t] /\ writer[t].lane # l
          BY <3>2, <2>4, <1>w
        <4>2. writer[t].lane # 0 => writer[t].lane \in Lanes \ {l}
          BY <4>1 DEF RequestInv, LinkTypes, WriteRecord
        <4> QED BY <4>1, <4>2, <2>5 DEF RequestInv, WriterInv, Issued
      <3> QED BY <3>1, <3>2
    <2>8. WritersApart'
      BY <2>4, <1>w DEF RequestInv, WritersApart
    <2>9. \A k \in Lanes : LaneInv(k)'
      BY <2>5 DEF RequestInv, LaneInv, Issued
    <2>10. NoNewHolder
      BY <2>5 DEF NoNewHolder, Holds
    <2> QED BY <2>6, <2>7, <2>8, <2>9, <2>10, HoldersKept DEF RequestInv
  <1>2. CASE ~(Fresh(n) /\ Reservable(n))
    <2>1. Reply(l, "bad") /\ UNCHANGED writer /\ "bad" \in Answers
      BY <1>2 DEF ReceiveFrame, Answers
    <2>2. LinkTypes'
      BY <2>1, ReplyTypes DEF RequestInv, LinkTypes, WriteRecord
    <2>3. lane'[l].step = "answer" /\ \A k \in Lanes \ {l} : lane'[k] = lane[k]
      BY <2>1, ReplyTypes
    <2>4. ASSUME NEW t \in ReplaySlots PROVE WriterInv(t)'
      <3>1. writer[t].lane # 0 => writer[t].lane \in Lanes \ {l}
        BY <1>w DEF RequestInv, LinkTypes, WriteRecord
      <3> QED BY <3>1, <2>1, <2>3 DEF RequestInv, WriterInv, Issued
    <2>5. WritersApart' /\ \A k \in Lanes : LaneInv(k)'
      BY <2>1, <2>3 DEF RequestInv, WritersApart, LaneInv, Issued
    <2>6. NoNewHolder
      BY <2>3 DEF NoNewHolder, Holds
    <2> QED BY <2>2, <2>4, <2>5, <2>6, HoldersKept DEF RequestInv
  <1> QED BY <1>1, <1>2

LEMMA ArrivalRequest ==
    ASSUME RequestInv, NEW l \in Lanes,
           Connect(l) \/ \E n \in Nonces : Redeliver(l, n)
    PROVE  RequestInv'
  <1>1. CASE Connect(l)
    <2>1. Issued(ticket.nonce) /\ ticket.nonce \in Nonces /\ ReceiveFrame(l, ticket.nonce)
      BY <1>1 DEF Connect, RequestInv, TicketInv, Issued
    <2>2. UNCHANGED <<time, drift, frames, markers, fetched>>
      BY <1>1 DEF Connect, sentVars
    <2>3. TicketInv'
      BY <1>1, <2>1, <2>2 DEF Connect, RequestInv, TicketInv, Issued
    <2> QED BY <2>1, <2>2, <2>3, FrameRequest
  <1>2. ASSUME NEW n \in Nonces, Redeliver(l, n) PROVE RequestInv'
    <2>1. /\ Issued(n) /\ ReceiveFrame(l, n)
          /\ UNCHANGED <<time, drift, frames, markers, fetched, ticket>>
      BY <1>2 DEF Redeliver, Issued, hopVars
    <2>2. TicketInv'
      BY <2>1 DEF RequestInv, TicketInv, Issued
    <2> QED BY <2>1, <2>2, FrameRequest
  <1> QED BY <1>1, <1>2


\* The frame's marker is collected only when it can no longer be taken.
LEMMA ConsumeRequest == ASSUME RequestInv, NEW s \in ReplaySlots, Consume(s) PROVE RequestInv'
  <1> DEFINE n == writer[s].nonce
             expired == {m \in Nonces : markers[m] # Absent /\ markers[m] < writer[s].now}
  <1>u. UNCHANGED <<time, drift, frames, fetched, ticket>>
    BY DEF Consume, sentVars, hopVars
  <1>w. /\ writer' = [writer EXCEPT ![s] = NoWrite] /\ writer[s] # NoWrite
        /\ Issued(n) /\ n \in Nonces /\ writer[s].now <= time /\ writer[s].now \in Nat
        /\ writer[s].lane # 0 => /\ writer[s].lane \in Lanes
                                 /\ lane[writer[s].lane].step = "consuming"
                                 /\ lane[writer[s].lane].nonce = n
    BY DEF Consume, RequestInv, WriterInv, Issued, LinkTypes, WriteRecord
  <1>p. PICK gone \in SUBSET expired, expiry \in {Expires(n) + Skew, Forever},
             fails \in BOOLEAN :
          /\ n \in expired => n \in gone
          /\ LET left == [m \in Nonces |-> IF m \in gone THEN Absent ELSE markers[m]]
                 unmarked == left[n] = Absent /\ ~fails IN
             /\ markers' = IF unmarked THEN [left EXCEPT ![n] = expiry] ELSE left
             /\ lane' = IF writer[s].lane = 0 THEN lane
                        ELSE [lane EXCEPT ![writer[s].lane] =
                                IF unmarked /\ expiry # Forever
                                THEN [@ EXCEPT !.step = "consumed"]
                                ELSE [NoLane EXCEPT !.step = "answer"]]
    BY DEF Consume
  <1> DEFINE left == [m \in Nonces |-> IF m \in gone THEN Absent ELSE markers[m]]
             unmarked == left[n] = Absent /\ ~fails
  <1>l. left \in [Nonces -> Int] /\ expiry \in Int /\ expiry >= Until(n)
    BY <1>w, LastMoment DEF RequestInv, LinkTypes, WriteRecord, Absent, Until
  <1>m. /\ markers' \in [Nonces -> Int]
        /\ unmarked => markers'[n] >= Until(n)
        /\ \A m \in Nonces \ {n} : markers'[m] = left[m]
        /\ ~unmarked => markers'[n] = left[n]
    BY <1>p, <1>l, <1>w
  <1>k. ASSUME NEW m \in Nonces, time <= Until(m), markers[m] >= Until(m)
        PROVE  left[m] = markers[m] /\ markers'[m] >= Until(m)
    <2>1. m \notin gone /\ left[m] = markers[m]
      BY <1>k, <1>w, LastMoment DEF RequestInv
    <2> QED BY <1>k, <1>m, <2>1
  <1>1. /\ lane' \in [Lanes -> [step : Steps, nonce : Nonces \union {0}, answer : Answers]]
        /\ \A k \in Lanes : k # writer[s].lane => lane'[k] = lane[k]
        /\ writer[s].lane # 0 => lane'[writer[s].lane].step # "consuming"
        /\ writer[s].lane # 0 /\ lane'[writer[s].lane].step = "consumed" =>
              unmarked /\ lane'[writer[s].lane].nonce = n
    <2>1. CASE writer[s].lane = 0
      BY <1>p, <2>1, LinkConstants DEF RequestInv, LinkTypes, WriteRecord
    <2>2. CASE writer[s].lane # 0 /\ unmarked /\ expiry # Forever
      <3> DEFINE l == writer[s].lane  new == [lane[l] EXCEPT !.step = "consumed"]
      <3>1. lane' = [lane EXCEPT ![l] = new] /\ l \in Lanes
        BY <1>p, <1>w, <2>2
      <3>2. /\ new \in [step : Steps, nonce : Nonces \union {0}, answer : Answers]
            /\ new.step = "consumed" /\ new.nonce = n
        BY <1>w, <2>2 DEF RequestInv, LinkTypes, WriteRecord, Steps
      <3> HIDE DEF new
      <3> QED BY <2>2, <3>1, <3>2 DEF RequestInv, LinkTypes, WriteRecord
    <2>3. CASE writer[s].lane # 0 /\ ~(unmarked /\ expiry # Forever)
      <3> DEFINE l == writer[s].lane  new == [NoLane EXCEPT !.step = "answer"]
      <3>1. lane' = [lane EXCEPT ![l] = new] /\ l \in Lanes
        BY <1>p, <1>w, <2>3
      <3>2. NoLane \in [step : Steps, nonce : Nonces \union {0}, answer : Answers]
        BY DEF NoLane, Steps, Answers
      <3>3. /\ new \in [step : Steps, nonce : Nonces \union {0}, answer : Answers]
            /\ new.step = "answer"
        BY <3>2 DEF Steps, NoLane
      <3> HIDE DEF new
      <3> QED BY <3>1, <3>3 DEF RequestInv, LinkTypes, WriteRecord
    <2> QED BY <2>1, <2>2, <2>3
  <1> HIDE DEF left, unmarked
  <1>2. LinkTypes'
    <2>1. NoWrite \in WriteRecord
      BY DEF NoWrite, WriteRecord
    <2>2. writer' \in [ReplaySlots -> WriteRecord]
      BY <1>w, <2>1 DEF RequestInv, LinkTypes, WriteRecord
    <2> QED BY <1>u, <1>m, <1>1, <2>2 DEF RequestInv, LinkTypes, WriteRecord
  <1>3. TicketInv'
    BY <1>u DEF RequestInv, TicketInv, Issued
  <1>v. writer'[s] = NoWrite /\ \A t \in ReplaySlots \ {s} : writer'[t] = writer[t]
    BY <1>w DEF RequestInv, LinkTypes, WriteRecord
  <1>4. WritersApart'
    BY <1>v DEF RequestInv, WritersApart, NoWrite
  <1>5. ASSUME NEW t \in ReplaySlots PROVE WriterInv(t)'
    <2>1. CASE t = s
      BY <2>1, <1>v DEF WriterInv
    <2>2. CASE t # s
      <3>1. writer'[t] = writer[t]
        BY <2>2, <1>v
      <3>2. writer[t].lane # 0 => writer[t].lane # writer[s].lane /\ writer[t].lane \in Lanes
        BY <2>2 DEF RequestInv, WritersApart, LinkTypes, WriteRecord
      <3> QED BY <3>1, <3>2, <1>u, <1>1 DEF RequestInv, WriterInv, Issued
    <2> QED BY <2>1, <2>2
  <1>6. ASSUME NEW l \in Lanes PROVE LaneInv(l)'
    <2>1. CASE l # writer[s].lane
      BY <1>u, <1>1, <2>1 DEF RequestInv, LaneInv, Issued
    <2>2. CASE l = writer[s].lane
      <3>1. l # 0 /\ lane'[l].step # "consuming"
        BY <2>2, <1>1, LinkConstants
      <3>2. lane'[l].step = "consumed" => lane'[l].nonce = n
        BY <2>2, <3>1, <1>1
      <3>3. n \in Nonces /\ frames'[n] # Unsent
        BY <1>w, <1>u DEF Issued
      <3> QED BY <3>1, <3>2, <3>3 DEF LaneInv, Issued
    <2> QED BY <2>1, <2>2
  <1>7. ASSUME NEW m \in Nonces PROVE NonceInv(m)'
    <2>u. Until(m)' = Until(m)
      BY <1>u DEF Until, Expires
    <2>i. NonceInv(m)
      BY DEF RequestInv
    <2>1. CASE \A l \in Lanes : Holds(l, m)' => Holds(l, m)
      BY <1>u, <1>k, <2>u, <2>i, <2>1 DEF NonceInv
    <2>2. ASSUME NEW l \in Lanes, Holds(l, m)', ~Holds(l, m)
          PROVE  NonceInv(m)'
      <3>1. l = writer[s].lane /\ l # 0 /\ m = n /\ unmarked
        BY <2>2, <1>1, LinkConstants DEF Holds
      <3>2. left[m] = Absent /\ markers'[m] >= Until(m)
        BY <3>1, <1>m DEF unmarked
      <3>3. time <= Until(m) => ~(markers[m] >= Until(m))
        <4>1. SUFFICES ASSUME time <= Until(m), markers[m] >= Until(m) PROVE FALSE
          OBVIOUS
        <4>2. left[m] = markers[m]
          BY <1>k, <4>1
        <4> QED BY <3>2, <4>1, <4>2, LastMoment DEF RequestInv, LinkTypes, WriteRecord, Absent
      <3>4. time <= Until(m) => fetched[m] # 1 /\ \A k \in Lanes : ~Holds(k, m)
        BY <3>3, <2>i DEF NonceInv
      <3>5. \A k \in Lanes : Holds(k, m)' => Holds(k, m) \/ k = l
        BY <3>1, <1>1 DEF Holds
      <3> QED BY <1>u, <2>u, <2>i, <3>2, <3>4, <3>5 DEF NonceInv
    <2> QED BY <2>1, <2>2
  <1> QED BY <1>2, <1>3, <1>4, <1>5, <1>6, <1>7 DEF RequestInv


LEMMA ForsakeTypes ==
    ASSUME RequestInv, NEW l \in Lanes, writer' = Forsake(l)
    PROVE  /\ writer' \in [ReplaySlots -> WriteRecord]
           /\ \A s \in ReplaySlots :
                 /\ writer[s].lane # l => writer'[s] = writer[s]
                 /\ writer[s].lane = l => /\ writer'[s].nonce = writer[s].nonce
                                         /\ writer'[s].now = writer[s].now
                                         /\ writer'[s].lane = 0
  <1>1. ASSUME NEW s \in ReplaySlots
        PROVE  /\ writer[s] \in WriteRecord
               /\ [writer[s] EXCEPT !.lane = 0] \in WriteRecord
               /\ [writer[s] EXCEPT !.lane = 0].nonce = writer[s].nonce
               /\ [writer[s] EXCEPT !.lane = 0].now = writer[s].now
               /\ [writer[s] EXCEPT !.lane = 0].lane = 0
    BY DEF RequestInv, LinkTypes, WriteRecord
  <1> QED BY <1>1 DEF Forsake

\* A connection that ends leaves its worker to itself.
LEMMA ForsakeRequest ==
    ASSUME RequestInv, NEW l \in Lanes, writer' = Forsake(l),
           UNCHANGED <<time, drift, frames, markers, fetched>>, TicketInv',
           lane' \in [Lanes -> [step : Steps, nonce : Nonces \union {0}, answer : Answers]],
           lane'[l].step \notin {"consuming", "consumed"},
           \A k \in Lanes \ {l} : lane'[k] = lane[k]
    PROVE  RequestInv'
  <1>1. LinkTypes'
    BY ForsakeTypes DEF RequestInv, LinkTypes, WriteRecord
  <1>2. WritersApart'
    BY ForsakeTypes DEF RequestInv, WritersApart
  <1>3. \A k \in Lanes : LaneInv(k)'
    BY DEF RequestInv, LaneInv, Issued
  <1>4. ASSUME NEW s \in ReplaySlots PROVE WriterInv(s)'
    <2>1. CASE writer[s].lane = l
      BY <2>1, ForsakeTypes, LinkConstants DEF RequestInv, WriterInv, Issued, NoWrite
    <2>2. CASE writer[s].lane # l
      <3>1. writer'[s] = writer[s] /\ (writer[s].lane # 0 => writer[s].lane \in Lanes \ {l})
        BY <2>2, ForsakeTypes DEF RequestInv, LinkTypes, WriteRecord
      <3> QED BY <3>1 DEF RequestInv, WriterInv, Issued
    <2> QED BY <2>1, <2>2
  <1>5. NoNewHolder
    BY DEF NoNewHolder, Holds
  <1> QED BY <1>1, <1>2, <1>3, <1>4, <1>5, HoldersKept DEF RequestInv

LEMMA EndRequest ==
    ASSUME RequestInv, NEW l \in Lanes, ConsumeTimeout(l) \/ DropLane(l) PROVE RequestInv'
  <1>u. /\ UNCHANGED <<time, drift, frames, markers, fetched>> /\ writer' = Forsake(l)
        /\ ticket' = ticket \/ ticket' = NoTicket
    BY DEF ConsumeTimeout, DropLane, sentVars, hopVars
  <1>1. TicketInv'
    BY <1>u DEF RequestInv, TicketInv, Issued, NoTicket
  <1>2. CASE ConsumeTimeout(l)
    <2>1. Reply(l, "bad") /\ "bad" \in Answers
      BY <1>2 DEF ConsumeTimeout, Answers
    <2> QED BY <1>u, <1>1, <2>1, ReplyTypes, ForsakeRequest
  <1>3. CASE DropLane(l)
    <2>1. lane' = [lane EXCEPT ![l] = NoLane]
      BY <1>3 DEF DropLane
    <2>2. NoLane \in [step : Steps, nonce : Nonces \union {0}, answer : Answers]
          /\ NoLane.step = "idle"
      BY DEF NoLane, Steps, Answers
    <2>3. /\ lane' \in [Lanes -> [step : Steps, nonce : Nonces \union {0}, answer : Answers]]
          /\ lane'[l].step = "idle" /\ \A k \in Lanes \ {l} : lane'[k] = lane[k]
      BY <2>1, <2>2 DEF RequestInv, LinkTypes, WriteRecord
    <2> QED BY <1>u, <1>1, <2>3, ForsakeRequest
  <1> QED BY <1>2, <1>3

\* A connection whose worker is done goes on alone.
LEMMA LaneMovesRequest ==
    ASSUME RequestInv, NEW l \in Lanes, lane[l].step # "consuming",
           UNCHANGED <<time, drift, frames, writer, markers>>, TicketInv',
           lane' \in [Lanes -> [step : Steps, nonce : Nonces \union {0}, answer : Answers]],
           lane'[l].step \notin {"consuming", "consumed"},
           \A k \in Lanes \ {l} : lane'[k] = lane[k],
           fetched' \in [Nonces -> Nat], \A n \in Nonces : NonceInv(n)'
    PROVE  RequestInv'
  <1>1. LinkTypes' /\ WritersApart'
    BY DEF RequestInv, LinkTypes, WriteRecord, WritersApart
  <1>2. \A k \in Lanes : LaneInv(k)'
    BY DEF RequestInv, LaneInv, Issued
  <1>3. ASSUME NEW s \in ReplaySlots PROVE WriterInv(s)'
    <2>1. writer[s].lane \in Lanes \union {0}
      BY DEF RequestInv, LinkTypes, WriteRecord
    <2>2. writer[s] # NoWrite => writer[s].lane # l
      BY LinkConstants DEF RequestInv, WriterInv
    <2> QED BY <2>1, <2>2 DEF RequestInv, WriterInv, Issued
  <1> QED BY <1>1, <1>2, <1>3 DEF RequestInv

LEMMA FetchRequest == ASSUME RequestInv, NEW l \in Lanes, Fetch(l) PROVE RequestInv'
  <1>u. UNCHANGED <<time, drift, frames, writer, markers, ticket>> /\ lane[l].step = "consumed"
    BY DEF Fetch, sentVars, hopVars
  <1>t. TicketInv'
    BY <1>u DEF RequestInv, TicketInv, Issued
  <1>n. PICK n \in Nonces : n = lane[l].nonce /\ frames[n] # Unsent /\ Holds(l, n)
    BY <1>u DEF RequestInv, LaneInv, Issued, Holds
  <1>a. PICK answer \in Answers : Reply(l, answer)
    BY DEF Fetch, Received, Answers
  <1>l. /\ lane' \in [Lanes -> [step : Steps, nonce : Nonces \union {0}, answer : Answers]]
        /\ lane'[l].step = "answer" /\ \A k \in Lanes \ {l} : lane'[k] = lane[k]
    BY <1>a, ReplyTypes
  <1>h. NoNewHolder /\ \A m \in Nonces : ~Holds(l, m)'
    BY <1>l DEF NoNewHolder, Holds
  <1>1. CASE StillFresh(n)
    <2>1. fetched' = [fetched EXCEPT ![n] = fetched[n] + 1]
      BY <1>1, <1>n DEF Fetch
    <2>2. time <= Until(n)
      BY <1>1 DEF StillFresh, Until
    <2>3. NonceInv(n)
      BY <1>n DEF RequestInv
    <2>4. fetched[n] = 0
      BY <1>n, <2>2, <2>3 DEF NonceInv
    <2>5. fetched'[n] = 1 /\ \A m \in Nonces \ {n} : fetched'[m] = fetched[m]
      BY <1>n, <2>1, <2>4 DEF RequestInv, LinkTypes, WriteRecord
    <2>6. fetched' \in [Nonces -> Nat]
      <3>1. fetched \in [Nonces -> Nat]
        BY DEF RequestInv, LinkTypes, WriteRecord
      <3> QED BY <2>1, <2>4, <3>1
    <2>7. ASSUME NEW m \in Nonces PROVE NonceInv(m)'
      <3>u. Until(m)' = Until(m) /\ NonceInv(m)
        BY <1>u DEF Until, Expires, RequestInv
      <3>1. CASE m = n
        <4>1. markers[n] >= Until(n)
          BY <1>n, <2>2, <2>3 DEF NonceInv
        <4>2. \A k \in Lanes : ~Holds(k, n)'
          BY <1>n, <1>h, <2>2, <2>3 DEF NonceInv, NoNewHolder
        <4> QED BY <1>u, <1>n, <2>5, <3>u, <3>1, <4>1, <4>2 DEF NonceInv
      <3>2. CASE m # n
        <4>1. fetched'[m] = fetched[m]
          BY <2>5, <3>2
        <4> QED BY <1>u, <1>h, <3>u, <4>1 DEF NonceInv, NoNewHolder
      <3> QED BY <3>1, <3>2
    <2> QED BY <1>u, <1>t, <1>l, <2>6, <2>7, LaneMovesRequest
  <1>2. CASE ~StillFresh(n)
    <2>1. UNCHANGED fetched
      BY <1>2, <1>n DEF Fetch
    <2>2. \A m \in Nonces : NonceInv(m)'
      BY <1>u, <1>h, <2>1, HoldersKept
    <2>3. fetched' \in [Nonces -> Nat]
      BY <2>1 DEF RequestInv, LinkTypes, WriteRecord
    <2> QED BY <1>u, <1>t, <1>l, <2>2, <2>3, LaneMovesRequest
  <1> QED BY <1>1, <1>2

LEMMA AnswerRequest == ASSUME RequestInv, NEW l \in Lanes, Answer(l) PROVE RequestInv'
  <1>u. /\ UNCHANGED <<time, drift, frames, writer, markers, fetched>>
        /\ lane[l].step = "answer" /\ lane' = [lane EXCEPT ![l] = NoLane]
        /\ ticket' = ticket \/ ticket' = NoTicket
    BY DEF Answer, sentVars, Settle, GoesTo
  <1>1. TicketInv'
    BY <1>u DEF RequestInv, TicketInv, Issued, NoTicket
  <1>2. NoLane \in [step : Steps, nonce : Nonces \union {0}, answer : Answers]
        /\ NoLane.step = "idle"
    BY DEF NoLane, Steps, Answers
  <1>3. /\ lane' \in [Lanes -> [step : Steps, nonce : Nonces \union {0}, answer : Answers]]
        /\ lane'[l].step = "idle" /\ \A k \in Lanes \ {l} : lane'[k] = lane[k]
    BY <1>u, <1>2 DEF RequestInv, LinkTypes, WriteRecord
  <1>4. NoNewHolder
    BY <1>3 DEF NoNewHolder, Holds
  <1>5. \A n \in Nonces : NonceInv(n)'
    BY <1>u, <1>4, HoldersKept
  <1>6. fetched' \in [Nonces -> Nat]
    BY <1>u DEF RequestInv, LinkTypes, WriteRecord
  <1> QED BY <1>u, <1>1, <1>3, <1>5, <1>6, LaneMovesRequest

\* A service that ends leaves no connection, and its directory as it stands.
LEMMA ServiceEndsRequest ==
    ASSUME RequestInv, ServiceClosed \/ CrashService PROVE RequestInv'
  <1>u. /\ UNCHANGED <<time, drift, frames, fetched>>
        /\ ticket' = ticket \/ ticket' = NoTicket
    BY DEF ServiceClosed, CrashService, sentVars, hopVars
  <1>1. TicketInv'
    BY <1>u DEF RequestInv, TicketInv, Issued, NoTicket
  <1>2. NoLane \in [step : Steps, nonce : Nonces \union {0}, answer : Answers]
        /\ NoLane.step = "idle"
    BY DEF NoLane, Steps, Answers
  <1>3. /\ lane' \in [Lanes -> [step : Steps, nonce : Nonces \union {0}, answer : Answers]]
        /\ \A l \in Lanes : lane'[l].step = "idle"
    <2>1. CASE ServiceClosed
      BY <2>1 DEF ServiceClosed, FreeLane, RequestInv, LinkTypes, WriteRecord
    <2>2. CASE CrashService
      BY <2>2, <1>2 DEF CrashService
    <2> QED BY <2>1, <2>2
  <1>4. /\ markers' \in [Nonces -> Int]
        /\ \A n \in Nonces : markers'[n] = markers[n] \/ markers'[n] = Forever
    BY LinkConstants DEF ServiceClosed, CrashService, RequestInv, LinkTypes, WriteRecord,
                         Forever
  <1>5. /\ writer' \in [ReplaySlots -> WriteRecord]
        /\ \A s \in ReplaySlots :
              writer'[s] = NoWrite \/ (writer'[s] = writer[s] /\ writer[s].lane = 0)
    <2>0. NoWrite \in WriteRecord
      BY DEF NoWrite, WriteRecord
    <2>1. CASE ServiceClosed
      <3>1. PICK begun \in SUBSET ReplaySlots :
               writer' = [s \in ReplaySlots |-> IF s \in begun THEN writer[s] ELSE NoWrite]
        BY <2>1 DEF ServiceClosed
      <3>2. \A s \in ReplaySlots : writer[s] = NoWrite \/ writer[s].lane = 0
        BY <2>1 DEF ServiceClosed, FreeLane, RequestInv, WriterInv, LinkTypes, WriteRecord
      <3> QED BY <2>0, <3>1, <3>2 DEF RequestInv, LinkTypes, WriteRecord
    <2>2. CASE CrashService
      BY <2>0, <2>2 DEF CrashService
    <2> QED BY <2>1, <2>2
  <1>6. LinkTypes'
    BY <1>u, <1>3, <1>4, <1>5 DEF RequestInv, LinkTypes, WriteRecord
  <1>7. WritersApart' /\ \A l \in Lanes : LaneInv(l)'
    BY <1>3, <1>5 DEF WritersApart, LaneInv, NoWrite
  <1>8. \A s \in ReplaySlots : WriterInv(s)'
    BY <1>u, <1>5 DEF RequestInv, WriterInv, Issued
  <1>9. ASSUME NEW n \in Nonces PROVE NonceInv(n)'
    <2>1. NonceInv(n) /\ Until(n)' = Until(n) /\ \A l \in Lanes : ~Holds(l, n)'
      BY <1>u, <1>3 DEF RequestInv, Until, Expires, Holds
    <2>2. markers[n] >= Until(n) => markers'[n] >= Until(n)
      BY <1>4, LastMoment DEF RequestInv
    <2> QED BY <1>u, <2>1, <2>2 DEF NonceInv
  <1> QED BY <1>1, <1>6, <1>7, <1>8, <1>9 DEF RequestInv

LEMMA TimeRequest == ASSUME RequestInv, TimePasses PROVE RequestInv'
  <1>u. /\ UNCHANGED <<drift, frames, lane, writer, markers, fetched, ticket>>
        /\ time < MaxClock /\ time' = time + 1
    BY DEF TimePasses, sentVars, egressVars, hopVars
  <1>1. LinkTypes'
    BY <1>u, LinkConstants DEF RequestInv, LinkTypes, WriteRecord
  <1>2. TicketInv' /\ WritersApart' /\ \A l \in Lanes : LaneInv(l)'
    BY <1>u DEF RequestInv, TicketInv, WritersApart, LaneInv, Issued
  <1>3. ASSUME NEW s \in ReplaySlots PROVE WriterInv(s)'
    BY <1>u DEF RequestInv, LinkTypes, WriteRecord, WriterInv, Issued
  <1>4. ASSUME NEW n \in Nonces PROVE NonceInv(n)'
    <2>1. NonceInv(n) /\ Until(n)' = Until(n) /\ \A l \in Lanes : Holds(l, n)' <=> Holds(l, n)
      BY <1>u DEF RequestInv, Until, Expires, Holds
    <2>2. time' <= Until(n) => time <= Until(n)
      BY <1>u, LastMoment DEF RequestInv
    <2> QED BY <1>u, <2>1, <2>2 DEF NonceInv
  <1> QED BY <1>1, <1>2, <1>3, <1>4 DEF RequestInv

LEMMA RequestNext == RequestInv /\ [LinkNext]_linkVars => RequestInv'
  <1> SUFFICES ASSUME RequestInv, [LinkNext]_linkVars PROVE RequestInv'
    OBVIOUS
  <1>1. CASE UNCHANGED linkVars
    <2>1. UNCHANGED <<time, drift, frames, lane, writer, markers, fetched, ticket>>
      BY <1>1 DEF linkVars, batchVars, hopVars, sentVars, egressVars
    <2>2. TicketInv'
      BY <2>1 DEF RequestInv, TicketInv, Issued
    <2> QED BY <2>1, <2>2, BatchStepRequest
  <1>2. CASE LinkNext
    BY <1>2, ControlRequest, AskRequest, ArrivalRequest, EndRequest, FetchRequest,
       AnswerRequest, ConsumeRequest, ServiceEndsRequest, TimeRequest DEF LinkNext, ControlStep
  <1> QED BY <1>1, <1>2

\* The control side of a link resolution and the egress service stay within
\* RequestInv, whatever crashes, late workers and collected markers do.
THEOREM RequestInvariance == LinkSpec => []RequestInv
  BY RequestInit, RequestNext, PTL DEF LinkSpec

-----------------------------------------------------------------------------
(***************************************************************************)
(* Short links: the batch and its redirects                                *)
(***************************************************************************)
Links == {Batch[i] : i \in 1..Len(Batch)}
Busy == point \in {"approve", "ask", "wait", "judge"}

BatchTypes ==
    /\ hops \in Nat /\ reply \in Answers
    /\ known \in [Links -> Urls \union {"new", "failed"}]
    /\ results \in Seq(Urls \union {"failed"}) /\ Len(results) <= Len(Batch)

\* A resolution is about a link without an outcome, and has made one request
\* for every URL it has left.
HopInv ==
    Busy =>
      /\ IsFiniteSet(visited)
      /\ Cardinality(visited) = hops + (IF point \in {"wait", "judge"} THEN 0 ELSE 1)
      /\ here \in Urls /\ Len(results) < Len(Batch) /\ known[Input] = "new"

\* An outcome that is known is a failure or a video.
KnownInv == \A k \in Links : known[k] \in {"new", "failed"} \/ KindOf[known[k]] = "final"

\* What an input has become is what is known of its link.
ResultInv == \A i \in 1..Len(results) : results[i] = known[Batch[i]] /\ known[Batch[i]] # "new"

ChainInv == BatchTypes /\ HopInv /\ KnownInv /\ ResultInv

LEMMA BatchFacts == "new" \notin Urls /\ Batch \in Seq(Urls) /\ Len(Batch) \in Nat
  <1>1. Batch \in Seq({u \in Urls : KindOf[u] = "start"}) /\ "new" \notin Urls
    BY ShortLinkAssumption
  <1>2. \A i \in 1..Len(Batch) : Batch[i] \in Urls
    BY <1>1
  <1> QED BY <1>1, <1>2

LEMMA ChainInit == LinkInit => ChainInv
  <1> SUFFICES ASSUME LinkInit PROVE ChainInv
    OBVIOUS
  <1>1. BatchTypes
    BY BatchFacts DEF LinkInit, BatchTypes, Links, Answers
  <1>2. HopInv
    BY DEF LinkInit, HopInv, Busy
  <1>3. KnownInv
    BY DEF LinkInit, KnownInv, Links
  <1>4. ResultInv
    BY DEF LinkInit, ResultInv
  <1> QED BY <1>1, <1>2, <1>3, <1>4 DEF ChainInv

LEMMA InputIsLink ==
    ASSUME BatchTypes, Len(results) < Len(Batch)
    PROVE  Input \in Links /\ Input \in Urls /\ Len(results) + 1 \in 1..Len(Batch)
  <1>1. Len(results) \in Nat
    BY DEF BatchTypes
  <1>2. Len(results) + 1 \in 1..Len(Batch)
    BY <1>1, BatchFacts
  <1> QED BY <1>2, BatchFacts DEF Links, Input

\* An input takes an outcome that its link already has, or gets now.
LEMMA ResultAdded ==
    ASSUME BatchTypes, KnownInv, ResultInv, Len(results) < Len(Batch),
           NEW kept \in Urls \union {"failed"}, kept = "failed" \/ KindOf[kept] = "final",
           known[Input] \in {"new", kept},
           known' = [known EXCEPT ![Input] = kept], results' = Append(results, kept),
           hops' \in Nat, reply' \in Answers
    PROVE  BatchTypes' /\ KnownInv' /\ ResultInv'
  <1>1. Input \in Links /\ Input = Batch[Len(results) + 1] /\ kept # "new"
    BY InputIsLink, BatchFacts DEF Input
  <1>2. /\ Len(results) \in Nat /\ results' \in Seq(Urls \union {"failed"})
        /\ Len(results') = Len(results) + 1 /\ results'[Len(results) + 1] = kept
        /\ \A i \in 1..Len(results) : results'[i] = results[i]
    BY DEF BatchTypes
  <1>3. /\ known' \in [Links -> Urls \union {"new", "failed"}]
        /\ known'[Input] = kept /\ \A k \in Links \ {Input} : known'[k] = known[k]
    BY <1>1 DEF BatchTypes
  <1>4. BatchTypes'
    BY <1>2, <1>3, BatchFacts DEF BatchTypes
  <1>5. KnownInv'
    BY <1>3 DEF KnownInv
  <1>6. ASSUME NEW i \in 1..Len(results')
        PROVE  results'[i] = known'[Batch[i]] /\ known'[Batch[i]] # "new"
    <2>1. CASE i = Len(results) + 1
      BY <1>1, <1>2, <1>3, <2>1
    <2>2. CASE i # Len(results) + 1
      <3>1. i \in 1..Len(results) /\ results'[i] = results[i]
        BY <1>2, <2>2
      <3>2. results[i] = known[Batch[i]] /\ known[Batch[i]] # "new" /\ Batch[i] \in Links
        BY <3>1, <1>2, BatchFacts DEF ResultInv, Links, BatchTypes
      <3>3. Batch[i] # Input => known'[Batch[i]] = known[Batch[i]]
        BY <3>2, <1>3
      <3>4. Batch[i] = Input => known[Batch[i]] = kept /\ known'[Batch[i]] = kept
        BY <3>2, <1>3
      <3> QED BY <1>1, <3>1, <3>2, <3>3, <3>4
    <2> QED BY <2>1, <2>2
  <1> QED BY <1>4, <1>5, <1>6 DEF ResultInv

LEMMA SettleChain ==
    ASSUME ChainInv, Busy, NEW found \in Urls \union {"failed"},
           found = "failed" \/ KindOf[found] = "final", Settle(found)
    PROVE  ChainInv'
  <1> DEFINE kept == IF overdue THEN "failed" ELSE found
  <1>1. kept \in Urls \union {"failed"} /\ (kept = "failed" \/ KindOf[kept] = "final")
    OBVIOUS
  <1>2. /\ known' = [known EXCEPT ![Input] = kept] /\ results' = Append(results, kept)
        /\ point' = "next" /\ hops' = 0 /\ reply' = "bad"
    BY DEF Settle
  <1> HIDE DEF kept
  <1>3. known[Input] = "new" /\ Len(results) < Len(Batch)
    BY DEF ChainInv, HopInv
  <1>4. BatchTypes' /\ KnownInv' /\ ResultInv'
    BY <1>1, <1>2, <1>3, ResultAdded DEF ChainInv, Answers
  <1>5. HopInv'
    BY <1>2 DEF HopInv, Busy
  <1> QED BY <1>4, <1>5 DEF ChainInv

\* A step that leaves the resolution where it is.
LEMMA StillChain ==
    ASSUME ChainInv, UNCHANGED <<results, known, here, visited, hops, reply, point>>
    PROVE  ChainInv'
  BY DEF ChainInv, BatchTypes, HopInv, KnownInv, ResultInv, Busy, Input

LEMMA NextInputChain == ASSUME ChainInv, NextInput PROVE ChainInv'
  <1>u. point = "next" /\ reply' = reply
    BY DEF NextInput
  <1>1. CASE UNCHANGED <<known, results, hops>> /\ point' = "done"
    BY <1>u, <1>1 DEF ChainInv, BatchTypes, HopInv, KnownInv, ResultInv, Busy
  <1>2. CASE /\ Len(results) < Len(Batch) /\ Remembered(Input)
             /\ results' = Append(results, known[Input])
             /\ UNCHANGED <<point, known, hops>>
    <2> DEFINE kept == known[Input]
    <2>1. Input \in Links
      BY <1>2, InputIsLink DEF ChainInv
    <2>2. kept \in Urls \union {"failed"} /\ (kept = "failed" \/ KindOf[kept] = "final")
      BY <1>2, <2>1 DEF ChainInv, KnownInv, BatchTypes, Remembered
    <2>3. known' = [known EXCEPT ![Input] = kept]
      BY <1>2, <2>1 DEF ChainInv, BatchTypes
    <2>4. BatchTypes' /\ KnownInv' /\ ResultInv'
      <3>1. /\ known[Input] = kept /\ results' = Append(results, kept)
            /\ Len(results) < Len(Batch)
            /\ hops' \in Nat /\ reply' \in Answers
        BY <1>2, <1>u DEF ChainInv, BatchTypes
      <3> HIDE DEF kept
      <3> QED BY <2>2, <2>3, <3>1, ResultAdded DEF ChainInv
    <2>5. HopInv'
      BY <1>u, <1>2 DEF HopInv, Busy
    <2> QED BY <2>4, <2>5 DEF ChainInv
  <1>3. CASE /\ Len(results) < Len(Batch) /\ ~Remembered(Input)
             /\ known' = [known EXCEPT ![Input] = "failed"]
             /\ UNCHANGED <<point, results, hops>>
    <2>1. Input \in Links /\ known[Input] = "new"
      BY <1>3, InputIsLink DEF ChainInv, Remembered
    <2>2. known' \in [Links -> Urls \union {"new", "failed"}]
          /\ known'[Input] = "failed" /\ \A k \in Links \ {Input} : known'[k] = known[k]
      BY <1>3, <2>1 DEF ChainInv, BatchTypes
    <2>3. BatchTypes' /\ KnownInv'
      BY <1>u, <1>3, <2>2 DEF ChainInv, BatchTypes, KnownInv
    <2>4. ASSUME NEW i \in 1..Len(results)
          PROVE  results[i] = known'[Batch[i]] /\ known'[Batch[i]] # "new"
      <3>1. results[i] = known[Batch[i]] /\ known[Batch[i]] # "new"
        BY DEF ChainInv, ResultInv
      <3>2. Batch[i] \in Links
        BY BatchFacts DEF ChainInv, BatchTypes, Links
      <3> QED BY <2>1, <2>2, <3>1, <3>2
    <2>5. ResultInv'
      BY <1>3, <2>4 DEF ResultInv
    <2>6. HopInv'
      BY <1>u, <1>3 DEF HopInv, Busy
    <2> QED BY <2>3, <2>5, <2>6 DEF ChainInv
  <1>4. CASE /\ Len(results) < Len(Batch) /\ ~Remembered(Input)
             /\ point' = "approve" /\ here' = Input /\ visited' = {Input} /\ hops' = 0
             /\ UNCHANGED <<results, known>>
    <2>1. BatchTypes' /\ KnownInv' /\ ResultInv'
      BY <1>u, <1>4 DEF ChainInv, BatchTypes, KnownInv, ResultInv
    <2>2. IsFiniteSet({Input}) /\ Cardinality({Input}) = 1
      BY FS_Singleton
    <2>3. Input \in Urls /\ known[Input] = "new"
      BY <1>4, InputIsLink DEF ChainInv, Remembered
    <2>4. HopInv'
      BY <1>4, <2>2, <2>3 DEF HopInv, Busy, Input
    <2> QED BY <2>1, <2>4 DEF ChainInv
  <1> QED BY <1>1, <1>2, <1>3, <1>4 DEF NextInput

\* The steps of one resolution.
LEMMA ApproveChain == ASSUME ChainInv, Approve PROVE ChainInv'
  <1>1. Busy /\ here \in Urls
    BY DEF Approve, Busy, ChainInv, HopInv
  <1>2. CASE Settle("failed")
    BY <1>1, <1>2, SettleChain
  <1>3. CASE KindOf[here] = "final" /\ Settle(here)
    BY <1>1, <1>3, SettleChain
  <1>4. CASE GoesTo("ask") /\ UNCHANGED <<here, visited, hops, ticket, reply>>
    <2>1. BatchTypes' /\ KnownInv' /\ ResultInv'
      BY <1>4 DEF GoesTo, ChainInv, BatchTypes, KnownInv, ResultInv
    <2>2. HopInv'
      BY <1>4 DEF GoesTo, Approve, ChainInv, HopInv, Busy, Input
    <2> QED BY <2>1, <2>2 DEF ChainInv
  <1> QED BY <1>2, <1>3, <1>4 DEF Approve

LEMMA AskChain == ASSUME ChainInv, Ask PROVE ChainInv'
  <1>1. CASE Settle("failed")
    BY <1>1, SettleChain DEF Ask, Busy
  <1>2. CASE hops' = hops + 1 /\ GoesTo("wait") /\ UNCHANGED <<here, visited, reply>>
    <2>1. BatchTypes' /\ KnownInv' /\ ResultInv'
      BY <1>2 DEF GoesTo, ChainInv, BatchTypes, KnownInv, ResultInv
    <2>2. HopInv'
      BY <1>2 DEF GoesTo, Ask, ChainInv, HopInv, Busy, Input, BatchTypes
    <2> QED BY <2>1, <2>2 DEF ChainInv
  <1> QED BY <1>1, <1>2 DEF Ask

LEMMA JudgeChain == ASSUME ChainInv, Judge PROVE ChainInv'
  <1>1. CASE Settle("failed")
    BY <1>1, SettleChain DEF Judge, Busy
  <1>2. CASE ~Settle("failed")
    <2>1. /\ reply \in Urls /\ reply \notin visited /\ here' = reply /\ reply' = "bad"
          /\ visited' = visited \union {reply} /\ GoesTo("approve") /\ UNCHANGED hops
      BY <1>2 DEF Judge, Revisited, ChainInv, BatchTypes, Answers
    <2>2. BatchTypes' /\ KnownInv' /\ ResultInv'
      BY <2>1 DEF GoesTo, ChainInv, BatchTypes, KnownInv, ResultInv, Answers
    <2>3. /\ IsFiniteSet(visited) /\ Cardinality(visited) = hops /\ hops \in Nat
          /\ Len(results) < Len(Batch) /\ known[Input] = "new"
      BY DEF Judge, ChainInv, HopInv, Busy, BatchTypes
    <2>4. IsFiniteSet(visited') /\ Cardinality(visited') = hops + 1
      BY <2>1, <2>3, FS_AddElement
    <2>5. HopInv'
      BY <2>1, <2>3, <2>4 DEF GoesTo, HopInv, Busy, Input
    <2> QED BY <2>2, <2>5 DEF ChainInv
  <1> QED BY <1>1, <1>2

LEMMA AnswerChain == ASSUME RequestInv, ChainInv, NEW l \in Lanes, Answer(l) PROVE ChainInv'
  <1>1. CASE ~Asked(l)
    BY <1>1, StillChain DEF Answer
  <1>2. CASE Asked(l) /\ ~Timely(ticket.nonce)
    BY <1>2, SettleChain DEF Answer, Asked, Busy
  <1>3. CASE Asked(l) /\ Timely(ticket.nonce)
    <2>1. /\ point = "wait" /\ GoesTo("judge") /\ reply' = lane[l].answer
          /\ UNCHANGED <<here, visited, hops>> /\ lane[l].answer \in Answers
      BY <1>3 DEF Answer, Asked, RequestInv, LinkTypes
    <2>2. BatchTypes' /\ KnownInv' /\ ResultInv'
      BY <2>1 DEF GoesTo, ChainInv, BatchTypes, KnownInv, ResultInv
    <2>3. HopInv'
      BY <2>1 DEF GoesTo, ChainInv, HopInv, Busy, Input
    <2> QED BY <2>2, <2>3 DEF ChainInv
  <1> QED BY <1>1, <1>2, <1>3

\* The rest of the system leaves the resolution alone.
LEMMA OtherChain ==
    ASSUME ChainInv,
           \/ BatchDeadline \/ LookupReturns \/ TimePasses \/ StartService \/ CloseService
           \/ ServiceClosed \/ CrashService \/ UNCHANGED linkVars
           \/ \E l \in Lanes : \/ Connect(l) \/ ConsumeTimeout(l) \/ Fetch(l) \/ DropLane(l)
                               \/ \E n \in Nonces : Redeliver(l, n)
           \/ \E s \in ReplaySlots : Consume(s)
    PROVE  ChainInv'
  <1>1. UNCHANGED <<results, known, here, visited, hops, reply, point>>
    BY DEF BatchDeadline, LookupReturns, TimePasses, StartService, CloseService, ServiceClosed,
           CrashService, Connect, ConsumeTimeout, Fetch, DropLane, Redeliver, Consume,
               batchVars,
           hopVars, linkVars
  <1> QED BY <1>1, StillChain

LEMMA ChainNext == RequestInv /\ ChainInv /\ [LinkNext]_linkVars => ChainInv'
  <1> SUFFICES ASSUME RequestInv, ChainInv, [LinkNext]_linkVars PROVE ChainInv'
    OBVIOUS
  <1>1. CASE SubmitBatch
    <2>1. UNCHANGED <<results, known, here, visited, hops, reply>> /\ point' = "next"
      BY <1>1 DEF SubmitBatch, hopVars
    <2> QED BY <2>1 DEF ChainInv, BatchTypes, HopInv, KnownInv, ResultInv, Busy
  <1>2. CASE GiveUp
    BY <1>2, SettleChain DEF GiveUp, GivesUp, Busy
  <1> QED BY <1>1, <1>2, NextInputChain, ApproveChain, AskChain, JudgeChain, AnswerChain,
             OtherChain DEF LinkNext, ControlStep

LEMMA LinkInvSound == RequestInv /\ ChainInv => LinksSound
  <1> SUFFICES ASSUME RequestInv, ChainInv PROVE LinksSound
    OBVIOUS
  <1>1. FetchedOnce
    BY DEF RequestInv, NonceInv, FetchedOnce
  <1>2. point \in {"approve", "ask", "wait", "judge"} =>
          Cardinality(visited) = hops + (IF point \in {"wait", "judge"} THEN 0 ELSE 1)
    BY DEF ChainInv, HopInv, Busy
  <1>3. \A i, j \in 1..Len(results) : Batch[i] = Batch[j] => results[i] = results[j]
    BY DEF ChainInv, ResultInv
  <1>4. ASSUME NEW i \in 1..Len(results), results[i] # "failed"
        PROVE  KindOf[results[i]] = "final"
    <2>1. i \in 1..Len(Batch) /\ Batch[i] \in Links
      BY BatchFacts DEF ChainInv, BatchTypes, Links
    <2>2. results[i] = known[Batch[i]] /\ known[Batch[i]] # "new"
      BY DEF ChainInv, ResultInv
    <2>3. known[Batch[i]] \in {"new", "failed"} \/ KindOf[known[Batch[i]]] = "final"
      BY <2>1 DEF ChainInv, KnownInv
    <2> QED BY <1>4, <2>2, <2>3
  <1> QED BY <1>1, <1>2, <1>3, <1>4 DEF LinksSound, ChainSound

\* A link costs one request at most and has one outcome: at most one connection
\* of the egress service is ever entitled to fetch for a signed frame, whatever
\* crashes, late workers and collected markers do, and no URL is asked twice.
THEOREM LinksAreSound == LinkSpec => []LinksSound
  <1>1. LinkSpec => []ChainInv
    BY ChainInit, ChainNext, RequestInvariance, PTL DEF LinkSpec
  <1> QED BY <1>1, RequestInvariance, LinkInvSound, PTL

-----------------------------------------------------------------------------
(***************************************************************************)
(* The processes together                                                  *)
(***************************************************************************)
\* A step of the processes is a step of one part, or of none.
LEMMA PartsStep ==
    ASSUME [ProcessesNext]_<<vars, procVars, proxyVars, relayVars, linkVars, aiVars, part>>
    PROVE  /\ [Next]_vars /\ [ChildNext]_procVars /\ [ProxyNext]_proxyVars
           /\ [RelayNext]_relayVars /\ [LinkNext]_linkVars /\ [AiNext]_aiVars
  BY DEF ProcessesNext

\* Both egress servers keep their limits, their order and their patience, for
\* any number of connections and any budget (EgressProxy, UnixRelay).
THEOREM EgressIsSound == ProcessesSpec => []EgressSound
  <1>1. ProcessesInit => ProxyInv /\ RelayInv
    BY ProxyInitInv, RelayInitInv DEF ProcessesInit
  <1>2. ProxyInv /\ RelayInv
          /\ [ProcessesNext]_<<vars, procVars, proxyVars, relayVars, linkVars, aiVars, part>>
          => ProxyInv' /\ RelayInv'
    BY PartsStep, ProxyNextInv, RelayNextInv
  <1>3. ProxyInv /\ RelayInv => EgressSound
    BY ProxyInvBounds, RelayInvSound DEF EgressSound
  <1> QED BY <1>1, <1>2, <1>3, PTL DEF ProcessesSpec
=============================================================================
