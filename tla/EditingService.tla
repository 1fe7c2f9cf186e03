--------------------------- MODULE EditingService ---------------------------
(***************************************************************************)
(* AI tasks and render plans of the editing domain (editing/service.py),   *)
(* the ledger of their remote invocations (editing/ai_ledger.py), the      *)
(* bridge that brackets a remote call with ledger transitions              *)
(* (editing/ai_bridge.py), the speech checkpoints of a dubbing plan        *)
(* (editing/ai_render.py) and the manager that owns the one worker thread  *)
(* (editing/manager.py).                                                   *)
(*                                                                         *)
(* A task or plan is an owner: it owns the ledger rows of its remote       *)
(* calls, numbered by cue ordinal (a task makes at most one).  Each        *)
(* BEGIN IMMEDIATE transaction is one action; an operation that needs two  *)
(* is an entry of ops between them.  The remote provider is the set sent:  *)
(* the calls handed to it, whatever the program knows of them.             *)
(***************************************************************************)
EXTENDS Naturals, FiniteSets

CONSTANTS
    Managers,   \* editing managers, one for each process that may open the root
    Tasks,      \* identifiers of AI tasks
    Plans,      \* identifiers of render plans
    NumCues,    \* cues a dubbing plan synthesizes
    MaxUnits,   \* limits.max_requests of an owner's authorization
    MaxStarts,  \* bound: openings of the editing root
    MaxFaults   \* bound: ledger or owner writes that fail

ASSUME EditingAssumption ==
    /\ Tasks \cap Plans = {}
    /\ "none" \notin Managers \cup Tasks \cup Plans
    /\ IsFiniteSet(Tasks \cup Plans)
    /\ NumCues \in Nat \ {0}
    /\ {MaxUnits, MaxStarts, MaxFaults} \subseteq Nat

VARIABLES
    owner,     \* ai_tasks and render_plans
    inv,       \* ai_invocations by owner and ordinal, resolution folded in
    timeline,  \* review of the timeline revision a task produced
    row,       \* speech checkpoint manifests (requests), by plan and ordinal
    file,      \* checkpoint files, named by the plan that produced them
    output,    \* rendered media of a plan in asset_root
    lease,     \* UploadActivityLease on the root
    phase,     \* what each manager is doing
    worker,    \* the worker thread of each manager
    ops,       \* API operations between two steps
    epoch,     \* which opening of the root a manager's run is; its claim token
    starts,    \* openings so far
    faults,    \* ghost: failed writes so far
    sent       \* ghost: calls handed to the remote provider

dbVars  == <<owner, inv, timeline, row, file, output>>
runVars == <<lease, phase, worker, ops, epoch, starts>>
vars    == <<dbVars, runVars, faults, sent>>

Owners   == Tasks \cup Plans
Ordinals == 1..NumCues
None     == "none"

Refused     == {"accepted", "abandoned"}        \* reconciled, and final
Resolutions == Refused \cup {"not_accepted"}
InvState    == Resolutions \cup
    {"none", "reserved", "dispatched", "responded", "released", "unknown"}
Evidence    == Refused \cup {"result_unknown", "retry_blocked"}
Code        == Evidence \cup {"not_accepted", "other"}
Active      == {"running", "canceling"}
Done        == {"succeeded", "ready"}
Terminal    == Done \cup {"failed", "canceled"}
OwnerState  == Terminal \cup Active \cup {"none", "review", "queued"}
WorkerPC    == {"off", "idle", "claimed", "check", "load", "reserve", "test",
                "release", "dispatch", "remote", "await", "respond", "unknown",
                "copy", "record", "render", "complete", "commit", "clean",
                "canceled", "fail", "failing"}
Phase       == {"down", "ledger", "owners", "files", "up", "stopping"}

Off  == [pc |-> "off", owner |-> None, cue |-> 0, cancel |-> FALSE]
Idle == [Off EXCEPT !.pc = "idle"]

TypeOK ==
    /\ owner \in [Owners -> [state : OwnerState, code : Code, units : 0..NumCues,
                             retryOf : Owners \cup {None}, token : 0..MaxStarts,
                             confirmed : 0..MaxStarts]]
    /\ inv \in [Owners -> [Ordinals -> InvState]]
    /\ timeline \in [Tasks -> {"none", "review", "approved", "rejected"}]
    /\ row \subseteq Plans \X Ordinals
    /\ file \subseteq Plans \X Ordinals
    /\ output \in [Plans -> {"none", "copied", "registered"}]
    /\ lease \in Managers \cup {None}
    /\ phase \in [Managers -> Phase]
    /\ worker \in [Managers -> [pc : WorkerPC, owner : Owners \cup {None},
                                cue : 0..(NumCues + 1), cancel : BOOLEAN]]
    /\ ops \subseteq Managers \X {"signal", "confirm", "reconcile"} \X Owners
    /\ epoch \in [Managers -> 0..MaxStarts]
    /\ starts \in 0..MaxStarts
    /\ faults \in 0..MaxFaults
    /\ sent \subseteq Owners \X Ordinals

Absent == [state |-> "none", code |-> "other", units |-> 0, retryOf |-> None,
           token |-> 0, confirmed |-> 0]

Init ==
    /\ owner = [o \in Owners |-> Absent]
    /\ inv = [o \in Owners |-> [c \in Ordinals |-> "none"]]
    /\ timeline = [t \in Tasks |-> "none"]
    /\ row = {} /\ file = {}
    /\ output = [p \in Plans |-> "none"]
    /\ lease = None
    /\ phase = [m \in Managers |-> "down"]
    /\ worker = [m \in Managers |-> Off]
    /\ ops = {}
    /\ epoch = [m \in Managers |-> 0]
    /\ starts = 0 /\ faults = 0
    /\ sent = {}

(***************************************************************************)
(* The ledger's guards.                                                    *)
(***************************************************************************)
\* retry_ancestry: o and everything it retries, directly or not.
Ancestry(o) ==
    LET up[n \in 0..Cardinality(Owners)] ==
            IF n = 0 THEN {o}
            ELSE up[n - 1] \cup ({owner[a].retryOf : a \in up[n - 1]} \ {None})
    IN  up[Cardinality(Owners)]

HasSuccessor(o) == \E s \in Owners : owner[s].retryOf = o

\* Lineage root: the directory of the shared speech checkpoints.
SameLineage(p, q) == Ancestry(p) \cap Ancestry(q) # {}

\* Mutant: retry looks for open calls and forgets refused ones.
RetryAllowed_IfClosed(o) ==
    \A a \in Ancestry(o), c \in Ordinals :
        inv[a][c] \notin {"reserved", "dispatched", "unknown"}

RetryAllowed(o) ==
    \A a \in Ancestry(o), c \in Ordinals :
        inv[a][c] \notin {"reserved", "dispatched", "unknown"} \cup Refused

CancellationSafe(o) ==
    /\ owner[o].code \notin Evidence
    /\ \A a \in Ancestry(o), c \in Ordinals :
        /\ inv[a][c] \notin {"unknown"} \cup Refused
        /\ inv[a][c] \in {"reserved", "dispatched"} =>
               a = o /\ owner[o].state \in Active

HasUnknown(o) == \E c \in Ordinals : inv[o][c] = "unknown"

Resolved(o) == \A c \in Ordinals :
    inv[o][c] \notin {"reserved", "dispatched", "unknown"}

\* The conservative summary of an owner's reconciled calls.
ReconciledCode(o) ==
    LET found == {inv[o][c] : c \in Ordinals}
    IN  IF "accepted" \in found THEN "accepted"
        ELSE IF "abandoned" \in found THEN "abandoned"
        ELSE IF "not_accepted" \in found THEN "not_accepted"
        ELSE owner[o].code

\* Units that still count against the authorization.
Consumed(o) ==
    Cardinality({c \in Ordinals : inv[o][c] \notin {"none", "released", "not_accepted"}})

\* Mutant: every open call released, dispatched or not.
Closed_AllReleased(calls, unsent) ==
    [c \in Ordinals |-> IF calls[c] \in {"reserved", "dispatched"} THEN unsent
                        ELSE calls[c]]

Closed(calls, unsent) ==
    [c \in Ordinals |-> CASE calls[c] = "reserved"   -> unsent
                          [] calls[c] = "dispatched" -> "unknown"
                          [] OTHER                   -> calls[c]]

(***************************************************************************)
(* API operations.  Each runs inside _begin_operation/_finish_operation of *)
(* a manager whose service is open.                                        *)
(***************************************************************************)
Serving(m) == phase[m] = "up"

Insert(o, units, parent) ==
    owner' = [owner EXCEPT ![o] =
        [Absent EXCEPT !.state = "review", !.units = units, !.retryOf = parent]]

ApiKeeps == UNCHANGED <<inv, row, file, output, lease, phase, worker, epoch,
                        starts, faults, sent>>

\* create_ai_task, create_plan: a local or ordinary owner makes no remote call.
CreateOwner(m, o, remote) ==
    /\ Serving(m) /\ owner[o].state = "none"
    /\ Insert(o, IF ~remote THEN 0 ELSE IF o \in Tasks THEN 1 ELSE NumCues, None)
    /\ ApiKeeps /\ UNCHANGED <<timeline, ops>>

Queued(o, m) == [owner EXCEPT ![o].state = "queued", ![o].code = "other",
                              ![o].confirmed = epoch[m]]

ConfirmTask(m, o) ==
    /\ Serving(m) /\ o \in Tasks
    /\ owner[o].state = "review" /\ RetryAllowed(o)
    /\ owner' = Queued(o, m)
    /\ ApiKeeps /\ UNCHANGED <<timeline, ops>>

\* confirm_plan verifies source and timeline between its two transactions.
ConfirmPlanCheck(m, o) ==
    /\ Serving(m) /\ o \in Plans
    /\ owner[o].state = "review" /\ RetryAllowed(o)
    /\ ops' = ops \cup {<<m, "confirm", o>>}
    /\ ApiKeeps /\ UNCHANGED <<timeline, owner>>

ConfirmPlanQueue(m, o) ==
    /\ <<m, "confirm", o>> \in ops
    /\ ops' = ops \ {<<m, "confirm", o>>}
    /\ owner' = IF owner[o].state = "review" THEN Queued(o, m) ELSE owner
    /\ ApiKeeps /\ UNCHANGED timeline

\* retry_ai_task, retry_plan: one successor, reviewed anew.
Retry(m, o, new) ==
    /\ Serving(m)
    /\ o \in Tasks <=> new \in Tasks
    /\ \/ owner[o].state \in {"failed", "canceled"}
       \/ o \in Tasks /\ owner[o].state = "succeeded" /\ timeline[o] = "rejected"
    /\ RetryAllowed(o)
    /\ ~HasSuccessor(o)
    /\ owner[new].state = "none"
    /\ Insert(new, owner[o].units, o)
    /\ ApiKeeps /\ UNCHANGED <<timeline, ops>>

\* cancel_ai_tasks, cancel_plan: the database first, the worker's event after.
Cancel(m, o) ==
    /\ Serving(m)
    /\ ~HasSuccessor(o) /\ CancellationSafe(o)
    /\ \/ /\ owner[o].state \in {"review", "queued"}
          /\ owner' = [owner EXCEPT ![o].state = "canceled", ![o].code = "other"]
       \/ /\ owner[o].state = "running"
          /\ owner' = [owner EXCEPT ![o].state = "canceling", ![o].code = "other"]
    /\ ops' = ops \cup {<<m, "signal", o>>}
    /\ ApiKeeps /\ UNCHANGED timeline

\* The worker's current task or plan, once its cancel event is visible.
Published(m) == worker[m].pc \notin {"off", "idle", "claimed"}

SignalCancel(m, o) ==
    /\ <<m, "signal", o>> \in ops
    /\ ops' = ops \ {<<m, "signal", o>>}
    /\ worker' = IF Published(m) /\ worker[m].owner = o
                 THEN [worker EXCEPT ![m].cancel = TRUE] ELSE worker
    /\ UNCHANGED <<dbVars, lease, phase, epoch, starts, faults, sent>>

\* reconcile_ai_invocation: the ledger's transaction, then the owner's code.
ReconcileLedger(m, o, c, resolution) ==
    /\ Serving(m)
    /\ owner[o].state \in {"failed", "canceled"}
    /\ inv[o][c] = "unknown"
    /\ inv' = [inv EXCEPT ![o][c] = resolution]
    /\ ops' = ops \cup {<<m, "reconcile", o>>}
    /\ UNCHANGED <<owner, timeline, row, file, output, lease, phase, worker,
                   epoch, starts, faults, sent>>

ReconcileOwner(m, o) ==
    /\ <<m, "reconcile", o>> \in ops
    /\ ops' = ops \ {<<m, "reconcile", o>>}
    /\ owner' = IF /\ ~HasUnknown(o)
                   /\ owner[o].state \in {"failed", "canceled"}
                   /\ owner[o].code = "result_unknown"
                THEN [owner EXCEPT ![o].code = ReconciledCode(o)] ELSE owner
    /\ ApiKeeps /\ UNCHANGED timeline

ReviewTimeline(m, t, decision) ==
    /\ Serving(m)
    /\ timeline[t] = "review"
    /\ timeline' = [timeline EXCEPT ![t] = decision]
    /\ ApiKeeps /\ UNCHANGED <<owner, ops>>

(***************************************************************************)
(* The worker thread.                                                      *)
(***************************************************************************)
At(m, pc)  == worker[m].pc = pc
Goto(m, pc) == worker' = [worker EXCEPT ![m].pc = pc]
Mine(m)    == worker[m].owner
Held(m)    == /\ owner[Mine(m)].token = epoch[m]
              /\ owner[Mine(m)].state \in Active
Cue(m)     == inv[Mine(m)][worker[m].cue]

RunKeeps == UNCHANGED <<timeline, row, file, output, lease, phase, ops, epoch, starts>>

\* A durable write the program may find itself unable to make.
Fault == faults < MaxFaults /\ faults' = faults + 1

\* Tasks before plans, in order of confirmation (any order of wall-clock
\* times); blocked ones passed on the way go back to review.  A claim that
\* commits just after stop is the same as one just before: Publish sees it.
Claimable(kind) == {o \in kind : owner[o].state = "queued" /\ RetryAllowed(o)}
Blocked(kind)   == {o \in kind : owner[o].state = "queued" /\ ~RetryAllowed(o)}

Claim(m, o) ==
    LET kind == IF o \in Tasks THEN Tasks ELSE Plans IN
    /\ phase[m] = "up" /\ At(m, "idle")
    /\ o \in Claimable(kind)
    /\ o \in Plans => Claimable(Tasks) = {}
    /\ \E passed \in SUBSET Blocked(kind) :
           owner' = [a \in Owners |->
               IF a \in passed
               THEN [owner[a] EXCEPT !.state = "review", !.code = "retry_blocked",
                                     !.confirmed = 0]
               ELSE IF a = o
               THEN [owner[a] EXCEPT !.state = "running", !.token = epoch[m]]
               ELSE owner[a]]
    /\ worker' = [worker EXCEPT ![m] = [Idle EXCEPT !.pc = "claimed", !.owner = o]]
    /\ UNCHANGED <<inv, timeline, row, file, output, lease, phase, ops, epoch,
                   starts, faults, sent>>

\* The cancel event becomes visible to cancel and stop.
Publish(m) ==
    /\ At(m, "claimed")
    /\ worker' = [worker EXCEPT ![m].pc = "check", ![m].cue = 1,
                                ![m].cancel = (phase[m] = "stopping")]
    /\ RunKeeps /\ UNCHANGED <<owner, inv, faults, sent>>

\* Where an owner with no further call continues.
AfterCues(o) == IF o \in Tasks THEN "complete" ELSE "render"

NextCall(o, c) == IF c > owner[o].units THEN AfterCues(o)
                  ELSE IF o \in Tasks THEN "reserve" ELSE "load"

\* A cancellation may have landed before the event was published.
CheckCanceled(m) ==
    LET stop == worker[m].cancel \/ owner[Mine(m)].state = "canceling" IN
    /\ At(m, "check")
    /\ \E pc \in (IF stop THEN {"fail"} ELSE {}) \cup
                 (IF stop /\ Mine(m) \in Tasks THEN {} ELSE {NextCall(Mine(m), 1)}) :
           worker' = [worker EXCEPT ![m].pc = pc, ![m].cancel = stop]
    /\ RunKeeps /\ UNCHANGED <<owner, inv, faults, sent>>

\* Local work fails, or notices the event, outside of a remote call.
LocalFailure(m) ==
    /\ worker[m].pc \in {"load", "reserve", "copy", "render", "complete"}
    /\ Goto(m, "fail")
    /\ RunKeeps /\ UNCHANGED <<owner, inv, faults, sent>>

\* Files under the lineage root for this cue, and those a manifest vouches
\* for: recorded by a plan of the ancestry, answered remotely.
CueFiles(p, c) == {f \in file : f[2] = c /\ SameLineage(p, f[1])}
Vouched(p, c) ==
    {f \in CueFiles(p, c) : /\ f \in row
                            /\ f[1] \in Ancestry(p)
                            /\ inv[f[1]][c] = "responded"}

\* Mutant: a checkpoint that is not used is left in place.
LoadCheckpoint_Undiscarded(m) ==
    LET p == Mine(m)
        c == worker[m].cue
    IN  /\ At(m, "load") /\ Held(m)
        /\ \E reuse \in SUBSET Vouched(p, c) :
            worker' = IF reuse = {} THEN [worker EXCEPT ![m].pc = "reserve"]
                      ELSE [worker EXCEPT ![m].pc = NextCall(p, c + 1),
                                          ![m].cue = c + 1]
        /\ UNCHANGED <<dbVars, lease, phase, ops, epoch, starts, faults, sent>>

\* load: unvouched files are discarded; a file that does not fit the track
\* is discarded and its cue synthesized again.
LoadCheckpoint(m) ==
    LET p == Mine(m)
        c == worker[m].cue
    IN  /\ At(m, "load") /\ Held(m)
        /\ \E reuse \in SUBSET Vouched(p, c) :
            /\ file' = (file \ CueFiles(p, c)) \cup reuse
            /\ worker' = IF reuse = {} THEN [worker EXCEPT ![m].pc = "reserve"]
                         ELSE [worker EXCEPT ![m].pc = NextCall(p, c + 1),
                                             ![m].cue = c + 1]
        /\ UNCHANGED <<owner, inv, timeline, row, output, lease, phase, ops,
                       epoch, starts, faults, sent>>

Reserve(m) ==
    LET o == Mine(m)
        granted == /\ owner[o].state = "running" /\ Held(m)
                   /\ Cue(m) = "none"
                   /\ Consumed(o) + 1 <= MaxUnits
    IN  /\ At(m, "reserve")
        /\ inv' = IF granted THEN [inv EXCEPT ![o][worker[m].cue] = "reserved"] ELSE inv
        /\ Goto(m, IF granted THEN "test" ELSE "fail")
        /\ RunKeeps /\ UNCHANGED <<owner, faults, sent>>

\* cancelled(): a task reads its row as well, a plan only the event.
Cancelled(m) ==
    \/ worker[m].cancel
    \/ Mine(m) \in Tasks /\ owner[Mine(m)].state = "canceling"

TestCanceled(m) ==
    /\ At(m, "test")
    /\ worker' = [worker EXCEPT ![m].pc = IF Cancelled(m) THEN "release" ELSE "dispatch",
                                ![m].cancel = Cancelled(m)]
    /\ RunKeeps /\ UNCHANGED <<owner, inv, faults, sent>>

\* A ledger transition under the owner's claim; refused, or not written, it
\* sends the bridge to else.
Transition(m, pc, from, guard, to, then, else) ==
    /\ At(m, pc)
    /\ \/ /\ guard /\ Held(m) /\ Cue(m) = from
          /\ inv' = [inv EXCEPT ![Mine(m)][worker[m].cue] = to]
          /\ Goto(m, then)
          /\ UNCHANGED faults
       \/ /\ ~(guard /\ Held(m) /\ Cue(m) = from)
          /\ Goto(m, else)
          /\ UNCHANGED <<inv, faults>>
       \/ /\ Fault
          /\ Goto(m, else)
          /\ UNCHANGED inv
    /\ RunKeeps /\ UNCHANGED <<owner, sent>>

Dispatch(m)    == Transition(m, "dispatch", "reserved",
                             owner[Mine(m)].state = "running",
                             "dispatched", "remote", "release")
Release(m)     == Transition(m, "release", "reserved", TRUE, "released", "fail", "fail")
Respond(m)     == Transition(m, "respond", "dispatched", TRUE, "responded",
                             IF Mine(m) \in Tasks THEN "complete" ELSE "copy", "unknown")
MarkUnknown(m) == Transition(m, "unknown", "dispatched", TRUE, "unknown", "fail", "fail")

\* The isolated worker process is launched, and later returns or is killed.
Send(m) ==
    /\ At(m, "remote")
    /\ sent' = sent \cup {<<Mine(m), worker[m].cue>>}
    /\ Goto(m, "await")
    /\ RunKeeps /\ UNCHANGED <<owner, inv, faults>>

LaunchFailure(m) ==
    /\ At(m, "remote")
    /\ Goto(m, "unknown")
    /\ RunKeeps /\ UNCHANGED <<owner, inv, faults, sent>>

Return(m) ==
    /\ At(m, "await")
    /\ \/ Goto(m, "respond")
       \/ Goto(m, "unknown")
    /\ RunKeeps /\ UNCHANGED <<owner, inv, faults, sent>>

\* persist: another look at the directory, the file by an atomic link, then
\* its manifest.
CopyCheckpoint(m) ==
    LET p == Mine(m)
        c == worker[m].cue
    IN
    /\ At(m, "copy")
    /\ file' = (file \ CueFiles(p, c)) \cup Vouched(p, c) \cup {<<p, c>>}
    /\ Goto(m, "record")
    /\ UNCHANGED <<owner, inv, timeline, row, output, lease, phase, ops, epoch,
                   starts, faults, sent>>

RecordCheckpoint(m) ==
    LET entry == <<Mine(m), worker[m].cue>> IN
    /\ At(m, "record")
    /\ \/ /\ Held(m) /\ Cue(m) = "responded"
          /\ row' = row \cup {entry}
          /\ worker' = [worker EXCEPT ![m].pc = NextCall(Mine(m), worker[m].cue + 1),
                                      ![m].cue = @ + 1]
          /\ UNCHANGED <<file, faults>>
       \/ /\ Fault
          /\ row' \in {row, row \cup {entry}}   \* or only its confirmation fails
          /\ file' = file \ {entry}
          /\ Goto(m, "fail")
    /\ UNCHANGED <<owner, inv, timeline, output, lease, phase, ops, epoch, starts, sent>>

Render(m) ==
    /\ At(m, "render")
    /\ Goto(m, "complete")
    /\ RunKeeps /\ UNCHANGED <<owner, inv, faults, sent>>

\* complete_ai_task, complete_plan: a first look, then (a plan) the media
\* copied into asset_root, then the transaction.  A copy that fails, or is not
\* what the renderer said, is discarded.
Complete(m) ==
    LET o     == Mine(m)
        sound == Held(m) /\ (o \in Plans => Resolved(o))
        media == sound /\ o \in Plans /\ owner[o].state = "running"
    IN  /\ At(m, "complete")
        /\ \/ /\ Goto(m, IF ~sound THEN "fail"
                         ELSE IF owner[o].state = "canceling" THEN "canceled" ELSE "commit")
              /\ output' = IF media THEN [output EXCEPT ![o] = "copied"] ELSE output
              /\ UNCHANGED faults
           \/ media /\ Fault /\ Goto(m, "fail") /\ UNCHANGED output
        /\ UNCHANGED <<owner, inv, timeline, row, file, lease, phase, ops, epoch, starts, sent>>

Ended(o, state, code) ==
    [owner EXCEPT ![o].state = state, ![o].code = code, ![o].token = 0]
Free(m) == worker' = [worker EXCEPT ![m] = Idle]

\* Mutant: the result of a canceling task is registered.
CommitTask_Canceling(m) ==
    LET t == Mine(m) IN
    /\ At(m, "commit") /\ t \in Tasks
    /\ owner' = Ended(t, "succeeded", "other")
    /\ timeline' = [timeline EXCEPT ![t] = "review"]
    /\ Free(m)
    /\ UNCHANGED <<inv, row, file, output, lease, phase, ops, epoch, starts,
                   faults, sent>>

CommitTask(m) ==
    LET t == Mine(m)
        registered == owner[t].state = "running" /\ Resolved(t)
    IN  /\ At(m, "commit") /\ t \in Tasks
        /\ \/ /\ IF Held(m) /\ (registered \/ owner[t].state = "canceling")
                 THEN /\ owner' = Ended(t, IF registered THEN "succeeded" ELSE "canceled",
                                        "other")
                      /\ Free(m)
                 ELSE Goto(m, "fail") /\ UNCHANGED owner
              /\ timeline' = IF Held(m) /\ registered
                             THEN [timeline EXCEPT ![t] = "review"] ELSE timeline
              /\ UNCHANGED faults
           \/ Fault /\ Goto(m, "fail") /\ UNCHANGED <<owner, timeline>>
        /\ UNCHANGED <<inv, row, file, output, lease, phase, ops, epoch, starts, sent>>

CommitPlan(m) ==
    LET p == Mine(m) IN
    /\ At(m, "commit") /\ p \in Plans
    /\ \/ /\ Held(m) /\ owner[p].state = "running" /\ Resolved(p)
          /\ owner' = Ended(p, "ready", "other")
          /\ output' = [output EXCEPT ![p] = "registered"]
          /\ Goto(m, "clean")
          /\ UNCHANGED faults
       \/ /\ \/ Fault
             \/ UNCHANGED faults /\ ~(Held(m) /\ owner[p].state = "running" /\ Resolved(p))
          /\ output' = [output EXCEPT ![p] = "none"]
          /\ Goto(m, "fail")
          /\ UNCHANGED owner
    /\ UNCHANGED <<inv, timeline, row, file, lease, phase, ops, epoch, starts, sent>>

\* _discard_speech_checkpoints: the directory of the whole lineage.
LineageFiles(p) == {f \in file : SameLineage(p, f[1])}

Clean(m) ==
    /\ At(m, "clean")
    /\ file' = file \ LineageFiles(Mine(m))
    /\ Free(m)
    /\ UNCHANGED <<owner, inv, timeline, row, output, lease, phase, ops, epoch,
                   starts, faults, sent>>

\* The handler decides first whether the failure counts as a cancellation.
JudgeFailure(m) ==
    /\ At(m, "fail")
    /\ worker' = [worker EXCEPT ![m].pc = "failing", ![m].cancel = Cancelled(m)]
    /\ RunKeeps /\ UNCHANGED <<owner, inv, faults, sent>>

\* fail_ai_task, fail_plan: close the calls, then the owner.
CloseOwner(o, canceled) ==
    LET calls == Closed(inv[o], "released")
        lost  == \E c \in Ordinals : calls[c] = "unknown"
    IN  /\ inv' = [inv EXCEPT ![o] = calls]
        /\ owner' = IF lost THEN Ended(o, "failed", "result_unknown")
                    ELSE Ended(o, IF canceled THEN "canceled" ELSE "failed", "other")

FailOwner(m) ==
    /\ At(m, "failing")
    /\ \/ /\ IF Held(m) THEN CloseOwner(Mine(m), worker[m].cancel)
                       ELSE UNCHANGED <<owner, inv>>
          /\ UNCHANGED faults
       \/ Fault /\ UNCHANGED <<owner, inv>>    \* except EditingError: pass
    /\ Free(m)
    /\ RunKeeps /\ UNCHANGED sent

\* Completion found a cancellation and fails the owner itself.
CancelOwner(m) ==
    /\ At(m, "canceled")
    /\ \/ CloseOwner(Mine(m), TRUE) /\ Free(m) /\ UNCHANGED faults
       \/ Fault /\ Goto(m, "fail") /\ UNCHANGED <<owner, inv>>
    /\ RunKeeps /\ UNCHANGED sent

(***************************************************************************)
(* The manager: opening with recovery, stop, and process crash.            *)
(***************************************************************************)
Enter(m, p) == phase' = [phase EXCEPT ![m] = p]

Open(m) ==
    /\ phase[m] = "down" /\ lease = None
    /\ starts < MaxStarts
    /\ starts' = starts + 1
    /\ epoch' = [epoch EXCEPT ![m] = starts + 1]
    /\ lease' = m
    /\ Enter(m, "ledger")
    /\ UNCHANGED <<dbVars, worker, ops, faults, sent>>

RecoverLedger(m) ==
    /\ phase[m] = "ledger"
    /\ inv' = [o \in Owners |-> Closed(inv[o], "released")]
    /\ Enter(m, "owners")
    /\ UNCHANGED <<owner, timeline, row, file, output, lease, worker, ops, epoch,
                   starts, faults, sent>>

\* Mutant: what was queued in an earlier opening stays queued.
RecoverOwners_KeepQueue(m) ==
    /\ phase[m] = "owners"
    /\ owner' = [o \in Owners |->
        IF owner[o].state \in Active
        THEN [owner[o] EXCEPT !.state = "failed", !.token = 0,
                 !.code = IF HasUnknown(o) THEN "result_unknown" ELSE "other"]
        ELSE owner[o]]
    /\ Enter(m, "files")
    /\ UNCHANGED <<inv, timeline, row, file, output, lease, worker, ops, epoch,
                   starts, faults, sent>>

\* recover_interrupted, the plans and the tasks.
RecoverOwners(m) ==
    /\ phase[m] = "owners"
    /\ owner' = [o \in Owners |->
        CASE owner[o].state \in Active ->
                [owner[o] EXCEPT !.state = "failed", !.token = 0,
                    !.code = IF HasUnknown(o) THEN "result_unknown" ELSE "other"]
          [] owner[o].state = "queued" ->
                [owner[o] EXCEPT !.state = "review", !.confirmed = 0, !.code = "other"]
          [] owner[o].state \in {"failed", "canceled"} /\ HasUnknown(o) ->
                [owner[o] EXCEPT !.state = "failed", !.code = "result_unknown"]
          [] /\ owner[o].state \in {"failed", "canceled"}
             /\ owner[o].code = "result_unknown" /\ ~HasUnknown(o) ->
                [owner[o] EXCEPT !.code = ReconciledCode(o)]
          [] OTHER -> owner[o]]
    /\ Enter(m, "files")
    /\ UNCHANGED <<inv, timeline, row, file, output, lease, worker, ops, epoch,
                   starts, faults, sent>>

\* Mutant: opening does not finish the clean-up of a ready plan.
RecoverFiles_MediaOnly(m) ==
    /\ phase[m] = "files"
    /\ output' = [p \in Plans |-> IF output[p] = "copied" THEN "none" ELSE output[p]]
    /\ Enter(m, "up")
    /\ worker' = [worker EXCEPT ![m] = Idle]
    /\ UNCHANGED <<owner, inv, timeline, row, file, lease, ops, epoch, starts,
                   faults, sent>>

\* _cleanup_orphan_media, then the worker thread starts.
RecoverFiles(m) ==
    /\ phase[m] = "files"
    /\ output' = [p \in Plans |-> IF output[p] = "copied" THEN "none" ELSE output[p]]
    /\ file' = file \ UNION {LineageFiles(p) : p \in {q \in Plans : owner[q].state = "ready"}}
    /\ Enter(m, "up")
    /\ worker' = [worker EXCEPT ![m] = Idle]
    /\ UNCHANGED <<owner, inv, timeline, row, lease, ops, epoch, starts, faults, sent>>

Stop(m) ==
    /\ phase[m] = "up"
    /\ Enter(m, "stopping")
    /\ worker' = IF Published(m) THEN [worker EXCEPT ![m].cancel = TRUE] ELSE worker
    /\ UNCHANGED <<dbVars, lease, ops, epoch, starts, faults, sent>>

\* Mutant: a stopping worker wants the queue empty first.
WorkerExit_Drained(m) ==
    /\ phase[m] = "stopping" /\ At(m, "idle")
    /\ \A o \in Owners : owner[o].state # "queued"
    /\ worker' = [worker EXCEPT ![m] = Off]
    /\ UNCHANGED <<dbVars, lease, phase, ops, epoch, starts, faults, sent>>

WorkerExit(m) ==
    /\ phase[m] = "stopping" /\ At(m, "idle")
    /\ worker' = [worker EXCEPT ![m] = Off]
    /\ UNCHANGED <<dbVars, lease, phase, ops, epoch, starts, faults, sent>>

\* Mutant: the lease is given back while API operations are under way.
Quiescent_WorkerOnly(m) == phase[m] = "stopping" /\ At(m, "off")

\* The lease outlives stop's timeout until worker and operations are done.
Quiescent(m) == phase[m] = "stopping" /\ At(m, "off") /\ \A op \in ops : op[1] # m

ReleaseLease(m) ==
    /\ Quiescent(m) /\ lease = m
    /\ lease' = None
    /\ Enter(m, "down")
    /\ UNCHANGED <<dbVars, worker, ops, epoch, starts, faults, sent>>

Crash(m) ==
    /\ phase[m] # "down"
    /\ lease' = IF lease = m THEN None ELSE lease
    /\ Enter(m, "down")
    /\ worker' = [worker EXCEPT ![m] = Off]
    /\ ops' = {op \in ops : op[1] # m}
    /\ UNCHANGED <<dbVars, epoch, starts, faults, sent>>

-----------------------------------------------------------------------------
WorkerStep(m) ==
    \/ \E o \in Owners : Claim(m, o)
    \/ Publish(m) \/ CheckCanceled(m) \/ LocalFailure(m) \/ LoadCheckpoint(m)
    \/ Reserve(m) \/ TestCanceled(m) \/ Release(m) \/ Dispatch(m) \/ Send(m)
    \/ LaunchFailure(m) \/ Return(m) \/ Respond(m) \/ MarkUnknown(m)
    \/ CopyCheckpoint(m) \/ RecordCheckpoint(m) \/ Render(m) \/ Complete(m)
    \/ CommitTask(m) \/ CommitPlan(m) \/ Clean(m) \/ JudgeFailure(m)
    \/ FailOwner(m) \/ CancelOwner(m) \/ WorkerExit(m)

ApiBegin(m) ==
    \/ \E o \in Owners, remote \in BOOLEAN : CreateOwner(m, o, remote)
    \/ \E o \in Owners : \/ ConfirmTask(m, o) \/ ConfirmPlanCheck(m, o) \/ Cancel(m, o)
    \/ \E o, new \in Owners : Retry(m, o, new)
    \/ \E o \in Owners, c \in Ordinals, r \in Resolutions : ReconcileLedger(m, o, c, r)
    \/ \E t \in Tasks, d \in {"approved", "rejected"} : ReviewTimeline(m, t, d)

ApiEnd(m) ==
    \E o \in Owners : ConfirmPlanQueue(m, o) \/ SignalCancel(m, o) \/ ReconcileOwner(m, o)

Recover(m) == Open(m) \/ RecoverLedger(m) \/ RecoverOwners(m) \/ RecoverFiles(m)

Next == \E m \in Managers :
    \/ WorkerStep(m) \/ ApiBegin(m) \/ ApiEnd(m) \/ Recover(m)
    \/ Stop(m) \/ ReleaseLease(m) \/ Crash(m)

\* The worker loops without blocking, calls time out, operations return, and
\* recovery runs to its end once the root is open; opening it, stopping and
\* every request are the environment's.
Fairness == \A m \in Managers :
    /\ WF_vars(WorkerStep(m)) /\ WF_vars(ApiEnd(m)) /\ WF_vars(ReleaseLease(m))
    /\ WF_vars(RecoverLedger(m) \/ RecoverOwners(m) \/ RecoverFiles(m))

Spec     == Init /\ [][Next]_vars
FairSpec == Spec /\ Fairness

-----------------------------------------------------------------------------
(***************************************************************************)
(* Properties.                                                             *)
(***************************************************************************)
\* No remote call of a lineage is repeated, by a retry, after an earlier call
\* that may have reached the provider: it was answered, or an operator
\* declared it not accepted (retry_ancestry checks of confirm, claim, retry).
NoBlindRepay ==
    \A call \in sent, earlier \in sent :
        earlier[1] \in Ancestry(call[1]) \ {call[1]} =>
            inv[earlier[1]][earlier[2]] \in {"responded", "not_accepted"}

\* Whatever crashed, failed or was cancelled when, the ledger never calls
\* unsent what was sent (dispatch is durable before the worker is launched,
\* recovery and owner failure release only what was merely reserved).
SentStaysSent ==
    \A call \in sent : inv[call[1]][call[2]] \notin {"none", "reserved", "released"}

\* A retry never pays again for a cue that some plan of its lineage was
\* answered, recorded and still holds the audio of (_SpeechCheckpointCache).
PaidOnce ==
    [][\A call \in sent' \ sent : call[1] \in Plans => Vouched(call[1], call[2]) = {}]_vars

\* What is done rests on answers: every cue of a ready plan, and the call of
\* a succeeded task, was answered to it or to an owner it retries.
DoneIsAnswered ==
    \A o \in Owners : owner[o].state \in Done =>
        \A c \in 1..owner[o].units : \E a \in Ancestry(o) : inv[a][c] = "responded"

Opened(m) == phase[m] \in {"up", "stopping"}

\* Between operations an open root holds no file without an owner: rendered
\* media are registered or being committed, and no plan is ready while
\* checkpoints of its lineage remain, but for the one being cleaned.
StorageClean ==
    \A m \in Managers, p \in Plans : Opened(m) =>
        /\ output[p] = "copied" => worker[m].owner = p /\ At(m, "commit")
        /\ output[p] = "registered" <=> owner[p].state = "ready"
        /\ owner[p].state = "ready" /\ LineageFiles(p) # {} =>
               worker[m].owner = p /\ At(m, "clean")

\* The code that tells the operator to reconcile is on an ended owner exactly
\* while one of its calls is unknown, whichever of ledger and owner was
\* written last (reconcile in two transactions, recover_interrupted).
UnknownShown ==
    \A m \in Managers, o \in Owners :
        Opened(m) /\ owner[o].state \in {"failed", "canceled"}
            /\ <<m, "reconcile", o>> \notin ops =>
        (owner[o].code = "result_unknown" <=> HasUnknown(o))

\* The ledger never says less than what happened, nor does an owner say more
\* than the ledger and the files of the root: what was sent, what was answered,
\* what is unknown, what is stored.
LedgerTruthful ==
    TypeOK /\ SentStaysSent /\ DoneIsAnswered /\ UnknownShown /\ StorageClean

\* Whoever still works on the root, in its worker or in an API operation,
\* holds the lease, also past the timeout of stop: recovery by another
\* manager never overlaps it.
LeaseHeld ==
    \A m \in Managers : ~At(m, "off") \/ (\E op \in ops : op[1] = m) => lease = m

\* Nothing is queued or runs on a confirmation of an earlier opening.
ConfirmedNow ==
    \A m \in Managers, o \in Owners :
        Opened(m) /\ owner[o].state \in Active \cup {"queued"} =>
            owner[o].confirmed = epoch[m]

\* An end is final, and a cancellation that reached the row is never answered
\* with success, in any order of cancel, completion and restart.
EndIsFinal ==
    [][\A o \in Owners :
        /\ owner[o].state \in Terminal => owner'[o].state = owner[o].state
        /\ owner[o].state = "canceling" => owner'[o].state \notin Done]_vars

\* A stopped manager always gives the root back.
StopReleases == \A m \in Managers : phase[m] = "stopping" ~> lease # m

=============================================================================
