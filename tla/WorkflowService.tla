---------------------------- MODULE WorkflowService -------------------------
(***************************************************************************)
(* One automatic workflow (workflows/service.py, manager.py) and the       *)
(* objects it owns in the download, editing and upload domains, which it   *)
(* reaches through workflows/local_adapter.py.                             *)
(*                                                                         *)
(* A process runs one operation at a time on a workflow (_service_lock),   *)
(* an operation is a sequence of transactions of different databases, and  *)
(* between two of them another process, a domain worker, the user on a     *)
(* domain's own page, or a crash may act.  A second process is the control *)
(* child of a run that was killed and has not ended yet.                   *)
(*                                                                         *)
(* The row's revision is abstracted to what is asked of it: every write    *)
(* changes it, so it is a flag per operation that says whether the row is  *)
(* still the one that was read (op[p].fresh), and another for the row of   *)
(* the manager's page (op[p].item).  Error codes are abstracted to the     *)
(* classes the code tells apart.                                           *)
(***************************************************************************)
EXTENDS Integers, Sequences, FiniteSets

CONSTANTS
    Procs,      \* processes that have the workflow database open
    Segments,   \* output segments of the recipe, 1..10 in the code
    Stages,     \* AI tasks of a profile with AI: transcribe, translate
    Profiles,   \* profiles to choose from, a set of Profile records
    MaxActs,    \* bound: requests and page actions of the user
    MaxFaults,  \* bound: failures of the domains
    MaxCrashes  \* bound: crashes

Profile == [ai : BOOLEAN, autoEdit : BOOLEAN, autoUpload : BOOLEAN, sourceTitle : BOOLEAN]

ASSUME WorkflowAssumption ==
    /\ Segments \in Nat \ {0}
    /\ Stages \in Nat \ {0}
    /\ IsFiniteSet(Procs)
    /\ Profiles \subseteq Profile
    /\ \A n \in {MaxActs, MaxFaults, MaxCrashes} : n \in Nat

Segment == 1..Segments
Stage   == 1..Stages

VARIABLES
    profile,    \* the frozen profile of the workflow
    wf,         \* the workflow's row
    op,         \* the operation each process is in
    batches,    \* states of the download batches that carry its name
    project,    \* the request key of the editing project
    planKey,    \* the request key of the first render plan
    plans,      \* the render plans: a plan, its retry, the retry of that...
    tasks,      \* the retry lineage of each stage's AI task
    upKey,      \* the request key of each segment's upload jobs
    jobs,       \* the retry lineage of each segment's upload job
    acts, faults, crashes

editing == <<project, planKey, plans, tasks>>
uploads == <<upKey, jobs>>
budget  == <<acts, faults, crashes>>
domains == <<batches, editing, uploads>>
vars    == <<profile, wf, op, domains, budget>>

-----------------------------------------------------------------------------
(***************************************************************************)
(* The row                                                                 *)
(***************************************************************************)
ActiveStates ==
    {"created", "downloading", "preparing_edit", "awaiting_ai_review",
     "awaiting_edit_confirmation", "rendering", "preparing_upload",
     "awaiting_upload_confirmation", "uploading"}

\* review and restart stand for the codes an automatic profile may pass,
\* wait for _PREFLIGHT_WAIT_CODES, preflight and metadata for codes that an
\* explicit advance retries, ledger for _AI_LEDGER_REVIEW_CODES.
Codes == {"", "cancel", "wait", "preflight", "metadata", "ledger", "review",
          "restart", "retry", "failed", "unknown", "partial", "conflict", "done"}

Row == [state : ActiveStates \cup {"attention_required", "canceled", "completed"},
        code : Codes, batch : 0..2, asset : BOOLEAN, resolved : BOOLEAN,
        project : BOOLEAN, plan : Nat, outputs : BOOLEAN,
        slots : [Segment -> Nat]]

Created == [state |-> "created", code |-> "", batch |-> 0, asset |-> FALSE,
            resolved |-> FALSE, project |-> FALSE, plan |-> 0, outputs |-> FALSE,
            slots |-> [s \in Segment |-> 0]]

AutoCodes == {"", "review", "restart"}

Prepared(row)   == \A s \in Segment : row.slots[s] # 0
\* Mutant: every workflow without all its jobs is taken for one that has outputs.
Unprepared_NoOutputs(row) == ~Prepared(row)
Unprepared(row) == row.outputs /\ ~Prepared(row)
HasJobs(row)    == \E s \in Segment : row.slots[s] # 0
Pending(row)    == CHOOSE s \in Segment :
                       row.slots[s] = 0 /\ \A t \in Segment : t < s => row.slots[t] # 0

\* workflow_outputs_match_state, and the resolved title a row must have
OutputsMatchState(row) ==
    CASE row.state \in {"created", "downloading", "preparing_edit", "awaiting_ai_review"} ->
            ~row.outputs
      [] row.state \in {"awaiting_edit_confirmation", "rendering"} -> ~HasJobs(row)
      [] row.state = "preparing_upload" -> row.outputs
      [] row.state \in {"awaiting_upload_confirmation", "uploading", "completed"} ->
            row.outputs /\ Prepared(row)
      [] OTHER -> TRUE

ResolvedMatchesState(row) ==
    \/ row.resolved
    \/ ~profile.sourceTitle \/ ~row.asset
    \/ row.state \in {"downloading", "attention_required", "canceled"}

Moved(row, state, code) == [row EXCEPT !.state = state, !.code = code]
Attention(row, code)    == Moved(row, "attention_required", code)

-----------------------------------------------------------------------------
(***************************************************************************)
(* Operations                                                              *)
(***************************************************************************)
Idle == [pc |-> "idle", who |-> "manager", call |-> "advance", rec |-> Created,
         fresh |-> FALSE, item |-> FALSE, auth |-> FALSE, todo |-> <<>>,
         next |-> "idle"]

Pcs == {"idle", "read", "call", "create_batch", "create_plan", "ai", "confirm_edit",
        "retry_edit", "confirm_uploads", "retry_uploads", "write", "raise"}
Calls == {"advance", "confirm_edit", "confirm_ai", "confirm_upload", "retry"}

Move(row)  == [kind |-> "move", row |-> row]
Refs(row)  == [kind |-> "refs", row |-> row]

\* What an operation does after the writes of todo: go on at next, or return.
After(o, todo, next) ==
    IF todo # <<>> THEN [o EXCEPT !.pc = "write", !.todo = todo, !.next = next]
    ELSE IF next = "idle" THEN Idle
    ELSE IF next = "read" THEN [o EXCEPT !.pc = "read", !.call = "advance", !.todo = <<>>]
    ELSE [o EXCEPT !.pc = next, !.todo = <<>>]

Then(p, todo, next) == op' = [op EXCEPT ![p] = After(@, todo, next)]

\* A WorkflowError leaves the operation.  The manager records it; the code
\* it records is the last one the error has.
Raise(p) ==
    op' = [op EXCEPT ![p] = IF op[p].who = "manager"
                            THEN [Idle EXCEPT !.pc = "raise", !.item = op[p].item]
                            ELSE Idle]

\* A write changes the revision: what others have read is now old.
Stale(q, o) == [o EXCEPT !.fresh = FALSE, !.item = FALSE]
Changed(p, row, own) ==
    /\ wf' = row
    /\ op' = [q \in Procs |-> IF q = p THEN own ELSE Stale(q, op[q])]

At(p, pc) == op[p].pc = pc
Rec(p)    == op[p].rec

\* Mutant: the write does not compare the row with the one that was read.
Write_NoCompare(p) ==
    LET w == Head(op[p].todo)
        own == After([op[p] EXCEPT !.rec = w.row, !.item = FALSE],
                     Tail(op[p].todo), op[p].next)
    IN  /\ At(p, "write")
        /\ Changed(p, w.row, own)
        /\ UNCHANGED <<profile, domains, budget>>

\* _set_refs and _transition: compare and set; a transition to the state and
\* code the row has is no write.
Write(p) ==
    LET w == Head(op[p].todo)
        same == w.kind = "move" /\ w.row.state = wf.state /\ w.row.code = wf.code
        own == After([op[p] EXCEPT !.rec = w.row, !.item = @ /\ same],
                     Tail(op[p].todo), op[p].next)
    IN  /\ At(p, "write")
        /\ IF ~op[p].fresh THEN Raise(p) /\ UNCHANGED wf
           ELSE IF same THEN op' = [op EXCEPT ![p] = own] /\ UNCHANGED wf
           ELSE Changed(p, w.row, own)
        /\ UNCHANGED <<profile, domains, budget>>

\* require_attention, with the revision of the manager's page
RequireAttention(p) ==
    /\ At(p, "raise")
    /\ IF op[p].item /\ wf.code # "cancel" /\ wf.state \in ActiveStates
       THEN Changed(p, Attention(wf, "conflict"), Idle)
       ELSE op' = [op EXCEPT ![p] = Idle] /\ UNCHANGED wf
    /\ UNCHANGED <<profile, domains, budget>>

\* Mutant: the page has no rows that need attention.
Scan_ActiveOnly(p) ==
    /\ At(p, "idle") /\ wf.state \in ActiveStates
    /\ op' = [op EXCEPT ![p] = [Idle EXCEPT !.pc = "read", !.item = TRUE]]
    /\ UNCHANGED <<profile, wf, domains, budget>>

\* The manager's page (active_page) has the workflow.
Scan(p) ==
    /\ At(p, "idle")
    /\ wf.state \in ActiveStates \/ (wf.state = "attention_required" /\ wf.code = "cancel")
    /\ op' = [op EXCEPT ![p] = [Idle EXCEPT !.pc = "read", !.item = TRUE]]
    /\ UNCHANGED <<profile, wf, domains, budget>>

Act(n) == acts + n <= MaxActs /\ acts' = acts + n

\* A request of the user with the revision the row has; one with an older
\* revision is refused and changes nothing.
Request(p, call) ==
    /\ At(p, "idle") /\ Act(1)
    /\ op' = [op EXCEPT ![p] = [Idle EXCEPT !.pc = "read", !.who = "api", !.call = call]]
    /\ UNCHANGED <<profile, wf, domains, faults, crashes>>

\* cancel: the intent is durable before anything is canceled.
Cancel(p) ==
    /\ At(p, "idle") /\ Act(1)
    /\ wf.state \in ActiveStates \cup {"attention_required"}
    /\ LET own == [Idle EXCEPT !.pc = "read", !.who = "api"]
       IN  IF wf.code = "cancel" THEN op' = [op EXCEPT ![p] = own] /\ UNCHANGED wf
           ELSE Changed(p, [wf EXCEPT !.code = "cancel"], own)
    /\ UNCHANGED <<profile, domains, faults, crashes>>

\* Whether an operation has something to do with the row it reads.
Admits(o, row) ==
    CASE o.call = "advance" ->
            \/ row.code = "cancel"
            \/ row.state \in ActiveStates
            \/ /\ row.state = "attention_required"
               /\ \/ Unprepared(row) \/ HasJobs(row)
                  \/ row.batch = 0 /\ row.code \in {"wait", "preflight"}
                  \/ /\ row.code = "metadata" /\ row.batch # 0 /\ row.asset
                     /\ ~row.resolved /\ profile.sourceTitle
                  \/ row.code = "ledger" /\ row.project
      [] o.call = "confirm_edit" ->
            row.code # "cancel" /\ row.state = "awaiting_edit_confirmation" /\ row.plan # 0
      [] o.call = "confirm_ai" ->
            row.code # "cancel" /\ row.state = "awaiting_ai_review" /\ row.project
      [] o.call = "confirm_upload" ->
            row.code # "cancel" /\ row.state = "awaiting_upload_confirmation"
      [] o.call = "retry" ->
            /\ row.code \notin {"cancel", "ledger"} /\ row.state = "attention_required"
            /\ IF HasJobs(row) THEN row.code = "failed" /\ Prepared(row)
               ELSE row.project /\ (row.plan = 0 \/ ~row.outputs)
                                /\ (row.plan # 0 \/ profile.ai)

\* The row a request or an iteration of advance works on (get, _expected)
Read(p) ==
    /\ At(p, "read")
    /\ op' = [op EXCEPT ![p] =
                IF Admits(@, wf) THEN [@ EXCEPT !.pc = "call", !.rec = wf, !.fresh = TRUE]
                ELSE Idle]
    /\ UNCHANGED <<profile, wf, domains, budget>>

Advancing(p, state) ==
    At(p, "call") /\ op[p].call = "advance" /\ Rec(p).state = state /\ Rec(p).code # "cancel"

Fault == faults < MaxFaults /\ faults' = faults + 1

-----------------------------------------------------------------------------
(***************************************************************************)
(* Download                                                                *)
(***************************************************************************)
\* Mutant: the batch is recorded and the state stays.
WithBatch_NoState(row, b) == <<Refs([row EXCEPT !.batch = b])>>

\* The batch is recorded, then the state.
WithBatch(row, b) ==
    LET set == [row EXCEPT !.batch = b]
    IN  <<Refs(set), Move(Moved(set, "downloading", ""))>>

\* Mutant: create_download does not look for a batch that has the name.
AdvanceCreated_NoFind(p) ==
    /\ Advancing(p, "created")
    /\ Then(p, <<>>, "create_batch")
    /\ UNCHANGED <<profile, wf, domains, budget>>

\* What a preflight that fails answers: wait, or stop and ask.
PreflightCodes == {"wait", "preflight"}

\* created: the preflight, then create_download as far as its search by name
AdvanceCreated(p) ==
    /\ Advancing(p, "created")
    /\ \/ /\ CASE Len(batches) = 0 -> Then(p, <<>>, "create_batch")
               [] Len(batches) = 1 -> Then(p, WithBatch(Rec(p), 1), "read")
               [] OTHER -> Raise(p)
          /\ UNCHANGED faults
       \/ /\ Fault
          /\ \E code \in PreflightCodes :
               Then(p, <<Move(IF code = "wait" THEN Moved(Rec(p), "created", code)
                              ELSE Attention(Rec(p), code))>>, "idle")
    /\ UNCHANGED <<profile, wf, domains, acts, crashes>>

CreateBatch(p) ==
    /\ At(p, "create_batch") /\ Len(batches) < 2
    /\ batches' = Append(batches, "queued")
    /\ Then(p, WithBatch(Rec(p), Len(batches) + 1), "read")
    /\ UNCHANGED <<profile, wf, editing, uploads, budget>>

\* inspect_download of a batch
DownloadView(state) ==
    CASE state \in {"queued", "running", "canceling"} -> "waiting"
      [] state = "ready" -> "ready"
      [] OTHER -> "attention"

\* The upload metadata that resolve_upload derives from the source, once.
WithTitle(row) == [row EXCEPT !.asset = TRUE, !.resolved = profile.sourceTitle]

AdvanceDownloading(p) ==
    /\ Advancing(p, "downloading")
    /\ LET rec    == Rec(p)
           found  == [rec EXCEPT !.asset = TRUE]
           titled == WithTitle(rec)
           view   == DownloadView(batches[rec.batch])
       IN  \/ /\ CASE view = "waiting" -> Then(p, <<>>, "idle")
                   [] view = "attention" -> Then(p, <<Move(Attention(rec, "failed"))>>, "idle")
                   [] view = "ready" /\ rec.resolved ->
                        Then(p, <<Move(Moved(rec, "preparing_edit", ""))>>, "read")
                   [] OTHER ->
                        Then(p, <<Refs(titled), Move(Moved(titled, "preparing_edit", ""))>>,
                             "read")
              /\ UNCHANGED faults
           \/ /\ view = "ready" /\ profile.sourceTitle /\ ~rec.resolved /\ Fault
              /\ Then(p, <<Refs(found), Move(Attention(found, "metadata"))>>, "idle")
    /\ UNCHANGED <<profile, wf, domains, acts, crashes>>

-----------------------------------------------------------------------------
(***************************************************************************)
(* Editing: the project, the AI tasks, the render plans                    *)
(***************************************************************************)
New(state, code) == [st |-> state, code |-> code, tl |-> "none", by |-> "none"]
Draft == New("review", "review")
Leaf(lineage) == lineage[Len(lineage)]
WithLeaf(lineage, x) == [lineage EXCEPT ![Len(lineage)] = x]
Running == {"running", "canceling"}
Live    == {"queued"} \cup Running

\* Who lets an object run: the manager from the profile's authority, or a
\* confirmation of the user.
By(p) == IF op[p].call = "advance" THEN "auto" ELSE "api"

\* Mutant: create_project does not look at the key's tombstone.
CreateProject_NoTombstone(p) ==
    /\ Advancing(p, "preparing_edit")
    /\ project' = "made"
    /\ IF profile.ai
       THEN LET set == [Rec(p) EXCEPT !.project = TRUE]
            IN  Then(p, <<Refs(set), Move(Moved(set, "awaiting_ai_review", ""))>>, "read")
       ELSE Then(p, <<>>, "create_plan")
    /\ UNCHANGED <<profile, wf, batches, planKey, plans, tasks, uploads, budget>>

\* prepare_edit up to the project's request
CreateProject(p) ==
    /\ Advancing(p, "preparing_edit")
    /\ IF project = "tomb" THEN Raise(p) /\ UNCHANGED project
       ELSE /\ project' = "made"
            /\ IF profile.ai
               THEN LET set == [Rec(p) EXCEPT !.project = TRUE]
                    IN  Then(p, <<Refs(set), Move(Moved(set, "awaiting_ai_review", ""))>>,
                             "read")
               ELSE Then(p, <<>>, "create_plan")
    /\ UNCHANGED <<profile, wf, batches, planKey, plans, tasks, uploads, budget>>

\* create_plan with the workflow's key, from prepare_edit or advance_ai
CreatePlan(p) ==
    /\ At(p, "create_plan")
    /\ IF planKey = "tomb" THEN Raise(p) /\ UNCHANGED <<planKey, plans>>
       ELSE LET set == [Rec(p) EXCEPT !.project = TRUE, !.plan = 1]
            IN  /\ planKey' = "made"
                /\ plans' = IF plans = <<>> THEN <<Draft>> ELSE plans
                /\ Then(p, <<Refs(set), Move(Moved(set, "awaiting_edit_confirmation", ""))>>,
                        "read")
    /\ UNCHANGED <<profile, wf, batches, project, tasks, uploads, budget>>

\* awaiting_ai_review, confirm_ai, or the reconciliation of a ledger code:
\* advance_ai is called with or without one authorization.
CallAI(p) ==
    LET rec == Rec(p)
        automatic == Advancing(p, "awaiting_ai_review")
        explicit  == At(p, "call") /\ op[p].call = "confirm_ai"
        reconcile == Advancing(p, "attention_required") /\ ~rec.outputs
                     /\ rec.code = "ledger" /\ rec.plan = 0
        auth == explicit \/ (automatic /\ profile.autoEdit)
    IN  /\ automatic \/ explicit \/ reconcile
        /\ op' = [op EXCEPT ![p] =
                    IF automatic /\ rec.code # "" /\ ~(profile.autoEdit /\ rec.code \in AutoCodes)
                    THEN Idle ELSE [@ EXCEPT !.pc = "ai", !.auth = auth]]
        /\ UNCHANGED <<profile, wf, domains, budget>>

\* _apply_ai_snapshot for a task that waits, or that needs attention
AIWaits(p, code) ==
    Then(p, <<Move(Moved(Rec(p), "awaiting_ai_review", code))>>,
         IF Rec(p).state = "awaiting_ai_review" /\ op[p].call = "advance"
         THEN "idle" ELSE "read")
AIFails(p, code) == Then(p, <<Move(Attention(Rec(p), code))>>, "idle")

Approved(s) == tasks[s] # <<>> /\ Leaf(tasks[s]).tl = "approved"
AIDone      == \A s \in Stage : Approved(s)
Current     == CHOOSE s \in Stage : ~Approved(s) /\ \A t \in Stage : t < s => Approved(t)

\* Mutant: the restart code of a task goes before its lineage.
AICode_RestartFirst(t, i, explicit) ==
    CASE explicit -> "review"
      [] ~explicit /\ t.code = "restart" -> "restart"
      [] OTHER -> IF i > 1 THEN "retry" ELSE "review"

\* The code a task in review is shown with, where it needs a decision
AICode(t, i, explicit) ==
    CASE explicit -> "review"
      [] ~explicit /\ i > 1 -> "retry"
      [] OTHER -> IF t.code = "restart" THEN "restart" ELSE "review"

\* One task of advance_ai (_advance_ai_task): create it, confirm it, approve
\* its result; the call's authorization is good for one of these.
AdvanceTask(p) ==
    /\ At(p, "ai") /\ ~AIDone
    /\ LET s == Current
           lineage == tasks[s]
           t == Leaf(lineage)
           code == AICode(t, Len(lineage), op[p].call = "confirm_ai")
           mayConfirm == op[p].auth /\ code # "retry"
           Set(x) == tasks' = [tasks EXCEPT ![s] = WithLeaf(@, x)]
           Spend == op' = [op EXCEPT ![p].auth = FALSE]
       IN  CASE lineage = <<>> ->
                    /\ tasks' = [tasks EXCEPT ![s] = <<Draft>>] /\ UNCHANGED op
             [] lineage # <<>> /\ t.st = "review" /\ mayConfirm ->
                    Set([t EXCEPT !.st = "queued", !.code = "", !.by = By(p)]) /\ Spend
             [] lineage # <<>> /\ t.st = "review" /\ ~mayConfirm ->
                    AIWaits(p, code) /\ UNCHANGED tasks
             [] lineage # <<>> /\ t.st \in Live -> AIWaits(p, "") /\ UNCHANGED tasks
             [] lineage # <<>> /\ t.st \in {"failed", "canceled"} ->
                    AIFails(p, t.code) /\ UNCHANGED tasks
             [] lineage # <<>> /\ t.st = "ready" /\ op[p].auth ->
                    Set([t EXCEPT !.tl = "approved"]) /\ Spend
             [] lineage # <<>> /\ t.st = "ready" /\ ~op[p].auth ->
                    AIWaits(p, "review") /\ UNCHANGED tasks
    /\ UNCHANGED <<profile, wf, batches, project, planKey, plans, uploads, budget>>

\* The draft gets the approved timeline, unless it was changed meanwhile.
FinishAI(p) ==
    /\ At(p, "ai") /\ AIDone
    /\ \/ Then(p, <<>>, "create_plan") /\ UNCHANGED faults
       \/ Raise(p) /\ Fault
    /\ UNCHANGED <<profile, wf, domains, acts, crashes>>

\* retry of an AI task (retry_ai): its creation if it is missing, a successor in
\* review if it failed, attention if the ledger blocks it
RetryAI(p) ==
    /\ At(p, "call") /\ op[p].call = "retry" /\ ~HasJobs(Rec(p)) /\ Rec(p).plan = 0
    /\ LET lineage == tasks[Current]
           t == Leaf(lineage)
           over == lineage # <<>> /\ t.st \in {"failed", "canceled"}
           toReview == <<Move(Moved(Rec(p), "awaiting_ai_review", "retry"))>>
       IN  \/ AIDone /\ Raise(p) /\ UNCHANGED tasks
           \/ /\ ~AIDone /\ (lineage # <<>> => over /\ t.code # "ledger")
              /\ tasks' = [tasks EXCEPT ![Current] = Append(@, Draft)]
              /\ Then(p, toReview, "idle")
           \/ ~AIDone /\ over /\ t.code = "ledger" /\ AIFails(p, "ledger") /\ UNCHANGED tasks
           \/ /\ ~AIDone /\ lineage # <<>> /\ ~over
              /\ IF t.st \in {"review"} \cup Live THEN Then(p, toReview, "idle") ELSE Raise(p)
              /\ UNCHANGED tasks
    /\ UNCHANGED <<profile, wf, batches, project, planKey, plans, uploads, budget>>

\* inspect_edit and its classification; the lineage goes before the code.
EditView(i) ==
    CASE plans[i].st = "review" ->
            [disposition |-> "confirm", code |-> IF i > 1 THEN "retry" ELSE plans[i].code]
      [] plans[i].st \in Live -> [disposition |-> "active", code |-> ""]
      [] plans[i].st = "ready" -> [disposition |-> "ready", code |-> ""]
      [] OTHER -> [disposition |-> "failed", code |-> plans[i].code]

\* The operations that observe the recorded plan (_observe_edit)
ObservesEdit(p) ==
    /\ At(p, "call") /\ Rec(p).plan # 0
    /\ \/ Advancing(p, "awaiting_edit_confirmation")
       \/ Advancing(p, "rendering")
       \/ Advancing(p, "attention_required") /\ ~Rec(p).outputs /\ Rec(p).code = "ledger"
       \/ op[p].call = "confirm_edit"
       \/ op[p].call = "retry" /\ ~HasJobs(Rec(p))

\* Where an observation leads on, except for a retry, which returns
Onward(p) == IF op[p].call = "retry" THEN "idle" ELSE "read"

\* A plan that waits for its confirmation
EditConfirms(p, view) ==
    LET rec == Rec(p)
        reviewed == Moved(rec, "awaiting_edit_confirmation", view.code)
    IN  CASE Advancing(p, "awaiting_edit_confirmation") ->
                IF rec.code \notin AutoCodes THEN Then(p, <<>>, "idle")
                ELSE Then(p, IF view.code # rec.code THEN <<Move(reviewed)>> ELSE <<>>,
                          IF profile.autoEdit /\ view.code \in AutoCodes
                          THEN "confirm_edit" ELSE "idle")
          [] Advancing(p, "rendering") -> Then(p, <<Move(reviewed)>>, "idle")
          [] op[p].call = "confirm_edit" ->
                IF view.code # rec.code THEN Then(p, <<Move(reviewed)>>, "idle")
                ELSE Then(p, <<>>, "confirm_edit")
          [] op[p].call = "retry" ->
                Then(p, <<Move([reviewed EXCEPT !.code = "retry"])>>, "idle")
          [] OTHER -> Then(p, <<Move(reviewed)>>, "read")

ObserveEdit(p) ==
    /\ ObservesEdit(p)
    /\ LET rec  == Rec(p)
           view == EditView(rec.plan)
           made == [rec EXCEPT !.outputs = TRUE, !.slots = [s \in Segment |-> 0]]
       IN  CASE view.disposition = "failed" ->
                    IF op[p].call = "retry" /\ view.code = rec.code
                    THEN Then(p, <<>>, "retry_edit")
                    ELSE Then(p, <<Move(Attention(rec, view.code))>>, "idle")
             [] view.disposition = "ready" ->
                    Then(p, <<Refs(made), Move(Moved(made, "preparing_upload", ""))>>, Onward(p))
             [] view.disposition = "active" ->
                    IF Advancing(p, "rendering") THEN Then(p, <<>>, "idle")
                    ELSE Then(p, <<Move(Moved(rec, "rendering", ""))>>, Onward(p))
             [] OTHER -> EditConfirms(p, view)
    /\ UNCHANGED <<profile, wf, domains, budget>>

\* confirm_edit of the adapter (confirm_plan), then rendering
ConfirmEdit(p) ==
    /\ At(p, "confirm_edit")
    /\ LET i == Rec(p).plan
           rendering == <<Move(Moved(Rec(p), "rendering", ""))>>
       IN  CASE plans[i].st = "review" ->
                    /\ plans' = [plans EXCEPT ![i].st = "queued", ![i].code = "",
                                              ![i].by = By(p)]
                    /\ Then(p, rendering, "read")
             [] plans[i].st \in Live \cup {"ready"} ->
                    Then(p, rendering, "read") /\ UNCHANGED plans
             [] OTHER -> Raise(p) /\ UNCHANGED plans
    /\ UNCHANGED <<profile, wf, batches, project, planKey, tasks, uploads, budget>>

\* retry_edit (retry_plan): one successor, which has to be in review
RetryEdit(p) ==
    /\ At(p, "retry_edit")
    /\ LET i   == Rec(p).plan
           set == [Rec(p) EXCEPT !.plan = i + 1]
       IN  IF i < Len(plans) /\ plans[i + 1].st # "review" THEN Raise(p) /\ UNCHANGED plans
           ELSE /\ plans' = IF i < Len(plans) THEN plans ELSE Append(plans, Draft)
                /\ Then(p, <<Refs(set),
                             Move(Moved(set, "awaiting_edit_confirmation", "retry"))>>, "idle")
    /\ UNCHANGED <<profile, wf, batches, project, planKey, tasks, uploads, budget>>

-----------------------------------------------------------------------------
(***************************************************************************)
(* Upload: the drafts of each segment, their confirmation, their retries   *)
(***************************************************************************)
UploadDraft == New("draft", "")

\* create_jobs with a segment's key makes its jobs once.
Drafted(lineage) == IF lineage = <<>> THEN <<UploadDraft>> ELSE lineage
Success == {"submitted"}

\* preparing_upload: the first segment without jobs (_prepare_upload with
\* the segment's key); a failure of the import or the request is attention.
PrepareUpload(p) ==
    /\ Advancing(p, "preparing_upload")
    /\ LET rec == Rec(p)
           s   == Pending(rec)
           failed == <<Move(Attention(rec, "conflict"))>>
       IN  \/ /\ Prepared(rec)
              /\ Then(p, <<Move(Moved(rec, "awaiting_upload_confirmation", ""))>>, "read")
              /\ UNCHANGED <<uploads, faults>>
           \/ /\ ~Prepared(rec) /\ upKey[s] # "tomb"
              /\ upKey' = [upKey EXCEPT ![s] = "made"]
              /\ jobs' = [jobs EXCEPT ![s] = Drafted(@)]
              /\ Then(p, <<Refs([rec EXCEPT !.slots[s] = 1])>>, "read")
              /\ UNCHANGED faults
           \/ /\ ~Prepared(rec)
              /\ IF upKey[s] = "tomb" THEN UNCHANGED faults ELSE Fault
              /\ Then(p, failed, "idle")
              /\ UNCHANGED uploads
    /\ UNCHANGED <<profile, wf, batches, editing, acts, crashes>>

\* Mutant: one success counts for all.
UploadView_AnySuccess(js) ==
    LET states == {Leaf(js[s]).st : s \in Segment}
    IN  IF states \cap Success # {} THEN [disposition |-> "ready", code |-> ""]
        ELSE IF "unknown" \in states THEN [disposition |-> "attention", code |-> "unknown"]
        ELSE IF states \cap {"failed", "canceled"} # {}
        THEN [disposition |-> "attention", code |-> "failed"]
        ELSE IF "draft" \in states THEN [disposition |-> "confirm", code |-> ""]
        ELSE [disposition |-> "active", code |-> ""]

\* inspect_upload of the current leaves, and its classification
UploadView(js) ==
    LET leaves == {[job |-> Leaf(js[s]), retry |-> Len(js[s]) > 1] : s \in Segment}
        states == {l.job.st : l \in leaves}
        drafts == {l \in leaves : l.job.st = "draft"}
    IN  CASE "unknown" \in states -> [disposition |-> "attention", code |-> "unknown"]
          [] "unknown" \notin states /\ states \cap {"failed", "canceled"} # {} ->
                [disposition |-> "attention", code |-> "failed"]
          [] states \subseteq Success -> [disposition |-> "ready", code |-> ""]
          [] OTHER ->
                IF drafts = {} THEN [disposition |-> "active", code |-> ""]
                ELSE [disposition |-> "confirm",
                      code |-> IF \E l \in drafts : l.retry THEN "retry"
                               ELSE IF \E l \in drafts : l.job.code = "restart"
                               THEN "restart" ELSE ""]

Leaves(js)     == [s \in Segment |-> Len(js[s])]
Completed(row) == Moved(row, "completed", "done")

\* _sync_upload_job_ids, then the transition to row's state and code
Synced(p, js) == [Rec(p) EXCEPT !.slots = Leaves(js)]
SyncThen(p, js, moves) ==
    (IF Rec(p).slots = Leaves(js) THEN <<>> ELSE <<Refs(Synced(p, js))>>) \o moves

ObservesUpload(p) ==
    /\ At(p, "call")
    /\ \/ Advancing(p, "awaiting_upload_confirmation")
       \/ Advancing(p, "uploading")
       \/ Advancing(p, "attention_required") /\ HasJobs(Rec(p)) /\ Prepared(Rec(p))
       \/ op[p].call = "confirm_upload"
       \/ op[p].call = "retry" /\ HasJobs(Rec(p))

\* Drafts that wait for their confirmation
UploadConfirms(p, view) ==
    LET row   == Synced(p, jobs)
        shown == Move(Moved(row, "awaiting_upload_confirmation", view.code))
        sync  == SyncThen(p, jobs, <<>>)
    IN  CASE Advancing(p, "awaiting_upload_confirmation") ->
                IF row.code \notin {"", "restart"} THEN Then(p, sync, "idle")
                ELSE Then(p, IF view.code \notin {"", row.code} THEN sync \o <<shown>> ELSE sync,
                          IF profile.autoUpload /\ view.code \in {"", "restart"}
                          THEN "confirm_uploads" ELSE "idle")
          [] Advancing(p, "uploading") -> Then(p, sync \o <<shown>>, "idle")
          [] Advancing(p, "attention_required") -> Then(p, sync \o <<shown>>, "read")
          [] op[p].call = "confirm_upload" ->
                Then(p, sync, IF sync = <<>> THEN "confirm_uploads" ELSE "idle")
          [] OTHER ->
                Then(p, sync \o <<IF view.code = "retry" THEN shown
                                  ELSE Move(Attention(row, "conflict"))>>, "idle")

ObserveUpload(p) ==
    /\ ObservesUpload(p)
    /\ LET view == UploadView(jobs)
           row  == Synced(p, jobs)
           call == op[p].call
           sync == SyncThen(p, jobs, <<>>)
       IN  CASE call = "confirm_upload" /\ sync # <<>> -> Then(p, sync, "idle")
             [] view.disposition = "ready" /\ (call # "confirm_upload" \/ sync = <<>>) ->
                    Then(p, sync \o <<Move(Completed(row))>>,
                         IF call = "advance" /\ row.state # "attention_required"
                         THEN "read" ELSE "idle")
             [] view.disposition = "active" /\ (call # "confirm_upload" \/ sync = <<>>) ->
                    Then(p, IF row.state = "uploading" THEN sync
                            ELSE sync \o <<Move(Moved(row, "uploading", ""))>>,
                         IF row.state = "uploading" THEN "idle" ELSE Onward(p))
             [] view.disposition = "attention" /\ (call # "confirm_upload" \/ sync = <<>>) ->
                    IF call = "retry" /\ view.code = "failed" THEN Then(p, sync, "retry_uploads")
                    ELSE IF call = "advance" /\ row.state = "attention_required"
                    THEN Then(p, sync, "idle")
                    ELSE Then(p, sync \o <<Move(Attention(row, view.code))>>, "idle")
             [] OTHER -> UploadConfirms(p, view)
    /\ UNCHANGED <<profile, wf, domains, budget>>

\* confirm_uploads (confirm_many) of the recorded jobs: all or none
ConfirmUploads(p) ==
    /\ At(p, "confirm_uploads")
    /\ LET slot == Rec(p).slots
           ok   == \A s \in Segment :
                       jobs[s][slot[s]].st \in {"draft", "queued", "running"} \cup Success
       IN  IF ~ok THEN Raise(p) /\ UNCHANGED jobs
           ELSE /\ jobs' = [s \in Segment |->
                              IF jobs[s][slot[s]].st = "draft"
                              THEN [jobs[s] EXCEPT ![slot[s]].st = "queued",
                                        ![slot[s]].code = "", ![slot[s]].by = By(p)]
                              ELSE jobs[s]]
                /\ Then(p, <<Move(Moved(Rec(p), "uploading", ""))>>, "read")
    /\ UNCHANGED <<profile, wf, batches, editing, upKey, budget>>

\* The retry of each leaf that ended (retry_many)
Ended(s) == Leaf(jobs[s]).st \in {"failed", "canceled"}
Retried  == [s \in Segment |-> IF Ended(s) THEN Append(jobs[s], UploadDraft) ELSE jobs[s]]

\* The adapter's retry_uploads: a draft for every recorded leaf that failed or
\* was canceled, unless an outcome is unknown or a leaf is newer than recorded.
AfterRetry(p) ==
    IF \E s \in Segment : \/ Leaf(jobs[s]).st = "unknown"
                          \/ Ended(s) /\ Rec(p).slots[s] # Len(jobs[s])
    THEN jobs ELSE Retried

\* Retried or refused, the jobs are observed again.
RetryUploads(p) ==
    /\ At(p, "retry_uploads")
    /\ LET after     == AfterRetry(p)
           view      == UploadView(after)
           row       == Synced(p, after)
           moved     == CASE view.disposition = "ready" -> Completed(row)
                          [] view.disposition = "active" -> Moved(row, "uploading", "")
                          [] view.disposition = "confirm" /\ view.code = "retry" ->
                                Moved(row, "awaiting_upload_confirmation", "retry")
                          [] view.disposition = "attention" -> Attention(row, view.code)
                          [] OTHER -> Attention(row, "conflict")
       IN  /\ jobs' = after
           /\ Then(p, SyncThen(p, after, <<Move(moved)>>), "idle")
    /\ UNCHANGED <<profile, wf, batches, editing, upKey, budget>>

-----------------------------------------------------------------------------
(***************************************************************************)
(* Explicit advance of a workflow that needs attention                     *)
(***************************************************************************)
ReenterAttention(p) ==
    /\ Advancing(p, "attention_required")
    /\ LET rec == Rec(p)
       IN  CASE Unprepared(rec) -> Then(p, <<Move(Moved(rec, "preparing_upload", ""))>>, "read")
             [] ~rec.outputs /\ rec.batch = 0 /\ rec.code \in {"wait", "preflight"} ->
                    Then(p, <<Move(Moved(rec, "created", ""))>>, "read")
             [] rec.code = "metadata" /\ rec.asset ->
                    Then(p, <<Move(Moved(rec, "downloading", ""))>>, "read")
             [] OTHER -> FALSE
    /\ UNCHANGED <<profile, wf, domains, budget>>

-----------------------------------------------------------------------------
(***************************************************************************)
(* Cancellation of the furthest domain                                     *)
(***************************************************************************)
Cancels(p) == At(p, "call") /\ op[p].call = "advance" /\ Rec(p).code = "cancel"

\* The last part of _advance_once's cancellation branch
Canceled(p, result) ==
    CASE result = "stopped" -> Then(p, <<Move(Moved(Rec(p), "canceled", "done"))>>, "read")
      [] result = "waiting" -> Then(p, <<>>, "idle")
      [] result = "completed" -> Then(p, <<Move(Completed(Rec(p)))>>, "read")
      [] OTHER -> Then(p, <<Move(Attention(Rec(p), result))>>, "idle")

\* cancel_many on the jobs of segments S and _upload_cancellation_aggregate
StopJob(j) ==
    CASE j.st \in {"draft", "queued"} -> [j EXCEPT !.st = "canceled", !.code = "failed"]
      [] j.st = "running" -> [j EXCEPT !.code = "cancel"]
      [] OTHER -> j
StopJobs(S) == [s \in Segment |-> IF s \in S THEN WithLeaf(jobs[s], StopJob(Leaf(jobs[s])))
                                  ELSE jobs[s]]
JobsResult(js, S) ==
    LET states == {Leaf(js[s]).st : s \in S}
    IN  CASE "running" \in states -> "waiting"
          [] "running" \notin states /\ "unknown" \in states -> "unknown"
          [] states # {} /\ states \subseteq Success -> "completed"
          [] states \subseteq {"failed", "canceled"} -> "stopped"
          [] OTHER -> "partial"

\* claim_or_read_workflow_cancellation: the key's jobs, or a tombstone
Claimed(key) == IF key = "none" THEN "tomb" ELSE key

\* cancel_uploads_for_workflow: the first segment without recorded jobs may
\* have them all the same, and if it has not it never will.

CancelUploadsForWorkflow(p) ==
    /\ Cancels(p) /\ Unprepared(Rec(p))
    /\ LET s == Pending(Rec(p))
           S == {t \in Segment : Rec(p).slots[t] # 0} \cup (IF upKey[s] = "made" THEN {s} ELSE {})
           result == JobsResult(StopJobs(S), S)
       IN  /\ upKey' = [upKey EXCEPT ![s] = Claimed(@)]
           /\ jobs' = StopJobs(S)
           /\ Canceled(p, IF result = "completed" THEN "partial" ELSE result)
    /\ UNCHANGED <<profile, wf, batches, editing, budget>>

CancelUploads(p) ==
    /\ Cancels(p) /\ ~Unprepared(Rec(p)) /\ HasJobs(Rec(p))
    /\ jobs' = StopJobs(Segment)
    /\ Canceled(p, JobsResult(StopJobs(Segment), Segment))
    /\ UNCHANGED <<profile, wf, batches, editing, upKey, budget>>

Stop(x) ==
    CASE x.st \in {"review", "queued"} -> [x EXCEPT !.st = "canceled", !.code = "failed"]
      [] x.st = "running" -> [x EXCEPT !.st = "canceling"]
      [] OTHER -> x

\* The answer to the cancellation of plans or tasks that are now xs
EditResult(xs) == IF \E x \in xs : x.st \in Running THEN "waiting" ELSE "stopped"

\* _cancel_plan_in on the leaf of the plan's lineage
StopPlan(p) ==
    IF Leaf(plans).code = "ledger" THEN Canceled(p, "ledger") /\ UNCHANGED plans
    ELSE /\ plans' = WithLeaf(plans, Stop(Leaf(plans)))
         /\ Canceled(p, EditResult({Stop(Leaf(plans))}))

CancelEdit(p) ==
    /\ Cancels(p) /\ ~Rec(p).outputs /\ Rec(p).plan # 0
    /\ StopPlan(p)
    /\ UNCHANGED <<profile, wf, batches, project, planKey, tasks, uploads, budget>>

\* cancel_edit_for_workflow: one transaction that finds the project and the
\* plan by their keys, stops what it finds and fences what it does not.
CancelEditForWorkflow(p) ==
    /\ Cancels(p) /\ Rec(p).asset /\ Rec(p).plan = 0
    /\ CASE project # "made" ->
              /\ project' = "tomb" /\ planKey' = "tomb"
              /\ Canceled(p, "stopped") /\ UNCHANGED <<plans, tasks>>
         [] project = "made" /\ planKey = "made" ->
              StopPlan(p) /\ UNCHANGED <<project, planKey, tasks>>
         [] OTHER ->
              LET S == {s \in Stage : tasks[s] # <<>>}
                  stopped == [s \in Stage |-> IF s \in S THEN WithLeaf(tasks[s], Stop(Leaf(tasks[s])))
                                              ELSE tasks[s]]
              IN  IF \E s \in S : Leaf(tasks[s]).code = "ledger"
                  THEN Canceled(p, "ledger") /\ UNCHANGED editing
                  ELSE /\ tasks' = stopped /\ planKey' = "tomb"
                       /\ Canceled(p, EditResult({Leaf(stopped[s]) : s \in S}))
                       /\ UNCHANGED <<project, plans>>
    /\ UNCHANGED <<profile, wf, batches, uploads, budget>>

\* cancel_download of batch b
StopBatch(p, b) ==
    LET stopped == CASE batches[b] = "queued" -> "canceled"
                     [] batches[b] = "running" -> "canceling"
                     [] OTHER -> batches[b]
    IN  /\ batches' = [batches EXCEPT ![b] = stopped]
        /\ Canceled(p, IF stopped = "canceling" THEN "waiting" ELSE "stopped")

\* Mutant: a batch that is not recorded is not looked for.
CancelDownload_NoDiscovery(p) ==
    /\ Cancels(p) /\ ~Rec(p).asset
    /\ IF Rec(p).batch # 0 THEN StopBatch(p, Rec(p).batch)
       ELSE Canceled(p, "stopped") /\ UNCHANGED batches
    /\ UNCHANGED <<profile, wf, editing, uploads, budget>>

\* cancel_download, or cancel_download_for_workflow, which looks by name
CancelDownload(p) ==
    /\ Cancels(p) /\ ~Rec(p).asset
    /\ CASE Rec(p).batch # 0 -> StopBatch(p, Rec(p).batch)
         [] Rec(p).batch = 0 /\ Len(batches) = 1 -> StopBatch(p, 1)
         [] Rec(p).batch = 0 /\ Len(batches) = 0 -> Canceled(p, "stopped") /\ UNCHANGED batches
         [] OTHER -> Canceled(p, "conflict") /\ UNCHANGED batches
    /\ UNCHANGED <<profile, wf, editing, uploads, budget>>

-----------------------------------------------------------------------------
(***************************************************************************)
(* The domains' own workers, their pages, and restarts                     *)
(***************************************************************************)
DownloadWorker ==
    /\ \E b \in DOMAIN batches :
         \/ /\ batches[b] = "queued" /\ batches' = [batches EXCEPT ![b] = "running"]
            /\ UNCHANGED faults
         \/ /\ batches[b] \in Running
            /\ batches' = [batches EXCEPT ![b] = IF @ = "running" THEN "ready" ELSE "canceled"]
            /\ UNCHANGED faults
         \/ /\ batches[b] = "running" /\ Fault
            /\ batches' = [batches EXCEPT ![b] = "failed"]
    /\ UNCHANGED <<profile, wf, op, editing, uploads, acts, crashes>>

\* What becomes of a live plan or AI task
Worked(x) ==
    CASE x.st = "queued" -> [x EXCEPT !.st = "running"]
      [] x.st = "running" -> [x EXCEPT !.st = "ready", !.tl = "review"]
      [] OTHER -> [x EXCEPT !.st = "canceled", !.code = "failed"]
Failed(x) == {[x EXCEPT !.st = "failed", !.code = c] :
                 c \in IF profile.ai THEN {"failed", "ledger"} ELSE {"failed"}}

EditWorker ==
    /\ \/ /\ \E i \in DOMAIN plans :
               \/ plans[i].st \in Live /\ plans' = [plans EXCEPT ![i] = Worked(@)]
                  /\ UNCHANGED faults
               \/ plans[i].st = "running" /\ Fault
                  /\ \E x \in Failed(plans[i]) : plans' = [plans EXCEPT ![i] = x]
          /\ UNCHANGED tasks
       \/ /\ \E s \in Stage : tasks[s] # <<>> /\
               \/ Leaf(tasks[s]).st \in Live
                  /\ tasks' = [tasks EXCEPT ![s] = WithLeaf(@, Worked(Leaf(@)))]
                  /\ UNCHANGED faults
               \/ Leaf(tasks[s]).st = "running" /\ Fault
                  /\ \E x \in Failed(Leaf(tasks[s])) :
                        tasks' = [tasks EXCEPT ![s] = WithLeaf(@, x)]
          /\ UNCHANGED plans
    /\ UNCHANGED <<profile, wf, op, batches, project, planKey, uploads, acts, crashes>>

UploadWorker ==
    /\ \E s \in Segment : jobs[s] # <<>> /\
         LET j == Leaf(jobs[s])
             Set(state, code) ==
                 jobs' = [jobs EXCEPT ![s] = WithLeaf(@, [j EXCEPT !.st = state, !.code = code])]
         IN  \/ j.st = "queued" /\ Set("running", "") /\ UNCHANGED faults
             \/ /\ j.st = "running" /\ UNCHANGED faults
                /\ \/ Set("submitted", "")
                   \/ j.code = "cancel" /\ Set("canceled", "failed")
             \/ /\ j.st = "running" /\ Fault
                /\ \E state \in {"failed", "unknown"} : Set(state, "failed")
    /\ UNCHANGED <<profile, wf, op, batches, editing, upKey, acts, crashes>>

\* A confirmation on a domain's page, before or after the workflow's end
ByPage == IF wf.code = "cancel" \/ wf.state = "canceled" THEN "late" ELSE "page"

\* What the user may do with the leaf of a lineage on its domain's page:
\* confirm it, cancel it, retry it, or settle an unknown outcome.
Paged(lineage, wait) ==
    LET x == Leaf(lineage)
    IN  {WithLeaf(lineage, y) : y \in
            (IF x.st = wait THEN {[x EXCEPT !.st = "queued", !.code = "", !.by = ByPage]} ELSE {})
            \cup (IF x.st \in {wait, "queued"} THEN {StopJob(Stop(x))} ELSE {})
            \cup (IF x.code = "ledger" \/ x.st = "unknown"
                  THEN {[x EXCEPT !.st = "failed", !.code = "failed"]} ELSE {})}
        \cup (IF x.st \in {"failed", "canceled"} /\ x.code # "ledger"
              THEN {Append(lineage, New(wait, IF wait = "draft" THEN "" ELSE "review"))} ELSE {})

Page ==
    /\ Act(1)
    /\ \/ /\ plans # <<>> /\ plans' \in Paged(plans, "review")
          /\ UNCHANGED <<tasks, jobs>>
       \/ /\ \E s \in Stage : tasks[s] # <<>> /\ \E l \in Paged(tasks[s], "review") :
                                  tasks' = [tasks EXCEPT ![s] = l]
          /\ UNCHANGED <<plans, jobs>>
       \/ /\ \E s \in Segment : jobs[s] # <<>> /\ \E l \in Paged(jobs[s], "draft") :
                                    jobs' = [jobs EXCEPT ![s] = l]
          /\ UNCHANGED <<plans, tasks>>
    /\ UNCHANGED <<profile, wf, op, batches, project, planKey, upKey, faults, crashes>>

\* The recovery of the editing and upload services at the next start: a
\* confirmation that was not used is revoked, what ran has failed or is unknown.
Recovered(x) ==
    CASE x.st = "queued" -> {[x EXCEPT !.st = "review", !.code = "restart"]}
      [] x.st \in Running -> Failed(x)
      [] OTHER -> {x}
RecoveredJob(j) ==
    CASE j.st = "queued" -> {[j EXCEPT !.st = "draft", !.code = "restart"]}
      [] j.st = "running" -> {[j EXCEPT !.st = s, !.code = "failed"] : s \in {"failed", "unknown"}}
      [] OTHER -> {j}

\* A process dies and the application starts again.
Crash(p) ==
    /\ crashes < MaxCrashes /\ crashes' = crashes + 1
    /\ op' = [op EXCEPT ![p] = Idle]
    /\ IF plans = <<>> THEN UNCHANGED plans
       ELSE \E x \in Recovered(Leaf(plans)) : plans' = WithLeaf(plans, x)
    /\ \E f \in [Stage -> UNION {Recovered(Leaf(tasks[s])) : s \in {t \in Stage : tasks[t] # <<>>}}
                              \cup {Draft}] :
         /\ \A s \in Stage : tasks[s] # <<>> => f[s] \in Recovered(Leaf(tasks[s]))
         /\ tasks' = [s \in Stage |-> IF tasks[s] = <<>> THEN <<>> ELSE WithLeaf(tasks[s], f[s])]
    /\ \E f \in [Segment -> UNION {RecoveredJob(Leaf(jobs[s])) : s \in {t \in Segment : jobs[t] # <<>>}}
                              \cup {UploadDraft}] :
         /\ \A s \in Segment : jobs[s] # <<>> => f[s] \in RecoveredJob(Leaf(jobs[s]))
         /\ jobs' = [s \in Segment |-> IF jobs[s] = <<>> THEN <<>> ELSE WithLeaf(jobs[s], f[s])]
    /\ UNCHANGED <<profile, wf, batches, project, planKey, upKey, acts, faults>>

-----------------------------------------------------------------------------
Init ==
    /\ profile \in Profiles
    /\ wf = Created
    /\ op = [p \in Procs |-> Idle]
    /\ batches = <<>>
    /\ project = "none" /\ planKey = "none" /\ plans = <<>>
    /\ tasks = [s \in Stage |-> <<>>]
    /\ upKey = [s \in Segment |-> "none"]
    /\ jobs = [s \in Segment |-> <<>>]
    /\ acts = 0 /\ faults = 0 /\ crashes = 0

\* One step of an operation that runs (advance and what it calls)
Advance(p) ==
    \/ Read(p) \/ Write(p) \/ RequireAttention(p)
    \/ AdvanceCreated(p) \/ CreateBatch(p) \/ AdvanceDownloading(p)
    \/ CreateProject(p) \/ CreatePlan(p)
    \/ CallAI(p) \/ AdvanceTask(p) \/ FinishAI(p) \/ RetryAI(p)
    \/ ObserveEdit(p) \/ ConfirmEdit(p) \/ RetryEdit(p)
    \/ PrepareUpload(p) \/ ObserveUpload(p) \/ ConfirmUploads(p) \/ RetryUploads(p)
    \/ ReenterAttention(p)
    \/ CancelUploadsForWorkflow(p) \/ CancelUploads(p)
    \/ CancelEdit(p) \/ CancelEditForWorkflow(p) \/ CancelDownload(p)

User(p) == Cancel(p) \/ \E call \in Calls : Request(p, call)

Workers == DownloadWorker \/ EditWorker \/ UploadWorker

Next ==
    \/ \E p \in Procs : Advance(p) \/ Scan(p) \/ User(p) \/ Crash(p)
    \/ Workers \/ Page

Spec == Init /\ [][Next]_vars

\* The manager's thread scans for ever and its operations go on; each
\* domain's worker goes on with what is queued.
Fairness ==
    /\ \A p \in Procs : WF_vars(Advance(p)) /\ WF_vars(Scan(p))
    /\ WF_vars(DownloadWorker) /\ WF_vars(EditWorker) /\ WF_vars(UploadWorker)

FairSpec == Spec /\ Fairness

-----------------------------------------------------------------------------
TypeOK ==
    /\ profile \in Profiles
    /\ wf \in Row
    /\ \A p \in Procs :
         /\ op[p].pc \in Pcs /\ op[p].who \in {"manager", "api"} /\ op[p].call \in Calls
         /\ op[p].rec \in Row /\ {op[p].fresh, op[p].item, op[p].auth} \subseteq BOOLEAN
         /\ \A k \in DOMAIN op[p].todo : op[p].todo[k].row \in Row
    /\ Len(batches) <= 2
    /\ {project, planKey} \cup {upKey[s] : s \in Segment} \subseteq {"none", "made", "tomb"}

(***************************************************************************)
(* Safety                                                                  *)
(***************************************************************************)
\* A workflow whose start is repeated after a crash has one download batch.
\* (Two processes can create two: create_download is two transactions.)
OneBatch == Cardinality(Procs) = 1 => Len(batches) <= 1

\* Every row an operation can read passes _public's checks of its outputs and
\* of its resolved title: no interleaving of the two writes of a step with a
\* crash leaves a row that get, cancel and the manager all refuse to read,
\* nor a second download batch the row does not name.
RowReadable == TypeOK /\ OutputsMatchState(wf) /\ ResolvedMatchesState(wf) /\ OneBatch

\* completed says what the platforms acknowledged: the newest upload of every
\* segment has succeeded, whatever was retried or canceled on the upload page.
CompletedIsTrue ==
    wf.state = "completed" => \A s \in Segment : jobs[s] # <<>> /\ Leaf(jobs[s]).st \in Success

\* The manager lets run only what the profile authorized when the workflow was
\* created: the first of each lineage.  A retry waits for its own
\* confirmation, also after a restart has revoked one it had.  (An operation of
\* a process that another one has replaced may confirm such an upload.)
AuthorityHolds ==
    /\ \A i \in DOMAIN plans : plans[i].by = "auto" => i = 1 /\ profile.autoEdit
    /\ \A s \in Stage : \A i \in DOMAIN tasks[s] :
         tasks[s][i].by = "auto" => i = 1 /\ profile.autoEdit
    /\ \A s \in Segment : \A i \in DOMAIN jobs[s] :
         /\ jobs[s][i].by = "auto" => profile.autoUpload
         /\ jobs[s][i].by = "auto" /\ Cardinality(Procs) = 1 => i = 1

\* canceled means that nothing of the workflow runs, but for what the user has
\* confirmed on a domain's page after the cancellation.  Download batches and
\* AI tasks have no fence against another process: one process is assumed.
CanceledIsQuiet ==
    wf.state = "canceled" =>
        /\ \A i \in DOMAIN plans : plans[i].st \in Live => plans[i].by = "late"
        /\ \A s \in Segment : \A i \in DOMAIN jobs[s] :
             jobs[s][i].st \in Live => jobs[s][i].by = "late"
        /\ Cardinality(Procs) = 1 =>
             /\ \A b \in DOMAIN batches : batches[b] \notin Live
             /\ \A s \in Stage : \A i \in DOMAIN tasks[s] :
                  tasks[s][i].st \in Live => tasks[s][i].by = "late"

\* An end says what became of the work: completed that all of it was
\* acknowledged, canceled that none of it goes on.
EndsAreTrue == CompletedIsTrue /\ CanceledIsQuiet

\* After the end of a cancellation nobody creates the editing project, the
\* first plan or the first upload jobs any more, however late it is in its
\* operation: the tombstones fence what the row does not record.
FenceHolds ==
    [][wf.state = "canceled" =>
          /\ project' = "made" => project = "made"
          /\ planKey' = "made" => planKey = "made"
          /\ \A s \in Segment : upKey'[s] = "made" => upKey[s] = "made"]_vars

\* A reference the row has recorded is not lost or set back by an operation
\* that works on an older row; a plan or a job is only replaced by its retry.
RefsStable ==
    [][/\ wf.batch # 0 => wf'.batch = wf.batch
       /\ wf.asset => wf'.asset
       /\ wf.project => wf'.project
       /\ wf'.plan >= wf.plan
       /\ \A s \in Segment : wf'.slots[s] >= wf.slots[s]
       /\ wf.state \in {"canceled", "completed"} => wf'.state = wf.state]_vars

(***************************************************************************)
(* Liveness                                                                *)
(***************************************************************************)
\* A cancellation is answered: the intent survives crashes and the manager
\* repeats it until the domain has stopped.
CancelSettles == wf.code = "cancel" ~> wf.code # "cancel"

\* A workflow that is authorized throughout goes on by itself, through crashes
\* and restarts, until it ends or a person has to decide.
Decided ==
    \/ wf.state \in {"completed", "canceled", "attention_required"}
    \/ wf.code \notin AutoCodes \cup {"wait", "cancel"}
AutoSettles == profile.autoEdit /\ profile.autoUpload ~> Decided

\* No workflow hangs: a cancellation is answered, and one that needs nobody
\* comes to an end or asks for somebody.
WorkflowSettles == CancelSettles /\ AutoSettles
=============================================================================
