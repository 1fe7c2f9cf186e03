----------------------- MODULE WorkflowService_proofs -----------------------
(***************************************************************************)
(* Theorems about a workflow and the domains it drives, for any number of  *)
(* processes, segments and AI tasks, every profile and every bound.        *)
(*                                                                         *)
(* The invariant (Inv) says of the row, and of every row an operation has  *)
(* read or is about to write, how far it has come (Ladder, Stands) and     *)
(* that the domains have what it refers to (Backed).  Such a row stays     *)
(* good while the domains only grow (Grows) and the workflow's row is      *)
(* later than it (Below): so an operation that has fallen behind fits as   *)
(* well as the one that is ahead (OpFit).  What a cancellation leaves is   *)
(* quiet because nothing up to what the row refers to can be let run       *)
(* (Still), and because what the row does not refer to has a tombstone     *)
(* (Fenced).  First the steps of an operation that leave the domains       *)
(* alone, then what a step may do to a lineage, then the steps that move   *)
(* one, the domains' own, and the theorems.                                *)
(***************************************************************************)
EXTENDS WorkflowService, FiniteSetTheorems, SequenceTheorems, WellFoundedInduction, TLAPS

-----------------------------------------------------------------------------
(***************************************************************************)
(* The inductive invariant                                                 *)
(***************************************************************************)
Ends    == {"canceled", "completed"}
Working == Pcs \ {"idle", "read", "raise"}
Nexts   == {"idle", "read", "create_batch", "create_plan", "confirm_edit", "retry_edit",
            "confirm_uploads", "retry_uploads"}
Solo    == Cardinality(Procs) = 1
Titled(r) == r.resolved \/ ~profile.sourceTitle

WriteRecord == [kind : {"move", "refs"}, row : Row]
OpRecord == [pc : Pcs, who : {"manager", "api"}, call : Calls, rec : Row, fresh : BOOLEAN,
             item : BOOLEAN, auth : BOOLEAN, todo : Seq(WriteRecord), next : Nexts]

Settled == {"failed", "canceled"}
Confirmers == {"none", "auto", "api", "page", "late"}
Codings == {"", "review", "restart", "failed", "cancel"}
           \cup (IF profile.ai THEN {"ledger"} ELSE {})
EditObject == [st : {"review", "queued", "running", "canceling", "ready", "failed", "canceled"},
               code : Codings, tl : {"none", "review", "approved"}, by : Confirmers]
UploadObject == [st : {"draft", "queued", "running", "submitted", "failed", "canceled",
                       "unknown"},
                 code : {"", "restart", "failed", "cancel"}, tl : {"none"}, by : Confirmers]
Batch == {"queued", "running", "canceling", "ready", "failed", "canceled"}
Key   == {"none", "made", "tomb"}

DomainTypes ==
    /\ profile \in Profile
    /\ batches \in Seq(Batch) /\ Len(batches) <= 2
    /\ project \in Key /\ planKey \in Key /\ upKey \in [Segment -> Key]
    /\ plans \in Seq(EditObject) /\ tasks \in [Stage -> Seq(EditObject)]
    /\ jobs \in [Segment -> Seq(UploadObject)]

\* s is a later version of the row r.
Below(r, s) ==
    /\ r.batch # 0 => s.batch = r.batch
    /\ r.asset => s.asset
    /\ r.project => s.project
    /\ r.plan <= s.plan
    /\ r.outputs => s.outputs
    /\ \A x \in Segment : r.slots[x] <= s.slots[x]

\* What a row refers to rests on what comes before it.
Ladder(r) ==
    /\ r.state = "downloading" \/ r.asset => r.batch # 0
    /\ r.resolved \/ r.project => r.asset
    /\ r.project => Titled(r)
    /\ r.plan # 0 => r.project
    /\ r.outputs => r.plan # 0
    /\ HasJobs(r) => r.outputs

\* How far the row r has come when its state is st and its code is c
StandsAt(r, st, c) ==
    /\ st = "created" => ~r.asset
    /\ st = "downloading" => ~r.project
    /\ st = "preparing_edit" => r.asset /\ Titled(r)
    /\ st = "awaiting_ai_review" => r.project /\ profile.ai
    /\ st \in {"preparing_edit", "awaiting_ai_review"} => r.plan <= 1 /\ ~r.outputs
    /\ st \in {"awaiting_edit_confirmation", "rendering"} => r.plan # 0 /\ ~HasJobs(r)
    /\ st = "preparing_upload" => r.outputs
    /\ st \in {"awaiting_upload_confirmation", "uploading", "completed"} =>
         r.outputs /\ Prepared(r)
    /\ c = "metadata" => st = "attention_required" /\ ~r.project
    /\ c = "ledger" => profile.ai
    /\ st \in Ends => c = "done"

Stands(r) == StandsAt(r, r.state, r.code)

\* The uploads of every segment were acknowledged.
AllDone == \A s \in Segment : jobs[s] # <<>> /\ Leaf(jobs[s]).st = "submitted"

\* What a cancellation of the row r leaves behind cannot be created any more.
Fenced(r) ==
    /\ r.asset /\ r.plan = 0 => project # "none" /\ planKey # "none"
    /\ \A s \in Segment :
         r.outputs /\ r.slots[s] = 0 /\ (\A t \in Segment : t < s => r.slots[t] # 0) =>
           upKey[s] # "none"

\* The domains have what a row refers to, and its end is true.
Backed(r) ==
    /\ r.batch <= Len(batches)
    /\ r.asset => batches[r.batch] = "ready"
    /\ r.project => project = "made"
    /\ r.plan <= Len(plans)
    /\ r.plan # 0 => planKey = "made"
    /\ r.outputs => plans # <<>> /\ Leaf(plans).st = "ready"
    /\ \A s \in Segment : r.slots[s] <= Len(jobs[s])
    /\ r.state = "completed" => AllDone
    /\ r.state = "canceled" => Fenced(r)

Good(r) == r \in Row /\ Ladder(r) /\ Stands(r) /\ Backed(r)

\* A write takes the row r a step further.
StepOf(r, w) ==
    /\ Good(w.row)
    /\ w.kind = "move" => w.row = Moved(r, w.row.state, w.row.code)
    /\ w.kind = "refs" => w.row.state = r.state /\ w.row.code = r.code /\ Below(r, w.row)

Chain(r, t) ==
    /\ Len(t) \in 1..2
    /\ StepOf(r, t[1])
    /\ Len(t) = 2 => /\ t[1].kind = "refs" /\ t[2].kind = "move" /\ StepOf(t[1].row, t[2])
                     /\ t[2].row.state # "canceled"

\* What an operation o that goes on at pc knows of the row r it works on.
Ready(o, pc, r) ==
    /\ pc \in Working => r.state \notin Ends
    /\ pc = "call" => Admits(o, r)
    /\ pc = "create_batch" => r.state = "created" /\ r.batch = 0
    /\ pc = "create_plan" =>
         /\ r.state \in {"preparing_edit", "awaiting_ai_review", "attention_required"}
         /\ r.asset /\ Titled(r) /\ r.plan <= 1 /\ ~r.outputs /\ r.code # "metadata"
         /\ project = "made" /\ (profile.ai => AIDone)
    /\ pc = "ai" =>
         /\ r.state \in {"awaiting_ai_review", "attention_required"}
         /\ r.project /\ profile.ai /\ r.plan <= 1 /\ ~r.outputs
         /\ o.call \in {"advance", "confirm_ai"}
         /\ o.auth /\ o.call = "advance" => profile.autoEdit
    /\ pc = "confirm_edit" =>
         /\ r.state = "awaiting_edit_confirmation"
         /\ o.call = "advance" => profile.autoEdit /\ r.plan = 1
    /\ pc = "retry_edit" =>
         /\ r.state = "attention_required" /\ r.plan # 0 /\ ~r.outputs
         /\ plans[r.plan].st \in Settled
    /\ pc = "confirm_uploads" =>
         /\ r.state = "awaiting_upload_confirmation"
         /\ o.call = "advance" => profile.autoUpload
         /\ o.call = "advance" /\ Solo =>
              \A s \in Segment : r.slots[s] = 1 \/ jobs[s][r.slots[s]].st # "draft"
    /\ pc = "retry_uploads" => r.state = "attention_required" /\ Prepared(r)

LastRow(t) == t[Len(t)].row

\* An operation works on a row that was the workflow's, and that still is where
\* its write will be accepted.
OpFit(o) ==
    /\ o \in OpRecord
    /\ Good(o.rec) /\ Below(o.rec, wf)
    /\ o.fresh => o.rec = wf
    /\ o.pc = "write" => /\ Chain(o.rec, o.todo) /\ o.rec.state \notin Ends
                         /\ Ready(o, o.next, LastRow(o.todo)) /\ o.next # "create_batch"
    /\ o.pc # "write" => o.todo = <<>> /\ Ready(o, o.pc, o.rec)

\* Only the newest object of a lineage is not settled.
Lineage(l) == \A k \in DOMAIN l : k < Len(l) => l[k].st \in Settled

EditLineage(l) ==
    /\ Lineage(l)
    /\ \A k \in DOMAIN l : /\ l[k].tl = "approved" => l[k].st = "ready"
                           /\ l[k].code = "ledger" => l[k].st = "failed"

Lineages ==
    /\ EditLineage(plans)
    /\ \A s \in Stage : EditLineage(tasks[s])
    /\ \A s \in Segment : Lineage(jobs[s])

\* What the domains have was made for a row that had come so far.
Rooted ==
    /\ planKey = "made" <=> plans # <<>>
    /\ planKey = "made" => project = "made" /\ wf.asset /\ (profile.ai => AIDone)
    /\ \A s \in Stage : tasks[s] # <<>> => wf.project /\ profile.ai
    /\ \A s \in Segment :
         /\ upKey[s] = "made" <=> jobs[s] # <<>>
         /\ upKey[s] # "none" => /\ wf.outputs
                                 /\ \A t \in Segment : t < s => wf.slots[t] # 0

\* With one process nobody else writes the row.
Alone ==
    Solo => /\ Len(batches) <= 1
            /\ \A p \in Procs : /\ op[p].pc \in Working => op[p].fresh
                                /\ op[p].pc = "create_batch" => batches = <<>>

\* Nothing of a canceled workflow goes on, nor can an operation let it go on.
Still ==
    /\ \A k \in DOMAIN plans :
         /\ plans[k].st \in Live => plans[k].by = "late"
         /\ k <= wf.plan => plans[k].st \in Settled \cup {"ready"}
    /\ \A s \in Segment : \A k \in DOMAIN jobs[s] :
         /\ jobs[s][k].st \in Live => jobs[s][k].by = "late"
         /\ k <= wf.slots[s] => jobs[s][k].st \notin {"draft"} \cup Live
    /\ Solo => /\ \A b \in DOMAIN batches : batches[b] \notin Live
               /\ \A s \in Stage : \A k \in DOMAIN tasks[s] :
                    tasks[s][k].st \in Live => tasks[s][k].by = "late"

Stopping(o) ==
    o.pc = "write" /\ o.fresh /\ \E k \in DOMAIN o.todo : o.todo[k].row.state = "canceled"

Quiet ==
    /\ wf.state = "canceled" => Still
    /\ \A p \in Procs : Stopping(op[p]) => wf.code = "cancel" /\ Still

Inv ==
    /\ profile \in Profiles /\ DomainTypes /\ Good(wf)
    /\ op \in [Procs -> OpRecord] /\ \A p \in Procs : OpFit(op[p])
    /\ Lineages /\ Rooted /\ Alone /\ AuthorityHolds /\ Quiet

\* What may happen to the domains: nothing a row refers to is lost.
Kept ==
    /\ profile' = profile
    /\ Len(batches) <= Len(batches')
    /\ \A b \in DOMAIN batches : batches[b] = "ready" => batches'[b] = "ready"
    /\ project = "made" => project' = "made"
    /\ project # "none" => project' # "none"
    /\ planKey = "made" => planKey' = "made"
    /\ planKey # "none" => planKey' # "none"
    /\ Len(plans) <= Len(plans')
    /\ \A k \in 1..Len(plans) : plans[k].st \in Settled => plans'[k].st \in Settled
    /\ plans # <<>> /\ Leaf(plans).st = "ready" => plans' # <<>> /\ Leaf(plans').st = "ready"
    /\ \A s \in Segment : /\ Len(jobs[s]) <= Len(jobs'[s])
                          /\ upKey[s] # "none" => upKey'[s] # "none"
    /\ AIDone => AIDone'
    /\ AllDone => AllDone'

\* Only a restart takes a confirmation back.
DraftsStay ==
    Solo => \A s \in Segment : \A k \in 1..Len(jobs[s]) :
              jobs[s][k].st # "draft" => jobs'[s][k].st # "draft"

Grows == Kept /\ DraftsStay

LEMMA KeptGood ==
  ASSUME DomainTypes, Kept, NEW r, Good(r)
  PROVE  Good(r)'
  <1> USE DEF Kept, DomainTypes
  <1>1. Ladder(r)' /\ Stands(r)'
    BY DEF Good, Ladder, Stands, StandsAt, Titled, Prepared, HasJobs
  <1>2. r.asset => r.batch \in DOMAIN batches
    BY DEF Good, Ladder, Backed, Row
  <1>3. Backed(r)'
    <2>1. r \in Row
      BY DEF Good
    <2>2. /\ r.batch <= Len(batches')
          /\ r.asset => batches'[r.batch] = "ready"
          /\ r.project => project' = "made"
          /\ r.plan # 0 => planKey' = "made"
          /\ r.outputs => plans' # <<>> /\ Leaf(plans').st = "ready"
          /\ r.state = "completed" => AllDone'
      BY <1>2 DEF Good, Backed, Row
    <2>3. r.plan <= Len(plans')
      BY DEF Good, Backed, Row
    <2>4. \A s \in Segment : r.slots[s] <= Len(jobs'[s])
      BY DEF Good, Backed, Row
    <2>5. r.state = "canceled" => Fenced(r)'
      BY DEF Good, Backed, Fenced
    <2> QED BY <2>2, <2>3, <2>4, <2>5 DEF Backed
  <1> QED BY <1>1, <1>3 DEF Good

LEMMA GoodKept ==
  ASSUME DomainTypes, Grows, NEW r, Good(r)
  PROVE  Good(r)'
  BY KeptGood DEF Grows

LEMMA BelowSame ==
  ASSUME NEW r \in Row
  PROVE  Below(r, r)
  BY DEF Below, Row

LEMMA BelowTrans ==
  ASSUME NEW r \in Row, NEW s \in Row, NEW t \in Row, Below(r, s), Below(s, t)
  PROVE  Below(r, t)
  <1>1. /\ r.batch \in 0..2 /\ s.batch \in 0..2 /\ t.batch \in 0..2
        /\ r.plan \in Nat /\ s.plan \in Nat /\ t.plan \in Nat
        /\ \A x \in Segment : r.slots[x] \in Nat /\ s.slots[x] \in Nat /\ t.slots[x] \in Nat
    BY DEF Row
  <1> QED BY <1>1 DEF Below

\* A move keeps what the row refers to.
LEMMA MovedRow ==
  ASSUME NEW r \in Row, NEW st, NEW c, Moved(r, st, c) \in Row
  PROVE  LET m == Moved(r, st, c)
         IN  /\ m.state = st /\ m.code = c
             /\ m.batch = r.batch /\ m.asset = r.asset /\ m.resolved = r.resolved
             /\ m.project = r.project /\ m.plan = r.plan /\ m.outputs = r.outputs
             /\ m.slots = r.slots
             /\ HasJobs(m) = HasJobs(r) /\ Prepared(m) = Prepared(r) /\ Titled(m) = Titled(r)
             /\ m = Moved(r, m.state, m.code)
             /\ Below(r, m) /\ Below(m, r)
  BY DEF Moved, Row, HasJobs, Prepared, Titled, Below

LEMMA MovedType ==
  ASSUME NEW r \in Row, NEW st \in ActiveStates \cup {"attention_required", "canceled", "completed"},
         NEW c \in Codes
  PROVE  Moved(r, st, c) \in Row
  BY DEF Moved, Row

\* A move to a state that the row has come to is a step.  (Here and below what
\* an operation writes is compared with the domains after its own effect.)
LEMMA MoveStep ==
  ASSUME NEW r, Good(r)',
         NEW st \in ActiveStates \cup {"attention_required", "canceled", "completed"},
         NEW c \in Codes, StandsAt(r, st, c)', st = "downloading" => r.batch # 0,
         st = "completed" => AllDone', st = "canceled" => Fenced(r)'
  PROVE  /\ Move(Moved(r, st, c)) \in WriteRecord
         /\ StepOf(r, Move(Moved(r, st, c)))'
         /\ Move(Moved(r, st, c)).kind = "move" /\ Move(Moved(r, st, c)).row = Moved(r, st, c)
  <1> DEFINE m == Moved(r, st, c)
  <1>1. r \in Row /\ m \in Row
    BY MovedType DEF Good
  <1>2. /\ m.state = st /\ m.code = c
        /\ m.batch = r.batch /\ m.asset = r.asset /\ m.resolved = r.resolved
        /\ m.project = r.project /\ m.plan = r.plan /\ m.outputs = r.outputs
        /\ m.slots = r.slots /\ m = Moved(r, m.state, m.code)
    BY <1>1, MovedRow
  <1> HIDE DEF m
  <1>3. Stands(m)'
    BY <1>2 DEF Stands, StandsAt, HasJobs, Prepared, Titled
  <1>4. Ladder(m)'
    BY <1>2 DEF Good, Ladder, HasJobs, Titled
  <1>5. Backed(m)'
    BY <1>2 DEF Good, Backed, Fenced
  <1>6. Good(m)'
    BY <1>1, <1>3, <1>4, <1>5 DEF Good
  <1> QED BY <1>1, <1>2, <1>6 DEF Move, StepOf, WriteRecord, m

LEMMA RefsStep ==
  ASSUME NEW r \in Row, NEW m, Good(m)', m.state = r.state, m.code = r.code, Below(r, m)
  PROVE  /\ Refs(m) \in WriteRecord
         /\ StepOf(r, Refs(m))'
         /\ Refs(m).kind = "refs" /\ Refs(m).row = m
  BY DEF Good, Refs, StepOf, WriteRecord, Below

LEMMA ShortChain ==
  ASSUME NEW r, NEW w \in WriteRecord, StepOf(r, w)'
  PROVE  Chain(r, <<w>>)' /\ LastRow(<<w>>) = w.row /\ <<w>> \in Seq(WriteRecord)
  BY DEF Chain, LastRow

LEMMA LongChain ==
  ASSUME NEW r, NEW v \in WriteRecord, NEW w \in WriteRecord, StepOf(r, v)', StepOf(v.row, w)',
         v.kind = "refs", w.kind = "move", w.row.state # "canceled"
  PROVE  Chain(r, <<v, w>>)' /\ LastRow(<<v, w>>) = w.row /\ <<v, w>> \in Seq(WriteRecord)
  BY DEF Chain, LastRow

LEMMA StepKept ==
  ASSUME DomainTypes, Grows, NEW r, NEW w, StepOf(r, w)
  PROVE  StepOf(r, w)'
  BY GoodKept DEF StepOf, Below, Moved

LEMMA ReadyKept ==
  ASSUME DomainTypes, Grows, NEW o \in OpRecord, NEW pc, NEW r, Good(r), Ready(o, pc, r)
  PROVE  Ready(o, pc, r)'
  <1> USE DEF Grows, Kept, DraftsStay, DomainTypes
  <1>1. r \in Row
    BY DEF Good
  <1>2. pc = "call" => Admits(o, r)'
    BY DEF Ready, Admits, Unprepared, Prepared, HasJobs
  <1>3. /\ pc = "create_plan" =>
             /\ r.state \in {"preparing_edit", "awaiting_ai_review", "attention_required"}
             /\ r.asset /\ Titled(r)' /\ r.plan <= 1 /\ ~r.outputs /\ r.code # "metadata"
             /\ project' = "made" /\ (profile'.ai => AIDone')
        /\ pc = "ai" =>
             /\ r.state \in {"awaiting_ai_review", "attention_required"}
             /\ r.project /\ profile'.ai /\ r.plan <= 1 /\ ~r.outputs
             /\ o.call \in {"advance", "confirm_ai"}
             /\ o.auth /\ o.call = "advance" => profile'.autoEdit
        /\ pc = "confirm_edit" =>
             /\ r.state = "awaiting_edit_confirmation"
             /\ o.call = "advance" => profile'.autoEdit /\ r.plan = 1
    BY DEF Ready, Titled
  <1>4. pc = "retry_edit" =>
          /\ r.state = "attention_required" /\ r.plan # 0 /\ ~r.outputs
          /\ plans'[r.plan].st \in Settled
    <2>1. r.plan # 0 => r.plan \in 1..Len(plans)
      BY <1>1 DEF Good, Backed, Row
    <2> QED BY <2>1 DEF Ready
  <1>5. pc = "confirm_uploads" =>
          /\ r.state = "awaiting_upload_confirmation"
          /\ o.call = "advance" => profile'.autoUpload
          /\ o.call = "advance" /\ Solo =>
               \A s \in Segment : r.slots[s] = 1 \/ jobs'[s][r.slots[s]].st # "draft"
    <2>1. r.state = "awaiting_upload_confirmation" =>
            \A s \in Segment : r.slots[s] \in 1..Len(jobs[s])
      BY <1>1 DEF Good, Backed, Stands, StandsAt, Prepared, Row
    <2> QED BY <2>1 DEF Ready
  <1> QED BY <1>2, <1>3, <1>4, <1>5 DEF Ready, Solo

\* An operation keeps what it knows while the domains grow and the row stays
\* or turns old.
LEMMA FitKept ==
  ASSUME DomainTypes, Grows, NEW o, OpFit(o), o.fresh => wf' = wf, wf \in Row, wf' \in Row,
         Below(wf, wf')
  PROVE  OpFit(o)'
  <1>1. o \in OpRecord /\ o.rec \in Row
    BY DEF OpFit, OpRecord
  <1>2. Good(o.rec)' /\ Below(o.rec, wf') /\ (o.fresh => o.rec = wf')
    BY <1>1, GoodKept, BelowTrans DEF OpFit
  <1>3. o.pc # "write" => o.todo = <<>> /\ Ready(o, o.pc, o.rec)'
    BY <1>1, ReadyKept DEF OpFit
  <1>4. ASSUME o.pc = "write"
        PROVE  Chain(o.rec, o.todo)' /\ Ready(o, o.next, LastRow(o.todo))' /\ o.next # "create_batch"
    <2>1. Good(LastRow(o.todo))
      BY <1>4 DEF OpFit, Chain, StepOf, LastRow
    <2>2. Chain(o.rec, o.todo)'
      BY <1>4, StepKept DEF OpFit, Chain
    <2> QED BY <1>1, <1>4, <2>1, <2>2, ReadyKept DEF OpFit
  <1> QED BY <1>1, <1>2, <1>3, <1>4 DEF OpFit

LEMMA SoloOne == Solo => \A p, q \in Procs : p = q
  BY FS_Singleton, WorkflowAssumption DEF Solo

LEMMA CreatedRow == Created \in Row
  <1> DEFINE f == [s \in Segment |-> 0]
  <1>1. f \in [Segment -> Nat]
    OBVIOUS
  <1>2. Created = [state |-> "created", code |-> "", batch |-> 0, asset |-> FALSE,
                   resolved |-> FALSE, project |-> FALSE, plan |-> 0, outputs |-> FALSE,
                   slots |-> f]
    BY DEF Created
  <1> HIDE DEF f
  <1>3. [state |-> "created", code |-> "", batch |-> 0, asset |-> FALSE,
         resolved |-> FALSE, project |-> FALSE, plan |-> 0, outputs |-> FALSE,
         slots |-> f] \in Row
    BY <1>1 DEF Row, ActiveStates, Codes
  <1> QED BY <1>2, <1>3

LEMMA CreatedFields ==
  LET r == Created
  IN  /\ r.state = "created" /\ r.code = "" /\ r.batch = 0 /\ ~r.asset /\ ~r.resolved
      /\ ~r.project /\ r.plan = 0 /\ ~r.outputs /\ \A s \in Segment : r.slots[s] = 0
  BY DEF Created

LEMMA CreatedGood ==
  ASSUME DomainTypes'
  PROVE  Good(Created)'
  <1> DEFINE r == Created
  <1>1. /\ r.state = "created" /\ r.code = "" /\ r.batch = 0 /\ ~r.asset /\ ~r.resolved
        /\ ~r.project /\ r.plan = 0 /\ ~r.outputs /\ \A s \in Segment : r.slots[s] = 0
    BY CreatedFields
  <1>2. r \in Row
    BY CreatedRow
  <1> HIDE DEF r
  <1>3. Ladder(r)' /\ Stands(r)'
    BY <1>1 DEF Ladder, Stands, StandsAt, HasJobs, Ends
  <1>4. Backed(r)'
    <2>1. Len(batches') >= 0 /\ Len(plans') >= 0 /\ \A s \in Segment : Len(jobs'[s]) >= 0
      BY DEF DomainTypes
    <2> QED BY <1>1, <2>1 DEF Backed
  <1> QED BY <1>2, <1>3, <1>4 DEF Good, r

LEMMA IdleType ==
  /\ Idle \in OpRecord /\ Idle.pc = "idle" /\ Idle.rec = Created /\ ~Idle.fresh
  /\ Idle.todo = <<>>
  <1>1. "idle" \in Pcs /\ "advance" \in Calls /\ "idle" \in Nexts /\ <<>> \in Seq(WriteRecord)
    BY DEF Pcs, Calls, Nexts
  <1> QED BY <1>1, CreatedRow DEF Idle, OpRecord

\* An operation that has ended, or has raised an error, knows nothing.
LEMMA RestFits ==
  ASSUME DomainTypes', wf' \in Row,
         NEW o \in OpRecord, o.pc \in {"idle", "read", "raise"}, o.rec = Created, ~o.fresh, o.todo = <<>>
  PROVE  OpFit(o)' /\ ~Stopping(o)
  <1>1. Below(Created, wf')
    <2>1. wf'.plan >= 0 /\ \A s \in Segment : wf'.slots[s] >= 0
      BY DEF Row
    <2> QED BY <2>1, CreatedFields DEF Below
  <1>2. Ready(o, o.pc, o.rec)'
    BY DEF Ready, Working
  <1> QED BY <1>1, <1>2, CreatedGood DEF OpFit, Stopping

LEMMA ReadySame ==
  ASSUME NEW o, NEW x, NEW pc, NEW r, x.call = o.call, x.auth = o.auth, pc # "call",
         Ready(o, pc, r)'
  PROVE  Ready(x, pc, r)'
  BY DEF Ready

\* Where an operation goes on after it has acted
LEMMA AfterFits ==
  ASSUME NEW o \in OpRecord, Good(o.rec)', Below(o.rec, wf'), o.fresh => o.rec = wf',
         DomainTypes', wf' \in Row,
         NEW t \in Seq(WriteRecord), NEW next \in Nexts,
         t = <<>> => Ready(o, next, o.rec)',
         t # <<>> => /\ Chain(o.rec, t)' /\ Ready(o, next, LastRow(t))'
                     /\ o.rec.state \notin Ends /\ next # "create_batch"
  PROVE  LET a == After(o, t, next)
         IN  /\ a \in OpRecord /\ OpFit(a)'
             /\ a.pc \in Working => a.fresh = o.fresh
             /\ a.pc = "create_batch" => next = "create_batch" /\ t = <<>>
             /\ Stopping(a) => o.fresh /\ \E k \in DOMAIN t : t[k].row.state = "canceled"
  <1> DEFINE a == After(o, t, next)
  <1>1. CASE t # <<>>
    <2>1. a = [o EXCEPT !.pc = "write", !.todo = t, !.next = next]
      BY <1>1 DEF After
    <2>2. /\ a.pc = "write" /\ a.rec = o.rec /\ a.fresh = o.fresh /\ a.todo = t /\ a.next = next
          /\ a.call = o.call /\ a.auth = o.auth /\ a \in OpRecord
      BY <2>1 DEF OpRecord, Pcs
    <2> HIDE DEF a
    <2>3. Ready(a, a.next, LastRow(a.todo))'
      BY <1>1, <2>2, ReadySame DEF Nexts
    <2>4. OpFit(a)' /\ (Stopping(a) => o.fresh /\ \E k \in DOMAIN t : t[k].row.state = "canceled")
      BY <1>1, <2>2, <2>3 DEF OpFit, Stopping
    <2> QED BY <2>2, <2>4 DEF a
  <1>2. CASE t = <<>> /\ next = "idle"
    <2>1. a = Idle
      BY <1>2 DEF After
    <2> HIDE DEF a
    <2>2. a \in OpRecord /\ OpFit(a)' /\ ~Stopping(a) /\ a.pc = "idle"
      BY <2>1, IdleType, RestFits
    <2> QED BY <2>2 DEF Working, a
  <1>3. CASE t = <<>> /\ next # "idle"
    <2>1. \/ next = "read" /\ a = [o EXCEPT !.pc = "read", !.call = "advance", !.todo = <<>>]
          \/ next # "read" /\ a = [o EXCEPT !.pc = next, !.todo = <<>>]
      BY <1>3 DEF After
    <2>2. /\ a.pc = next /\ a.rec = o.rec /\ a.fresh = o.fresh /\ a.todo = <<>>
          /\ a.auth = o.auth /\ (next # "read" => a.call = o.call)
      BY <2>1 DEF OpRecord
    <2>3. a \in OpRecord
      <3>1. next \in Pcs /\ "read" \in Pcs /\ "advance" \in Calls /\ <<>> \in Seq(WriteRecord)
        BY DEF Pcs, Calls, Nexts
      <3> QED BY <2>1, <3>1 DEF OpRecord
    <2> HIDE DEF a
    <2>4. Ready(a, a.pc, a.rec)'
      <3>1. CASE next = "read"
        BY <2>2, <3>1 DEF Ready, Working
      <3>2. CASE next # "read"
        BY <1>3, <2>2, <3>2, ReadySame DEF Nexts
      <3> QED BY <3>1, <3>2
    <2>5. a.pc # "write"
      BY <2>2 DEF Nexts
    <2> QED BY <1>3, <2>2, <2>3, <2>4, <2>5 DEF OpFit, Stopping, a
  <1> QED BY <1>1, <1>2, <1>3

\* What a step does to the domains
DomainStep ==
    /\ Grows /\ DomainTypes' /\ Lineages' /\ AuthorityHolds' /\ Rooted'
    /\ Solo => Len(batches') <= 1

LEMMA SteadyDomains ==
  ASSUME Inv, UNCHANGED <<profile, domains>>, wf' \in Row, Below(wf, wf')
  PROVE  /\ DomainStep
         /\ Still /\ wf'.plan = wf.plan /\ wf'.slots = wf.slots => Still'
  <1>1. UNCHANGED <<batches, project, planKey, plans, tasks, upKey, jobs>>
    BY DEF domains, editing, uploads
  <1>2. Grows
    BY <1>1 DEF Grows, Kept, DraftsStay, Inv, DomainTypes, AIDone, Approved, AllDone
  <1>3. DomainTypes'
    BY <1>1 DEF Inv, DomainTypes, EditObject, UploadObject, Codings
  <1>4. Lineages' /\ AuthorityHolds'
    BY <1>1 DEF Inv, Lineages, EditLineage, Lineage, AuthorityHolds
  <1>5. Rooted'
    <2>1. /\ wf.asset => wf'.asset
          /\ wf.project => wf'.project
          /\ wf.outputs => wf'.outputs
          /\ \A t \in Segment : wf.slots[t] # 0 => wf'.slots[t] # 0
      BY DEF Below, Row, Inv, Good
    <2> QED BY <1>1, <2>1 DEF Inv, Rooted, AIDone, Approved
  <1>6. Still /\ wf'.plan = wf.plan /\ wf'.slots = wf.slots => Still'
    BY <1>1 DEF Still
  <1> QED BY <1>1, <1>2, <1>3, <1>4, <1>5, <1>6 DEF DomainStep, Inv, Alone

LEMMA SameDomains ==
  ASSUME Inv, UNCHANGED <<profile, wf, domains>>
  PROVE  DomainStep /\ (Still => Still')
  <1>1. wf \in Row /\ Below(wf, wf)
    BY BelowSame DEF Inv, Good
  <1> QED BY <1>1, SteadyDomains

\* A step of one operation that leaves the row alone
LEMMA Composed ==
  ASSUME Inv, NEW p \in Procs, NEW o \in OpRecord, op' = [op EXCEPT ![p] = o], wf' = wf,
         OpFit(o)', DomainStep,
         op[p].pc \in Working \/ (Still => Still'),
         ~Solo /\ Still /\ (wf.state = "canceled" \/ wf.code = "cancel") => Still',
         Solo /\ o.pc \in Working => o.fresh,
         Solo /\ o.pc = "create_batch" => batches' = <<>>,
         Stopping(o) => wf.code = "cancel" /\ Still'
  PROVE  Inv'
  <1>1. op \in [Procs -> OpRecord] /\ wf \in Row
    BY DEF Inv, Good
  <1>2. op'[p] = o /\ \A q \in Procs \ {p} : op'[q] = op[q]
    BY <1>1
  <1>3. \A q \in Procs : OpFit(op[q])
    BY DEF Inv
  <1>4. \A q \in Procs : OpFit(op[q])'
    <2>1. ASSUME NEW q \in Procs, NEW x \in OpRecord, x = op'[q]
          PROVE  OpFit(x)'
      <3>1. CASE q = p
        BY <1>2, <2>1, <3>1
      <3>2. CASE q # p
        BY <1>1, <1>2, <1>3, <2>1, <3>2, FitKept, BelowSame DEF Inv, DomainStep
      <3> QED BY <3>1, <3>2
    <2>2. ASSUME NEW q \in Procs
          PROVE  OpFit(op[q])'
      <3>1. PICK x \in OpRecord : x = op'[q]
        BY <1>1
      <3> QED BY <2>1, <3>1
    <2> QED BY <2>2
  <1>5. Good(wf)'
    <2>1. PICK r \in Row : r = wf
      BY <1>1
    <2>2. Good(r)'
      BY <2>1, GoodKept DEF Inv, DomainStep
    <2> QED BY <2>1, <2>2
  <1>6. Alone'
    <2>1. ASSUME Solo
          PROVE  \A q \in Procs : q = p
      BY <2>1, SoloOne
    <2> QED BY <1>2, <2>1 DEF Alone, DomainStep, Solo
  <1>7. Quiet'
    <2>1. ASSUME wf.state = "canceled"
          PROVE  Still'
      <3>1. Solo => ~(op[p].pc \in Working)
        <4>1. ASSUME op[p].pc \in Working
              PROVE  op[p].rec.state \notin Ends
          BY <1>3, <4>1 DEF OpFit, Ready
        <4> QED BY <1>3, <2>1, <4>1 DEF Inv, Alone, OpFit, Ends
      <3> QED BY <2>1, <3>1 DEF Inv, Quiet
    <2>2. ASSUME NEW q \in Procs, Stopping(op[q])'
          PROVE  wf.code = "cancel" /\ Still'
      <3>1. CASE q = p
        BY <1>2, <2>2, <3>1
      <3>2. CASE q # p
        BY <1>2, <2>2, <3>2, SoloOne DEF Inv, Quiet
      <3> QED BY <3>1, <3>2
    <2> QED BY <2>1, <2>2 DEF Quiet, Stopping
  <1> QED BY <1>1, <1>2, <1>4, <1>5, <1>6, <1>7 DEF Inv, DomainStep, Grows, Kept

-----------------------------------------------------------------------------
(***************************************************************************)
(* The steps of an operation                                               *)
(***************************************************************************)
LEMMA OpKnows ==
  ASSUME Inv, NEW p \in Procs
  PROVE  /\ op \in [Procs -> OpRecord] /\ op[p] \in OpRecord /\ OpFit(op[p])
         /\ op[p].rec \in Row /\ Good(op[p].rec) /\ Below(op[p].rec, wf)
         /\ op[p].pc \in Working => op[p].rec.state \notin Ends
         /\ wf \in Row /\ Good(wf) /\ DomainTypes
  BY DEF Inv, OpFit, OpRecord, Good, Ready

\* What another operation may do to a canceled workflow
Spares == ~Solo /\ Still /\ (wf.state = "canceled" \/ wf.code = "cancel") => Still'

Goes(p, n) == op' = [op EXCEPT ![p] = n]

LEMMA Acted ==
  ASSUME Inv, NEW p \in Procs, NEW o \in OpRecord, op[p].pc \in Working,
         o = op[p],
         NEW t \in Seq(WriteRecord), NEW next \in Nexts,
         NEW n, n = After(o, t, next), Goes(p, n), wf' = wf, DomainStep, Spares,
         t = <<>> => Ready(o, next, o.rec)',
         t # <<>> => Chain(o.rec, t)' /\ Ready(o, next, LastRow(t))' /\ next # "create_batch",
         next # "create_batch" \/ ~Solo \/ batches' = <<>>,
         \A k \in DOMAIN t :
            t[k].row.state = "canceled" => o.rec.code = "cancel" /\ (o.fresh => Still')
  PROVE  Inv'
  <1>1. /\ wf' \in Row /\ Below(o.rec, wf') /\ Good(o.rec) /\ (o.fresh => o.rec = wf')
        /\ o.rec.state \notin Ends
    BY OpKnows DEF OpFit
  <1>2. Good(o.rec)'
    BY <1>1, OpKnows, GoodKept DEF DomainStep
  <1>3. PICK a \in OpRecord : a = n
    BY <1>1, <1>2, AfterFits DEF DomainStep
  <1>4. /\ OpFit(a)'
        /\ a.pc \in Working => a.fresh = o.fresh
        /\ a.pc = "create_batch" => next = "create_batch" /\ t = <<>>
        /\ Stopping(a) => o.fresh /\ \E k \in DOMAIN t : t[k].row.state = "canceled"
    BY <1>1, <1>2, <1>3, AfterFits DEF DomainStep
  <1>5. Solo /\ a.pc \in Working => a.fresh
    BY <1>4 DEF Inv, Alone
  <1>6. Stopping(a) => wf.code = "cancel" /\ Still'
    BY <1>1, <1>4
  <1>7. Solo /\ a.pc = "create_batch" => batches' = <<>>
    BY <1>4
  <1>8. op' = [op EXCEPT ![p] = a]
    BY <1>3 DEF Goes
  <1>9. ~Solo /\ Still /\ (wf.state = "canceled" \/ wf.code = "cancel") => Still'
    BY DEF Spares
  <1> QED BY <1>4, <1>5, <1>6, <1>7, <1>8, <1>9, Composed

LEMMA Raised ==
  ASSUME Inv, NEW p \in Procs, Raise(p), op[p].pc \in Working, wf' = wf, DomainStep, Spares
  PROVE  Inv'
  <1> DEFINE a == IF op[p].who = "manager"
                  THEN [Idle EXCEPT !.pc = "raise", !.item = op[p].item] ELSE Idle
  <1>1. op' = [op EXCEPT ![p] = a]
    BY DEF Raise
  <1>2. "raise" \in Pcs /\ op[p].item \in BOOLEAN
    BY OpKnows DEF Pcs, OpRecord
  <1>3. /\ a \in OpRecord /\ a.pc \in {"idle", "raise"} /\ a.rec = Created /\ ~a.fresh
        /\ a.todo = <<>>
    <2>1. CASE op[p].who = "manager"
      BY <1>2, <2>1, IdleType DEF OpRecord
    <2>2. CASE op[p].who # "manager"
      BY <2>2, IdleType
    <2> QED BY <2>1, <2>2
  <1> HIDE DEF a
  <1>4. PICK o \in OpRecord : o = a
    BY <1>3
  <1>5. OpFit(o)' /\ ~Stopping(o)
    BY <1>3, <1>4, OpKnows, RestFits DEF DomainStep
  <1>6. o.pc \notin Working /\ o.pc # "create_batch" /\ op' = [op EXCEPT ![p] = o]
    BY <1>1, <1>3, <1>4 DEF Working
  <1>7. ~Solo /\ Still /\ (wf.state = "canceled" \/ wf.code = "cancel") => Still'
    BY DEF Spares
  <1> QED BY <1>5, <1>6, <1>7, Composed

LEMMA RaisedAlone ==
  ASSUME Inv, NEW p \in Procs, Raise(p), op[p].pc \in Working,
         UNCHANGED <<profile, wf, domains>>
  PROVE  Inv'
  <1>1. DomainStep /\ (Still => Still')
    BY SameDomains
  <1> QED BY <1>1, Raised DEF Spares

\* A step that changes the domains and is to write a state
LEMMA MoveActed ==
  ASSUME Inv, NEW p \in Procs, NEW o \in OpRecord, op[p].pc \in Working,
         o = op[p],
         NEW st \in ActiveStates \cup {"attention_required", "canceled", "completed"},
         NEW c \in Codes, StandsAt(o.rec, st, c)', st = "downloading" => o.rec.batch # 0,
         st = "completed" => AllDone',
         st = "canceled" => Fenced(o.rec)' /\ o.rec.code = "cancel" /\ (o.fresh => Still'),
         NEW next \in Nexts \ {"create_batch"},
         Then(p, <<Move(Moved(o.rec, st, c))>>, next),
         wf' = wf, DomainStep, Spares, Ready(o, next, Moved(o.rec, st, c))'
  PROVE  Inv'
  <1>9. PICK w : w = Move(Moved(o.rec, st, c))
    OBVIOUS
  <1>1. Good(o.rec)'
    BY OpKnows, GoodKept DEF DomainStep
  <1>2. w \in WriteRecord /\ StepOf(o.rec, w)' /\ w.row = Moved(o.rec, st, c)
    BY <1>1, <1>9, MoveStep
  <1>3. w.row.state = st
    <2>1. o.rec \in Row
      BY DEF OpRecord
    <2> QED BY <1>2, <2>1, MovedType, MovedRow
  <1>5. Chain(o.rec, <<w>>)' /\ LastRow(<<w>>) = w.row /\ <<w>> \in Seq(WriteRecord)
    BY <1>2, ShortChain
  <1>6. Ready(o, next, LastRow(<<w>>))'
    BY <1>2, <1>5, Zenon
  <1>7. \A k \in DOMAIN <<w>> : <<w>>[k].row.state = "canceled" => o.rec.code = "cancel" /\ (o.fresh => Still')
    BY <1>3
  <1>8. next \in Nexts /\ next # "create_batch"
    OBVIOUS
  <1>10. PICK t \in Seq(WriteRecord) : t = <<w>>
    BY <1>5
  <1>11. PICK n : n = After(o, t, next) /\ Goes(p, n)
    BY <1>9, <1>10 DEF Goes, Then
  <1>12. t # <<>> => Chain(o.rec, t)' /\ Ready(o, next, LastRow(t))' /\ next # "create_batch"
    BY <1>5, <1>6, <1>8, <1>10
  <1>13. \A k \in DOMAIN t : t[k].row.state = "canceled" => o.rec.code = "cancel" /\ (o.fresh => Still')
    BY <1>7, <1>10
  <1>14. t # <<>>
    BY <1>10
  <1> QED BY <1>8, <1>11, <1>12, <1>13, <1>14, Acted

\* The references, then the state
LEMMA RecordActed ==
  ASSUME Inv, NEW p \in Procs, NEW o \in OpRecord, op[p].pc \in Working,
         o = op[p],
         NEW m, Good(m)', m.state = o.rec.state, m.code = o.rec.code, Below(o.rec, m),
         NEW st \in ActiveStates \cup {"attention_required", "completed"},
         NEW c \in Codes, StandsAt(m, st, c)', st = "downloading" => m.batch # 0,
         st = "completed" => AllDone',
         NEW next \in Nexts \ {"create_batch"},
         Then(p, <<Refs(m), Move(Moved(m, st, c))>>, next),
         wf' = wf, DomainStep, Spares, Ready(o, next, Moved(m, st, c))'
  PROVE  Inv'
  <1>9. PICK v, w : v = Refs(m) /\ w = Move(Moved(m, st, c))
    OBVIOUS
  <1>1. v \in WriteRecord /\ StepOf(o.rec, v)' /\ v.kind = "refs" /\ v.row = m
    BY <1>9, OpKnows, RefsStep
  <1>2. w \in WriteRecord /\ StepOf(m, w)' /\ w.row = Moved(m, st, c) /\ w.kind = "move"
    <2>1. /\ st # "canceled"
          /\ st \in ActiveStates \cup {"attention_required", "canceled", "completed"}
      BY DEF ActiveStates
    <2> QED BY <1>9, <2>1, MoveStep
  <1>3. w.row.state = st /\ v.row.state \notin Ends /\ st # "canceled"
    <2>2. m \in Row /\ st \in ActiveStates \cup {"attention_required", "canceled", "completed"}
      BY DEF Good
    <2>1. w.row.state = st /\ v.row.state \notin Ends
      BY <1>1, <1>2, <2>2, OpKnows, MovedType, MovedRow
    <2> QED BY <2>1 DEF ActiveStates
  <1>5. /\ Chain(o.rec, <<v, w>>)' /\ LastRow(<<v, w>>) = w.row
        /\ <<v, w>> \in Seq(WriteRecord)
    BY <1>1, <1>2, <1>3, LongChain
  <1>6. Ready(o, next, LastRow(<<v, w>>))'
    BY <1>2, <1>5, Zenon
  <1>7. \A k \in DOMAIN <<v, w>> : <<v, w>>[k].row.state # "canceled"
    BY <1>3 DEF Ends
  <1>8. next \in Nexts /\ next # "create_batch"
    OBVIOUS
  <1>10. PICK t \in Seq(WriteRecord) : t = <<v, w>>
    BY <1>5
  <1>11. PICK n : n = After(o, t, next) /\ Goes(p, n)
    BY <1>9, <1>10 DEF Goes, Then
  <1>12. t # <<>> => Chain(o.rec, t)' /\ Ready(o, next, LastRow(t))' /\ next # "create_batch"
    BY <1>5, <1>6, <1>8, <1>10
  <1>13. \A k \in DOMAIN t : t[k].row.state = "canceled" => o.rec.code = "cancel" /\ (o.fresh => Still')
    BY <1>7, <1>10
  <1>14. t # <<>>
    BY <1>10
  <1> QED BY <1>8, <1>11, <1>12, <1>13, <1>14, Acted

\* The references alone
LEMMA RefsActed ==
  ASSUME Inv, NEW p \in Procs, NEW o \in OpRecord, op[p].pc \in Working,
         o = op[p],
         NEW m, Good(m)', m.state = o.rec.state, m.code = o.rec.code, Below(o.rec, m),
         NEW next \in Nexts \ {"create_batch"},
         Then(p, <<Refs(m)>>, next),
         wf' = wf, DomainStep, Spares, Ready(o, next, m)'
  PROVE  Inv'
  <1>9. PICK v : v = Refs(m)
    OBVIOUS
  <1>1. v \in WriteRecord /\ StepOf(o.rec, v)' /\ v.row = m
    BY <1>9, OpKnows, RefsStep
  <1>2. v.row.state # "canceled"
    BY <1>1, OpKnows DEF Ends
  <1>4. Chain(o.rec, <<v>>)' /\ LastRow(<<v>>) = v.row /\ <<v>> \in Seq(WriteRecord)
    BY <1>1, ShortChain
  <1>5. Ready(o, next, LastRow(<<v>>))'
    BY <1>1, <1>4, Zenon
  <1>6. \A k \in DOMAIN <<v>> : <<v>>[k].row.state # "canceled"
    BY <1>2
  <1>8. next \in Nexts /\ next # "create_batch"
    OBVIOUS
  <1>10. PICK t \in Seq(WriteRecord) : t = <<v>>
    BY <1>4
  <1>11. PICK n : n = After(o, t, next) /\ Goes(p, n)
    BY <1>9, <1>10 DEF Goes, Then
  <1>12. t # <<>> => Chain(o.rec, t)' /\ Ready(o, next, LastRow(t))' /\ next # "create_batch"
    BY <1>4, <1>5, <1>8, <1>10
  <1>13. \A k \in DOMAIN t : t[k].row.state = "canceled" => o.rec.code = "cancel" /\ (o.fresh => Still')
    BY <1>6, <1>10
  <1>14. t # <<>>
    BY <1>10
  <1> QED BY <1>8, <1>11, <1>12, <1>13, <1>14, Acted

\* A step that goes straight on
LEMMA GoneActed ==
  ASSUME Inv, NEW p \in Procs, NEW o \in OpRecord, op[p].pc \in Working,
         o = op[p], NEW next \in Nexts,
         Then(p, <<>>, next),
         wf' = wf, DomainStep, Spares, Ready(o, next, o.rec)',
         next # "create_batch" \/ ~Solo \/ batches' = <<>>
  PROVE  Inv'
  <1>4. <<>> \in Seq(WriteRecord)
    OBVIOUS
  <1>1. PICK t \in Seq(WriteRecord) : t = <<>>
    BY <1>4
  <1>2. PICK n : n = After(o, t, next) /\ Goes(p, n)
    BY <1>1 DEF Goes, Then
  <1>3. \A k \in DOMAIN t : t[k].row.state = "canceled" => o.rec.code = "cancel" /\ (o.fresh => Still')
    BY <1>1
  <1> QED BY <1>1, <1>2, <1>3, Acted

LEMMA MovedOn ==
  ASSUME Inv, NEW p \in Procs, NEW o \in OpRecord, op[p].pc \in Working, o = op[p],
         NEW st \in ActiveStates \cup {"attention_required", "completed"},
         NEW c \in Codes, StandsAt(o.rec, st, c), st = "downloading" => o.rec.batch # 0,
         st = "completed" => AllDone,
         NEW next \in Nexts \ {"create_batch"}, Ready(o, next, Moved(o.rec, st, c)),
         Then(p, <<Move(Moved(o.rec, st, c))>>, next), UNCHANGED <<profile, wf, domains>>
  PROVE  Inv'
  <1>1. DomainStep /\ Spares
    BY SameDomains DEF Spares
  <1>2. StandsAt(o.rec, st, c)' /\ (st = "completed" => AllDone')
    BY DEF StandsAt, HasJobs, Prepared, Titled, domains, uploads, AllDone
  <1>3. st # "canceled" /\ st \in ActiveStates \cup {"attention_required", "canceled", "completed"}
    BY DEF ActiveStates
  <1>4. Ready(o, next, Moved(o.rec, st, c))'
    BY DEF Ready, Titled, AIDone, Approved, domains, editing, uploads, Admits, Unprepared,
       HasJobs, Prepared
  <1> QED BY <1>1, <1>2, <1>3, <1>4, MoveActed

LEMMA MovedAlone ==
  ASSUME Inv, NEW p \in Procs, NEW o \in OpRecord, op[p].pc \in Working, o = op[p],
         NEW st \in ActiveStates \cup {"attention_required", "completed"},
         NEW c \in Codes, StandsAt(o.rec, st, c), st = "downloading" => o.rec.batch # 0,
         st = "completed" => AllDone,
         NEW next \in {"idle", "read"},
         Then(p, <<Move(Moved(o.rec, st, c))>>, next), UNCHANGED <<profile, wf, domains>>
  PROVE  Inv'
  <1>1. next \in Nexts \ {"create_batch"} /\ Ready(o, next, Moved(o.rec, st, c))
    BY DEF Nexts, Ready, Working
  <1> QED BY <1>1, MovedOn

LEMMA RecordedAlone ==
  ASSUME Inv, NEW p \in Procs, NEW o \in OpRecord, op[p].pc \in Working, o = op[p],
         NEW m, Good(m)', m.state = o.rec.state, m.code = o.rec.code, Below(o.rec, m),
         NEW st \in ActiveStates \cup {"attention_required"},
         NEW c \in Codes, StandsAt(m, st, c), st = "downloading" => m.batch # 0,
         NEW next \in {"idle", "read"},
         Then(p, <<Refs(m), Move(Moved(m, st, c))>>, next), UNCHANGED <<profile, wf, domains>>
  PROVE  Inv'
  <1>1. DomainStep /\ Spares
    BY SameDomains DEF Spares
  <1>2. StandsAt(m, st, c)'
    BY DEF StandsAt, HasJobs, Prepared, Titled
  <1>3. next \in Nexts \ {"create_batch"} /\ Ready(o, next, Moved(m, st, c))'
    BY DEF Nexts, Ready, Working
  <1>4. st # "completed"
    BY DEF ActiveStates
  <1> QED BY <1>1, <1>2, <1>3, <1>4, RecordActed

-----------------------------------------------------------------------------
LEMMA GoneOn ==
  ASSUME Inv, NEW p \in Procs, NEW o \in OpRecord, op[p].pc \in Working, o = op[p],
         NEW next \in Nexts, Then(p, <<>>, next), UNCHANGED <<profile, wf, domains>>,
         Ready(o, next, o.rec), next # "create_batch" \/ ~Solo \/ batches = <<>>
  PROVE  Inv'
  <1>1. DomainStep /\ Spares
    BY SameDomains DEF Spares
  <1>2. Ready(o, next, o.rec)'
    BY <1>1, OpKnows, ReadyKept DEF DomainStep
  <1>3. batches' = batches
    BY DEF domains
  <1> QED BY <1>1, <1>2, <1>3, GoneActed

LEMMA BatchRecord ==
  ASSUME NEW r \in Row, NEW b \in 1..2, Good(r)', r.state = "created", r.batch \in {0, b},
         b <= Len(batches')
  PROVE  LET m == [r EXCEPT !.batch = b]
         IN  /\ Good(m)' /\ m.state = r.state /\ m.code = r.code /\ Below(r, m) /\ m.batch = b
             /\ ~m.project
             /\ WithBatch(r, b) = <<Refs(m), Move(Moved(m, "downloading", ""))>>
  <1> DEFINE m == [r EXCEPT !.batch = b]
  <1>1. /\ m.state = r.state /\ m.code = r.code /\ m.batch = b /\ m.asset = r.asset
        /\ m.resolved = r.resolved /\ m.project = r.project /\ m.plan = r.plan
        /\ m.outputs = r.outputs /\ m.slots = r.slots /\ m \in Row
    BY DEF Row
  <1>2. WithBatch(r, b) = <<Refs(m), Move(Moved(m, "downloading", ""))>>
    BY DEF WithBatch
  <1> HIDE DEF m
  <1>3. ~r.asset /\ ~r.project
    BY DEF Good, Stands, StandsAt, Ladder
  <1>4. Ladder(m)' /\ Stands(m)' /\ Backed(m)'
    BY <1>1, <1>3 DEF Good, Ladder, Stands, StandsAt, Backed, Fenced, HasJobs, Prepared, Titled
  <1>5. Below(r, m)
    BY <1>1, BelowSame DEF Below
  <1> QED BY <1>1, <1>2, <1>3, <1>4, <1>5 DEF Good, m

LEMMA SameGood ==
  ASSUME Inv, NEW p \in Procs, UNCHANGED <<profile, wf, domains>>, NEW r, Good(r)
  PROVE  Good(r)'
  BY SameDomains, OpKnows, GoodKept DEF DomainStep

LEMMA AdvanceCreatedKeeps ==
  ASSUME Inv, NEW p \in Procs, AdvanceCreated(p)
  PROVE  Inv'
  <1>1. PICK o \in OpRecord : o = op[p]
    BY OpKnows
  <1>2. /\ o.pc = "call" /\ o.rec.state = "created" /\ op[p].pc \in Working
        /\ UNCHANGED <<profile, wf, domains>> /\ Rec(p) = o.rec
    BY <1>1 DEF AdvanceCreated, Advancing, At, Rec, Working, Pcs
  <1>3. /\ o.rec \in Row /\ Good(o.rec) /\ Good(o.rec)' /\ DomainTypes /\ o.rec.batch \in 0..2
    BY <1>1, <1>2, OpKnows, SameGood DEF Row
  <1>4. CASE Len(batches) = 0 /\ Then(p, <<>>, "create_batch")
    <2>1. o.rec.batch = 0 /\ batches = <<>>
      BY <1>3, <1>4 DEF Good, Backed, DomainTypes
    <2>2. Ready(o, "create_batch", o.rec)
      BY <1>2, <2>1 DEF Ready, Ends
    <2> QED BY <1>1, <1>2, <1>4, <2>1, <2>2, GoneOn DEF Nexts
  <1>5. CASE Len(batches) = 1 /\ Then(p, WithBatch(o.rec, 1), "read")
    <2> DEFINE m == [o.rec EXCEPT !.batch = 1]
    <2>1. o.rec.batch \in {0, 1} /\ 1 <= Len(batches') /\ 1 \in 1..2
      BY <1>2, <1>3, <1>5 DEF Good, Backed, domains
    <2>2. /\ Good(m)' /\ m.state = o.rec.state /\ m.code = o.rec.code /\ Below(o.rec, m)
          /\ m.batch = 1 /\ ~m.project
          /\ WithBatch(o.rec, 1) = <<Refs(m), Move(Moved(m, "downloading", ""))>>
      BY <1>2, <1>3, <2>1, BatchRecord
    <2>6. m.batch # 0
      BY <1>3 DEF Row
    <2> HIDE DEF m
    <2>3. StandsAt(m, "downloading", "")
      BY <2>2 DEF StandsAt, Ends
    <2>4. Then(p, <<Refs(m), Move(Moved(m, "downloading", ""))>>, "read")
      BY <1>5, <2>2, Zenon
    <2>5. "downloading" \in ActiveStates /\ "" \in Codes
      BY DEF ActiveStates, Codes
    <2> QED BY <1>1, <1>2, <2>2, <2>3, <2>4, <2>5, <2>6, RecordedAlone
  <1>6. CASE Raise(p)
    BY <1>2, <1>6, RaisedAlone
  <1>7. ASSUME NEW code \in PreflightCodes,
               Then(p, <<Move(IF code = "wait" THEN Moved(Rec(p), "created", code)
                              ELSE Attention(Rec(p), code))>>, "idle")
        PROVE  Inv'
    <2>1. ~o.rec.asset
      BY <1>2, <1>3 DEF Good, Stands, StandsAt
    <2>2. CASE code = "wait"
      <3>1. Then(p, <<Move(Moved(o.rec, "created", "wait"))>>, "idle")
        BY <1>2, <1>7, <2>2
      <3>2. StandsAt(o.rec, "created", "wait") /\ "created" \in ActiveStates /\ "wait" \in Codes
        BY <2>1 DEF StandsAt, ActiveStates, Codes, Ends
      <3> QED BY <1>1, <1>2, <3>1, <3>2, MovedAlone
    <2>3. CASE code = "preflight"
      <3>1. Then(p, <<Move(Moved(o.rec, "attention_required", "preflight"))>>, "idle")
        BY <1>2, <1>7, <2>3 DEF Attention
      <3>2. StandsAt(o.rec, "attention_required", "preflight") /\ "preflight" \in Codes
        BY <2>1 DEF StandsAt, Codes, Ends
      <3> QED BY <1>1, <1>2, <3>1, <3>2, MovedAlone
    <2> QED BY <2>2, <2>3 DEF PreflightCodes
  <1> QED BY <1>2, <1>4, <1>5, <1>6, <1>7 DEF AdvanceCreated

LEMMA AssetRecord ==
  ASSUME NEW r \in Row, Good(r)', r.state = "downloading", batches'[r.batch] = "ready",
         NEW m \in Row, m.state = r.state, m.code = r.code, m.batch = r.batch, m.asset,
         m.project = r.project, m.plan = r.plan, m.outputs = r.outputs, m.slots = r.slots
  PROVE  Good(m)' /\ Below(r, m) /\ ~m.project /\ m.batch # 0
  <1>1. ~r.project /\ r.batch # 0
    BY DEF Good, Stands, StandsAt, Ladder
  <1>2. Ladder(m)' /\ Stands(m)' /\ Backed(m)'
    BY <1>1 DEF Good, Ladder, Stands, StandsAt, Backed, Fenced, HasJobs, Prepared, Titled
  <1>3. Below(r, m)
    BY BelowSame DEF Below
  <1> QED BY <1>1, <1>2, <1>3 DEF Good

LEMMA AdvanceDownloadingKeeps ==
  ASSUME Inv, NEW p \in Procs, AdvanceDownloading(p)
  PROVE  Inv'
  <1>1. PICK o \in OpRecord : o = op[p]
    BY OpKnows
  <1> DEFINE r == o.rec
             found == [r EXCEPT !.asset = TRUE]
             titled == WithTitle(r)
             view == DownloadView(batches[r.batch])
  <1>2. /\ o.pc = "call" /\ r.state = "downloading" /\ op[p].pc \in Working
        /\ UNCHANGED <<profile, wf, domains>> /\ Rec(p) = r
    BY <1>1 DEF AdvanceDownloading, Advancing, At, Rec, Working, Pcs
  <1>3. /\ r \in Row /\ Good(r) /\ Good(r)' /\ DomainTypes /\ profile \in Profile
        /\ ~r.project /\ r.batch # 0 /\ r.plan = 0 /\ ~r.outputs
    <2>1. r \in Row /\ Good(r) /\ DomainTypes
      BY <1>1, OpKnows
    <2>2. Good(r)'
      BY <1>2, <2>1, SameGood
    <2>3. ~r.project /\ r.batch # 0 /\ r.plan = 0 /\ ~r.outputs
      BY <1>2, <2>1 DEF Good, Stands, StandsAt, Ladder
    <2> QED BY <2>1, <2>2, <2>3 DEF DomainTypes
  <1>4. view = "ready" => batches[r.batch] = "ready" /\ batches' = batches
    BY <1>2 DEF DownloadView, domains
  <1>5. /\ found \in Row /\ found.state = r.state /\ found.code = r.code
        /\ found.batch = r.batch /\ found.asset /\ found.project = r.project
        /\ found.plan = r.plan /\ found.outputs = r.outputs /\ found.slots = r.slots
    BY <1>3 DEF Row
  <1>6. /\ titled \in Row /\ titled.state = r.state /\ titled.code = r.code
        /\ titled.batch = r.batch /\ titled.asset /\ titled.project = r.project
        /\ titled.plan = r.plan /\ titled.outputs = r.outputs /\ titled.slots = r.slots
    BY <1>3 DEF Row, Profile, WithTitle
  <1>13. Titled(titled)
    BY <1>3 DEF Row, Profile, WithTitle, Titled
  <1>7. \/ view = "waiting" /\ Then(p, <<>>, "idle")
        \/ view = "attention" /\ Then(p, <<Move(Attention(r, "failed"))>>, "idle")
        \/ view = "ready" /\ r.resolved /\ Then(p, <<Move(Moved(r, "preparing_edit", ""))>>, "read")
        \/ view = "ready" /\ Then(p, <<Refs(titled), Move(Moved(titled, "preparing_edit", ""))>>, "read")
        \/ view = "ready" /\ Then(p, <<Refs(found), Move(Attention(found, "metadata"))>>, "idle")
    <2>1. view \in {"waiting", "attention", "ready"}
      BY DEF DownloadView
    <2> HIDE DEF view, titled, found
    <2>2. /\ AdvanceDownloading(p) /\ Rec(p) = r
      BY <1>2
    <2> QED BY <2>1, <2>2 DEF AdvanceDownloading, view, titled, found
  <1> HIDE DEF view, titled, found
  <1>8. CASE Then(p, <<>>, "idle")
    BY <1>1, <1>2, <1>8, GoneOn DEF Ready, Working, Nexts
  <1>9. CASE Then(p, <<Move(Attention(r, "failed"))>>, "idle")
    <2>1. StandsAt(r, "attention_required", "failed") /\ "failed" \in Codes
      BY DEF StandsAt, Codes, Ends
    <2> QED BY <1>1, <1>2, <1>9, <2>1, MovedAlone DEF Attention
  <1>10. CASE r.resolved /\ Then(p, <<Move(Moved(r, "preparing_edit", ""))>>, "read")
    <2>1. StandsAt(r, "preparing_edit", "")
      <3>1. r.asset /\ Titled(r)
        BY <1>3, <1>10 DEF Good, Ladder, Titled
      <3> QED BY <1>3, <3>1 DEF StandsAt, Ends
    <2>2. "" \in Codes /\ "preparing_edit" \in ActiveStates
      BY DEF Codes, ActiveStates
    <2> QED BY <1>1, <1>2, <1>10, <2>1, <2>2, MovedAlone
  <1>11. CASE /\ view = "ready"
              /\ Then(p, <<Refs(titled), Move(Moved(titled, "preparing_edit", ""))>>, "read")
    <2>4. PICK x \in Row : x = titled
      BY <1>6
    <2>1. Good(x)' /\ Below(r, x)
      BY <1>2, <1>3, <1>4, <1>6, <1>11, <2>4, AssetRecord
    <2>2. StandsAt(x, "preparing_edit", "")
      BY <1>3, <1>6, <1>13, <2>4 DEF StandsAt, Ends
    <2>5. Then(p, <<Refs(x), Move(Moved(x, "preparing_edit", ""))>>, "read")
      BY <1>11, <2>4
    <2>3. "" \in Codes /\ "preparing_edit" \in ActiveStates
      BY DEF Codes, ActiveStates
    <2> QED BY <1>1, <1>2, <1>6, <2>1, <2>2, <2>3, <2>4, <2>5, RecordedAlone
  <1>12. CASE /\ view = "ready"
              /\ Then(p, <<Refs(found), Move(Attention(found, "metadata"))>>, "idle")
    <2>1. Good(found)' /\ Below(r, found)
      BY <1>2, <1>3, <1>4, <1>5, <1>12, AssetRecord
    <2>2. StandsAt(found, "attention_required", "metadata")
      BY <1>3, <1>5 DEF StandsAt, Ends
    <2>3. "metadata" \in Codes /\ Attention(found, "metadata") = Moved(found, "attention_required", "metadata")
      BY DEF Codes, Attention
    <2> QED BY <1>1, <1>2, <1>5, <1>12, <2>1, <2>2, <2>3, RecordedAlone
  <1> QED BY <1>7, <1>8, <1>9, <1>10, <1>11, <1>12

LEMMA CallAIKeeps ==
  ASSUME Inv, NEW p \in Procs, CallAI(p)
  PROVE  Inv'
  <1>1. PICK o \in OpRecord : o = op[p]
    BY OpKnows
  <1> DEFINE r == o.rec
             automatic == Advancing(p, "awaiting_ai_review")
             explicit == At(p, "call") /\ op[p].call = "confirm_ai"
             reconcile == Advancing(p, "attention_required") /\ ~r.outputs
                          /\ r.code = "ledger" /\ r.plan = 0
             auth == explicit \/ (automatic /\ profile.autoEdit)
             n == [o EXCEPT !.pc = "ai", !.auth = auth]
  <1>2. /\ o.pc = "call" /\ op[p].pc \in Working
        /\ UNCHANGED <<profile, wf, domains>> /\ Rec(p) = r
        /\ automatic \/ explicit \/ reconcile
        /\ op' = [op EXCEPT ![p] = Idle] \/ op' = [op EXCEPT ![p] = n]
    BY <1>1 DEF CallAI, Advancing, At, Rec, Working, Pcs
  <1>3. DomainStep /\ (Still => Still')
    BY <1>2, SameDomains
  <1>4. /\ r \in Row /\ Good(r) /\ Good(r)' /\ DomainTypes /\ Below(r, wf) /\ OpFit(o)
        /\ wf \in Row /\ r.state \notin Ends /\ Ready(o, "call", r)
    BY <1>1, <1>2, OpKnows, SameGood DEF OpFit
  <1>5. CASE op' = [op EXCEPT ![p] = Idle]
    <2>1. OpFit(Idle)' /\ ~Stopping(Idle)
      <3>1. PICK x \in OpRecord : x = Idle
        BY IdleType
      <3>2. OpFit(x)' /\ ~Stopping(x)
        BY <1>2, <1>3, <1>4, <3>1, IdleType, RestFits DEF DomainStep
      <3> QED BY <3>1, <3>2 DEF Idle
    <2>2. Idle.pc \notin Working /\ Idle.pc # "create_batch" /\ Idle \in OpRecord
      BY IdleType DEF Working
    <2> QED BY <1>2, <1>3, <1>5, <2>1, <2>2, Composed
  <1>6. CASE op' = [op EXCEPT ![p] = n]
    <2>1. /\ n.pc = "ai" /\ n.rec = r /\ n.fresh = o.fresh /\ n.todo = o.todo /\ n.call = o.call
          /\ n.auth = auth /\ n \in OpRecord
      <3>1. auth \in BOOLEAN /\ "ai" \in Pcs
        BY DEF Pcs
      <3> HIDE DEF auth
      <3> QED BY <3>1 DEF OpRecord
    <2>2. /\ n.call \in {"advance", "confirm_ai"}
          /\ n.auth /\ n.call = "advance" => profile.autoEdit
      BY <1>1, <1>2, <2>1 DEF Advancing
    <2>3. /\ r.state \in {"awaiting_ai_review", "attention_required"}
          /\ r.project /\ profile.ai /\ r.plan <= 1 /\ ~r.outputs
      <3>1. CASE automatic
        <4>1. r.state = "awaiting_ai_review"
          BY <1>2, <3>1 DEF Advancing
        <4> QED BY <1>4, <4>1 DEF Good, Stands, StandsAt
      <3>2. CASE explicit
        <4>1. r.state = "awaiting_ai_review"
          BY <1>1, <1>4, <3>2 DEF Ready, Admits
        <4> QED BY <1>4, <4>1 DEF Good, Stands, StandsAt
      <3>3. CASE reconcile
        <4>1. /\ r.state = "attention_required" /\ ~r.outputs /\ r.code = "ledger" /\ r.plan = 0
              /\ o.call = "advance"
          BY <1>1, <1>2, <3>3 DEF Advancing
        <4>2. ~HasJobs(r) /\ profile.ai
          BY <1>4, <4>1 DEF Good, Stands, StandsAt, Ladder
        <4>3. r.project
          BY <1>4, <4>1, <4>2 DEF Ready, Admits, Unprepared, ActiveStates
        <4> QED BY <4>1, <4>2, <4>3
      <3> QED BY <1>2, <3>1, <3>2, <3>3
    <2> HIDE DEF n, auth
    <2>4. Ready(n, "ai", r)
      BY <1>4, <2>1, <2>2, <2>3 DEF Ready
    <2>5. PICK x \in OpRecord : x = n
      BY <2>1
    <2>6. Ready(x, "ai", r)'
      BY <1>3, <1>4, <2>4, <2>5, ReadyKept DEF DomainStep
    <2>7. OpFit(x)'
      <3>1. Below(r, wf') /\ (x.fresh => x.rec = wf')
        BY <1>2, <1>4, <2>1, <2>5 DEF OpFit
      <3> QED BY <1>2, <1>4, <2>1, <2>5, <2>6, <3>1 DEF OpFit
    <2>8. ~Stopping(x) /\ x.pc # "create_batch" /\ (Solo => x.fresh)
      BY <1>1, <1>2, <2>1, <2>5 DEF Stopping, Inv, Alone
    <2> QED BY <1>2, <1>3, <1>6, <2>5, <2>7, <2>8, Composed
  <1> QED BY <1>2, <1>5, <1>6

\* An operation that starts anew, or has ended, leaves everything as it is.
LEMMA Rested ==
  ASSUME Inv, NEW p \in Procs, NEW o \in OpRecord, o.pc \in {"idle", "read", "raise"},
         o.rec = Created, ~o.fresh, o.todo = <<>>, op' = [op EXCEPT ![p] = o],
         UNCHANGED <<profile, wf, domains>>
  PROVE  Inv'
  <1>1. DomainStep /\ (Still => Still')
    BY SameDomains
  <1>2. OpFit(o)' /\ ~Stopping(o)
    BY <1>1, OpKnows, RestFits DEF DomainStep
  <1>3. o.pc \notin Working /\ o.pc # "create_batch"
    BY DEF Working
  <1> QED BY <1>1, <1>2, <1>3, Composed

LEMMA ReenterAttentionKeeps ==
  ASSUME Inv, NEW p \in Procs, ReenterAttention(p)
  PROVE  Inv'
  <1>1. PICK o \in OpRecord : o = op[p]
    BY OpKnows
  <1> DEFINE r == o.rec
  <1>2. /\ o.pc = "call" /\ op[p].pc \in Working /\ r.state = "attention_required"
        /\ UNCHANGED <<profile, wf, domains>> /\ Rec(p) = r
    BY <1>1 DEF ReenterAttention, Advancing, At, Rec, Working, Pcs
  <1>3. r \in Row /\ Good(r)
    BY <1>1, OpKnows
  <1>4. \/ /\ Unprepared(r) /\ Then(p, <<Move(Moved(r, "preparing_upload", ""))>>, "read")
        \/ /\ ~r.outputs /\ r.batch = 0 /\ Then(p, <<Move(Moved(r, "created", ""))>>, "read")
        \/ /\ r.code = "metadata" /\ r.asset
           /\ Then(p, <<Move(Moved(r, "downloading", ""))>>, "read")
    BY <1>2 DEF ReenterAttention
  <1>5. /\ "" \in Codes /\ {"preparing_upload", "created", "downloading"} \subseteq ActiveStates
    BY DEF Codes, ActiveStates
  <1>6. CASE Unprepared(r) /\ Then(p, <<Move(Moved(r, "preparing_upload", ""))>>, "read")
    <2>1. StandsAt(r, "preparing_upload", "")
      BY <1>6 DEF StandsAt, Unprepared, Ends
    <2> QED BY <1>1, <1>2, <1>5, <1>6, <2>1, MovedAlone
  <1>7. CASE r.batch = 0 /\ Then(p, <<Move(Moved(r, "created", ""))>>, "read")
    <2>1. StandsAt(r, "created", "")
      BY <1>3, <1>7 DEF StandsAt, Ends, Good, Ladder
    <2> QED BY <1>1, <1>2, <1>5, <1>7, <2>1, MovedAlone
  <1>8. CASE /\ r.code = "metadata" /\ r.asset
             /\ Then(p, <<Move(Moved(r, "downloading", ""))>>, "read")
    <2>1. ~r.project /\ r.batch # 0
      BY <1>3, <1>8 DEF Good, Stands, StandsAt, Ladder
    <2>2. StandsAt(r, "downloading", "")
      BY <2>1 DEF StandsAt, Ends
    <2> QED BY <1>1, <1>2, <1>5, <1>8, <2>1, <2>2, MovedAlone
  <1> QED BY <1>4, <1>6, <1>7, <1>8

LEMMA FinishAIKeeps ==
  ASSUME Inv, NEW p \in Procs, FinishAI(p)
  PROVE  Inv'
  <1>1. PICK o \in OpRecord : o = op[p]
    BY OpKnows
  <1> DEFINE r == o.rec
  <1>2. /\ o.pc = "ai" /\ op[p].pc \in Working /\ AIDone
        /\ UNCHANGED <<profile, wf, domains>>
        /\ Then(p, <<>>, "create_plan") \/ Raise(p)
    BY <1>1 DEF FinishAI, At, Working, Pcs
  <1>3. r \in Row /\ Good(r) /\ Ready(o, "ai", r) /\ r.state \notin Ends
    BY <1>1, <1>2, OpKnows DEF OpFit
  <1>4. CASE Then(p, <<>>, "create_plan")
    <2>1. r.project /\ r.plan <= 1 /\ ~r.outputs
          /\ r.state \in {"awaiting_ai_review", "attention_required"}
      BY <1>3 DEF Ready
    <2>2. r.asset /\ Titled(r) /\ r.code # "metadata" /\ project = "made"
      BY <1>3, <2>1 DEF Good, Ladder, Stands, StandsAt, Backed
    <2>3. Ready(o, "create_plan", r)
      BY <1>2, <1>3, <2>1, <2>2 DEF Ready
    <2> QED BY <1>1, <1>2, <1>4, <2>3, GoneOn DEF Nexts
  <1>5. CASE Raise(p)
    BY <1>2, <1>5, RaisedAlone
  <1> QED BY <1>2, <1>4, <1>5

LEMMA ReadKeeps ==
  ASSUME Inv, NEW p \in Procs, Read(p)
  PROVE  Inv'
  <1>1. PICK o \in OpRecord : o = op[p]
    BY OpKnows
  <1>2. PICK w \in Row : w = wf
    BY OpKnows
  <1> DEFINE n == [o EXCEPT !.pc = "call", !.rec = w, !.fresh = TRUE]
  <1>3. /\ o.pc = "read" /\ UNCHANGED <<profile, wf, domains>>
        /\ \/ Admits(o, w) /\ op' = [op EXCEPT ![p] = n]
           \/ op' = [op EXCEPT ![p] = Idle]
    BY <1>1, <1>2 DEF Read, At
  <1>4. CASE op' = [op EXCEPT ![p] = Idle]
    BY <1>3, <1>4, IdleType, Rested
  <1>5. CASE Admits(o, w) /\ op' = [op EXCEPT ![p] = n]
    <2>1. /\ n.pc = "call" /\ n.rec = w /\ n.fresh /\ n.call = o.call /\ n.todo = o.todo
          /\ n \in OpRecord
      BY DEF OpRecord, Pcs
    <2> HIDE DEF n
    <2>2. DomainStep /\ (Still => Still') /\ Good(w) /\ Good(w)' /\ Below(w, wf')
      BY <1>2, <1>3, SameDomains, SameGood, BelowSame, OpKnows
    <2>3. w.state \notin Ends
      <3>1. w.state \in Ends => w.code = "done"
        BY <2>2 DEF Good, Stands, StandsAt
      <3>2. o.call \in Calls
        BY DEF OpRecord
      <3> QED BY <1>5, <3>1, <3>2 DEF Admits, Ends, ActiveStates, Calls
    <2>4. Admits(n, w)
      BY <1>5, <2>1 DEF Admits
    <2>5. Ready(n, "call", w)
      BY <2>3, <2>4 DEF Ready
    <2>6. Ready(n, "call", w)'
      BY <2>1, <2>2, <2>5, OpKnows, ReadyKept DEF DomainStep
    <2>7. o.todo = <<>>
      BY <1>1, <1>3, OpKnows DEF OpFit
    <2>8. OpFit(n)'
      BY <1>2, <1>3, <2>1, <2>2, <2>6, <2>7 DEF OpFit
    <2>9. ~Stopping(n) /\ n.pc # "create_batch"
      BY <2>1 DEF Stopping
    <2> QED BY <1>3, <1>5, <2>1, <2>2, <2>8, <2>9, Composed
  <1> QED BY <1>3, <1>4, <1>5

LEMMA ScanKeeps ==
  ASSUME Inv, NEW p \in Procs, Scan(p) \/ \E call \in Calls : Request(p, call)
  PROVE  Inv'
  <1>1. UNCHANGED <<profile, wf, domains>>
    BY DEF Scan, Request
  <1>2. CASE Scan(p)
    <2> DEFINE n == [Idle EXCEPT !.pc = "read", !.item = TRUE]
    <2>1. op' = [op EXCEPT ![p] = n]
      BY <1>2 DEF Scan
    <2>2. n.pc = "read" /\ n.rec = Created /\ ~n.fresh /\ n.todo = <<>> /\ n \in OpRecord
      BY IdleType DEF OpRecord, Pcs
    <2> HIDE DEF n
    <2> QED BY <1>1, <2>1, <2>2, Rested
  <1>3. ASSUME NEW call \in Calls, Request(p, call)
        PROVE  Inv'
    <2> DEFINE n == [Idle EXCEPT !.pc = "read", !.who = "api", !.call = call]
    <2>1. op' = [op EXCEPT ![p] = n]
      BY <1>3 DEF Request
    <2>2. n.pc = "read" /\ n.rec = Created /\ ~n.fresh /\ n.todo = <<>> /\ n \in OpRecord
      BY IdleType DEF OpRecord, Pcs
    <2> HIDE DEF n
    <2> QED BY <1>1, <2>1, <2>2, Rested
  <1> QED BY <1>2, <1>3

-----------------------------------------------------------------------------
\* The row is written: what the others have read is old now.
LEMMA RowWritten ==
  ASSUME Inv, NEW p \in Procs, NEW o \in OpRecord, NEW w \in Row, wf' = w, Below(wf, w),
         Good(w)', UNCHANGED <<profile, domains>>,
         op' = [q \in Procs |-> IF q = p THEN o ELSE Stale(q, op[q])],
         OpFit(o)', ~Stopping(o), Solo /\ o.pc \in Working => o.fresh, o.pc # "create_batch",
         w.state = "canceled" => Still /\ w.plan = wf.plan /\ w.slots = wf.slots
  PROVE  Inv'
  <1>1. DomainStep /\ (w.state = "canceled" => Still')
    BY SteadyDomains
  <1>2. /\ op \in [Procs -> OpRecord] /\ wf \in Row /\ DomainTypes /\ DomainTypes' /\ Grows
        /\ \A q \in Procs : OpFit(op[q])
    BY <1>1 DEF Inv, Good, DomainStep
  <1>3. ASSUME NEW x \in OpRecord, NEW q, OpFit(x)
        PROVE  /\ Stale(q, x) \in OpRecord /\ OpFit(Stale(q, x))' /\ ~Stopping(Stale(q, x))
    <2> DEFINE y == Stale(q, x)
    <2>1. /\ y \in OpRecord /\ y.pc = x.pc /\ y.call = x.call /\ y.rec = x.rec /\ ~y.fresh
          /\ y.auth = x.auth /\ y.todo = x.todo /\ y.next = x.next
      BY DEF Stale, OpRecord
    <2> HIDE DEF y
    <2>2. OpFit(y)
      <3>1. ASSUME NEW pc, NEW r, Ready(x, pc, r)
            PROVE  Ready(y, pc, r)
        <4>1. Admits(x, r) = Admits(y, r)
          BY <2>1 DEF Admits
        <4> QED BY <2>1, <3>1, <4>1 DEF Ready
      <3>2. Chain(x.rec, x.todo) = Chain(y.rec, y.todo)
        BY <2>1
      <3> QED BY <1>3, <2>1, <3>1, <3>2 DEF OpFit
    <2>3. PICK v \in OpRecord : v = y
      BY <2>1
    <2>4. OpFit(v)'
      BY <1>2, <2>1, <2>2, <2>3, FitKept
    <2> QED BY <2>1, <2>3, <2>4 DEF Stopping, y
  <1>4. op'[p] = o /\ \A q \in Procs \ {p} : op'[q] = Stale(q, op[q])
    OBVIOUS
  <1>5. ASSUME NEW q \in Procs
        PROVE  op'[q] \in OpRecord /\ OpFit(op[q])' /\ ~Stopping(op'[q])
    <2>1. CASE q = p
      BY <1>4, <2>1
    <2>2. CASE q # p
      <3>1. PICK x \in OpRecord : x = op[q]
        BY <1>2
      <3>2. op'[q] = Stale(q, x) /\ OpFit(x)
        BY <1>2, <1>4, <2>2, <3>1
      <3> QED BY <1>3, <3>2
    <2> QED BY <2>1, <2>2
  <1>6. op' \in [Procs -> OpRecord]
    BY <1>5
  <1>7. Alone'
    <2>1. ASSUME Solo
          PROVE  \A q \in Procs : q = p
      BY <2>1, SoloOne
    <2> QED BY <1>1, <1>4, <2>1 DEF Alone, DomainStep, Solo
  <1>8. Quiet'
    BY <1>1, <1>5 DEF Quiet, Stopping
  <1> QED BY <1>1, <1>5, <1>6, <1>7, <1>8 DEF Inv, DomainStep, Grows, Kept

LEMMA SameFields ==
  ASSUME NEW r \in Row
  PROVE  /\ Moved(r, r.state, r.code) = r
         /\ \A c : [r EXCEPT !.code = c] = Moved(r, r.state, c)
  BY DEF Row, Moved

\* What is left of the writes, after the first of them
LEMMA RestOfWrites ==
  ASSUME NEW t \in Seq(WriteRecord), NEW r, Chain(r, t)
  PROVE  /\ Head(t) = t[1] /\ t[1] \in WriteRecord /\ t # <<>> /\ Tail(t) \in Seq(WriteRecord)
         /\ Tail(t) = <<>> => LastRow(t) = t[1].row
         /\ Tail(t) # <<>> => /\ Len(Tail(t)) = 1 /\ Tail(t)[1] = t[2]
                              /\ LastRow(Tail(t)) = LastRow(t) /\ Len(t) = 2
  <1>1. Len(t) \in {1, 2} /\ t # <<>>
    BY DEF Chain
  <1>2. /\ Tail(t) \in Seq(WriteRecord) /\ Len(Tail(t)) = Len(t) - 1 /\ Head(t) = t[1]
        /\ \A i \in 1..Len(Tail(t)) : Tail(t)[i] = t[i + 1]
    BY <1>1, HeadTailProperties
  <1>3. Tail(t) = <<>> <=> Len(t) = 1
    BY <1>1, <1>2, EmptySeq
  <1>4. Len(t) = 2 => Len(Tail(t)) = 1 /\ Tail(t)[1] = t[2]
    BY <1>2
  <1> QED BY <1>1, <1>2, <1>3, <1>4 DEF LastRow

LEMMA WriteKeeps ==
  ASSUME Inv, NEW p \in Procs, Write(p)
  PROVE  Inv'
  <1>1. PICK o \in OpRecord : o = op[p]
    BY OpKnows
  <1> DEFINE w == Head(o.todo)
             same == w.kind = "move" /\ w.row.state = wf.state /\ w.row.code = wf.code
             o1 == [o EXCEPT !.rec = w.row, !.item = @ /\ same]
             own == After(o1, Tail(o.todo), o.next)
  <1>2. /\ o.pc = "write" /\ op[p].pc \in Working /\ UNCHANGED <<profile, domains>>
        /\ \/ Raise(p) /\ wf' = wf
           \/ o.fresh /\ same /\ wf' = wf /\ op' = [op EXCEPT ![p] = own]
           \/ /\ o.fresh /\ ~same /\ wf' = w.row
              /\ op' = [q \in Procs |-> IF q = p THEN own ELSE Stale(q, op[q])]
    BY <1>1 DEF Write, At, Changed, Working, Pcs
  <1>3. CASE Raise(p) /\ wf' = wf
    BY <1>2, <1>3, RaisedAlone
  <1>4. CASE \/ o.fresh /\ same /\ wf' = wf /\ op' = [op EXCEPT ![p] = own]
             \/ /\ o.fresh /\ ~same /\ wf' = w.row
                /\ op' = [q \in Procs |-> IF q = p THEN own ELSE Stale(q, op[q])]
    <2>1. /\ OpFit(o) /\ o.rec = wf /\ wf \in Row /\ Good(wf) /\ Chain(wf, o.todo)
          /\ Ready(o, o.next, LastRow(o.todo)) /\ wf.state \notin Ends
          /\ o.next # "create_batch" /\ o.next \in Nexts /\ o.todo \in Seq(WriteRecord)
      BY <1>1, <1>2, <1>4, OpKnows DEF OpFit, OpRecord
    <2>2. /\ w = o.todo[1] /\ w \in WriteRecord /\ Tail(o.todo) \in Seq(WriteRecord)
          /\ Tail(o.todo) = <<>> => LastRow(o.todo) = w.row
          /\ Tail(o.todo) # <<>> => /\ Len(Tail(o.todo)) = 1 /\ Tail(o.todo)[1] = o.todo[2]
                                    /\ LastRow(Tail(o.todo)) = LastRow(o.todo)
                                    /\ Len(o.todo) = 2
      BY <2>1, RestOfWrites
    <2>3. /\ StepOf(wf, w) /\ Good(w.row) /\ w.row \in Row
      BY <2>1, <2>2 DEF Chain, StepOf, Good
    <2>4. same => w.row = wf
      BY <2>1, <2>3, SameFields DEF StepOf
    <2>5. wf' = w.row /\ Below(wf, w.row)
      <3>1. CASE w.kind = "move"
        BY <1>4, <2>1, <2>3, <2>4, <3>1, MovedRow DEF StepOf
      <3>2. CASE w.kind = "refs"
        BY <1>4, <2>3, <3>2 DEF StepOf
      <3> QED BY <2>2, <3>1, <3>2 DEF WriteRecord
    <2>6. DomainStep /\ (wf'.plan = wf.plan /\ wf'.slots = wf.slots /\ Still => Still')
      BY <1>2, <2>3, <2>5, SteadyDomains
    <2>7. PICK x \in OpRecord : x = o1
      <3>1. o1 \in OpRecord
        BY <2>3 DEF OpRecord
      <3> QED BY <3>1
    <2>8. x.rec = w.row /\ x.fresh = o.fresh /\ x.call = o.call /\ x.auth = o.auth
      BY <2>7 DEF OpRecord
    <2>9. PICK m \in Row : m = w.row
      BY <2>3
    <2> DEFINE t == Tail(o.todo)
    <2> HIDE DEF w, same, o1, own, t
    <2>10. DomainTypes /\ DomainTypes' /\ Grows
      BY <2>6, OpKnows DEF DomainStep
    <2>11. Good(m)' /\ x.rec = m /\ wf' = m
      BY <2>3, <2>5, <2>8, <2>9, <2>10, GoodKept
    <2>12. PICK u \in Seq(WriteRecord) : u = t
      BY <2>2 DEF t
    <2>13. u = <<>> => Ready(x, o.next, m)'
      <3>1. u = <<>> => Ready(o, o.next, m)
        BY <2>1, <2>2, <2>9, <2>12 DEF t
      <3>2. u = <<>> => Ready(o, o.next, m)'
        BY <2>3, <2>9, <2>10, <3>1, ReadyKept
      <3> QED BY <2>1, <2>8, <3>2, ReadySame DEF Nexts
    <2>14. u # <<>> => /\ Chain(m, u)' /\ Ready(x, o.next, LastRow(u))' /\ m.state \notin Ends
                       /\ \A k \in DOMAIN u : u[k].row.state # "canceled"
      <3> SUFFICES ASSUME u # <<>>
                   PROVE  /\ Chain(m, u)' /\ Ready(x, o.next, LastRow(u))' /\ m.state \notin Ends
                          /\ \A k \in DOMAIN u : u[k].row.state # "canceled"
        OBVIOUS
      <3>1. /\ Len(u) = 1 /\ u[1] = o.todo[2] /\ LastRow(u) = LastRow(o.todo)
            /\ Len(o.todo) = 2
        BY <2>2, <2>12 DEF t
      <3>2. /\ StepOf(m, u[1]) /\ u[1].row.state # "canceled" /\ m.state = wf.state
            /\ LastRow(u) = u[1].row
        BY <2>1, <2>2, <2>9, <3>1 DEF Chain, StepOf, LastRow
      <3>3. PICK v \in WriteRecord : v = u[1]
        BY <3>1
      <3>4. StepOf(m, v)'
        BY <2>10, <3>2, <3>3, StepKept
      <3>5. Good(LastRow(u)) /\ Ready(o, o.next, LastRow(u))
        BY <2>1, <3>1, <3>2 DEF StepOf
      <3>6. PICK y \in Row : y = LastRow(u)
        BY <3>5 DEF Good
      <3>7. Ready(x, o.next, y)'
        BY <2>1, <2>8, <2>10, <3>5, <3>6, ReadyKept, ReadySame DEF Nexts
      <3>8. Chain(m, u)'
        BY <3>1, <3>3, <3>4 DEF Chain
      <3>9. \A k \in DOMAIN u : u[k].row.state # "canceled"
        BY <3>1, <3>2
      <3> QED BY <2>1, <3>2, <3>6, <3>7, <3>8, <3>9
    <2>15. PICK a \in OpRecord : a = own
      <3>1. After(x, u, o.next) \in OpRecord
        BY <2>1, <2>9, <2>10, <2>11, <2>12, <2>13, <2>14, AfterFits, BelowSame
      <3> QED BY <2>7, <2>12, <3>1 DEF own, t
    <2>16. a = After(x, u, o.next)
      BY <2>7, <2>12, <2>15 DEF own, t
    <2>17. /\ OpFit(a)' /\ (a.pc \in Working => a.fresh = o.fresh) /\ a.pc # "create_batch"
           /\ ~Stopping(a)
      BY <2>1, <2>8, <2>9, <2>10, <2>11, <2>13, <2>14, <2>16, AfterFits, BelowSame
    <2>18. CASE same
      <3>1. wf' = wf /\ op' = [op EXCEPT ![p] = a]
        BY <1>4, <2>15, <2>18
      <3>2. Still => Still'
        BY <2>6, <3>1
      <3>3. o.fresh
        BY <1>4
      <3>4. (a.pc \in Working => a.fresh) /\ DomainStep
        BY <2>6, <2>17, <3>3
      <3> QED BY <2>17, <3>1, <3>2, <3>4, Composed
    <2>19. CASE ~same
      <3>1. op' = [q \in Procs |-> IF q = p THEN a ELSE Stale(q, op[q])]
        BY <1>4, <2>15, <2>19
      <3>2. m.state = "canceled" => Still /\ m.plan = wf.plan /\ m.slots = wf.slots
        <4> SUFFICES ASSUME m.state = "canceled"
                     PROVE  Still /\ m.plan = wf.plan /\ m.slots = wf.slots
          OBVIOUS
        <4>1. w.kind = "move"
          BY <2>1, <2>2, <2>3, <2>9 DEF StepOf, WriteRecord, Ends
        <4>2. Stopping(o)
          BY <1>2, <1>4, <2>1, <2>2, <2>9 DEF Stopping, Chain
        <4>3. Still
          BY <1>1, <4>2 DEF Inv, Quiet
        <4>4. m = Moved(wf, m.state, m.code)
          BY <2>3, <2>9, <4>1 DEF StepOf
        <4> QED BY <2>1, <4>3, <4>4, MovedRow
      <3> QED BY <1>2, <1>4, <2>5, <2>9, <2>11, <2>17, <3>1, <3>2, RowWritten
    <2> QED BY <2>18, <2>19
  <1> QED BY <1>2, <1>3, <1>4

LEMMA RequireAttentionKeeps ==
  ASSUME Inv, NEW p \in Procs, RequireAttention(p)
  PROVE  Inv'
  <1>1. UNCHANGED <<profile, domains>>
    BY DEF RequireAttention
  <1>2. CASE wf.state \in ActiveStates /\ Changed(p, Attention(wf, "conflict"), Idle)
    <2>1. PICK r \in Row : r = wf
      BY OpKnows
    <2>2. PICK m : m = Moved(r, "attention_required", "conflict")
      OBVIOUS
    <2>3. r \in Row /\ Good(r) /\ m \in Row /\ Below(r, m) /\ m.state = "attention_required"
      <3>1. "conflict" \in Codes
        BY DEF Codes
      <3> QED BY <2>1, <2>2, <3>1, OpKnows, MovedType, MovedRow
    <2>4. wf' = m /\ op' = [q \in Procs |-> IF q = p THEN Idle ELSE Stale(q, op[q])]
      BY <1>2, <2>1, <2>2 DEF Changed, Attention
    <2>5. DomainStep
      BY <1>1, <2>1, <2>3, <2>4, SteadyDomains
    <2>6. Good(r)' /\ DomainTypes'
      BY <2>3, <2>5, OpKnows, GoodKept DEF DomainStep
    <2>7. Good(m)'
      <3>1. StandsAt(r, "attention_required", "conflict")' /\ "conflict" \in Codes
        BY DEF StandsAt, Codes, Ends
      <3> QED BY <2>2, <2>6, <3>1, MoveStep DEF StepOf
    <2>8. Idle \in OpRecord /\ Idle.pc \notin Working /\ Idle.pc # "create_batch"
      BY IdleType DEF Working
    <2>9. PICK x \in OpRecord : x = Idle
      BY IdleType
    <2>10. OpFit(x)' /\ ~Stopping(x)
      BY <2>3, <2>4, <2>6, <2>9, IdleType, RestFits
    <2> QED BY <1>1, <2>1, <2>3, <2>4, <2>7, <2>8, <2>9, <2>10, RowWritten
  <1>3. CASE wf' = wf /\ op' = [op EXCEPT ![p] = Idle]
    BY <1>1, <1>3, IdleType, Rested
  <1> QED BY <1>2, <1>3 DEF RequireAttention

LEMMA CancelKeeps ==
  ASSUME Inv, NEW p \in Procs, Cancel(p)
  PROVE  Inv'
  <1> DEFINE n == [Idle EXCEPT !.pc = "read", !.who = "api"]
  <1>1. /\ UNCHANGED <<profile, domains>>
        /\ wf.state \in ActiveStates \cup {"attention_required"}
        /\ \/ wf' = wf /\ op' = [op EXCEPT ![p] = n]
           \/ Changed(p, [wf EXCEPT !.code = "cancel"], n)
    BY DEF Cancel
  <1>2. n.pc = "read" /\ n.rec = Created /\ ~n.fresh /\ n.todo = <<>> /\ n \in OpRecord
    BY IdleType DEF OpRecord, Pcs
  <1> HIDE DEF n
  <1>3. CASE wf' = wf /\ op' = [op EXCEPT ![p] = n]
    BY <1>1, <1>2, <1>3, Rested
  <1>4. CASE Changed(p, [wf EXCEPT !.code = "cancel"], n)
    <2>1. PICK r \in Row : r = wf
      BY OpKnows
    <2>2. PICK m : m = Moved(r, r.state, "cancel")
      OBVIOUS
    <2>3. r \in Row /\ Good(r) /\ m \in Row /\ Below(r, m) /\ m.state = r.state
      <3>1. "cancel" \in Codes /\ r.state \in ActiveStates \cup {"attention_required", "canceled", "completed"}
        BY DEF Codes, Row
      <3> QED BY <2>1, <2>2, <3>1, OpKnows, MovedType, MovedRow
    <2>4. wf' = m /\ op' = [q \in Procs |-> IF q = p THEN n ELSE Stale(q, op[q])]
      BY <1>4, <2>1, <2>2, SameFields DEF Changed
    <2>5. DomainStep
      BY <1>1, <2>1, <2>3, <2>4, SteadyDomains
    <2>6. Good(r)' /\ DomainTypes'
      BY <2>3, <2>5, OpKnows, GoodKept DEF DomainStep
    <2>7. Good(m)'
      <3>1. r.state \notin Ends
        BY <1>1, <2>1 DEF Ends, ActiveStates
      <3>2. Stands(r)' /\ (r.state = "downloading" => r.batch # 0)
        BY <2>6 DEF Good, Ladder
      <3>3. StandsAt(r, r.state, "cancel")'
        BY <3>1, <3>2 DEF Stands, StandsAt
      <3>4. "cancel" \in Codes /\ r.state \in ActiveStates \cup {"attention_required", "canceled", "completed"}
        BY DEF Codes, Row
      <3> QED BY <2>2, <2>6, <3>1, <3>2, <3>3, <3>4, MoveStep DEF StepOf, Ends
    <2>8. n.pc \notin Working /\ n.pc # "create_batch"
      BY <1>2 DEF Working
    <2>9. PICK x \in OpRecord : x = n
      BY <1>2
    <2>10. OpFit(x)' /\ ~Stopping(x)
      BY <1>2, <2>3, <2>4, <2>6, <2>9, RestFits
    <2>11. m.state # "canceled"
      BY <1>1, <2>1, <2>3 DEF ActiveStates
    <2> QED BY <1>1, <2>1, <2>3, <2>4, <2>7, <2>8, <2>9, <2>10, <2>11, RowWritten
  <1> QED BY <1>1, <1>3, <1>4

-----------------------------------------------------------------------------
LEMMA NewestOnly ==
  ASSUME NEW S, NEW l \in Seq(S), Lineage(l), NEW k \in 1..Len(l), l[k].st \notin Settled
  PROVE  k = Len(l) /\ l # <<>> /\ Leaf(l) = l[k]
  BY DEF Lineage, Leaf

LEMMA EditViewed ==
  ASSUME DomainTypes, NEW i \in 1..Len(plans)
  PROVE  LET v == EditView(i)
         IN  /\ v.disposition \in {"confirm", "active", "ready", "failed"}
             /\ v.code \in Codes /\ v.code # "metadata" /\ (v.code = "ledger" => profile.ai)
             /\ v.disposition = "ready" => plans[i].st = "ready"
             /\ v.disposition = "failed" => plans[i].st \in Settled
             /\ v.disposition = "confirm" /\ v.code # "retry" => i = 1
  <1>1. plans[i] \in EditObject
    BY DEF DomainTypes
  <1>2. /\ plans[i].st \in {"review", "queued", "running", "canceling", "ready", "failed", "canceled"}
        /\ plans[i].code \in Codings
    BY <1>1 DEF EditObject
  <1>3. \A c \in Codings : c \in Codes /\ c # "metadata" /\ (c = "ledger" => profile.ai)
    BY DEF Codings, Codes
  <1>4. "retry" \in Codes /\ "" \in Codes
    BY DEF Codes
  <1>5. CASE plans[i].st = "review"
    <2>1. EditView(i) = [disposition |-> "confirm",
                         code |-> IF i > 1 THEN "retry" ELSE plans[i].code]
      BY <1>5 DEF EditView, Live, Running
    <2>2. PICK c : c = IF i > 1 THEN "retry" ELSE plans[i].code
      OBVIOUS
    <2>3. c \in Codes /\ c # "metadata" /\ (c = "ledger" => profile.ai)
      BY <1>2, <1>3, <1>4, <2>2
    <2>4. c # "retry" => i = 1
      BY <2>2 DEF DomainTypes
    <2>5. EditView(i) = [disposition |-> "confirm", code |-> c]
      BY <2>1, <2>2
    <2> QED BY <1>5, <2>3, <2>4, <2>5
  <1>6. CASE plans[i].st \in Live
    BY <1>4, <1>6 DEF EditView, Live, Running
  <1>7. CASE plans[i].st = "ready"
    BY <1>4, <1>7 DEF EditView, Live, Running
  <1>8. CASE plans[i].st \in Settled
    BY <1>2, <1>3, <1>8 DEF EditView, Live, Running, Settled
  <1> QED BY <1>2, <1>5, <1>6, <1>7, <1>8 DEF Live, Running, Settled

\* The outputs of the recorded plan
LEMMA OutputsRecord ==
  ASSUME NEW r \in Row, Good(r)', r.state \in {"awaiting_edit_confirmation", "rendering", "attention_required"},
         r.plan # 0, ~HasJobs(r), plans' # <<>>, Leaf(plans').st = "ready",
         \A s \in Segment : Len(jobs'[s]) >= 0,
         NEW m, m = [r EXCEPT !.outputs = TRUE, !.slots = [s \in Segment |-> 0]]
  PROVE  /\ m \in Row /\ Good(m)' /\ Below(r, m) /\ m.state = r.state /\ m.code = r.code
         /\ m.outputs
  <1>1. /\ m.state = r.state /\ m.code = r.code /\ m.batch = r.batch /\ m.asset = r.asset
        /\ m.resolved = r.resolved /\ m.project = r.project /\ m.plan = r.plan /\ m.outputs
        /\ \A s \in Segment : m.slots[s] = 0
        /\ m \in Row
    BY DEF Row
  <1>2. \A s \in Segment : r.slots[s] = 0
    BY DEF HasJobs, Row
  <1>3. Ladder(m)' /\ Stands(m)'
    BY <1>1 DEF Good, Ladder, Stands, StandsAt, HasJobs, Prepared, Titled, Ends
  <1>4. upKey' = upKey' /\ m.state # "canceled" /\ m.state # "completed"
    BY <1>1
  <1>5. Backed(m)'
    BY <1>1, <1>4 DEF Good, Backed
  <1>6. Below(r, m)
    BY <1>1, <1>2, BelowSame DEF Below
  <1> QED BY <1>1, <1>3, <1>5, <1>6 DEF Good

LEMMA ObserveEditKeeps ==
  ASSUME Inv, NEW p \in Procs, ObserveEdit(p)
  PROVE  Inv'
  <1>1. PICK o \in OpRecord : o = op[p]
    BY OpKnows
  <1>2. PICK r \in Row : r = o.rec
    BY <1>1, OpKnows
  <1>3. PICK d, c : d = EditView(r.plan).disposition /\ c = EditView(r.plan).code
    OBVIOUS
  <1> DEFINE made == [r EXCEPT !.outputs = TRUE, !.slots = [s \in Segment |-> 0]]
             reviewed == Moved(r, "awaiting_edit_confirmation", c)
             A(st) == Advancing(p, st)
  <1>4. /\ o.pc = "call" /\ op[p].pc \in Working /\ UNCHANGED <<profile, wf, domains>>
        /\ Rec(p) = r /\ ObservesEdit(p) /\ r.plan # 0
    BY <1>1, <1>2 DEF ObserveEdit, ObservesEdit, At, Rec, Working, Pcs
  <1>5. /\ Good(r) /\ Good(r)' /\ DomainTypes /\ Ready(o, "call", r) /\ Lineage(plans)
        /\ r.plan \in 1..Len(plans)
    <2>1. Good(r) /\ DomainTypes /\ OpFit(o)
      BY <1>1, <1>2, OpKnows
    <2>2. Good(r)'
      BY <1>4, <2>1, SameGood
    <2>3. r.plan \in 1..Len(plans)
      BY <1>4, <2>1 DEF Good, Backed, Row, DomainTypes
    <2> QED BY <1>2, <1>4, <2>1, <2>2, <2>3 DEF OpFit, Inv, Lineages, EditLineage
  <1>6. /\ r.state \in {"awaiting_edit_confirmation", "rendering", "attention_required"}
        /\ ~HasJobs(r)
        /\ o.call = "confirm_edit" => r.state = "awaiting_edit_confirmation"
        /\ o.call = "retry" => r.state = "attention_required" /\ ~r.outputs
    <2>1. CASE A("awaiting_edit_confirmation") \/ A("rendering")
      BY <1>1, <1>2, <1>5, <2>1 DEF Advancing, Rec, Good, Stands, StandsAt
    <2>2. CASE A("attention_required") /\ ~r.outputs
      BY <1>1, <1>2, <1>5, <2>2 DEF Advancing, Rec, Good, Ladder
    <2>3. CASE o.call = "confirm_edit"
      BY <1>5, <2>3 DEF Ready, Admits, Good, Stands, StandsAt
    <2>4. CASE o.call = "retry" /\ ~HasJobs(r)
      BY <1>4, <1>5, <2>4 DEF Ready, Admits
    <2> QED BY <1>1, <1>4, <2>1, <2>2, <2>3, <2>4 DEF ObservesEdit
  <1>7. /\ d \in {"confirm", "active", "ready", "failed"}
        /\ c \in Codes /\ c # "metadata" /\ (c = "ledger" => profile.ai)
        /\ d = "ready" => plans[r.plan].st = "ready"
        /\ d = "failed" => plans[r.plan].st \in Settled
        /\ d = "confirm" /\ c # "retry" => r.plan = 1
    BY <1>3, <1>5, EditViewed
  <1>8. /\ StandsAt(r, "attention_required", c)
        /\ \A x \in Codes : x # "metadata" /\ (x = "ledger" => profile.ai) =>
             StandsAt(r, "awaiting_edit_confirmation", x)
        /\ StandsAt(r, "rendering", "")
    BY <1>4, <1>6, <1>7 DEF StandsAt, Ends
  <1>9. /\ {"awaiting_edit_confirmation", "rendering", "preparing_upload"} \subseteq ActiveStates
        /\ "" \in Codes /\ "retry" \in Codes
    BY DEF ActiveStates, Codes
  <1>10. Onward(p) \in {"idle", "read"}
    BY DEF Onward
  <1>11. CASE d = "failed" /\ o.call = "retry" /\ Then(p, <<>>, "retry_edit")
    <2>1. Ready(o, "retry_edit", r)
      BY <1>4, <1>6, <1>7, <1>11 DEF Ready, Ends
    <2> QED BY <1>1, <1>2, <1>4, <1>11, <2>1, GoneOn DEF Nexts
  <1>12. CASE Then(p, <<Move(Attention(r, c))>>, "idle")
    BY <1>1, <1>2, <1>4, <1>7, <1>8, <1>12, MovedAlone DEF Attention
  <1>13. ASSUME d = "ready", NEW next \in {"idle", "read"},
                Then(p, <<Refs(made), Move(Moved(made, "preparing_upload", ""))>>, next)
         PROVE  Inv'
    <2>1. PICK m : m = made
      OBVIOUS
    <2>2. plans # <<>> /\ Leaf(plans).st = "ready" /\ plans' = plans /\ jobs' = jobs
      <3>1. plans[r.plan].st = "ready" /\ plans[r.plan].st \notin Settled
        BY <1>7, <1>13 DEF Settled
      <3>2. plans # <<>> /\ Leaf(plans) = plans[r.plan]
        BY <1>5, <3>1, NewestOnly DEF DomainTypes
      <3> QED BY <1>4, <3>1, <3>2 DEF domains, editing, uploads
    <2>3. \A s \in Segment : Len(jobs'[s]) >= 0
      BY <1>5, <2>2 DEF DomainTypes
    <2>4. /\ m \in Row /\ Good(m)' /\ Below(r, m) /\ m.state = r.state /\ m.code = r.code
          /\ m.outputs
      <3>1. m = [r EXCEPT !.outputs = TRUE, !.slots = [s \in Segment |-> 0]]
        BY <2>1
      <3>2. plans' # <<>> /\ Leaf(plans').st = "ready"
        BY <2>2
      <3> QED BY <1>4, <1>5, <1>6, <2>3, <3>1, <3>2, OutputsRecord
    <2>5. StandsAt(m, "preparing_upload", "")
      BY <2>4 DEF StandsAt, Ends
    <2>6. Then(p, <<Refs(m), Move(Moved(m, "preparing_upload", ""))>>, next)
      BY <1>13, <2>1
    <2> QED BY <1>1, <1>2, <1>4, <1>9, <2>4, <2>5, <2>6, RecordedAlone
  <1>14. ASSUME NEW next \in {"idle", "read"}, Then(p, <<Move(Moved(r, "rendering", ""))>>, next)
         PROVE  Inv'
    BY <1>1, <1>2, <1>4, <1>8, <1>9, <1>14, MovedAlone
  <1>15. CASE Then(p, <<>>, "idle")
    BY <1>1, <1>4, <1>15, GoneOn DEF Ready, Working, Nexts
  <1>16. ASSUME NEW next \in {"idle", "read"}, Then(p, <<Move(reviewed)>>, next)
         PROVE  Inv'
    BY <1>1, <1>2, <1>4, <1>7, <1>8, <1>9, <1>16, MovedAlone
  <1>17. CASE d = "confirm" /\ EditConfirms(p, EditView(r.plan))
    <2>1. [reviewed EXCEPT !.code = "retry"] = Moved(r, "awaiting_edit_confirmation", "retry")
      BY DEF Row, Moved
    <2>2. CASE Then(p, <<Move([reviewed EXCEPT !.code = "retry"])>>, "idle")
      <3>1. Then(p, <<Move(Moved(r, "awaiting_edit_confirmation", "retry"))>>, "idle")
        BY <2>1, <2>2
      <3>2. StandsAt(r, "awaiting_edit_confirmation", "retry")
        BY <1>8, <1>9
      <3> QED BY <1>1, <1>2, <1>4, <1>9, <3>1, <3>2, MovedAlone
    <2>3. CASE /\ o.call = "advance" /\ profile.autoEdit /\ c \in AutoCodes
               /\ Then(p, <<Move(reviewed)>>, "confirm_edit")
      <3>1. r.plan = 1
        BY <1>7, <1>17, <2>3 DEF AutoCodes
      <3>2. PICK x \in Row : x = reviewed
        BY <1>7, <1>9, MovedType
      <3>3. x.state = "awaiting_edit_confirmation" /\ x.plan = r.plan
        BY <3>2, MovedRow
      <3>4. Ready(o, "confirm_edit", x)
        BY <2>3, <3>1, <3>3 DEF Ready, Ends
      <3>5. Ready(o, "confirm_edit", Moved(r, "awaiting_edit_confirmation", c))
        BY <3>2, <3>4
      <3>6. "confirm_edit" \in Nexts \ {"create_batch"}
        BY DEF Nexts
      <3> QED BY <1>1, <1>2, <1>4, <1>7, <1>8, <1>9, <2>3, <3>5, <3>6, MovedOn
    <2>4. CASE /\ r.state = "awaiting_edit_confirmation"
               /\ o.call = "advance" => profile.autoEdit /\ c \in AutoCodes
               /\ Then(p, <<>>, "confirm_edit")
      <3>1. o.call = "advance" => r.plan = 1
        BY <1>7, <1>17, <2>4 DEF AutoCodes
      <3>2. Ready(o, "confirm_edit", r)
        BY <2>4, <3>1 DEF Ready, Ends
      <3> QED BY <1>1, <1>2, <1>4, <2>4, <3>2, GoneOn DEF Nexts
    <2>5. \/ Then(p, <<>>, "idle")
          \/ Then(p, <<Move(reviewed)>>, "idle") \/ Then(p, <<Move(reviewed)>>, "read")
          \/ Then(p, <<Move([reviewed EXCEPT !.code = "retry"])>>, "idle")
          \/ /\ o.call = "advance" /\ profile.autoEdit /\ c \in AutoCodes
             /\ Then(p, <<Move(reviewed)>>, "confirm_edit")
          \/ /\ r.state = "awaiting_edit_confirmation"
             /\ o.call = "advance" => profile.autoEdit /\ c \in AutoCodes
             /\ Then(p, <<>>, "confirm_edit")
      <3> HIDE DEF reviewed
      <3>1. CASE A("awaiting_edit_confirmation")
        <4>1. /\ o.call = "advance" /\ r.state = "awaiting_edit_confirmation"
              /\ op[p].call = "advance" /\ ~A("rendering")
          BY <1>1, <1>4, <3>1 DEF Advancing
        <4> QED BY <1>3, <1>4, <1>17, <3>1, <4>1 DEF EditConfirms, reviewed
      <3>2. CASE ~A("awaiting_edit_confirmation")
        <4>1. CASE A("rendering")
          <5>1. op[p].call = "advance"
            BY <4>1 DEF Advancing
          <5> QED BY <1>3, <1>4, <1>17, <3>2, <4>1, <5>1 DEF EditConfirms, reviewed
        <4>2. CASE ~A("rendering") /\ o.call = "confirm_edit"
          BY <1>1, <1>3, <1>4, <1>6, <1>17, <3>2, <4>2 DEF EditConfirms, reviewed
        <4>3. CASE ~A("rendering") /\ o.call = "retry"
          BY <1>1, <1>3, <1>4, <1>17, <3>2, <4>3 DEF EditConfirms, reviewed
        <4>4. CASE ~A("rendering") /\ o.call \notin {"confirm_edit", "retry"}
          BY <1>1, <1>3, <1>4, <1>17, <3>2, <4>4 DEF EditConfirms, reviewed
        <4> QED BY <4>1, <4>2, <4>3, <4>4
      <3> QED BY <3>1, <3>2
    <2> QED BY <1>15, <1>16, <2>2, <2>3, <2>4, <2>5
  <1>18. \/ d = "failed" /\ o.call = "retry" /\ Then(p, <<>>, "retry_edit")
         \/ Then(p, <<Move(Attention(r, c))>>, "idle")
         \/ /\ d = "ready"
            /\ Then(p, <<Refs(made), Move(Moved(made, "preparing_upload", ""))>>, Onward(p))
         \/ Then(p, <<>>, "idle")
         \/ Then(p, <<Move(Moved(r, "rendering", ""))>>, Onward(p))
         \/ d = "confirm" /\ EditConfirms(p, EditView(r.plan))
    <2> HIDE DEF made
    <2> QED BY <1>1, <1>3, <1>4, <1>7 DEF ObserveEdit, made
  <1> QED BY <1>10, <1>11, <1>12, <1>13, <1>14, <1>15, <1>17, <1>18

-----------------------------------------------------------------------------
LEMMA UploadViewed ==
  ASSUME NEW js \in [Segment -> Seq(UploadObject)], \A s \in Segment : js[s] # <<>>
  PROVE  LET v == UploadView(js)
         IN  /\ v.disposition \in {"attention", "ready", "active", "confirm"}
             /\ v.disposition = "attention" => v.code \in {"unknown", "failed"}
             /\ v.disposition = "ready" => \A s \in Segment : Leaf(js[s]).st = "submitted"
             /\ v.disposition = "confirm" =>
                  /\ v.code \in {"", "retry", "restart"}
                  /\ v.code # "retry" =>
                       \A s \in Segment : Leaf(js[s]).st = "draft" => Len(js[s]) = 1
  <1> DEFINE leaves == {[job |-> Leaf(js[s]), retry |-> Len(js[s]) > 1] : s \in Segment}
             states == {l.job.st : l \in leaves}
             drafts == {l \in leaves : l.job.st = "draft"}
  <1>1. \A s \in Segment : /\ [job |-> Leaf(js[s]), retry |-> Len(js[s]) > 1] \in leaves
                           /\ Leaf(js[s]).st \in states
    OBVIOUS
  <1>2. 1 \in Segment
    BY WorkflowAssumption DEF Segment
  <1>3. states # {}
    BY <1>1, <1>2
  <1>4. (\A l \in drafts : ~l.retry) => \A s \in Segment : Leaf(js[s]).st = "draft" => Len(js[s]) = 1
    <2> SUFFICES ASSUME \A l \in drafts : ~l.retry, NEW s \in Segment, Leaf(js[s]).st = "draft"
                 PROVE  Len(js[s]) = 1
      OBVIOUS
    <2>1. [job |-> Leaf(js[s]), retry |-> Len(js[s]) > 1] \in drafts
      BY <1>1
    <2>2. PICK n : n = Len(js[s])
      OBVIOUS
    <2>3. ~(n > 1)
      BY <2>1, <2>2
    <2>4. n \in Nat /\ n # 0
      <3>1. js[s] \in Seq(UploadObject) /\ js[s] # <<>>
        OBVIOUS
      <3> QED BY <2>2, <3>1, EmptySeq
    <2> QED BY <2>2, <2>3, <2>4
  <1>5. UploadView(js) =
          CASE "unknown" \in states -> [disposition |-> "attention", code |-> "unknown"]
          [] "unknown" \notin states /\ states \cap {"failed", "canceled"} # {} ->
                [disposition |-> "attention", code |-> "failed"]
          [] states \subseteq Success -> [disposition |-> "ready", code |-> ""]
          [] OTHER ->
                IF drafts = {} THEN [disposition |-> "active", code |-> ""]
                ELSE [disposition |-> "confirm",
                      code |-> IF \E l \in drafts : l.retry THEN "retry"
                               ELSE IF \E l \in drafts : l.job.code = "restart"
                               THEN "restart" ELSE ""]
    BY Zenon DEF UploadView
  <1>10. PICK v : v = UploadView(js)
    OBVIOUS
  <1> HIDE DEF leaves, states, drafts
  <1>6. CASE "unknown" \in states
    <2>1. v = [disposition |-> "attention", code |-> "unknown"]
      BY <1>5, <1>6, <1>10 DEF Success
    <2>2. v.disposition = "attention" /\ v.code = "unknown"
      BY <2>1
    <2> QED BY <1>10, <2>2
  <1>7. CASE "unknown" \notin states /\ states \cap {"failed", "canceled"} # {}
    <2>1. v = [disposition |-> "attention", code |-> "failed"]
      BY <1>5, <1>7, <1>10 DEF Success
    <2>2. v.disposition = "attention" /\ v.code = "failed"
      BY <2>1
    <2> QED BY <1>10, <2>2
  <1>8. CASE "unknown" \notin states /\ states \cap {"failed", "canceled"} = {}
             /\ states \subseteq Success
    <2>1. v = [disposition |-> "ready", code |-> ""]
      BY <1>5, <1>8, <1>10
    <2>3. v.disposition = "ready"
      BY <2>1
    <2>2. \A s \in Segment : Leaf(js[s]).st = "submitted"
      BY <1>1, <1>8 DEF Success
    <2> QED BY <1>10, <2>2, <2>3
  <1>9. CASE /\ "unknown" \notin states /\ states \cap {"failed", "canceled"} = {}
             /\ ~(states \subseteq Success)
    <2>1. CASE drafts = {}
      <3>1. v = [disposition |-> "active", code |-> ""]
        BY <1>5, <1>9, <1>10, <2>1
      <3>2. v.disposition = "active"
        BY <3>1
      <3> QED BY <1>10, <3>2
    <2>2. CASE drafts # {}
      <3>1. PICK c : c = IF \E l \in drafts : l.retry THEN "retry"
                         ELSE IF \E l \in drafts : l.job.code = "restart" THEN "restart" ELSE ""
        OBVIOUS
      <3>2. v = [disposition |-> "confirm", code |-> c]
        BY <1>5, <1>9, <1>10, <2>2, <3>1
      <3>4. v.disposition = "confirm" /\ v.code = c
        BY <3>2
      <3>3. c \in {"", "retry", "restart"} /\ (c # "retry" => \A l \in drafts : ~l.retry)
        BY <3>1
      <3> QED BY <1>4, <1>10, <3>3, <3>4
    <2> QED BY <2>1, <2>2
  <1> QED BY <1>6, <1>7, <1>8, <1>9

\* The row with the newest jobs
WithJobs(r, js) == [r EXCEPT !.slots = Leaves(js)]

LEMMA SyncedGood ==
  ASSUME NEW r \in Row, Prepared(r), r.outputs,
         r.state \in {"awaiting_upload_confirmation", "uploading", "attention_required"},
         NEW js \in [Segment -> Seq(UploadObject)], \A s \in Segment : r.slots[s] <= Len(js[s]),
         NEW m, m = WithJobs(r, js)
  PROVE  /\ m \in Row /\ m.state = r.state /\ m.code = r.code /\ Below(r, m)
         /\ m.outputs /\ Prepared(m) /\ m.slots = Leaves(js)
         /\ \A s \in Segment : m.slots[s] = Len(js[s])
         /\ r.slots = Leaves(js) => m = r
         /\ Good(r)' /\ jobs' = js => Good(m)'
  <1>1. /\ m.state = r.state /\ m.code = r.code /\ m.batch = r.batch /\ m.asset = r.asset
        /\ m.resolved = r.resolved /\ m.project = r.project /\ m.plan = r.plan
        /\ m.outputs = r.outputs /\ m.slots = Leaves(js)
    BY DEF Row, WithJobs
  <1>2. Leaves(js) \in [Segment -> Nat] /\ \A s \in Segment : Leaves(js)[s] = Len(js[s])
    BY DEF Leaves
  <1>3. m \in Row
    BY <1>2 DEF Row, WithJobs
  <1>4. \A s \in Segment : r.slots[s] \in Nat /\ r.slots[s] # 0
    BY DEF Row, Prepared
  <1>5. Prepared(m) /\ Below(r, m)
    <2>1. \A s \in Segment : m.slots[s] # 0 /\ r.slots[s] <= m.slots[s]
      BY <1>1, <1>2, <1>4
    <2> QED BY <1>1, <2>1, BelowSame DEF Below, Prepared
  <1>6. r.slots = Leaves(js) => m = r
    BY <1>1, <1>3 DEF Row, WithJobs
  <1>7. Good(r)' /\ jobs' = js => Good(m)'
    <2> SUFFICES ASSUME Good(r)', jobs' = js
                 PROVE  Good(m)'
      OBVIOUS
    <2>1. Ladder(m)' /\ Stands(m)'
      BY <1>1, <1>5 DEF Good, Ladder, Stands, StandsAt, Titled, Ends
    <2>2. Backed(m)'
      BY <1>1, <1>2 DEF Good, Backed
    <2> QED BY <1>3, <2>1, <2>2 DEF Good
  <1> QED BY <1>1, <1>2, <1>3, <1>5, <1>6, <1>7

LEMMA TwoWrites ==
  ASSUME NEW v, NEW w
  PROVE  <<v>> \o <<w>> = <<v, w>>
  <1> DEFINE S == {v, w}
  <1>1. PICK a \in Seq(S), b \in Seq(S), c \in Seq(S) : a = <<v>> /\ b = <<w>> /\ c = <<v, w>>
    <2>1. <<v>> \in Seq(S) /\ <<w>> \in Seq(S) /\ <<v, w>> \in Seq(S)
      OBVIOUS
    <2> QED BY <2>1
  <1> HIDE DEF S
  <1>2. Len(a) = 1 /\ Len(b) = 1 /\ a[1] = v /\ b[1] = w /\ Len(c) = 2 /\ c[1] = v /\ c[2] = w
    BY <1>1
  <1>3. a \o b \in Seq(S) /\ Len(a \o b) = 2 /\ (a \o b)[1] = a[1] /\ (a \o b)[2] = b[1]
    <2>1. /\ a \o b \in Seq(S) /\ Len(a \o b) = Len(a) + Len(b)
          /\ \A i \in 1..Len(a) + Len(b) :
               (a \o b)[i] = IF i <= Len(a) THEN a[i] ELSE b[i - Len(a)]
      BY ConcatProperties
    <2>2. 1 \in 1..Len(a) + Len(b) /\ 2 \in 1..Len(a) + Len(b)
      BY <1>2
    <2> QED BY <1>2, <2>1, <2>2
  <1>4. a \o b = c
    <2>1. \A i \in 1..2 : i = 1 \/ i = 2
      OBVIOUS
    <2> QED BY <1>2, <1>3, <2>1, SeqEqual
  <1> QED BY <1>1, <1>4

LEMMA SyncWrites ==
  ASSUME NEW p, NEW js, NEW r, r = Rec(p), NEW m, m = WithJobs(r, js)
  PROVE  SyncThen(p, js, <<>>) = IF r.slots = Leaves(js) THEN <<>> ELSE <<Refs(m)>>
  <1>1. PICK y : y = Refs(m)
    OBVIOUS
  <1>2. SyncThen(p, js, <<>>) = (IF r.slots = Leaves(js) THEN <<>> ELSE <<y>>) \o <<>>
    BY <1>1 DEF SyncThen, Synced, WithJobs
  <1>3. <<>> \o <<>> = <<>> /\ <<y>> \o <<>> = <<y>>
    OBVIOUS
  <1> QED BY <1>1, <1>2, <1>3

LEMMA SyncMovesTo ==
  ASSUME NEW p, NEW js, NEW r, r = Rec(p), NEW m, m = WithJobs(r, js), NEW x
  PROVE  /\ SyncThen(p, js, <<x>>) = IF r.slots = Leaves(js) THEN <<x>> ELSE <<Refs(m), x>>
         /\ SyncThen(p, js, <<>>) \o <<x>> = SyncThen(p, js, <<x>>)
  <1>1. PICK y : y = Refs(m)
    OBVIOUS
  <1>2. SyncThen(p, js, <<x>>) = (IF r.slots = Leaves(js) THEN <<>> ELSE <<y>>) \o <<x>>
    BY <1>1 DEF SyncThen, Synced, WithJobs
  <1>3. <<>> \o <<x>> = <<x>> /\ <<y>> \o <<x>> = <<y, x>>
    BY TwoWrites
  <1>4. SyncThen(p, js, <<>>) = IF r.slots = Leaves(js) THEN <<>> ELSE <<y>>
    BY <1>1, SyncWrites
  <1> QED BY <1>1, <1>2, <1>3, <1>4

\* The newest jobs are recorded, where they are not yet, and the step goes on.
LEMMA SyncGoes ==
  ASSUME Inv, NEW p \in Procs, NEW o \in OpRecord, op[p].pc \in Working, o = op[p],
         NEW r \in Row, r = o.rec, NEW js, js = jobs', NEW m, m = WithJobs(r, js),
         Good(m)', m.state = r.state, m.code = r.code, Below(r, m),
         r.slots = Leaves(js) => m = r,
         NEW next \in Nexts \ {"create_batch"},
         Then(p, SyncThen(p, js, <<>>), next), wf' = wf, DomainStep, Spares,
         Ready(o, next, m)'
  PROVE  Inv'
  <1>1. r = Rec(p)
    BY DEF Rec
  <1>2. CASE r.slots = Leaves(js)
    <2>1. Then(p, <<>>, next) /\ m = r
      BY <1>1, <1>2, SyncWrites
    <2>2. Ready(o, next, r)' /\ next \in Nexts /\ next # "create_batch"
      BY <2>1
    <2> QED BY <2>1, <2>2, GoneActed
  <1>3. CASE r.slots # Leaves(js)
    <2>1. Then(p, <<Refs(m)>>, next)
      BY <1>1, <1>3, SyncWrites
    <2> QED BY <2>1, RefsActed
  <1> QED BY <1>2, <1>3

LEMMA SyncMoves ==
  ASSUME Inv, NEW p \in Procs, NEW o \in OpRecord, op[p].pc \in Working, o = op[p],
         NEW r \in Row, r = o.rec, NEW js, js = jobs', NEW m, m = WithJobs(r, js),
         Good(m)', m.state = r.state, m.code = r.code, Below(r, m),
         r.slots = Leaves(js) => m = r,
         NEW st \in ActiveStates \cup {"attention_required", "completed"},
         st # "downloading", st = "completed" => AllDone',
         NEW c \in Codes, StandsAt(m, st, c)',
         NEW next \in Nexts \ {"create_batch"},
         Then(p, SyncThen(p, js, <<Move(Moved(m, st, c))>>), next), wf' = wf, DomainStep, Spares,
         Ready(o, next, Moved(m, st, c))'
  PROVE  Inv'
  <1>1. r = Rec(p)
    BY DEF Rec
  <1>4. PICK x : x = Move(Moved(m, st, c))
    OBVIOUS
  <1>5. /\ Then(p, SyncThen(p, js, <<x>>), next)
        /\ SyncThen(p, js, <<x>>) = IF r.slots = Leaves(js) THEN <<x>> ELSE <<Refs(m), x>>
    <2>1. Then(p, SyncThen(p, js, <<x>>), next)
      BY <1>4, Zenon
    <2>2. SyncThen(p, js, <<x>>) = IF r.slots = Leaves(js) THEN <<x>> ELSE <<Refs(m), x>>
      BY <1>1, SyncMovesTo
    <2> QED BY <2>1, <2>2
  <1>2. CASE r.slots = Leaves(js)
    <2>1. Then(p, <<Move(Moved(m, st, c))>>, next) /\ m = r
      BY <1>2, <1>4, <1>5
    <2>2. /\ st \in ActiveStates \cup {"attention_required", "canceled", "completed"}
          /\ st # "canceled"
      BY DEF ActiveStates
    <2>3. /\ StandsAt(r, st, c)' /\ Ready(o, next, Moved(r, st, c))'
          /\ Then(p, <<Move(Moved(r, st, c))>>, next)
      BY <2>1
    <2> QED BY <2>2, <2>3, MoveActed
  <1>3. CASE r.slots # Leaves(js)
    <2>1. Then(p, <<Refs(m), Move(Moved(m, st, c))>>, next)
      BY <1>3, <1>4, <1>5
    <2> QED BY <2>1, RecordActed
  <1> QED BY <1>2, <1>3

\* A workflow whose uploads are observed has jobs for every segment.
LEMMA UploadsStand ==
  ASSUME Inv, NEW p \in Procs, NEW o \in OpRecord, o = op[p], NEW r \in Row, r = o.rec,
         (o.pc = "call" /\ ObservesUpload(p)) \/ o.pc = "retry_uploads"
  PROVE  /\ Good(r) /\ DomainTypes /\ Prepared(r) /\ r.outputs
         /\ r.state \in {"awaiting_upload_confirmation", "uploading", "attention_required"}
         /\ o.call = "confirm_upload" /\ o.pc = "call" => r.state = "awaiting_upload_confirmation"
         /\ o.call = "retry" /\ o.pc = "call" => r.state = "attention_required"
         /\ \A s \in Segment : r.slots[s] \in Nat /\ r.slots[s] # 0 /\ r.slots[s] <= Len(jobs[s])
         /\ \A s \in Segment : jobs[s] # <<>>
         /\ jobs \in [Segment -> Seq(UploadObject)]
  <1>1. Good(r) /\ DomainTypes /\ Rec(p) = r /\ (o.pc = "call" => Ready(o, "call", r))
        /\ (o.pc = "retry_uploads" => Ready(o, "retry_uploads", r))
    BY OpKnows DEF OpFit, Rec
  <1>2. 1 \in Segment
    BY WorkflowAssumption DEF Segment
  <1>3. /\ Prepared(r)
        /\ r.state \in {"awaiting_upload_confirmation", "uploading", "attention_required"}
        /\ o.call = "confirm_upload" /\ o.pc = "call" => r.state = "awaiting_upload_confirmation"
        /\ o.call = "retry" /\ o.pc = "call" => r.state = "attention_required"
    <2>1. CASE o.pc = "retry_uploads"
      BY <1>1, <2>1 DEF Ready
    <2>2. CASE o.pc = "call" /\ (Advancing(p, "awaiting_upload_confirmation") \/ Advancing(p, "uploading"))
      BY <1>1, <2>2 DEF Advancing, Good, Stands, StandsAt
    <2>3. CASE o.pc = "call" /\ Advancing(p, "attention_required") /\ HasJobs(r) /\ Prepared(r)
      BY <1>1, <2>3 DEF Advancing
    <2>4. CASE o.pc = "call" /\ o.call = "confirm_upload"
      BY <1>1, <2>4 DEF Ready, Admits, Good, Stands, StandsAt
    <2>5. CASE o.pc = "call" /\ o.call = "retry" /\ HasJobs(r)
      BY <1>1, <2>5 DEF Ready, Admits
    <2> QED BY <1>1, <2>1, <2>2, <2>3, <2>4, <2>5 DEF ObservesUpload
  <1>4. r.outputs
    <2>1. HasJobs(r)
      BY <1>2, <1>3 DEF HasJobs, Prepared
    <2> QED BY <1>1, <2>1 DEF Good, Ladder
  <1>5. \A s \in Segment : r.slots[s] \in Nat /\ r.slots[s] # 0 /\ r.slots[s] <= Len(jobs[s])
    BY <1>1, <1>3 DEF Good, Backed, Prepared, Row
  <1>6. jobs \in [Segment -> Seq(UploadObject)]
    BY <1>1 DEF DomainTypes
  <1>7. \A s \in Segment : jobs[s] # <<>>
    <2>1. ASSUME NEW s \in Segment, jobs[s] = <<>>
          PROVE  FALSE
      <3>1. Len(jobs[s]) = 0
        BY <2>1
      <3> QED BY <1>5, <3>1
    <2> QED BY <2>1
  <1> QED BY <1>1, <1>3, <1>4, <1>5, <1>6, <1>7

LEMMA ObserveUploadKeeps ==
  ASSUME Inv, NEW p \in Procs, ObserveUpload(p)
  PROVE  Inv'
  <1>1. PICK o \in OpRecord : o = op[p]
    BY OpKnows
  <1>2. PICK r \in Row : r = o.rec
    BY <1>1, OpKnows
  <1>3. PICK js : js = jobs
    OBVIOUS
  <1>4. PICK d, c : d = UploadView(js).disposition /\ c = UploadView(js).code
    OBVIOUS
  <1>5. PICK m : m = WithJobs(r, js)
    OBVIOUS
  <1>6. PICK sync : sync = SyncThen(p, js, <<>>)
    OBVIOUS
  <1>7. /\ o.pc = "call" /\ op[p].pc \in Working /\ UNCHANGED <<profile, wf, domains>>
        /\ Rec(p) = r /\ ObservesUpload(p) /\ jobs' = js /\ Synced(p, js) = m
    BY <1>1, <1>2, <1>3, <1>5 DEF ObserveUpload, ObservesUpload, At, Rec, Working, Pcs, domains, uploads,
       Synced, WithJobs
  <1>8. /\ Good(r) /\ DomainTypes /\ Prepared(r) /\ r.outputs
        /\ r.state \in {"awaiting_upload_confirmation", "uploading", "attention_required"}
        /\ o.call = "confirm_upload" => r.state = "awaiting_upload_confirmation"
        /\ o.call = "retry" => r.state = "attention_required"
        /\ \A s \in Segment : r.slots[s] \in Nat /\ r.slots[s] # 0 /\ r.slots[s] <= Len(js[s])
        /\ \A s \in Segment : js[s] # <<>>
        /\ js \in [Segment -> Seq(UploadObject)]
    BY <1>1, <1>2, <1>3, <1>7, UploadsStand
  <1>9. DomainStep /\ Spares /\ Good(r)'
    BY <1>7, <1>8, SameDomains, SameGood DEF Spares
  <1>10. /\ m \in Row /\ m.state = r.state /\ m.code = r.code /\ Below(r, m)
         /\ m.outputs /\ Prepared(m) /\ m.slots = Leaves(js) /\ Good(m)'
         /\ \A s \in Segment : m.slots[s] = Len(js[s])
         /\ r.slots = Leaves(js) => m = r
    BY <1>5, <1>7, <1>8, <1>9, SyncedGood
  <1>11. /\ d \in {"attention", "ready", "active", "confirm"}
         /\ d = "attention" => c \in {"unknown", "failed"}
         /\ d = "ready" => \A s \in Segment : Leaf(js[s]).st = "submitted"
         /\ d = "confirm" => /\ c \in {"", "retry", "restart"}
                             /\ c # "retry" =>
                                  \A s \in Segment : Leaf(js[s]).st = "draft" => Len(js[s]) = 1
    BY <1>4, <1>8, UploadViewed
  <1>12. /\ {"", "retry", "restart", "unknown", "failed", "conflict", "done"} \subseteq Codes
         /\ {"awaiting_upload_confirmation", "uploading"} \subseteq ActiveStates
         /\ {"idle", "read", "confirm_uploads", "retry_uploads"} \subseteq Nexts \ {"create_batch"}
    BY DEF Codes, ActiveStates, Nexts
  <1>13. ASSUME NEW c1 \in {"", "retry", "restart", "unknown", "failed", "conflict", "done"},
                NEW st \in {"awaiting_upload_confirmation", "uploading", "attention_required", "completed"},
                st = "completed" => c1 = "done"
         PROVE  StandsAt(m, st, c1)'
    BY <1>10, <1>13 DEF StandsAt, Ends
  <1>14. ASSUME NEW next \in {"idle", "read"}, NEW x
         PROVE  Ready(o, next, x)'
    BY DEF Ready, Working
  <1>15. ASSUME NEW next \in {"idle", "read", "confirm_uploads", "retry_uploads"},
                Ready(o, next, m)', Then(p, sync, next)
         PROVE  Inv'
    BY <1>1, <1>2, <1>5, <1>6, <1>7, <1>9, <1>10, <1>12, <1>15, SyncGoes
  <1>16. ASSUME NEW next \in {"idle", "read", "confirm_uploads"},
                NEW st \in {"awaiting_upload_confirmation", "uploading", "attention_required", "completed"},
                NEW c1 \in {"", "retry", "restart", "unknown", "failed", "conflict", "done"},
                st = "completed" => c1 = "done" /\ d = "ready",
                Ready(o, next, Moved(m, st, c1))',
                Then(p, sync \o <<Move(Moved(m, st, c1))>>, next)
         PROVE  Inv'
    <2>1. PICK x : x = Move(Moved(m, st, c1))
      OBVIOUS
    <2>2. Then(p, SyncThen(p, js, <<x>>), next)
      <3>1. sync \o <<x>> = SyncThen(p, js, <<x>>)
        BY <1>5, <1>6, <1>7, SyncMovesTo
      <3> QED BY <1>16, <2>1, <3>1
    <2>3. Then(p, SyncThen(p, js, <<Move(Moved(m, st, c1))>>), next)
      BY <2>1, <2>2
    <2>4. st = "completed" => AllDone'
      BY <1>3, <1>7, <1>8, <1>11, <1>16 DEF AllDone
    <2>5. StandsAt(m, st, c1)' /\ c1 \in Codes /\ st # "downloading"
      BY <1>12, <1>13, <1>16
    <2>6. st \in ActiveStates \cup {"attention_required", "completed"}
      BY <1>12
    <2>7. next \in Nexts \ {"create_batch"}
      BY <1>12
    <2> QED BY <1>1, <1>2, <1>5, <1>7, <1>9, <1>10, <1>16, <2>3, <2>4, <2>5, <2>6, <2>7, SyncMoves
  <1>17. ASSUME NEW x, x.slots = Leaves(js), x.state = "awaiting_upload_confirmation",
                o.call = "advance" => profile.autoUpload /\ d = "confirm" /\ c # "retry"
         PROVE  Ready(o, "confirm_uploads", x)'
    <2>1. o.call = "advance" =>
            \A s \in Segment : Leaves(js)[s] = 1 \/ js[s][Leaves(js)[s]].st # "draft"
      BY <1>11, <1>17 DEF Leaves, Leaf
    <2>2. o.call = "advance" => \A s \in Segment : x.slots[s] = 1 \/ jobs'[s][x.slots[s]].st # "draft"
      BY <1>7, <1>17, <2>1
    <2>3. o.call = "advance" => profile'.autoUpload
      BY <1>7, <1>17
    <2> QED BY <1>17, <2>2, <2>3 DEF Ready, Ends
  <1>18. CASE d = "confirm" /\ UploadConfirms(p, UploadView(js))
    <2> DEFINE shown == Move(Moved(m, "awaiting_upload_confirmation", c))
               failed == Move(Moved(m, "attention_required", "conflict"))
    <2>1. \/ Then(p, sync, "idle")
          \/ Then(p, sync \o <<shown>>, "idle") \/ Then(p, sync \o <<shown>>, "read")
          \/ Then(p, sync \o <<failed>>, "idle")
          \/ /\ r.state = "awaiting_upload_confirmation" /\ Then(p, sync, "confirm_uploads")
             /\ o.call = "advance" => profile.autoUpload /\ c # "retry"
          \/ /\ o.call = "advance" /\ profile.autoUpload /\ c # "retry"
             /\ Then(p, sync \o <<shown>>, "confirm_uploads")
      <3> HIDE DEF shown, failed
      <3>1. CASE Advancing(p, "awaiting_upload_confirmation")
        <4>1. /\ o.call = "advance" /\ r.state = "awaiting_upload_confirmation"
              /\ op[p].call = "advance" /\ ~Advancing(p, "uploading")
              /\ ~Advancing(p, "attention_required")
          BY <1>1, <1>7, <3>1 DEF Advancing
        <4> QED BY <1>3, <1>4, <1>6, <1>7, <1>18, <3>1, <4>1 DEF UploadConfirms, shown
      <3>2. CASE Advancing(p, "uploading")
        <4>1. /\ op[p].call = "advance" /\ ~Advancing(p, "awaiting_upload_confirmation")
              /\ ~Advancing(p, "attention_required")
          BY <1>1, <1>7, <3>2 DEF Advancing
        <4> QED BY <1>3, <1>4, <1>6, <1>7, <1>18, <3>2, <4>1 DEF UploadConfirms, shown
      <3>3. CASE Advancing(p, "attention_required")
        <4>1. /\ op[p].call = "advance" /\ ~Advancing(p, "awaiting_upload_confirmation")
              /\ ~Advancing(p, "uploading")
          BY <1>1, <1>7, <3>3 DEF Advancing
        <4> QED BY <1>3, <1>4, <1>6, <1>7, <1>18, <3>3, <4>1 DEF UploadConfirms, shown
      <3>4. CASE /\ ~Advancing(p, "awaiting_upload_confirmation") /\ ~Advancing(p, "uploading")
                 /\ ~Advancing(p, "attention_required")
        <4>1. CASE o.call = "confirm_upload"
          BY <1>1, <1>3, <1>4, <1>6, <1>7, <1>8, <1>18, <3>4, <4>1 DEF UploadConfirms, shown
        <4>2. CASE o.call # "confirm_upload"
          BY <1>1, <1>3, <1>4, <1>6, <1>7, <1>18, <3>4, <4>2
          DEF UploadConfirms, shown, failed, Attention
        <4> QED BY <4>1, <4>2
      <3> QED BY <3>1, <3>2, <3>3, <3>4
    <2>2. CASE Then(p, sync \o <<shown>>, "idle") \/ Then(p, sync \o <<shown>>, "read")
      BY <1>11, <1>14, <1>16, <1>18, <2>2
    <2>3. CASE Then(p, sync \o <<failed>>, "idle")
      BY <1>14, <1>16, <2>3
    <2>4. CASE /\ r.state = "awaiting_upload_confirmation" /\ Then(p, sync, "confirm_uploads")
               /\ o.call = "advance" => profile.autoUpload /\ c # "retry"
      BY <1>10, <1>15, <1>17, <1>18, <2>4
    <2>5. CASE /\ o.call = "advance" /\ profile.autoUpload /\ c # "retry"
               /\ Then(p, sync \o <<shown>>, "confirm_uploads")
      <3>1. PICK x : x = Moved(m, "awaiting_upload_confirmation", c)
        OBVIOUS
      <3>2. x.slots = Leaves(js) /\ x.state = "awaiting_upload_confirmation"
        <4>1. c \in Codes
          BY <1>11, <1>12, <1>18
        <4>2. Moved(m, "awaiting_upload_confirmation", c) \in Row
          BY <1>10, <1>12, <4>1, MovedType
        <4> QED BY <1>10, <3>1, <4>2, MovedRow
      <3>3. Ready(o, "confirm_uploads", x)'
        BY <1>17, <1>18, <2>5, <3>2
      <3>4. Ready(o, "confirm_uploads", Moved(m, "awaiting_upload_confirmation", c))'
        BY <3>1, <3>3
      <3> QED BY <1>11, <1>16, <1>18, <2>5, <3>4
    <2>6. CASE Then(p, sync, "idle")
      BY <1>14, <1>15, <2>6
    <2> QED BY <2>1, <2>2, <2>3, <2>4, <2>5, <2>6
  <1>19. \/ Then(p, sync, "idle")
         \/ \E next \in {"idle", "read"} :
              \/ d = "ready" /\ Then(p, sync \o <<Move(Moved(m, "completed", "done"))>>, next)
              \/ Then(p, sync \o <<Move(Moved(m, "uploading", ""))>>, next)
         \/ o.call = "retry" /\ Then(p, sync, "retry_uploads")
         \/ d = "attention" /\ Then(p, sync \o <<Move(Moved(m, "attention_required", c))>>, "idle")
         \/ d = "confirm" /\ UploadConfirms(p, UploadView(js))
    <2>1. Onward(p) \in {"idle", "read"}
      BY DEF Onward
    <2>2. Attention(m, c) = Moved(m, "attention_required", c) /\ Completed(m) = Moved(m, "completed", "done")
      BY DEF Attention, Completed
    <2>3. ObserveUpload(p) /\ jobs = js
      BY <1>3
    <2>4. CASE d = "ready"
      BY <1>1, <1>4, <1>6, <1>7, <2>1, <2>2, <2>3, <2>4 DEF ObserveUpload
    <2>5. CASE d = "active"
      BY <1>1, <1>4, <1>6, <1>7, <2>1, <2>3, <2>5 DEF ObserveUpload
    <2>6. CASE d = "attention"
      BY <1>1, <1>4, <1>6, <1>7, <2>1, <2>2, <2>3, <2>6 DEF ObserveUpload
    <2>7. CASE d = "confirm"
      BY <1>1, <1>4, <1>6, <1>7, <2>3, <2>7 DEF ObserveUpload
    <2> QED BY <1>11, <2>4, <2>5, <2>6, <2>7
  <1>20. CASE o.call = "retry" /\ Then(p, sync, "retry_uploads")
    <2>1. Ready(o, "retry_uploads", m)'
      BY <1>8, <1>10, <1>20 DEF Ready, Ends, Prepared
    <2> QED BY <1>15, <1>20, <2>1
  <1>21. CASE Then(p, sync, "idle")
    BY <1>14, <1>15, <1>21
  <1>22. CASE \E next \in {"idle", "read"} :
                \/ d = "ready" /\ Then(p, sync \o <<Move(Moved(m, "completed", "done"))>>, next)
                \/ Then(p, sync \o <<Move(Moved(m, "uploading", ""))>>, next)
    BY <1>14, <1>16, <1>22
  <1>23. CASE d = "attention" /\ Then(p, sync \o <<Move(Moved(m, "attention_required", c))>>, "idle")
    BY <1>11, <1>14, <1>16, <1>23
  <1> QED BY <1>18, <1>19, <1>20, <1>21, <1>22, <1>23

-----------------------------------------------------------------------------
(***************************************************************************)
(* What a step may do to a lineage                                         *)
(***************************************************************************)
\* m is l with another newest object, or with one more.
Newer(S, l, m, x) ==
    /\ m \in Seq(S) /\ m # <<>> /\ x \in S /\ Len(m) \in {Len(l), Len(l) + 1}
    /\ m[Len(m)] = x
    /\ \A k \in 1..Len(m) : k < Len(m) => k \in 1..Len(l) /\ m[k] = l[k]
    /\ Len(m) = Len(l) + 1 => l = <<>> \/ Leaf(l).st \in Settled

LEMMA NewerLineage ==
  ASSUME NEW S, NEW l \in Seq(S), Lineage(l), NEW m, NEW x, Newer(S, l, m, x)
  PROVE  /\ m \in Seq(S) /\ m # <<>> /\ Lineage(m) /\ Leaf(m) = x /\ Len(l) <= Len(m)
         /\ Len(m) = Len(l) => l # <<>> /\ Leaf(l) = l[Len(m)]
         /\ Len(m) # Len(l) => \A k \in 1..Len(l) : l[k].st \in Settled
         /\ \A k \in 1..Len(m) : (k = Len(m) /\ m[k] = x) \/ (k \in 1..Len(l) /\ m[k] = l[k])
  <1> PICK a, b : a = Len(m) /\ b = Len(l)
    OBVIOUS
  <1>1. /\ m \in Seq(S) /\ m # <<>> /\ a \in {b, b + 1} /\ m[a] = x
        /\ \A k \in 1..a : k < a => k \in 1..b /\ m[k] = l[k]
        /\ a = b + 1 => l = <<>> \/ Leaf(l).st \in Settled
    BY DEF Newer
  <1>2. a \in Nat /\ b \in Nat /\ a # 0 /\ DOMAIN m = 1..a /\ DOMAIN l = 1..b
    BY <1>1, EmptySeq
  <1>3. \A k \in 1..a : k = a \/ k < a
    BY <1>2
  <1>8. l = <<>> <=> b = 0
    BY EmptySeq
  <1>9. \A k \in 1..b : k < b => l[k].st \in Settled
    BY <1>2 DEF Lineage
  <1>4. ASSUME NEW k \in 1..a, k < a
        PROVE  l[k].st \in Settled
    <2>1. CASE k < b
      BY <1>1, <1>4, <1>9, <2>1
    <2>2. CASE ~(k < b)
      <3>1. k = b /\ a = b + 1 /\ b # 0
        BY <1>1, <1>2, <1>4, <2>2
      <3> QED BY <1>1, <1>8, <3>1 DEF Leaf
    <2> QED BY <2>1, <2>2
  <1>5. Lineage(m)
    <2>1. \A k \in 1..a : k < a => m[k].st \in Settled
      BY <1>1, <1>4
    <2> QED BY <1>2, <2>1 DEF Lineage
  <1>6. a = b => l # <<>> /\ Leaf(l) = l[a]
    BY <1>2, <1>8 DEF Leaf
  <1>7. a # b => \A k \in 1..b : l[k].st \in Settled
    <2> SUFFICES ASSUME a # b, NEW k \in 1..b
                 PROVE  l[k].st \in Settled
      OBVIOUS
    <2>1. k \in 1..a /\ k < a
      BY <1>1, <1>2
    <2> QED BY <1>4, <2>1
  <1>10. \A k \in 1..a : (k = a /\ m[k] = x) \/ (k \in 1..b /\ m[k] = l[k])
    BY <1>1, <1>3
  <1>11. Leaf(m) = x
    BY <1>1 DEF Leaf
  <1>12. b <= a
    BY <1>1, <1>2
  <1> QED BY <1>1, <1>5, <1>6, <1>7, <1>10, <1>11, <1>12

LEMMA LeafSet ==
  ASSUME NEW S, NEW l \in Seq(S), l # <<>>, NEW x \in S
  PROVE  Newer(S, l, WithLeaf(l, x), x) /\ Len(WithLeaf(l, x)) = Len(l)
  <1>1. PICK n : n = Len(l)
    OBVIOUS
  <1>2. n \in 1..Len(l) /\ n \in Nat
    BY <1>1, EmptySeq
  <1>3. PICK m : m = [l EXCEPT ![n] = x]
    OBVIOUS
  <1>4. /\ m \in Seq(S) /\ Len(m) = Len(l) /\ m[n] = x
        /\ \A k \in 1..Len(l) : k # n => m[k] = l[k]
    BY <1>2, <1>3, ExceptSeq
  <1>5. m = WithLeaf(l, x)
    BY <1>1, <1>3 DEF WithLeaf
  <1>6. m # <<>>
    BY <1>2, <1>4
  <1> QED BY <1>1, <1>2, <1>4, <1>5, <1>6 DEF Newer

LEMMA LeafAdded ==
  ASSUME NEW S, NEW l \in Seq(S), l = <<>> \/ Leaf(l).st \in Settled, NEW x \in S
  PROVE  Newer(S, l, Append(l, x), x) /\ Len(Append(l, x)) = Len(l) + 1
  <1>1. PICK m : m = Append(l, x)
    OBVIOUS
  <1>2. /\ m \in Seq(S) /\ Len(m) = Len(l) + 1 /\ m[Len(m)] = x
        /\ \A k \in 1..Len(l) : m[k] = l[k]
    BY <1>1, AppendProperties
  <1>3. m # <<>> /\ Len(l) \in Nat
    BY <1>2
  <1> QED BY <1>1, <1>2, <1>3 DEF Newer

\* The newest render plan or AI task becomes x, or x succeeds it.
EditTurn(l, m, x) ==
    /\ Newer(EditObject, l, m, x)
    /\ Len(m) = Len(l) => /\ Leaf(l).st \in Settled => x.st \in Settled
                          /\ Leaf(l).st = "ready" => x.st = "ready"
                          /\ Leaf(l).tl = "approved" => x.tl = "approved"
    /\ x.tl = "approved" => x.st = "ready"
    /\ x.code = "ledger" => x.st = "failed"
    /\ x.by = "auto" => \/ Len(m) = Len(l) /\ Leaf(l).by = "auto"
                        \/ Len(m) = 1 /\ profile.autoEdit

EditAuthority(l) == \A k \in DOMAIN l : l[k].by = "auto" => k = 1 /\ profile.autoEdit

EditGrown(l, m) ==
    /\ m \in Seq(EditObject) /\ Len(l) <= Len(m) /\ EditLineage(m) /\ EditAuthority(m)
    /\ \A k \in 1..Len(l) : l[k].st \in Settled => m[k].st \in Settled
    /\ l # <<>> /\ Leaf(l).st = "ready" => m # <<>> /\ Leaf(m).st = "ready"
    /\ l # <<>> /\ Leaf(l).tl = "approved" => m # <<>> /\ Leaf(m).tl = "approved"

LEMMA EditTurned ==
  ASSUME NEW l \in Seq(EditObject), EditLineage(l), EditAuthority(l), NEW m, NEW x,
         EditTurn(l, m, x)
  PROVE  EditGrown(l, m) /\ m # <<>> /\ Leaf(m) = x
  <1>1. /\ m \in Seq(EditObject) /\ m # <<>> /\ Lineage(m) /\ Leaf(m) = x /\ Len(l) <= Len(m)
        /\ Len(m) = Len(l) => l # <<>> /\ Leaf(l) = l[Len(m)]
        /\ Len(m) # Len(l) => \A k \in 1..Len(l) : l[k].st \in Settled
        /\ \A k \in 1..Len(m) : (k = Len(m) /\ m[k] = x) \/ (k \in 1..Len(l) /\ m[k] = l[k])
    BY NewerLineage DEF EditTurn, EditLineage
  <1>2. DOMAIN m = 1..Len(m) /\ DOMAIN l = 1..Len(l) /\ Len(m) \in Nat /\ Len(l) \in Nat
    BY <1>1
  <1>3. ASSUME NEW k \in DOMAIN m
        PROVE  /\ m[k].tl = "approved" => m[k].st = "ready"
               /\ m[k].code = "ledger" => m[k].st = "failed"
               /\ m[k].by = "auto" => k = 1 /\ profile.autoEdit
    <2>1. CASE k = Len(m) /\ m[k] = x
      <3>1. x.by = "auto" => k = 1 /\ profile.autoEdit
        BY <1>1, <1>2, <2>1 DEF EditTurn, EditAuthority
      <3> QED BY <2>1, <3>1 DEF EditTurn
    <2>2. CASE k \in 1..Len(l) /\ m[k] = l[k]
      BY <1>2, <2>2 DEF EditLineage, EditAuthority
    <2> QED BY <1>1, <1>2, <2>1, <2>2
  <1>4. ASSUME NEW k \in 1..Len(l), l[k].st \in Settled
        PROVE  m[k].st \in Settled
    <2> PICK a \in Nat, b \in Nat : a = Len(m) /\ b = Len(l)
      BY <1>2
    <2>3. k \in 1..b /\ b <= a
      BY <1>1, <1>4
    <2>1. k \in 1..Len(m)
      BY <2>3
    <2>2. CASE k = Len(m) /\ m[k] = x
      <3>1. Len(m) = Len(l)
        BY <2>2, <2>3
      <3> QED BY <1>1, <1>4, <2>2, <3>1 DEF EditTurn
    <2> QED BY <1>1, <1>4, <2>1, <2>2
  <1>5. ASSUME l # <<>>, Leaf(l).st = "ready" \/ Leaf(l).tl = "approved"
        PROVE  Len(m) = Len(l)
    <2>1. Len(l) \in 1..Len(l) /\ Leaf(l) = l[Len(l)]
      BY <1>2, <1>5, EmptySeq DEF Leaf
    <2>2. Leaf(l).st = "ready"
      BY <1>2, <1>5, <2>1 DEF EditLineage
    <2> QED BY <1>1, <2>1, <2>2 DEF Settled
  <1>6. /\ l # <<>> /\ Leaf(l).st = "ready" => Leaf(m).st = "ready"
        /\ l # <<>> /\ Leaf(l).tl = "approved" => Leaf(m).tl = "approved"
    BY <1>1, <1>5 DEF EditTurn
  <1> QED BY <1>1, <1>3, <1>4, <1>6 DEF EditGrown, EditLineage, EditAuthority

LEMMA EditSame ==
  ASSUME NEW l \in Seq(EditObject), EditLineage(l), EditAuthority(l)
  PROVE  EditGrown(l, l)
  BY DEF EditGrown

\* The same for upload jobs
UploadTurn(l, m, x) ==
    /\ Newer(UploadObject, l, m, x)
    /\ Len(m) = Len(l) /\ Leaf(l).st = "submitted" => x.st = "submitted"
    /\ x.by = "auto" => \/ Len(m) = Len(l) /\ Leaf(l).by = "auto"
                        \/ profile.autoUpload /\ (Solo => Len(m) = 1)

UploadAuthority(l) ==
    \A k \in DOMAIN l : l[k].by = "auto" => profile.autoUpload /\ (Solo => k = 1)

UploadGrown(l, m) ==
    /\ m \in Seq(UploadObject) /\ Len(l) <= Len(m) /\ Lineage(m) /\ UploadAuthority(m)
    /\ l # <<>> /\ Leaf(l).st = "submitted" => m # <<>> /\ Leaf(m).st = "submitted"

LEMMA UploadTurned ==
  ASSUME NEW l \in Seq(UploadObject), Lineage(l), UploadAuthority(l), NEW m, NEW x,
         UploadTurn(l, m, x)
  PROVE  /\ UploadGrown(l, m) /\ m # <<>> /\ Leaf(m) = x
         /\ (Len(m) = Len(l) /\ Leaf(l).st # "draft" => x.st # "draft") =>
              \A k \in 1..Len(l) : l[k].st # "draft" => m[k].st # "draft"
  <1>1. /\ m \in Seq(UploadObject) /\ m # <<>> /\ Lineage(m) /\ Leaf(m) = x /\ Len(l) <= Len(m)
        /\ Len(m) = Len(l) => l # <<>> /\ Leaf(l) = l[Len(m)]
        /\ Len(m) # Len(l) => \A k \in 1..Len(l) : l[k].st \in Settled
        /\ \A k \in 1..Len(m) : (k = Len(m) /\ m[k] = x) \/ (k \in 1..Len(l) /\ m[k] = l[k])
    BY NewerLineage DEF UploadTurn
  <1>2. DOMAIN m = 1..Len(m) /\ DOMAIN l = 1..Len(l) /\ Len(m) \in Nat /\ Len(l) \in Nat
    BY <1>1
  <1>3. ASSUME NEW k \in DOMAIN m, m[k].by = "auto"
        PROVE  profile.autoUpload /\ (Solo => k = 1)
    <2>1. CASE k = Len(m) /\ m[k] = x
      BY <1>1, <1>2, <1>3, <2>1 DEF UploadTurn, UploadAuthority
    <2>2. CASE k \in 1..Len(l) /\ m[k] = l[k]
      BY <1>2, <1>3, <2>2 DEF UploadAuthority
    <2> QED BY <1>1, <1>2, <2>1, <2>2
  <1>4. ASSUME Len(m) = Len(l) /\ Leaf(l).st # "draft" => x.st # "draft",
               NEW k \in 1..Len(l), l[k].st # "draft"
        PROVE  m[k].st # "draft"
    <2> PICK a \in Nat, b \in Nat : a = Len(m) /\ b = Len(l)
      BY <1>2
    <2>3. k \in 1..b /\ b <= a
      BY <1>1, <1>4
    <2>1. k \in 1..Len(m)
      BY <2>3
    <2>2. CASE k = Len(m) /\ m[k] = x
      <3>1. Len(m) = Len(l)
        BY <2>2, <2>3
      <3> QED BY <1>1, <1>4, <2>2, <3>1
    <2> QED BY <1>1, <1>4, <2>1, <2>2
  <1>5. l # <<>> /\ Leaf(l).st = "submitted" => Leaf(m).st = "submitted"
    <2> SUFFICES ASSUME l # <<>>, Leaf(l).st = "submitted"
                 PROVE  Leaf(m).st = "submitted"
      OBVIOUS
    <2>1. Len(l) \in 1..Len(l) /\ Leaf(l) = l[Len(l)]
      BY <1>2, EmptySeq DEF Leaf
    <2>2. Len(m) = Len(l)
      BY <1>1, <2>1 DEF Settled
    <2> QED BY <1>1, <2>2 DEF UploadTurn
  <1> QED BY <1>1, <1>3, <1>4, <1>5 DEF UploadGrown, UploadAuthority

LEMMA UploadSame ==
  ASSUME NEW l \in Seq(UploadObject), Lineage(l), UploadAuthority(l)
  PROVE  UploadGrown(l, l)
  BY DEF UploadGrown

\* Nothing of the lineage runs without a late confirmation, and nothing up to
\* its n-th object, which a row refers to, can be let run.
PlanStill(l, n) ==
    \A k \in DOMAIN l : /\ l[k].st \in Live => l[k].by = "late"
                        /\ k <= n => l[k].st \in Settled \cup {"ready"}
JobStill(l, n) ==
    \A k \in DOMAIN l : /\ l[k].st \in Live => l[k].by = "late"
                        /\ k <= n => l[k].st \notin {"draft"} \cup Live

LEMMA StillParts ==
  /\ Still <=> /\ PlanStill(plans, wf.plan)
               /\ \A s \in Segment : JobStill(jobs[s], wf.slots[s])
               /\ Solo => /\ \A b \in DOMAIN batches : batches[b] \notin Live
                          /\ \A s \in Stage : \A k \in DOMAIN tasks[s] :
                               tasks[s][k].st \in Live => tasks[s][k].by = "late"
  BY DEF Still, PlanStill, JobStill

LEMMA PlanStilled ==
  ASSUME NEW S, NEW l \in Seq(S), Lineage(l), NEW m, NEW x, Newer(S, l, m, x), NEW n,
         PlanStill(l, n), x.st \in Live => x.by = "late",
         Len(m) <= n => x.st \in Settled \cup {"ready"}
  PROVE  PlanStill(m, n)
  <1>1. /\ m \in Seq(S)
        /\ \A k \in 1..Len(m) : (k = Len(m) /\ m[k] = x) \/ (k \in 1..Len(l) /\ m[k] = l[k])
    BY NewerLineage
  <1>2. DOMAIN m = 1..Len(m) /\ DOMAIN l = 1..Len(l)
    BY <1>1
  <1> QED BY <1>1, <1>2 DEF PlanStill

LEMMA JobStilled ==
  ASSUME NEW S, NEW l \in Seq(S), Lineage(l), NEW m, NEW x, Newer(S, l, m, x), NEW n,
         JobStill(l, n), x.st \in Live => x.by = "late",
         Len(m) <= n => x.st \notin {"draft"} \cup Live
  PROVE  JobStill(m, n)
  <1>1. /\ m \in Seq(S)
        /\ \A k \in 1..Len(m) : (k = Len(m) /\ m[k] = x) \/ (k \in 1..Len(l) /\ m[k] = l[k])
    BY NewerLineage
  <1>2. DOMAIN m = 1..Len(m) /\ DOMAIN l = 1..Len(l)
    BY <1>1
  <1> QED BY <1>1, <1>2 DEF JobStill

-----------------------------------------------------------------------------
(***************************************************************************)
(* Steps of the domains, one variable at a time                            *)
(***************************************************************************)
BatchesGrow ==
    /\ batches' \in Seq(Batch) /\ Len(batches') <= 2 /\ Len(batches) <= Len(batches')
    /\ \A b \in DOMAIN batches : batches[b] = "ready" => batches'[b] = "ready"
    /\ Solo => Len(batches') <= 1
KeysGrow ==
    /\ project' \in Key /\ planKey' \in Key /\ upKey' \in [Segment -> Key]
    /\ project = "made" => project' = "made"
    /\ project # "none" => project' # "none"
    /\ planKey = "made" => planKey' = "made"
    /\ planKey # "none" => planKey' # "none"
    /\ \A s \in Segment : upKey[s] # "none" => upKey'[s] # "none"
PlansGrow == EditGrown(plans, plans')
TasksGrow ==
    /\ tasks' \in [Stage -> Seq(EditObject)]
    /\ \A s \in Stage : EditGrown(tasks[s], tasks'[s])
JobsGrow ==
    /\ jobs' \in [Segment -> Seq(UploadObject)]
    /\ \A s \in Segment : UploadGrown(jobs[s], jobs'[s])

LEMMA InvParts ==
  ASSUME Inv
  PROVE  /\ DomainTypes /\ profile \in Profile /\ wf \in Row /\ Good(wf)
         /\ batches \in Seq(Batch) /\ Len(batches) <= 2
         /\ project \in Key /\ planKey \in Key /\ upKey \in [Segment -> Key]
         /\ plans \in Seq(EditObject) /\ EditLineage(plans) /\ EditAuthority(plans)
         /\ Lineage(plans)
         /\ tasks \in [Stage -> Seq(EditObject)]
         /\ \A s \in Stage : /\ tasks[s] \in Seq(EditObject) /\ EditLineage(tasks[s])
                             /\ EditAuthority(tasks[s]) /\ Lineage(tasks[s])
         /\ jobs \in [Segment -> Seq(UploadObject)]
         /\ \A s \in Segment : /\ jobs[s] \in Seq(UploadObject) /\ Lineage(jobs[s])
                               /\ UploadAuthority(jobs[s])
         /\ Solo => Len(batches) <= 1
  <1>1. DomainTypes /\ Lineages /\ AuthorityHolds /\ wf \in Row /\ Good(wf) /\ Alone
    BY DEF Inv, Good
  <1>2. /\ EditAuthority(plans) /\ \A s \in Stage : EditAuthority(tasks[s])
        /\ \A s \in Segment : UploadAuthority(jobs[s])
    BY <1>1 DEF AuthorityHolds, EditAuthority, UploadAuthority, Solo
  <1>3. /\ EditLineage(plans) /\ \A s \in Stage : EditLineage(tasks[s])
        /\ \A s \in Segment : Lineage(jobs[s])
    BY <1>1 DEF Lineages
  <1> QED BY <1>1, <1>2, <1>3 DEF DomainTypes, EditLineage, Alone

LEMMA SameParts ==
  ASSUME Inv
  PROVE  /\ batches' = batches => BatchesGrow
         /\ UNCHANGED <<project, planKey, upKey>> => KeysGrow
         /\ plans' = plans => PlansGrow
         /\ tasks' = tasks => TasksGrow
         /\ jobs' = jobs => JobsGrow /\ DraftsStay
  <1>1. batches' = batches => BatchesGrow
    BY InvParts DEF BatchesGrow
  <1>2. UNCHANGED <<project, planKey, upKey>> => KeysGrow
    BY InvParts DEF KeysGrow
  <1>3. plans' = plans => PlansGrow
    BY InvParts, EditSame DEF PlansGrow
  <1>4. tasks' = tasks => TasksGrow
    BY InvParts, EditSame DEF TasksGrow
  <1>5. jobs' = jobs => JobsGrow /\ DraftsStay
    BY InvParts, UploadSame DEF JobsGrow, DraftsStay
  <1> QED BY <1>1, <1>2, <1>3, <1>4, <1>5

LEMMA DoneGrows ==
  ASSUME Inv
  PROVE  /\ TasksGrow /\ AIDone => AIDone'
         /\ JobsGrow /\ AllDone => AllDone'
  <1>1. TasksGrow /\ AIDone => AIDone'
    BY DEF TasksGrow, AIDone, Approved, EditGrown
  <1>2. JobsGrow /\ AllDone => AllDone'
    BY DEF JobsGrow, AllDone, UploadGrown
  <1> QED BY <1>1, <1>2

LEMMA Developed ==
  ASSUME Inv, profile' = profile, BatchesGrow, KeysGrow, PlansGrow, TasksGrow, JobsGrow
  PROVE  /\ Kept /\ DomainTypes' /\ Lineages' /\ AuthorityHolds'
         /\ DraftsStay /\ Rooted' => DomainStep
  <1>1. Kept
    <2>1. /\ AIDone => AIDone'
          /\ AllDone => AllDone'
      BY DoneGrows
    <2>2. /\ Len(plans) <= Len(plans')
          /\ \A k \in 1..Len(plans) : plans[k].st \in Settled => plans'[k].st \in Settled
          /\ plans # <<>> /\ Leaf(plans).st = "ready" => plans' # <<>> /\ Leaf(plans').st = "ready"
      BY DEF PlansGrow, EditGrown
    <2>3. \A s \in Segment : /\ Len(jobs[s]) <= Len(jobs'[s])
                             /\ upKey[s] # "none" => upKey'[s] # "none"
      BY DEF JobsGrow, UploadGrown, KeysGrow
    <2> QED BY <2>1, <2>2, <2>3 DEF Kept, BatchesGrow, KeysGrow
  <1>2. EditObject' = EditObject /\ UploadObject' = UploadObject
    BY DEF EditObject, UploadObject, Codings
  <1>3. DomainTypes'
    BY <1>2, InvParts DEF DomainTypes, BatchesGrow, KeysGrow, PlansGrow, TasksGrow, JobsGrow, EditGrown
  <1>4. Lineages'
    BY DEF Lineages, EditLineage, Lineage, PlansGrow, TasksGrow, JobsGrow, EditGrown, UploadGrown
  <1>5. AuthorityHolds'
    <2>1. EditAuthority(plans') /\ (\A s \in Stage : EditAuthority(tasks'[s]))
          /\ \A s \in Segment : UploadAuthority(jobs'[s])
      BY DEF PlansGrow, TasksGrow, JobsGrow, EditGrown, UploadGrown
    <2> QED BY <2>1 DEF AuthorityHolds, EditAuthority, UploadAuthority, Solo
  <1> QED BY <1>1, <1>3, <1>4, <1>5 DEF DomainStep, BatchesGrow, Grows

\* Where nothing is made that was not there, everything keeps its root.
LEMMA RootedKept ==
  ASSUME Inv, UNCHANGED <<profile, wf, project, planKey, upKey>>, TasksGrow,
         plans' = <<>> <=> plans = <<>>,
         \A s \in Stage : tasks'[s] = <<>> <=> tasks[s] = <<>>,
         \A s \in Segment : jobs'[s] = <<>> <=> jobs[s] = <<>>
  PROVE  Rooted'
  <1>1. AIDone => AIDone'
    BY DoneGrows
  <1> QED BY <1>1 DEF Inv, Rooted

LEMMA PlansRenewed ==
  ASSUME Inv, UNCHANGED <<profile, wf, batches, project, planKey, tasks, uploads>>,
         plans # <<>>, NEW x, EditTurn(plans, plans', x)
  PROVE  /\ DomainStep /\ PlansGrow
         /\ /\ Still
            /\ x.st \in Live => x.by = "late"
            /\ Len(plans') <= wf.plan => x.st \in Settled \cup {"ready"}
            => Still'
  <1>1. /\ batches' = batches /\ tasks' = tasks /\ jobs' = jobs
        /\ UNCHANGED <<project, planKey, upKey>>
    BY DEF uploads
  <1>2. PlansGrow /\ plans' # <<>>
    BY InvParts, EditTurned DEF PlansGrow
  <1>3. BatchesGrow /\ KeysGrow /\ TasksGrow /\ JobsGrow /\ DraftsStay
    BY <1>1, SameParts
  <1>4. Rooted'
    BY <1>1, <1>2, <1>3, RootedKept
  <1>5. ASSUME Still, x.st \in Live => x.by = "late",
               Len(plans') <= wf.plan => x.st \in Settled \cup {"ready"}
        PROVE  Still'
    <2>1. PlanStill(plans', wf.plan)
      BY <1>5, InvParts, PlanStilled, StillParts DEF EditTurn
    <2> QED BY <1>1, <1>5, <2>1 DEF Still, PlanStill
  <1> QED BY <1>2, <1>3, <1>4, <1>5, Developed

LEMMA TasksRenewed ==
  ASSUME Inv, UNCHANGED <<profile, wf, batches, project, planKey, plans, uploads>>,
         DOMAIN tasks' = Stage, tasks' = [s \in Stage |-> tasks'[s]],
         \A s \in Stage : \/ tasks'[s] = tasks[s]
                          \/ /\ tasks[s] # <<>> \/ (wf.project /\ profile.ai)
                             /\ \E x : EditTurn(tasks[s], tasks'[s], x)
  PROVE  /\ DomainStep /\ TasksGrow
         /\ Still /\ ~Solo => Still'
         /\ Still /\ (\A s \in Stage : PlanStill(tasks'[s], 0)) => Still'
  <1>1. /\ batches' = batches /\ plans' = plans /\ jobs' = jobs
        /\ UNCHANGED <<project, planKey, upKey>>
    BY DEF uploads
  <1>2. \A s \in Stage : EditGrown(tasks[s], tasks'[s])
    BY InvParts, EditSame, EditTurned
  <1>6. TasksGrow
    <2>1. \A s \in Stage : tasks'[s] \in Seq(EditObject)
      BY <1>2 DEF EditGrown
    <2> QED BY <1>2, <2>1 DEF TasksGrow
  <1>3. BatchesGrow /\ KeysGrow /\ PlansGrow /\ JobsGrow /\ DraftsStay
    BY <1>1, SameParts
  <1>4. Rooted'
    <2>1. AIDone => AIDone'
      BY <1>6, DoneGrows
    <2>2. \A s \in Stage : tasks'[s] # <<>> => wf.project /\ profile.ai
      BY DEF Inv, Rooted
    <2> QED BY <1>1, <2>1, <2>2 DEF Inv, Rooted
  <1>5. /\ Still /\ ~Solo => Still'
        /\ Still /\ (\A s \in Stage : PlanStill(tasks'[s], 0)) => Still'
    BY <1>1 DEF Still, PlanStill, Solo
  <1> QED BY <1>3, <1>4, <1>5, <1>6, Developed

LEMMA JobsRenewed ==
  ASSUME Inv, UNCHANGED <<profile, wf, batches, editing, upKey>>,
         jobs' = [s \in Segment |-> jobs'[s]],
         \A s \in Segment :
            \/ jobs'[s] = jobs[s]
            \/ /\ jobs[s] # <<>>
               /\ \E x : /\ UploadTurn(jobs[s], jobs'[s], x)
                         /\ Len(jobs'[s]) = Len(jobs[s]) /\ Leaf(jobs[s]).st # "draft" =>
                              x.st # "draft"
  PROVE  /\ DomainStep /\ JobsGrow
         /\ Still /\ (\A s \in Segment : JobStill(jobs'[s], wf.slots[s])) => Still'
  <1>1. /\ batches' = batches /\ plans' = plans /\ tasks' = tasks
        /\ UNCHANGED <<project, planKey, upKey>>
    BY DEF editing
  <1>2. \A s \in Segment : /\ UploadGrown(jobs[s], jobs'[s])
                           /\ jobs'[s] = <<>> <=> jobs[s] = <<>>
                           /\ \A k \in 1..Len(jobs[s]) :
                                jobs[s][k].st # "draft" => jobs'[s][k].st # "draft"
    <2>1. ASSUME NEW s \in Segment, jobs[s] # <<>>,
                 NEW x, UploadTurn(jobs[s], jobs'[s], x),
                 Len(jobs'[s]) = Len(jobs[s]) /\ Leaf(jobs[s]).st # "draft" => x.st # "draft"
          PROVE  /\ UploadGrown(jobs[s], jobs'[s])
                 /\ jobs'[s] = <<>> <=> jobs[s] = <<>>
                 /\ \A k \in 1..Len(jobs[s]) :
                      jobs[s][k].st # "draft" => jobs'[s][k].st # "draft"
      BY <2>1, InvParts, UploadTurned
    <2>2. ASSUME NEW s \in Segment, jobs'[s] = jobs[s]
          PROVE  UploadGrown(jobs[s], jobs'[s])
      BY <2>2, InvParts, UploadSame
    <2> QED BY <2>1, <2>2
  <1>3. JobsGrow
    <2>1. \A s \in Segment : jobs'[s] \in Seq(UploadObject)
      BY <1>2 DEF UploadGrown
    <2> QED BY <1>2, <2>1 DEF JobsGrow
  <1>4. BatchesGrow /\ KeysGrow /\ PlansGrow /\ TasksGrow
    BY <1>1, SameParts
  <1>5. Rooted' /\ DraftsStay
    BY <1>1, <1>2, <1>4, RootedKept DEF DraftsStay
  <1>6. Still /\ (\A s \in Segment : JobStill(jobs'[s], wf.slots[s])) => Still'
    BY <1>1 DEF Still, JobStill
  <1> QED BY <1>3, <1>4, <1>5, <1>6, Developed

LEMMA DraftObjects ==
  /\ UploadDraft \in UploadObject /\ UploadDraft.st = "draft" /\ UploadDraft.by = "none"
  /\ Draft \in EditObject /\ Draft.st = "review" /\ Draft.by = "none" /\ Draft.tl = "none"
  /\ Draft.code = "review"
  BY DEF UploadDraft, Draft, New, UploadObject, EditObject, Codings, Confirmers

LEMMA RetryUploadsKeeps ==
  ASSUME Inv, NEW p \in Procs, RetryUploads(p)
  PROVE  Inv'
  <1>1. PICK o \in OpRecord : o = op[p]
    BY OpKnows
  <1>2. PICK r \in Row : r = o.rec
    BY <1>1, OpKnows
  <1>3. PICK js : js = AfterRetry(p)
    OBVIOUS
  <1>4. PICK d, c : d = UploadView(js).disposition /\ c = UploadView(js).code
    OBVIOUS
  <1>5. PICK m : m = WithJobs(r, js)
    OBVIOUS
  <1>6. /\ o.pc = "retry_uploads" /\ op[p].pc \in Working /\ Rec(p) = r /\ jobs' = js
        /\ Synced(p, js) = m /\ UNCHANGED <<profile, wf, batches, editing, upKey, budget>>
    BY <1>1, <1>2, <1>3, <1>5 DEF RetryUploads, At, Rec, Working, Pcs, Synced, WithJobs
  <1>7. /\ Good(r) /\ DomainTypes /\ Prepared(r) /\ r.outputs
        /\ r.state \in {"awaiting_upload_confirmation", "uploading", "attention_required"}
        /\ \A s \in Segment : r.slots[s] \in Nat /\ r.slots[s] # 0 /\ r.slots[s] <= Len(jobs[s])
        /\ \A s \in Segment : jobs[s] # <<>>
    BY <1>1, <1>2, <1>6, UploadsStand
  <1>8. /\ js = [s \in Segment |-> js[s]]
        /\ \A s \in Segment : \/ js[s] = jobs[s]
                              \/ /\ Leaf(jobs[s]).st \in Settled
                                 /\ js[s] = Append(jobs[s], UploadDraft)
    <2>1. js = jobs \/ js = Retried
      BY <1>3 DEF AfterRetry
    <2>2. CASE js = jobs
      BY <2>2, InvParts
    <2>3. CASE js = Retried
      BY <2>3 DEF Retried, Ended, Settled
    <2> QED BY <2>1, <2>2, <2>3
  <1>9. ASSUME NEW s \in Segment, Leaf(jobs[s]).st \in Settled, js[s] = Append(jobs[s], UploadDraft)
        PROVE  /\ UploadTurn(jobs[s], js[s], UploadDraft)
               /\ Len(js[s]) = Len(jobs[s]) + 1
               /\ JobStill(jobs[s], wf.slots[s]) => JobStill(js[s], wf.slots[s])
    <2>1. PICK x \in UploadObject : x = UploadDraft
      BY DraftObjects
    <2>2. x.st = "draft" /\ x.by = "none"
      BY <2>1, DraftObjects
    <2>3. Newer(UploadObject, jobs[s], js[s], x) /\ Len(js[s]) = Len(jobs[s]) + 1
      BY <1>9, <2>1, InvParts, LeafAdded
    <2>4. jobs[s] \in Seq(UploadObject) /\ Lineage(jobs[s]) /\ Len(jobs[s]) \in Nat
      BY InvParts
    <2>5. UploadTurn(jobs[s], js[s], x)
      BY <2>2, <2>3, <2>4 DEF UploadTurn
    <2>6. wf.slots[s] \in Nat /\ wf.slots[s] <= Len(jobs[s])
      BY InvParts DEF Good, Backed, Row
    <2>7. ~(Len(js[s]) <= wf.slots[s])
      BY <2>3, <2>4, <2>6
    <2>8. JobStill(jobs[s], wf.slots[s]) => JobStill(js[s], wf.slots[s])
      BY <2>2, <2>3, <2>4, <2>7, JobStilled DEF Live, Running
    <2> QED BY <2>1, <2>3, <2>5, <2>8
  <1>10. /\ DomainStep /\ JobsGrow
         /\ Still /\ (\A s \in Segment : JobStill(jobs'[s], wf.slots[s])) => Still'
    <2>1. \A s \in Segment :
            \/ jobs'[s] = jobs[s]
            \/ /\ jobs[s] # <<>>
               /\ \E x : /\ UploadTurn(jobs[s], jobs'[s], x)
                         /\ Len(jobs'[s]) = Len(jobs[s]) /\ Leaf(jobs[s]).st # "draft" =>
                              x.st # "draft"
      <3>1. ASSUME NEW s \in Segment, jobs'[s] # jobs[s]
            PROVE  /\ UploadTurn(jobs[s], jobs'[s], UploadDraft)
                   /\ Len(jobs'[s]) # Len(jobs[s])
        <4>1. /\ UploadTurn(jobs[s], js[s], UploadDraft)
              /\ Len(js[s]) = Len(jobs[s]) + 1 /\ Len(jobs[s]) \in Nat
          BY <1>6, <1>8, <1>9, <3>1, InvParts
        <4> QED BY <1>6, <4>1
      <3> QED BY <1>7, <3>1
    <2> QED BY <1>6, <1>8, <2>1, JobsRenewed
  <1>11. Spares
    <2>1. Still => \A s \in Segment : JobStill(jobs'[s], wf.slots[s])
      BY <1>6, <1>8, <1>9, StillParts
    <2> QED BY <1>10, <2>1 DEF Spares
  <1>12. /\ js \in [Segment -> Seq(UploadObject)] /\ \A s \in Segment : js[s] # <<>>
         /\ \A s \in Segment : r.slots[s] <= Len(js[s])
    <2>1. js \in [Segment -> Seq(UploadObject)]
      BY <1>6, <1>10 DEF JobsGrow
    <2>2. ASSUME NEW s \in Segment
          PROVE  js[s] # <<>> /\ r.slots[s] <= Len(js[s])
      <3>1. Len(jobs[s]) <= Len(js[s]) /\ Len(jobs[s]) \in Nat /\ Len(js[s]) \in Nat
        BY <1>6, <1>10, <2>1, InvParts DEF JobsGrow, UploadGrown
      <3>2. r.slots[s] \in Nat /\ r.slots[s] # 0 /\ r.slots[s] <= Len(jobs[s])
        BY <1>7
      <3>3. r.slots[s] <= Len(js[s]) /\ Len(js[s]) # 0
        BY <3>1, <3>2
      <3> QED BY <3>3
    <2> QED BY <2>1, <2>2
  <1>13. Good(r)'
    BY <1>7, <1>10, GoodKept DEF DomainStep
  <1>14. /\ m \in Row /\ m.state = r.state /\ m.code = r.code /\ Below(r, m)
         /\ m.outputs /\ Prepared(m) /\ m.slots = Leaves(js) /\ Good(m)'
         /\ r.slots = Leaves(js) => m = r
    BY <1>5, <1>6, <1>7, <1>12, <1>13, SyncedGood
  <1>15. /\ d \in {"attention", "ready", "active", "confirm"}
         /\ d = "attention" => c \in {"unknown", "failed"}
         /\ d = "ready" => \A s \in Segment : Leaf(js[s]).st = "submitted"
    BY <1>4, <1>12, UploadViewed
  <1>16. \E st \in {"awaiting_upload_confirmation", "uploading", "attention_required", "completed"},
            c1 \in {"", "retry", "unknown", "failed", "conflict", "done"} :
              /\ st = "completed" => c1 = "done" /\ d = "ready"
              /\ Then(p, SyncThen(p, js, <<Move(Moved(m, st, c1))>>), "idle")
    <2> DEFINE B(moved) == Then(p, SyncThen(p, js, <<Move(moved)>>), "idle")
    <2>1. B(CASE d = "ready" -> Completed(m)
              [] d = "active" -> Moved(m, "uploading", "")
              [] d = "confirm" /\ c = "retry" -> Moved(m, "awaiting_upload_confirmation", "retry")
              [] d = "attention" -> Attention(m, c)
              [] OTHER -> Attention(m, "conflict"))
      BY <1>3, <1>4, <1>6 DEF RetryUploads
    <2>2. /\ Completed(m) = Moved(m, "completed", "done")
          /\ \A x : Attention(m, x) = Moved(m, "attention_required", x)
      BY DEF Completed, Attention
    <2> HIDE DEF B
    <2>3. CASE d = "ready"
      <3>1. B(Moved(m, "completed", "done"))
        BY <2>1, <2>2, <2>3
      <3> QED BY <2>3, <3>1 DEF B
    <2>4. CASE d = "active"
      <3>1. B(Moved(m, "uploading", ""))
        BY <2>1, <2>4
      <3> QED BY <3>1 DEF B
    <2>5. CASE d = "attention"
      <3>1. B(Moved(m, "attention_required", c))
        BY <2>1, <2>2, <2>5
      <3> QED BY <1>15, <2>5, <3>1 DEF B
    <2>6. CASE d = "confirm" /\ c = "retry"
      <3>1. B(Moved(m, "awaiting_upload_confirmation", "retry"))
        BY <2>1, <2>6
      <3> QED BY <3>1 DEF B
    <2>7. CASE d = "confirm" /\ c # "retry"
      <3>1. B(Moved(m, "attention_required", "conflict"))
        BY <2>1, <2>2, <2>7
      <3> QED BY <3>1 DEF B
    <2> QED BY <1>15, <2>3, <2>4, <2>5, <2>6, <2>7
  <1>17. PICK st \in {"awaiting_upload_confirmation", "uploading", "attention_required", "completed"},
              c1 \in {"", "retry", "unknown", "failed", "conflict", "done"} :
                /\ st = "completed" => c1 = "done" /\ d = "ready"
                /\ Then(p, SyncThen(p, js, <<Move(Moved(m, st, c1))>>), "idle")
    BY <1>16
  <1>18. StandsAt(m, st, c1)' /\ Ready(o, "idle", Moved(m, st, c1))'
    BY <1>14, <1>17 DEF StandsAt, Ends, Ready, Working
  <1>19. /\ st \in ActiveStates \cup {"attention_required", "completed"} /\ st # "downloading"
         /\ c1 \in Codes /\ "idle" \in Nexts \ {"create_batch"}
    BY DEF ActiveStates, Codes, Nexts
  <1>20. st = "completed" => AllDone'
    BY <1>6, <1>12, <1>15, <1>17 DEF AllDone
  <1> QED BY <1>1, <1>2, <1>5, <1>6, <1>10, <1>11, <1>14, <1>17, <1>18, <1>19, <1>20, SyncMoves

-----------------------------------------------------------------------------
LEMMA BatchesRenewed ==
  ASSUME Inv, UNCHANGED <<profile, wf, editing, uploads>>, BatchesGrow
  PROVE  /\ DomainStep
         /\ Still /\ ~Solo => Still'
         /\ Still /\ (\A b \in DOMAIN batches' : batches'[b] \notin Live) => Still'
  <1>1. UNCHANGED <<project, planKey, plans, tasks, upKey, jobs>>
    BY DEF editing, uploads
  <1>2. KeysGrow /\ PlansGrow /\ TasksGrow /\ JobsGrow /\ DraftsStay
    BY <1>1, SameParts
  <1>3. Rooted'
    BY <1>1, <1>2, RootedKept
  <1>4. /\ Still /\ ~Solo => Still'
        /\ Still /\ (\A b \in DOMAIN batches' : batches'[b] \notin Live) => Still'
    BY <1>1 DEF Still, Solo
  <1> QED BY <1>2, <1>3, <1>4, Developed

LEMMA KeysRenewed ==
  ASSUME Inv, UNCHANGED <<profile, wf, batches, plans, tasks, uploads>>,
         project' \in Key, planKey' \in Key,
         project = "made" => project' = "made",
         project # "none" => project' # "none",
         planKey # "none" => planKey' # "none",
         planKey = "made" <=> planKey' = "made"
  PROVE  DomainStep /\ (Still => Still')
  <1>1. batches' = batches /\ plans' = plans /\ tasks' = tasks /\ upKey' = upKey /\ jobs' = jobs
    BY DEF uploads
  <1>2. BatchesGrow /\ PlansGrow /\ TasksGrow /\ JobsGrow /\ DraftsStay
    BY <1>1, SameParts
  <1>3. KeysGrow
    BY <1>1, InvParts DEF KeysGrow
  <1>4. Rooted'
    <2>1. AIDone => AIDone'
      BY <1>2, DoneGrows
    <2> QED BY <1>1, <2>1 DEF Inv, Rooted
  <1>5. Still => Still'
    BY <1>1 DEF Still
  <1> QED BY <1>2, <1>3, <1>4, <1>5, Developed

LEMMA CreateBatchKeeps ==
  ASSUME Inv, NEW p \in Procs, CreateBatch(p)
  PROVE  Inv'
  <1>1. PICK o \in OpRecord : o = op[p]
    BY OpKnows
  <1>2. PICK r \in Row : r = o.rec
    BY <1>1, OpKnows
  <1>3. PICK b : b = Len(batches) + 1
    OBVIOUS
  <1>4. /\ o.pc = "create_batch" /\ op[p].pc \in Working /\ b \in 1..2
        /\ batches' = Append(batches, "queued") /\ UNCHANGED <<profile, wf, editing, uploads>>
        /\ Then(p, WithBatch(r, b), "read")
    BY <1>1, <1>2, <1>3, InvParts DEF CreateBatch, At, Rec, Working, Pcs
  <1>5. Good(r) /\ Ready(o, "create_batch", r) /\ DomainTypes
    BY <1>1, <1>2, <1>4, OpKnows DEF OpFit
  <1>6. BatchesGrow /\ b <= Len(batches')
    <2>1. /\ batches \in Seq(Batch) /\ "queued" \in Batch
          /\ Solo => batches = <<>>
      BY <1>1, <1>4, InvParts DEF Batch, Inv, Alone
    <2>2. /\ batches' \in Seq(Batch) /\ Len(batches') = b
          /\ \A i \in 1..Len(batches) : batches'[i] = batches[i]
      BY <1>3, <1>4, <2>1, AppendProperties
    <2>3. Solo => b = 1
      BY <1>3, <2>1
    <2> QED BY <1>3, <1>4, <2>1, <2>2, <2>3 DEF BatchesGrow
  <1>7. DomainStep /\ Spares
    BY <1>4, <1>6, BatchesRenewed DEF Spares
  <1>8. Good(r)'
    BY <1>5, <1>7, GoodKept DEF DomainStep
  <1>9. PICK m : m = [r EXCEPT !.batch = b]
    OBVIOUS
  <1>10. /\ Good(m)' /\ m.state = r.state /\ m.code = r.code /\ Below(r, m) /\ m.batch = b
         /\ ~m.project
         /\ WithBatch(r, b) = <<Refs(m), Move(Moved(m, "downloading", ""))>>
    <2>1. r.state = "created" /\ r.batch \in {0, b}
      BY <1>5 DEF Ready
    <2> QED BY <1>4, <1>6, <1>8, <1>9, <2>1, BatchRecord
  <1>11. StandsAt(m, "downloading", "")'
    BY <1>10 DEF StandsAt, Ends
  <1>12. Then(p, <<Refs(m), Move(Moved(m, "downloading", ""))>>, "read")
    BY <1>4, <1>10, Zenon
  <1>13. /\ "downloading" \in ActiveStates /\ "" \in Codes /\ "read" \in Nexts \ {"create_batch"}
         /\ Ready(o, "read", Moved(m, "downloading", ""))'
    BY DEF ActiveStates, Codes, Nexts, Ready, Working
  <1>14. m.batch # 0
    <2>1. m.batch = b
      BY <1>10
    <2>2. b # 0
      BY <1>4
    <2> QED BY <2>1, <2>2
  <1> QED BY <1>1, <1>2, <1>4, <1>7, <1>10, <1>11, <1>12, <1>13, <1>14, RecordActed

LEMMA ProjectRecord ==
  ASSUME NEW r \in Row, Good(r)', r.asset, Titled(r)', r.code # "metadata", project' = "made",
         NEW m, m = [r EXCEPT !.project = TRUE], r.state # "downloading"
  PROVE  /\ Good(m)' /\ m.state = r.state /\ m.code = r.code /\ Below(r, m) /\ m.project
         /\ m.plan = r.plan /\ m.outputs = r.outputs
  <1>1. /\ m.state = r.state /\ m.code = r.code /\ m.batch = r.batch /\ m.asset = r.asset
        /\ m.resolved = r.resolved /\ m.project /\ m.plan = r.plan
        /\ m.outputs = r.outputs /\ m.slots = r.slots /\ m \in Row
    BY DEF Row
  <1>2. Ladder(m)' /\ Stands(m)' /\ Backed(m)'
    BY <1>1 DEF Good, Ladder, Stands, StandsAt, Backed, Fenced, HasJobs, Prepared, Titled
  <1>3. Below(r, m)
    BY <1>1, BelowSame DEF Below
  <1> QED BY <1>1, <1>2, <1>3 DEF Good

LEMMA CreateProjectKeeps ==
  ASSUME Inv, NEW p \in Procs, CreateProject(p)
  PROVE  Inv'
  <1>1. PICK o \in OpRecord : o = op[p]
    BY OpKnows
  <1>2. PICK r \in Row : r = o.rec
    BY <1>1, OpKnows
  <1>3. PICK m : m = [r EXCEPT !.project = TRUE]
    OBVIOUS
  <1>4. /\ o.pc = "call" /\ op[p].pc \in Working /\ r.state = "preparing_edit"
        /\ UNCHANGED <<profile, wf, batches, planKey, plans, tasks, uploads>>
        /\ \/ Raise(p) /\ project' = project
           \/ /\ project' = "made" /\ profile.ai
              /\ Then(p, <<Refs(m), Move(Moved(m, "awaiting_ai_review", ""))>>, "read")
           \/ project' = "made" /\ ~profile.ai /\ Then(p, <<>>, "create_plan")
    BY <1>1, <1>2, <1>3 DEF CreateProject, Advancing, At, Rec, Working, Pcs
  <1>5. /\ Good(r) /\ DomainTypes /\ r.asset /\ Titled(r) /\ r.plan <= 1 /\ ~r.outputs
        /\ r.code # "metadata"
    BY <1>1, <1>2, <1>4, OpKnows DEF Good, Stands, StandsAt
  <1>6. CASE Raise(p) /\ project' = project
    BY <1>4, <1>6, RaisedAlone DEF domains, editing
  <1>7. CASE project' = "made"
    <2>1. DomainStep /\ Spares
      <3>1. project' \in Key /\ planKey' = planKey /\ planKey' \in Key
        BY <1>4, <1>7, InvParts DEF Key
      <3> QED BY <1>4, <1>7, <3>1, KeysRenewed DEF Spares
    <2>2. Good(r)' /\ Titled(r)'
      BY <1>4, <1>5, <2>1, GoodKept DEF DomainStep, Titled
    <2>3. CASE /\ profile.ai
               /\ Then(p, <<Refs(m), Move(Moved(m, "awaiting_ai_review", ""))>>, "read")
      <3>1. /\ Good(m)' /\ m.state = r.state /\ m.code = r.code /\ Below(r, m) /\ m.project
            /\ m.plan = r.plan /\ m.outputs = r.outputs
        BY <1>3, <1>4, <1>5, <1>7, <2>2, ProjectRecord
      <3>2. StandsAt(m, "awaiting_ai_review", "")'
        BY <1>4, <1>5, <2>3, <3>1 DEF StandsAt, Ends
      <3>3. /\ "awaiting_ai_review" \in ActiveStates /\ "" \in Codes
            /\ "read" \in Nexts \ {"create_batch"}
            /\ Ready(o, "read", Moved(m, "awaiting_ai_review", ""))'
        BY DEF ActiveStates, Codes, Nexts, Ready, Working
      <3> QED BY <1>1, <1>2, <1>4, <2>1, <2>3, <3>1, <3>2, <3>3, RecordActed
    <2>4. CASE ~profile.ai /\ Then(p, <<>>, "create_plan")
      <3>1. Ready(o, "create_plan", r)'
        BY <1>4, <1>5, <1>7, <2>2, <2>4 DEF Ready, Ends
      <3> QED BY <1>1, <1>2, <1>4, <2>1, <2>4, <3>1, GoneActed DEF Nexts
    <2>5. CASE Raise(p)
      BY <1>4, <2>1, <2>5, Raised
    <2> QED BY <1>4, <2>3, <2>4, <2>5
  <1> QED BY <1>4, <1>6, <1>7

LEMMA PlanRecord ==
  ASSUME NEW r \in Row, Good(r)', r.asset, Titled(r)', r.code # "metadata", project' = "made",
         r.plan <= 1, ~r.outputs, r.state \in {"preparing_edit", "awaiting_ai_review", "attention_required"},
         planKey' = "made", Len(plans') \in Nat, Len(plans') >= 1,
         NEW m, m = [r EXCEPT !.project = TRUE, !.plan = 1]
  PROVE  /\ Good(m)' /\ m.state = r.state /\ m.code = r.code /\ Below(r, m) /\ m.project
         /\ m.plan = 1 /\ ~HasJobs(m)
  <1>1. /\ m.state = r.state /\ m.code = r.code /\ m.batch = r.batch /\ m.asset = r.asset
        /\ m.resolved = r.resolved /\ m.project /\ m.plan = 1
        /\ m.outputs = r.outputs /\ m.slots = r.slots /\ m \in Row
    BY DEF Row
  <1>2. ~HasJobs(r)
    BY DEF Good, Ladder, HasJobs
  <1>3. Ladder(m)' /\ Stands(m)'
    BY <1>1, <1>2 DEF Good, Ladder, Stands, StandsAt, HasJobs, Prepared, Titled, Ends
  <1>4. Backed(m)'
    BY <1>1 DEF Good, Backed
  <1>5. Below(r, m)
    BY <1>1, BelowSame DEF Below
  <1> QED BY <1>1, <1>2, <1>3, <1>4, <1>5 DEF Good, HasJobs

LEMMA CreatePlanKeeps ==
  ASSUME Inv, NEW p \in Procs, CreatePlan(p)
  PROVE  Inv'
  <1>1. PICK o \in OpRecord : o = op[p]
    BY OpKnows
  <1>2. PICK r \in Row : r = o.rec
    BY <1>1, OpKnows
  <1>3. PICK m : m = [r EXCEPT !.project = TRUE, !.plan = 1]
    OBVIOUS
  <1>4. /\ o.pc = "create_plan" /\ op[p].pc \in Working
        /\ UNCHANGED <<profile, wf, batches, project, tasks, uploads>>
        /\ \/ Raise(p) /\ UNCHANGED <<planKey, plans>>
           \/ /\ planKey' = "made" /\ plans' = IF plans = <<>> THEN <<Draft>> ELSE plans
              /\ Then(p, <<Refs(m), Move(Moved(m, "awaiting_edit_confirmation", ""))>>, "read")
    BY <1>1, <1>2, <1>3 DEF CreatePlan, At, Rec, Working, Pcs
  <1>5. /\ Good(r) /\ DomainTypes /\ Ready(o, "create_plan", r) /\ Below(r, wf)
    BY <1>1, <1>2, <1>4, OpKnows DEF OpFit
  <1>6. CASE Raise(p) /\ UNCHANGED <<planKey, plans>>
    BY <1>4, <1>6, RaisedAlone DEF domains, editing
  <1>7. CASE /\ planKey' = "made" /\ plans' = IF plans = <<>> THEN <<Draft>> ELSE plans
             /\ Then(p, <<Refs(m), Move(Moved(m, "awaiting_edit_confirmation", ""))>>, "read")
    <2>1. /\ batches' = batches /\ tasks' = tasks /\ upKey' = upKey /\ jobs' = jobs
          /\ project' = project
      BY <1>4 DEF uploads
    <2>2. /\ PlansGrow /\ plans' # <<>> /\ Len(plans') \in Nat /\ Len(plans') >= 1
          /\ Still => PlanStill(plans', wf.plan)
      <3>1. CASE plans = <<>>
        <4>1. PICK x \in EditObject : x = Draft
          BY DraftObjects
        <4>2. x.st = "review" /\ x.by = "none" /\ x.tl = "none" /\ x.code = "review"
          BY <4>1, DraftObjects
        <4>3. plans' = Append(plans, x)
          <5>1. plans' = <<x>>
            BY <1>7, <3>1, <4>1
          <5>2. Append(<<>>, x) = <<x>>
            OBVIOUS
          <5> QED BY <3>1, <5>1, <5>2, Zenon
        <4>4. Newer(EditObject, plans, plans', x) /\ Len(plans') = Len(plans) + 1
          BY <3>1, <4>3, InvParts, LeafAdded
        <4>5. Len(plans) = 0
          BY <3>1
        <4>6. EditTurn(plans, plans', x)
          BY <4>2, <4>4, <4>5 DEF EditTurn
        <4>7. wf.plan <= Len(plans) /\ wf.plan \in Nat
          BY InvParts DEF Good, Backed, Row
        <4>9. ~(Len(plans') <= wf.plan)
          BY <4>4, <4>5, <4>7
        <4>8. Still => PlanStill(plans', wf.plan)
          BY <4>2, <4>4, <4>9, InvParts, PlanStilled, StillParts DEF Live, Running
        <4>10. EditGrown(plans, plans') /\ plans' # <<>>
          BY <4>6, InvParts, EditTurned
        <4>11. Len(plans') = 1
          BY <4>4, <4>5
        <4> QED BY <4>8, <4>10, <4>11 DEF PlansGrow
      <3>2. CASE plans # <<>>
        <4>1. plans' = plans
          BY <1>7, <3>2
        <4>2. Len(plans) \in Nat /\ Len(plans) # 0
          BY <3>2, InvParts, EmptySeq
        <4> QED BY <3>2, <4>1, <4>2, SameParts, StillParts
      <3> QED BY <3>1, <3>2
    <2>3. BatchesGrow /\ TasksGrow /\ JobsGrow /\ DraftsStay
      BY <2>1, SameParts
    <2>4. KeysGrow
      BY <1>7, <2>1, InvParts DEF KeysGrow, Key
    <2>5. Rooted'
      <3>1. AIDone => AIDone'
        BY <2>3, DoneGrows
      <3>2. project = "made" /\ wf.asset /\ (profile.ai => AIDone)
        BY <1>5 DEF Ready, Below
      <3> QED BY <1>4, <1>7, <2>1, <2>2, <3>1, <3>2 DEF Inv, Rooted
    <2>6. DomainStep
      BY <1>4, <2>2, <2>3, <2>4, <2>5, Developed
    <2>7. Spares
      BY <1>4, <2>1, <2>2 DEF Spares, Still, PlanStill
    <2>8. Good(r)' /\ Titled(r)'
      BY <1>4, <1>5, <2>6, GoodKept DEF DomainStep, Titled, Ready
    <2>9. /\ Good(m)' /\ m.state = r.state /\ m.code = r.code /\ Below(r, m) /\ m.project
          /\ m.plan = 1 /\ ~HasJobs(m)
      <3>1. /\ r.asset /\ r.code # "metadata" /\ project' = "made" /\ r.plan <= 1 /\ ~r.outputs
            /\ r.state \in {"preparing_edit", "awaiting_ai_review", "attention_required"}
        BY <1>5, <2>1 DEF Ready
      <3> QED BY <1>3, <1>7, <2>2, <2>8, <3>1, PlanRecord
    <2>10. StandsAt(m, "awaiting_edit_confirmation", "")'
      BY <2>9 DEF StandsAt, Ends, HasJobs
    <2>11. /\ "awaiting_edit_confirmation" \in ActiveStates /\ "" \in Codes
           /\ "read" \in Nexts \ {"create_batch"}
           /\ Ready(o, "read", Moved(m, "awaiting_edit_confirmation", ""))'
      BY DEF ActiveStates, Codes, Nexts, Ready, Working
    <2> QED BY <1>1, <1>2, <1>4, <1>7, <2>6, <2>7, <2>9, <2>10, <2>11, RecordActed
  <1> QED BY <1>4, <1>6, <1>7

-----------------------------------------------------------------------------
LEMMA LeastNumber ==
  ASSUME NEW T \in SUBSET Nat, T # {}
  PROVE  \E x \in T : \A y \in T : x <= y
  <1> DEFINE Less == {ss \in Nat \X Nat : ss[1] < ss[2]}
  <1>1. IsWellFoundedOn(Less, Nat)
    BY NatLessThanWellFounded DEF OpToRel
  <1>2. \E x \in T : \A y \in T : <<y, x>> \notin Less
    <2> HIDE DEF Less
    <2> QED BY <1>1, WFMin
  <1>3. \A x, y \in T : <<y, x>> \notin Less => x <= y
    OBVIOUS
  <1> QED BY <1>2, <1>3

\* The stage whose task comes next, and the segment that comes next
LEMMA CurrentStage ==
  ~AIDone => /\ Current \in Stage /\ ~Approved(Current)
             /\ \A t \in Stage : t < Current => Approved(t)
  <1> SUFFICES ASSUME ~AIDone
               PROVE  \E s \in Stage : ~Approved(s) /\ \A t \in Stage : t < s => Approved(t)
    BY Zenon DEF Current
  <1>1. PICK T : T = {s \in Stage : ~Approved(s)}
    OBVIOUS
  <1>2. T \in SUBSET Nat /\ T # {}
    BY <1>1 DEF Stage, AIDone
  <1>3. PICK x \in T : \A y \in T : x <= y
    BY <1>2, LeastNumber
  <1>4. \A t \in Stage : t < x => t \notin T
    BY <1>2, <1>3 DEF Stage
  <1> QED BY <1>1, <1>3, <1>4

LEMMA PendingSegment ==
  ASSUME NEW r \in Row, ~Prepared(r)
  PROVE  /\ Pending(r) \in Segment /\ r.slots[Pending(r)] = 0
         /\ \A t \in Segment : t < Pending(r) => r.slots[t] # 0
  <1> SUFFICES \E s \in Segment : r.slots[s] = 0 /\ \A t \in Segment : t < s => r.slots[t] # 0
    BY Zenon DEF Pending
  <1>1. PICK T : T = {s \in Segment : r.slots[s] = 0}
    OBVIOUS
  <1>2. T \in SUBSET Nat /\ T # {}
    BY <1>1 DEF Segment, Prepared
  <1>3. PICK x \in T : \A y \in T : x <= y
    BY <1>2, LeastNumber
  <1>4. \A t \in Segment : t < x => t \notin T
    BY <1>2, <1>3 DEF Segment
  <1> QED BY <1>1, <1>3, <1>4

\* The task of one stage goes on.
LEMMA TaskTurned ==
  ASSUME Inv, UNCHANGED <<profile, wf, batches, project, planKey, plans, uploads>>,
         NEW s \in Stage, NEW m, NEW x, EditTurn(tasks[s], m, x),
         tasks' = [tasks EXCEPT ![s] = m],
         tasks[s] # <<>> \/ (wf.project /\ profile.ai)
  PROVE  /\ DomainStep
         /\ Still /\ (Solo => (x.st \in Live => x.by = "late")) => Still'
  <1>1. tasks \in [Stage -> Seq(EditObject)]
    BY InvParts
  <1>2. /\ DOMAIN tasks' = Stage /\ tasks' = [t \in Stage |-> tasks'[t]]
        /\ tasks'[s] = m /\ \A t \in Stage \ {s} : tasks'[t] = tasks[t]
    BY <1>1
  <1>3. \A t \in Stage : \/ tasks'[t] = tasks[t]
                         \/ /\ tasks[t] # <<>> \/ (wf.project /\ profile.ai)
                            /\ \E y : EditTurn(tasks[t], tasks'[t], y)
    BY <1>2
  <1>4. /\ DomainStep /\ (Still /\ ~Solo => Still')
        /\ Still /\ (\A t \in Stage : PlanStill(tasks'[t], 0)) => Still'
    BY <1>2, <1>3, TasksRenewed
  <1>5. ASSUME Still, Solo, x.st \in Live => x.by = "late", NEW t \in Stage
        PROVE  PlanStill(tasks'[t], 0)
    <2>1. PlanStill(tasks[t], 0)
      BY <1>1, <1>5 DEF Still, PlanStill
    <2>2. CASE t = s
      <3>1. tasks[s] \in Seq(EditObject) /\ Lineage(tasks[s]) /\ Newer(EditObject, tasks[s], m, x)
        BY InvParts DEF EditTurn
      <3>2. Len(m) \in Nat /\ Len(m) # 0
        BY <3>1, EmptySeq DEF Newer
      <3>3. ~(Len(m) <= 0)
        BY <3>2
      <3>4. PlanStill(m, 0)
        BY <1>5, <2>1, <2>2, <3>1, <3>3, PlanStilled
      <3> QED BY <1>2, <2>2, <3>4
    <2>3. CASE t # s
      BY <1>2, <2>1, <2>3
    <2> QED BY <2>2, <2>3
  <1> QED BY <1>4, <1>5

\* advance_ai goes on with its next task, with or without its authorization.
LEMMA AIGoesOn ==
  ASSUME Inv, NEW p \in Procs, op[p].pc = "ai", NEW a \in OpRecord,
         a = op[p] \/ a = [op[p] EXCEPT !.auth = FALSE],
         op' = [op EXCEPT ![p] = a], wf' = wf, DomainStep, Spares
  PROVE  Inv'
  <1>1. PICK o \in OpRecord : o = op[p]
    BY OpKnows
  <1>2. OpFit(o) /\ o.pc = "ai" /\ o.pc \in Working /\ wf \in Row /\ DomainTypes
    BY <1>1, OpKnows DEF Working, Pcs
  <1>3. OpFit(o)'
    BY <1>2, FitKept, BelowSame DEF DomainStep
  <1>4. /\ a.pc = o.pc /\ a.rec = o.rec /\ a.fresh = o.fresh /\ a.todo = o.todo
        /\ a.call = o.call /\ (a.auth => o.auth)
    BY <1>1 DEF OpRecord
  <1>5. Ready(a, "ai", a.rec)'
    BY <1>2, <1>3, <1>4 DEF OpFit, Ready
  <1>6. OpFit(a)'
    BY <1>2, <1>3, <1>4, <1>5 DEF OpFit
  <1>7. ~Stopping(a) /\ a.pc # "create_batch"
    BY <1>2, <1>4 DEF Stopping
  <1>8. Solo => a.fresh
    BY <1>1, <1>2, <1>4 DEF Inv, Alone
  <1>9. ~Solo /\ Still /\ (wf.state = "canceled" \/ wf.code = "cancel") => Still'
    BY DEF Spares
  <1> QED BY <1>1, <1>2, <1>6, <1>7, <1>8, <1>9, Composed

\* A task that waits leaves the workflow in the AI review.
LEMMA AIWaited ==
  ASSUME Inv, NEW p \in Procs, op[p].pc = "ai", NEW c \in {"", "review", "restart", "retry"},
         AIWaits(p, c), UNCHANGED <<profile, wf, domains>>
  PROVE  Inv'
  <1>1. PICK o \in OpRecord : o = op[p]
    BY OpKnows
  <1>2. PICK next \in {"idle", "read"} :
          Then(p, <<Move(Moved(o.rec, "awaiting_ai_review", c))>>, next)
    <2>1. PICK next : /\ next \in {"idle", "read"}
                      /\ next = IF Rec(p).state = "awaiting_ai_review" /\ op[p].call = "advance"
                                THEN "idle" ELSE "read"
      OBVIOUS
    <2> QED BY <1>1, <2>1 DEF AIWaits, Rec
  <1>3. op[p].pc \in Working /\ Ready(o, "ai", o.rec)
    BY <1>1, OpKnows DEF OpFit, Working, Pcs
  <1>4. StandsAt(o.rec, "awaiting_ai_review", c)
    BY <1>3 DEF StandsAt, Ready, Ends
  <1>5. "awaiting_ai_review" \in ActiveStates /\ c \in Codes
    BY DEF ActiveStates, Codes
  <1> QED BY <1>1, <1>2, <1>3, <1>4, <1>5, MovedAlone

LEMMA AIFailed ==
  ASSUME Inv, NEW p \in Procs, op[p].pc = "ai", NEW c \in Codings,
         AIFails(p, c), UNCHANGED <<profile, wf, domains>>
  PROVE  Inv'
  <1>1. PICK o \in OpRecord : o = op[p]
    BY OpKnows
  <1>2. Then(p, <<Move(Moved(o.rec, "attention_required", c))>>, "idle")
    BY <1>1 DEF AIFails, Attention, Rec
  <1>3. op[p].pc \in Working /\ Ready(o, "ai", o.rec)
    BY <1>1, OpKnows DEF OpFit, Working, Pcs
  <1>4. StandsAt(o.rec, "attention_required", c)
    BY <1>3 DEF StandsAt, Ready, Ends, Codings
  <1>5. c \in Codes
    BY DEF Codings, Codes
  <1> QED BY <1>1, <1>2, <1>3, <1>4, <1>5, MovedAlone

LEMMA AdvanceTaskKeeps ==
  ASSUME Inv, NEW p \in Procs, AdvanceTask(p)
  PROVE  Inv'
  <1>1. PICK o \in OpRecord : o = op[p]
    BY OpKnows
  <1>2. PICK s \in Stage : s = Current
    BY CurrentStage DEF AdvanceTask
  <1>3. PICK l \in Seq(EditObject) : l = tasks[s]
    BY InvParts
  <1>4. PICK n : n = Len(l)
    OBVIOUS
  <1>5. PICK t : t = Leaf(l)
    OBVIOUS
  <1>6. PICK c : c = AICode(t, n, o.call = "confirm_ai")
    OBVIOUS
  <1>7. /\ op[p].pc = "ai" /\ Ready(o, "ai", o.rec) /\ Below(o.rec, wf) /\ DomainTypes
        /\ UNCHANGED <<profile, wf, batches, project, planKey, plans, uploads, budget>>
        /\ EditLineage(l) /\ n \in Nat
    <2>1. op[p].pc = "ai" /\ UNCHANGED <<profile, wf, batches, project, planKey, plans, uploads, budget>>
      BY DEF AdvanceTask, At
    <2>2. Ready(o, "ai", o.rec) /\ Below(o.rec, wf) /\ DomainTypes
      BY <1>1, <2>1, OpKnows DEF OpFit
    <2>3. EditLineage(l) /\ n \in Nat
      BY <1>3, <1>4, InvParts
    <2> QED BY <2>1, <2>2, <2>3
  <1>8. /\ wf.project /\ profile.ai
        /\ o.call \in {"advance", "confirm_ai"} /\ (o.auth /\ o.call = "advance" => profile.autoEdit)
        /\ By(p) = IF o.call = "advance" THEN "auto" ELSE "api"
    BY <1>1, <1>7 DEF Ready, Below, By
  <1>9. /\ c \in {"review", "restart", "retry"}
        /\ o.call = "advance" /\ n > 1 => c = "retry"
    BY <1>6, <1>8 DEF AICode
  <1>10. l # <<>> => t \in EditObject /\ n # 0 /\ t = l[n] /\ n \in DOMAIN l
    BY <1>4, <1>5, <1>7, EmptySeq DEF Leaf
  <1>11. \/ l = <<>> /\ tasks' = [tasks EXCEPT ![s] = <<Draft>>] /\ op' = op
         \/ /\ l # <<>> /\ t.st = "review" /\ o.auth /\ c # "retry"
            /\ tasks' = [tasks EXCEPT ![s] = WithLeaf(l, [t EXCEPT !.st = "queued", !.code = "", !.by = By(p)])]
            /\ op' = [op EXCEPT ![p].auth = FALSE]
         \/ AIWaits(p, c) /\ tasks' = tasks
         \/ AIWaits(p, "") /\ tasks' = tasks
         \/ l # <<>> /\ AIFails(p, t.code) /\ tasks' = tasks
         \/ /\ l # <<>> /\ t.st = "ready"
            /\ tasks' = [tasks EXCEPT ![s] = WithLeaf(l, [t EXCEPT !.tl = "approved"])]
            /\ op' = [op EXCEPT ![p].auth = FALSE]
         \/ AIWaits(p, "review") /\ tasks' = tasks
    <2>1. l = <<>> \/ t.st \in {"review", "queued", "running", "canceling", "ready", "failed", "canceled"}
      BY <1>10 DEF EditObject
    <2> PICK cf, ap : /\ cf = [t EXCEPT !.st = "queued", !.code = "", !.by = By(p)]
                      /\ ap = [t EXCEPT !.tl = "approved"]
      OBVIOUS
    <2>2. \/ l = <<>> /\ tasks' = [tasks EXCEPT ![s] = <<Draft>>] /\ op' = op
          \/ /\ l # <<>> /\ t.st = "review" /\ o.auth /\ c # "retry"
             /\ tasks' = [tasks EXCEPT ![s] = WithLeaf(@, cf)]
             /\ op' = [op EXCEPT ![p].auth = FALSE]
          \/ AIWaits(p, c) /\ tasks' = tasks
          \/ AIWaits(p, "") /\ tasks' = tasks
          \/ l # <<>> /\ AIFails(p, t.code) /\ tasks' = tasks
          \/ /\ l # <<>> /\ t.st = "ready"
             /\ tasks' = [tasks EXCEPT ![s] = WithLeaf(@, ap)]
             /\ op' = [op EXCEPT ![p].auth = FALSE]
          \/ AIWaits(p, "review") /\ tasks' = tasks
      BY <1>1, <1>2, <1>3, <1>4, <1>5, <1>6, <2>1 DEF AdvanceTask, Live, Running
    <2> QED BY <1>3, <2>2
  <1>12. ASSUME NEW m, NEW x, EditTurn(l, m, x), tasks' = [tasks EXCEPT ![s] = m],
                op' = op \/ op' = [op EXCEPT ![p].auth = FALSE]
         PROVE  Inv'
    <2>1. DomainStep /\ Spares
      BY <1>3, <1>7, <1>8, <1>12, TaskTurned DEF Spares
    <2>2. PICK a \in OpRecord : a = [o EXCEPT !.auth = FALSE]
      BY DEF OpRecord
    <2>3. op' = [op EXCEPT ![p] = o] \/ op' = [op EXCEPT ![p] = a]
      BY <1>1, <1>12, <2>2, OpKnows
    <2> QED BY <1>1, <1>7, <2>1, <2>2, <2>3, AIGoesOn
  <1>13. CASE l = <<>> /\ tasks' = [tasks EXCEPT ![s] = <<Draft>>] /\ op' = op
    <2>1. PICK x \in EditObject : x = Draft
      BY DraftObjects
    <2>2. x.st = "review" /\ x.by = "none" /\ x.tl = "none" /\ x.code = "review"
      BY <2>1, DraftObjects
    <2>3. Append(l, x) = <<Draft>>
      <3>1. Append(<<>>, x) = <<x>>
        OBVIOUS
      <3> QED BY <1>13, <2>1, <3>1, Zenon
    <2>4. PICK m : m = Append(l, x)
      OBVIOUS
    <2>5. Newer(EditObject, l, m, x) /\ Len(m) = Len(l) + 1
      BY <1>13, <2>4, LeafAdded
    <2>6. EditTurn(l, m, x)
      BY <1>4, <1>7, <2>2, <2>5 DEF EditTurn
    <2>7. tasks' = [tasks EXCEPT ![s] = m]
      BY <1>13, <2>3, <2>4
    <2> QED BY <1>12, <1>13, <2>6, <2>7
  <1>14. CASE /\ l # <<>> /\ t.st = "review" /\ o.auth /\ c # "retry"
              /\ tasks' = [tasks EXCEPT ![s] = WithLeaf(l, [t EXCEPT !.st = "queued", !.code = "", !.by = By(p)])]
              /\ op' = [op EXCEPT ![p].auth = FALSE]
    <2>1. PICK x : x = [t EXCEPT !.st = "queued", !.code = "", !.by = By(p)]
      OBVIOUS
    <2>2. /\ x \in EditObject /\ x.st = "queued" /\ x.code = "" /\ x.by = By(p) /\ x.tl = t.tl
      BY <1>8, <1>10, <1>14, <2>1 DEF EditObject, Codings, Confirmers
    <2>3. PICK m : m = WithLeaf(l, x)
      OBVIOUS
    <2>4. Newer(EditObject, l, m, x) /\ Len(m) = Len(l)
      BY <1>14, <2>2, <2>3, LeafSet
    <2>5. x.tl # "approved"
      BY <1>7, <1>10, <1>14, <2>2 DEF EditLineage
    <2>6. x.by = "auto" => Len(m) = 1 /\ profile.autoEdit
      <3>1. x.by = "auto" => o.call = "advance" /\ profile.autoEdit
        BY <1>8, <1>14, <2>2
      <3>2. o.call = "advance" => ~(n > 1)
        BY <1>9, <1>14
      <3>3. ~(n > 1) => Len(m) = 1
        BY <1>4, <1>7, <1>10, <1>14, <2>4
      <3> QED BY <3>1, <3>2, <3>3
    <2>7. EditTurn(l, m, x)
      BY <1>5, <1>14, <2>2, <2>4, <2>5, <2>6 DEF EditTurn, Settled
    <2> QED BY <1>12, <1>14, <2>1, <2>3, <2>7
  <1>15. CASE /\ l # <<>> /\ t.st = "ready"
              /\ tasks' = [tasks EXCEPT ![s] = WithLeaf(l, [t EXCEPT !.tl = "approved"])]
              /\ op' = [op EXCEPT ![p].auth = FALSE]
    <2>1. PICK x : x = [t EXCEPT !.tl = "approved"]
      OBVIOUS
    <2>2. /\ x \in EditObject /\ x.st = "ready" /\ x.code = t.code /\ x.by = t.by /\ x.tl = "approved"
      BY <1>10, <1>15, <2>1 DEF EditObject
    <2>3. PICK m : m = WithLeaf(l, x)
      OBVIOUS
    <2>4. Newer(EditObject, l, m, x) /\ Len(m) = Len(l)
      BY <1>15, <2>2, <2>3, LeafSet
    <2>5. x.code # "ledger"
      BY <1>7, <1>10, <1>15, <2>2 DEF EditLineage
    <2>7. EditTurn(l, m, x)
      BY <1>5, <1>15, <2>2, <2>4, <2>5 DEF EditTurn, Settled
    <2> QED BY <1>12, <1>15, <2>1, <2>3, <2>7
  <1>16. ASSUME tasks' = tasks
         PROVE  UNCHANGED <<profile, wf, domains>>
    BY <1>7, <1>16 DEF domains, editing
  <1>17. CASE tasks' = tasks /\ \E c1 \in {"", "review", "restart", "retry"} : AIWaits(p, c1)
    BY <1>7, <1>16, <1>17, AIWaited
  <1>18. CASE l # <<>> /\ AIFails(p, t.code) /\ tasks' = tasks
    <2>1. t.code \in Codings
      BY <1>10, <1>18 DEF EditObject
    <2> QED BY <1>7, <1>16, <1>18, <2>1, AIFailed
  <1> QED BY <1>9, <1>11, <1>13, <1>14, <1>15, <1>17, <1>18

\* A successor in review may follow an object that is settled.
LEMMA DraftAdded ==
  ASSUME NEW l \in Seq(EditObject), EditLineage(l), l = <<>> \/ Leaf(l).st \in Settled
  PROVE  EditTurn(l, Append(l, Draft), Draft) /\ Len(Append(l, Draft)) = Len(l) + 1
  <1>1. PICK x \in EditObject : x = Draft
    BY DraftObjects
  <1>2. x.st = "review" /\ x.by = "none" /\ x.tl = "none" /\ x.code = "review"
    BY <1>1, DraftObjects
  <1>3. PICK m : m = Append(l, x)
    OBVIOUS
  <1>4. Newer(EditObject, l, m, x) /\ Len(m) = Len(l) + 1
    BY <1>3, LeafAdded
  <1>5. Len(m) # Len(l)
    BY <1>4
  <1>6. EditTurn(l, m, x)
    BY <1>2, <1>4, <1>5 DEF EditTurn
  <1> QED BY <1>1, <1>3, <1>4, <1>6

LEMMA RetryAIKeeps ==
  ASSUME Inv, NEW p \in Procs, RetryAI(p)
  PROVE  Inv'
  <1>1. PICK o \in OpRecord : o = op[p]
    BY OpKnows
  <1>2. PICK r \in Row : r = o.rec
    BY <1>1, OpKnows
  <1>3. /\ o.pc = "call" /\ op[p].pc \in Working /\ o.call = "retry" /\ ~HasJobs(r) /\ r.plan = 0
        /\ UNCHANGED <<profile, wf, batches, project, planKey, plans, uploads>>
        /\ \/ Raise(p) /\ tasks' = tasks
           \/ AIFails(p, "ledger") /\ tasks' = tasks
           \/ /\ Then(p, <<Move(Moved(r, "awaiting_ai_review", "retry"))>>, "idle")
              /\ \/ tasks' = tasks
                 \/ /\ ~AIDone
                    /\ tasks[Current] = <<>> \/ Leaf(tasks[Current]).st \in Settled
                    /\ tasks' = [tasks EXCEPT ![Current] = Append(@, Draft)]
    BY <1>1, <1>2 DEF RetryAI, At, Rec, Working, Pcs, Settled
  <1>4. Good(r) /\ Ready(o, "call", r) /\ DomainTypes /\ Below(r, wf)
    BY <1>1, <1>2, <1>3, OpKnows DEF OpFit
  <1>5. r.project /\ profile.ai /\ r.state = "attention_required" /\ ~r.outputs
    <2>1. r.state = "attention_required" /\ r.project /\ profile.ai
      BY <1>3, <1>4 DEF Ready, Admits, Working, Pcs
    <2>2. ~r.outputs
      BY <1>3, <1>4 DEF Good, Ladder
    <2> QED BY <2>1, <2>2
  <1>6. StandsAt(r, "awaiting_ai_review", "retry")
    BY <1>3, <1>5 DEF StandsAt, Ends
  <1>7. "awaiting_ai_review" \in ActiveStates /\ "retry" \in Codes /\ "idle" \in Nexts \ {"create_batch"}
    BY DEF ActiveStates, Codes, Nexts
  <1>8. tasks' = tasks => UNCHANGED <<profile, wf, domains>>
    BY <1>3 DEF domains, editing
  <1>9. CASE tasks' = tasks
    <2>1. CASE Raise(p)
      BY <1>3, <1>8, <1>9, <2>1, RaisedAlone
    <2>2. CASE Then(p, <<Move(Moved(r, "awaiting_ai_review", "retry"))>>, "idle")
      BY <1>1, <1>2, <1>3, <1>6, <1>7, <1>8, <1>9, <2>2, MovedAlone
    <2>3. CASE AIFails(p, "ledger")
      <3>1. Then(p, <<Move(Moved(r, "attention_required", "ledger"))>>, "idle")
        BY <1>1, <1>2, <2>3 DEF AIFails, Attention, Rec
      <3>2. StandsAt(r, "attention_required", "ledger")
        BY <1>5 DEF StandsAt, Ends
      <3>3. "ledger" \in Codes
        BY DEF Codes
      <3> QED BY <1>1, <1>2, <1>3, <1>8, <1>9, <3>1, <3>2, <3>3, MovedAlone
    <2> QED BY <1>3, <1>9, <2>1, <2>2, <2>3
  <1>10. CASE /\ Then(p, <<Move(Moved(r, "awaiting_ai_review", "retry"))>>, "idle")
              /\ ~AIDone /\ (tasks[Current] # <<>> => Leaf(tasks[Current]).st \in Settled)
              /\ tasks' = [tasks EXCEPT ![Current] = Append(@, Draft)]
    <2>1. PICK s \in Stage : s = Current
      BY <1>10, CurrentStage
    <2>2. PICK m : m = Append(tasks[s], Draft)
      OBVIOUS
    <2>3. EditTurn(tasks[s], m, Draft)
      BY <1>10, <2>1, <2>2, InvParts, DraftAdded
    <2>4. tasks' = [tasks EXCEPT ![s] = m]
      BY <1>10, <2>1, <2>2
    <2>5. Draft.st \notin Live
      BY DraftObjects DEF Live, Running
    <2>9. wf.project /\ profile.ai
      BY <1>4, <1>5 DEF Below
    <2>6. DomainStep /\ Spares
      BY <2>9, <1>3, <1>10, <2>1, <2>3, <2>4, <2>5, TaskTurned DEF Spares
    <2>7. StandsAt(r, "awaiting_ai_review", "retry")'
      BY <1>3, <1>6 DEF StandsAt, Titled, HasJobs, Prepared
    <2>8. Ready(o, "idle", Moved(r, "awaiting_ai_review", "retry"))'
      BY DEF Ready, Working
    <2> QED BY <1>1, <1>2, <1>3, <1>7, <1>10, <2>6, <2>7, <2>8, MoveActed
  <1> QED BY <1>3, <1>9, <1>10

LEMMA ConfirmEditKeeps ==
  ASSUME Inv, NEW p \in Procs, ConfirmEdit(p)
  PROVE  Inv'
  <1>1. PICK o \in OpRecord : o = op[p]
    BY OpKnows
  <1>2. PICK r \in Row : r = o.rec
    BY <1>1, OpKnows
  <1>3. PICK i : i = r.plan
    OBVIOUS
  <1>4. PICK x : x = [plans[i] EXCEPT !.st = "queued", !.code = "", !.by = By(p)]
    OBVIOUS
  <1>5. /\ o.pc = "confirm_edit" /\ op[p].pc \in Working
        /\ UNCHANGED <<profile, wf, batches, project, planKey, tasks, uploads>>
        /\ \/ Raise(p) /\ plans' = plans
           \/ /\ Then(p, <<Move(Moved(r, "rendering", ""))>>, "read")
              /\ \/ plans' = plans
                 \/ plans[i].st = "review" /\ plans' = [plans EXCEPT ![i] = x]
    <2>1. plans' = [plans EXCEPT ![i].st = "queued", ![i].code = "", ![i].by = By(p)] =>
            plans' = [plans EXCEPT ![i] = x]
      BY <1>4, InvParts
    <2> QED BY <1>1, <1>2, <1>3, <2>1 DEF ConfirmEdit, At, Rec, Working, Pcs
  <1>6. Good(r) /\ Ready(o, "confirm_edit", r) /\ DomainTypes /\ Below(r, wf)
    BY <1>1, <1>2, <1>5, OpKnows DEF OpFit
  <1>7. /\ r.state = "awaiting_edit_confirmation" /\ i # 0 /\ ~HasJobs(r) /\ i \in 1..Len(plans)
        /\ o.call = "advance" => i = 1 /\ profile.autoEdit
    BY <1>3, <1>6, InvParts DEF Good, Stands, StandsAt, Ready, Backed, Row
  <1>8. StandsAt(r, "rendering", "")
    BY <1>3, <1>7 DEF StandsAt, Ends
  <1>9. "rendering" \in ActiveStates /\ "" \in Codes /\ "read" \in Nexts \ {"create_batch"}
    BY DEF ActiveStates, Codes, Nexts
  <1>10. plans' = plans => UNCHANGED <<profile, wf, domains>>
    BY <1>5 DEF domains, editing
  <1>11. CASE plans' = plans
    <2>1. CASE Raise(p)
      BY <1>5, <1>10, <1>11, <2>1, RaisedAlone
    <2>2. CASE Then(p, <<Move(Moved(r, "rendering", ""))>>, "read")
      BY <1>1, <1>2, <1>5, <1>8, <1>9, <1>10, <1>11, <2>2, MovedAlone
    <2> QED BY <1>5, <1>11, <2>1, <2>2
  <1>12. CASE /\ Then(p, <<Move(Moved(r, "rendering", ""))>>, "read")
              /\ plans[i].st = "review" /\ plans' = [plans EXCEPT ![i] = x]
    <2>1. i = Len(plans) /\ plans # <<>> /\ Leaf(plans) = plans[i] /\ plans[i] \in EditObject
      <3>1. plans[i].st \notin Settled
        BY <1>12 DEF Settled
      <3>2. plans \in Seq(EditObject) /\ Lineage(plans)
        BY InvParts
      <3> QED BY <1>7, <3>1, <3>2, NewestOnly
    <2>2. By(p) \in Confirmers /\ (By(p) = "auto" => i = 1 /\ profile.autoEdit)
      BY <1>1, <1>7 DEF By, Confirmers
    <2>3. x \in EditObject /\ x.st = "queued" /\ x.code = "" /\ x.by = By(p) /\ x.tl = plans[i].tl
      BY <1>4, <2>1, <2>2 DEF EditObject, Codings
    <2>4. plans' = WithLeaf(plans, x)
      BY <1>12, <2>1 DEF WithLeaf
    <2>5. Newer(EditObject, plans, plans', x) /\ Len(plans') = Len(plans)
      BY <2>1, <2>3, <2>4, InvParts, LeafSet
    <2>6. x.tl # "approved"
      <3>1. i \in DOMAIN plans /\ EditLineage(plans)
        BY <1>7, InvParts
      <3> QED BY <1>12, <2>3, <3>1 DEF EditLineage
    <2>7. EditTurn(plans, plans', x)
      BY <1>12, <2>1, <2>2, <2>3, <2>5, <2>6 DEF EditTurn, Settled
    <2>8. DomainStep
      BY <1>5, <2>1, <2>7, PlansRenewed
    <2>9. ~Still
      <3>1. i <= wf.plan /\ i \in DOMAIN plans
        BY <1>3, <1>6, <1>7, InvParts DEF Below
      <3> QED BY <1>12, <3>1 DEF Still, Settled
    <2>10. Spares
      BY <2>9 DEF Spares
    <2>11. StandsAt(r, "rendering", "")'
      BY <1>5, <1>8 DEF StandsAt, Titled, HasJobs, Prepared
    <2>12. Ready(o, "read", Moved(r, "rendering", ""))'
      BY DEF Ready, Working
    <2> QED BY <1>1, <1>2, <1>5, <1>9, <1>12, <2>8, <2>10, <2>11, <2>12, MoveActed
  <1> QED BY <1>5, <1>11, <1>12

LEMMA RetryEditKeeps ==
  ASSUME Inv, NEW p \in Procs, RetryEdit(p)
  PROVE  Inv'
  <1>1. PICK o \in OpRecord : o = op[p]
    BY OpKnows
  <1>2. PICK r \in Row : r = o.rec
    BY <1>1, OpKnows
  <1>3. PICK i : i = r.plan
    OBVIOUS
  <1>4. PICK m : m = [r EXCEPT !.plan = i + 1]
    OBVIOUS
  <1>5. /\ o.pc = "retry_edit" /\ op[p].pc \in Working
        /\ UNCHANGED <<profile, wf, batches, project, planKey, tasks, uploads>>
        /\ \/ Raise(p) /\ plans' = plans
           \/ /\ Then(p, <<Refs(m), Move(Moved(m, "awaiting_edit_confirmation", "retry"))>>, "idle")
              /\ \/ plans' = plans /\ i < Len(plans)
                 \/ plans' = Append(plans, Draft) /\ ~(i < Len(plans))
    BY <1>1, <1>2, <1>3, <1>4 DEF RetryEdit, At, Rec, Working, Pcs
  <1>6. Good(r) /\ Ready(o, "retry_edit", r) /\ DomainTypes /\ Below(r, wf)
    BY <1>1, <1>2, <1>5, OpKnows DEF OpFit
  <1>7. /\ r.state = "attention_required" /\ i # 0 /\ ~r.outputs /\ ~HasJobs(r)
        /\ i \in 1..Len(plans) /\ plans[i].st \in Settled /\ Len(plans) \in Nat
    BY <1>3, <1>6, InvParts DEF Good, Ladder, Ready, Backed, Row
  <1>8. CASE Raise(p) /\ plans' = plans
    BY <1>5, <1>8, RaisedAlone DEF domains, editing
  <1>9. CASE /\ Then(p, <<Refs(m), Move(Moved(m, "awaiting_edit_confirmation", "retry"))>>, "idle")
             /\ \/ plans' = plans /\ i < Len(plans)
                \/ plans' = Append(plans, Draft) /\ ~(i < Len(plans))
    <2>1. DomainStep /\ Spares /\ i + 1 <= Len(plans')
      <3>1. CASE plans' = plans /\ i < Len(plans)
        <4>1. UNCHANGED <<profile, wf, domains>>
          BY <1>5, <3>1 DEF domains, editing
        <4>2. i + 1 <= Len(plans')
          BY <1>7, <3>1
        <4> QED BY <4>1, <4>2, SameDomains DEF Spares
      <3>2. CASE plans' = Append(plans, Draft) /\ ~(i < Len(plans))
        <4>1. i = Len(plans)
          BY <1>7, <3>2
        <4>2. plans # <<>> /\ Leaf(plans) = plans[i]
          BY <1>7, <4>1, EmptySeq DEF Leaf
        <4>3. EditTurn(plans, plans', Draft) /\ Len(plans') = Len(plans) + 1
          BY <1>7, <3>2, <4>2, InvParts, DraftAdded
        <4>4. Draft.st \notin Live
          BY DraftObjects DEF Live, Running
        <4>5. wf.plan \in Nat /\ wf.plan <= Len(plans)
          BY InvParts DEF Good, Backed, Row
        <4>6. ~(Len(plans') <= wf.plan) /\ i + 1 <= Len(plans')
          BY <1>7, <4>1, <4>3, <4>5
        <4>7. DomainStep /\ (Still => Still')
          BY <1>5, <4>2, <4>3, <4>4, <4>6, PlansRenewed
        <4> QED BY <4>6, <4>7 DEF Spares
      <3> QED BY <1>9, <3>1, <3>2
    <2>2. Good(r)'
      BY <1>6, <2>1, GoodKept DEF DomainStep
    <2>3. /\ m.state = r.state /\ m.code = r.code /\ m.batch = r.batch /\ m.asset = r.asset
          /\ m.resolved = r.resolved /\ m.project = r.project /\ m.plan = i + 1
          /\ m.outputs = r.outputs /\ m.slots = r.slots /\ m \in Row /\ m.plan # 0
          /\ r.plan <= m.plan
      BY <1>3, <1>4, <1>7 DEF Row
    <2>4. Ladder(m)' /\ Stands(m)'
      BY <1>3, <1>7, <2>2, <2>3 DEF Good, Ladder, Stands, StandsAt, HasJobs, Prepared, Titled, Ends
    <2>5. Backed(m)'
      BY <1>3, <1>7, <2>1, <2>2, <2>3 DEF Good, Backed
    <2>6. Below(r, m) /\ Good(m)'
      BY <2>3, <2>4, <2>5, BelowSame DEF Below, Good
    <2>7. StandsAt(m, "awaiting_edit_confirmation", "retry")'
      BY <1>7, <2>3 DEF StandsAt, Ends, HasJobs
    <2>8. /\ "awaiting_edit_confirmation" \in ActiveStates /\ "retry" \in Codes
          /\ "idle" \in Nexts \ {"create_batch"}
          /\ Ready(o, "idle", Moved(m, "awaiting_edit_confirmation", "retry"))'
      BY DEF ActiveStates, Codes, Nexts, Ready, Working
    <2> QED BY <1>1, <1>2, <1>5, <1>9, <2>1, <2>3, <2>6, <2>7, <2>8, RecordActed
  <1> QED BY <1>5, <1>8, <1>9

LEMMA DraftedJobs ==
  ASSUME NEW l \in Seq(UploadObject)
  PROVE  l = <<>> => /\ UploadTurn(l, Drafted(l), UploadDraft) /\ Len(Drafted(l)) = 1
                     /\ Drafted(l) # <<>>
  <1> SUFFICES ASSUME l = <<>>
               PROVE  /\ UploadTurn(l, Drafted(l), UploadDraft) /\ Len(Drafted(l)) = 1
                      /\ Drafted(l) # <<>>
    OBVIOUS
  <1>1. PICK x \in UploadObject : x = UploadDraft
    BY DraftObjects
  <1>2. x.st = "draft" /\ x.by = "none"
    BY <1>1, DraftObjects
  <1>3. PICK m : m = Append(l, x)
    OBVIOUS
  <1>4. Newer(UploadObject, l, m, x) /\ Len(m) = Len(l) + 1 /\ Len(l) = 0
    BY <1>3, LeafAdded
  <1>5. Drafted(l) = m
    <2>1. Append(<<>>, x) = <<x>>
      OBVIOUS
    <2> QED BY <1>1, <1>3, <2>1, Zenon DEF Drafted
  <1>6. UploadTurn(l, m, x)
    BY <1>2, <1>4 DEF UploadTurn
  <1>7. m # <<>>
    BY <1>4
  <1> QED BY <1>1, <1>4, <1>5, <1>6, <1>7

\* Steps that may also make or fence the key of a segment
LEMMA UploadsRenewed ==
  ASSUME Inv, UNCHANGED <<profile, wf, batches, editing>>,
         upKey' \in [Segment -> Key], jobs' = [s \in Segment |-> jobs'[s]],
         \A s \in Segment :
            /\ upKey[s] # "none" => upKey'[s] # "none"
            /\ upKey'[s] = "made" <=> jobs'[s] # <<>>
            /\ upKey'[s] # "none" => /\ wf.outputs
                                     /\ \A t \in Segment : t < s => wf.slots[t] # 0,
         \A s \in Segment :
            \/ jobs'[s] = jobs[s]
            \/ \E x : /\ UploadTurn(jobs[s], jobs'[s], x)
                      /\ Len(jobs'[s]) = Len(jobs[s]) /\ Leaf(jobs[s]).st # "draft" =>
                           x.st # "draft"
  PROVE  /\ DomainStep /\ JobsGrow
         /\ Still /\ (\A s \in Segment : JobStill(jobs'[s], wf.slots[s])) => Still'
  <1>1. /\ batches' = batches /\ plans' = plans /\ tasks' = tasks
        /\ UNCHANGED <<project, planKey>>
    BY DEF editing
  <1>2. \A s \in Segment : /\ UploadGrown(jobs[s], jobs'[s])
                           /\ \A k \in 1..Len(jobs[s]) :
                                jobs[s][k].st # "draft" => jobs'[s][k].st # "draft"
    <2>1. ASSUME NEW s \in Segment, NEW x, UploadTurn(jobs[s], jobs'[s], x),
                 Len(jobs'[s]) = Len(jobs[s]) /\ Leaf(jobs[s]).st # "draft" => x.st # "draft"
          PROVE  /\ UploadGrown(jobs[s], jobs'[s])
                 /\ \A k \in 1..Len(jobs[s]) :
                      jobs[s][k].st # "draft" => jobs'[s][k].st # "draft"
      BY <2>1, InvParts, UploadTurned
    <2>2. ASSUME NEW s \in Segment, jobs'[s] = jobs[s]
          PROVE  UploadGrown(jobs[s], jobs'[s])
      BY <2>2, InvParts, UploadSame
    <2> QED BY <2>1, <2>2
  <1>3. JobsGrow
    <2>1. \A s \in Segment : jobs'[s] \in Seq(UploadObject)
      BY <1>2 DEF UploadGrown
    <2> QED BY <1>2, <2>1 DEF JobsGrow
  <1>4. BatchesGrow /\ PlansGrow /\ TasksGrow
    BY <1>1, SameParts
  <1>7. KeysGrow
    BY <1>1, InvParts DEF KeysGrow
  <1>5. Rooted' /\ DraftsStay
    <2>1. AIDone => AIDone'
      BY <1>4, DoneGrows
    <2>2. Rooted
      BY DEF Inv
    <2>3. /\ planKey' = "made" <=> plans' # <<>>
          /\ planKey' = "made" => project' = "made" /\ wf'.asset /\ (profile'.ai => AIDone')
          /\ \A s \in Stage : tasks'[s] # <<>> => wf'.project /\ profile'.ai
      BY <1>1, <2>1, <2>2 DEF Rooted
    <2> QED BY <1>2, <2>3 DEF Rooted, DraftsStay
  <1>6. Still /\ (\A s \in Segment : JobStill(jobs'[s], wf.slots[s])) => Still'
    BY <1>1 DEF Still, JobStill
  <1> QED BY <1>3, <1>4, <1>5, <1>6, <1>7, Developed

LEMMA PrepareUploadKeeps ==
  ASSUME Inv, NEW p \in Procs, PrepareUpload(p)
  PROVE  Inv'
  <1>1. PICK o \in OpRecord : o = op[p]
    BY OpKnows
  <1>2. PICK r \in Row : r = o.rec
    BY <1>1, OpKnows
  <1>3. PICK s : s = Pending(r)
    OBVIOUS
  <1>4. PICK m : m = [r EXCEPT !.slots[s] = 1]
    OBVIOUS
  <1>5. /\ o.pc = "call" /\ op[p].pc \in Working /\ r.state = "preparing_upload"
        /\ UNCHANGED <<profile, wf, batches, editing>>
        /\ \/ /\ Prepared(r) /\ UNCHANGED uploads
              /\ Then(p, <<Move(Moved(r, "awaiting_upload_confirmation", ""))>>, "read")
           \/ /\ Then(p, <<Move(Moved(r, "attention_required", "conflict"))>>, "idle")
              /\ UNCHANGED uploads
           \/ /\ ~Prepared(r) /\ upKey[s] # "tomb" /\ upKey' = [upKey EXCEPT ![s] = "made"]
              /\ jobs' = [jobs EXCEPT ![s] = Drafted(@)]
              /\ Then(p, <<Refs(m)>>, "read")
    BY <1>1, <1>2, <1>3, <1>4 DEF PrepareUpload, Advancing, At, Rec, Working, Pcs, Attention
  <1>6. Good(r) /\ DomainTypes /\ Below(r, wf) /\ r.outputs
    BY <1>1, <1>2, <1>5, OpKnows DEF Good, Stands, StandsAt
  <1>7. /\ "awaiting_upload_confirmation" \in ActiveStates /\ {"", "conflict"} \subseteq Codes
        /\ "read" \in Nexts \ {"create_batch"}
    BY DEF ActiveStates, Codes, Nexts
  <1>8. UNCHANGED uploads => UNCHANGED <<profile, wf, domains>>
    BY <1>5 DEF domains
  <1>9. CASE /\ Prepared(r) /\ UNCHANGED uploads
             /\ Then(p, <<Move(Moved(r, "awaiting_upload_confirmation", ""))>>, "read")
    <2>1. StandsAt(r, "awaiting_upload_confirmation", "")
      BY <1>6, <1>9 DEF StandsAt, Ends
    <2> QED BY <1>1, <1>2, <1>5, <1>7, <1>8, <1>9, <2>1, MovedAlone
  <1>10. CASE /\ Then(p, <<Move(Moved(r, "attention_required", "conflict"))>>, "idle")
              /\ UNCHANGED uploads
    <2>1. StandsAt(r, "attention_required", "conflict")
      BY DEF StandsAt, Ends
    <2> QED BY <1>1, <1>2, <1>5, <1>7, <1>8, <1>10, <2>1, MovedAlone
  <1>11. CASE /\ ~Prepared(r) /\ upKey[s] # "tomb" /\ upKey' = [upKey EXCEPT ![s] = "made"]
              /\ jobs' = [jobs EXCEPT ![s] = Drafted(@)]
              /\ Then(p, <<Refs(m)>>, "read")
    <2>1. s \in Segment /\ r.slots[s] = 0 /\ \A t \in Segment : t < s => r.slots[t] # 0
      BY <1>3, <1>11, PendingSegment
    <2>2. /\ upKey' \in [Segment -> Key] /\ upKey'[s] = "made"
          /\ \A t \in Segment \ {s} : upKey'[t] = upKey[t] /\ jobs'[t] = jobs[t]
          /\ jobs'[s] = Drafted(jobs[s]) /\ jobs' = [t \in Segment |-> jobs'[t]]
      BY <1>11, <2>1, InvParts DEF Key
    <2>3. /\ wf.outputs
          /\ \A t \in Segment : t < s => wf.slots[t] # 0
      <3>1. \A t \in Segment : r.slots[t] \in Nat /\ wf.slots[t] \in Nat /\ r.slots[t] <= wf.slots[t]
        BY <1>6, InvParts DEF Below, Row
      <3>2. \A t \in Segment : r.slots[t] # 0 => wf.slots[t] # 0
        BY <3>1
      <3> QED BY <1>6, <2>1, <3>2 DEF Below
    <2>4. jobs[s] # <<>> => jobs'[s] = jobs[s]
      BY <2>2 DEF Drafted
    <2>5. jobs[s] = <<>> => /\ UploadTurn(jobs[s], jobs'[s], UploadDraft) /\ Len(jobs'[s]) = 1
                            /\ jobs'[s] # <<>> /\ Len(jobs[s]) = 0
      BY <2>1, <2>2, InvParts, DraftedJobs
    <2>6. Rooted
      BY DEF Inv
    <2>7. /\ DomainStep /\ JobsGrow
          /\ Still /\ (\A t \in Segment : JobStill(jobs'[t], wf.slots[t])) => Still'
      <3>1. \A t \in Segment :
              /\ upKey[t] # "none" => upKey'[t] # "none"
              /\ upKey'[t] = "made" <=> jobs'[t] # <<>>
              /\ upKey'[t] # "none" => /\ wf.outputs
                                       /\ \A v \in Segment : v < t => wf.slots[v] # 0
        BY <2>1, <2>2, <2>3, <2>4, <2>5, <2>6 DEF Rooted
      <3>2. \A t \in Segment :
              \/ jobs'[t] = jobs[t]
              \/ \E x : /\ UploadTurn(jobs[t], jobs'[t], x)
                        /\ Len(jobs'[t]) = Len(jobs[t]) /\ Leaf(jobs[t]).st # "draft" =>
                             x.st # "draft"
        <4>1. jobs[s] = <<>> => Len(jobs'[s]) # Len(jobs[s])
          BY <2>5
        <4> QED BY <2>1, <2>2, <2>4, <2>5, <4>1
      <3> QED BY <1>5, <2>2, <3>1, <3>2, UploadsRenewed
    <2>8. Spares
      <3>1. ASSUME Still, NEW t \in Segment
            PROVE  JobStill(jobs'[t], wf.slots[t])
        <4>1. JobStill(jobs[t], wf.slots[t])
          BY <3>1, StillParts
        <4>2. CASE t = s /\ jobs[s] = <<>>
          <5>1. wf.slots[s] \in Nat /\ wf.slots[s] <= Len(jobs[s])
            BY <2>1, InvParts DEF Good, Backed, Row
          <5>2. ~(Len(jobs'[s]) <= wf.slots[s])
            BY <2>5, <4>2, <5>1
          <5>3. UploadDraft.st \notin Live
            BY DraftObjects DEF Live, Running
          <5>4. jobs[s] \in Seq(UploadObject) /\ Lineage(jobs[s]) /\ Newer(UploadObject, jobs[s], jobs'[s], UploadDraft)
            BY <2>1, <2>5, <4>2, InvParts DEF UploadTurn
          <5> QED BY <4>1, <4>2, <5>2, <5>3, <5>4, JobStilled
        <4>3. CASE ~(t = s /\ jobs[s] = <<>>)
          BY <2>2, <2>4, <4>1, <4>3
        <4> QED BY <4>2, <4>3
      <3> QED BY <2>7, <3>1 DEF Spares
    <2>9. Good(r)'
      BY <1>6, <2>7, GoodKept DEF DomainStep
    <2>10. /\ m \in Row /\ m.state = r.state /\ m.code = r.code /\ m.batch = r.batch /\ m.asset = r.asset
           /\ m.resolved = r.resolved /\ m.project = r.project /\ m.plan = r.plan
           /\ m.outputs = r.outputs /\ m.slots[s] = 1
           /\ \A t \in Segment \ {s} : m.slots[t] = r.slots[t]
      BY <1>4, <2>1 DEF Row
    <2>11. Len(jobs'[s]) \in Nat /\ Len(jobs'[s]) >= 1
      <3>1. jobs'[s] # <<>> /\ jobs'[s] \in Seq(UploadObject)
        BY <2>1, <2>4, <2>5, <2>7 DEF JobsGrow
      <3> QED BY <3>1, EmptySeq
    <2>12. Ladder(m)' /\ Stands(m)'
      BY <1>5, <1>6, <2>9, <2>10 DEF Good, Ladder, Stands, StandsAt, Titled, Ends
    <2>13. Backed(m)'
      BY <1>5, <2>9, <2>10, <2>11 DEF Good, Backed
    <2>14. Good(m)'
      BY <2>10, <2>12, <2>13 DEF Good
    <2>15. Below(r, m)
      BY <2>1, <2>10, BelowSame DEF Below
    <2>16. Ready(o, "read", m)'
      BY DEF Ready, Working
    <2> QED BY <1>1, <1>2, <1>5, <1>7, <1>11, <2>7, <2>8, <2>10, <2>14, <2>15, <2>16, RefsActed
  <1> QED BY <1>5, <1>9, <1>10, <1>11

LEMMA ConfirmUploadsKeeps ==
  ASSUME Inv, NEW p \in Procs, ConfirmUploads(p)
  PROVE  Inv'
  <1>1. PICK o \in OpRecord : o = op[p]
    BY OpKnows
  <1>2. PICK r \in Row : r = o.rec
    BY <1>1, OpKnows
  <1>3. PICK by : by = By(p)
    OBVIOUS
  <1>4. PICK slot : slot = r.slots
    OBVIOUS
  <1>5. /\ o.pc = "confirm_uploads" /\ op[p].pc \in Working
        /\ UNCHANGED <<profile, wf, batches, editing, upKey>>
        /\ \/ Raise(p) /\ jobs' = jobs
           \/ /\ Then(p, <<Move(Moved(r, "uploading", ""))>>, "read")
              /\ jobs' = [s \in Segment |->
                            IF jobs[s][slot[s]].st = "draft"
                            THEN [jobs[s] EXCEPT ![slot[s]].st = "queued",
                                      ![slot[s]].code = "", ![slot[s]].by = by]
                            ELSE jobs[s]]
    <2> DEFINE J(sl, b) == [s \in Segment |->
                              IF jobs[s][sl[s]].st = "draft"
                              THEN [jobs[s] EXCEPT ![sl[s]].st = "queued",
                                        ![sl[s]].code = "", ![sl[s]].by = b]
                              ELSE jobs[s]]
    <2>1. \/ Raise(p) /\ jobs' = jobs
          \/ /\ Then(p, <<Move(Moved(Rec(p), "uploading", ""))>>, "read")
             /\ jobs' = J(Rec(p).slots, By(p))
      BY DEF ConfirmUploads
    <2>2. /\ o.pc = "confirm_uploads" /\ op[p].pc \in Working /\ Rec(p) = r
          /\ UNCHANGED <<profile, wf, batches, editing, upKey>>
      BY <1>1, <1>2 DEF ConfirmUploads, At, Rec, Working, Pcs
    <2>3. J(Rec(p).slots, By(p)) = J(slot, by)
      <3> HIDE DEF J
      <3> QED BY <1>3, <1>4, <2>2
    <2> QED BY <2>1, <2>2, <2>3, Zenon
  <1>6. Good(r) /\ Ready(o, "confirm_uploads", r) /\ DomainTypes /\ Below(r, wf)
    BY <1>1, <1>2, <1>5, OpKnows DEF OpFit
  <1>7. /\ r.state = "awaiting_upload_confirmation" /\ r.outputs /\ Prepared(r)
        /\ o.call = "advance" => profile.autoUpload
        /\ o.call = "advance" /\ Solo =>
             \A s \in Segment : slot[s] = 1 \/ jobs[s][slot[s]].st # "draft"
        /\ \A s \in Segment : slot[s] \in 1..Len(jobs[s])
    <2>1. /\ r.state = "awaiting_upload_confirmation"
          /\ o.call = "advance" => profile.autoUpload
          /\ o.call = "advance" /\ Solo =>
               \A s \in Segment : slot[s] = 1 \/ jobs[s][slot[s]].st # "draft"
      BY <1>4, <1>6 DEF Ready
    <2>2. r.outputs /\ Prepared(r)
      BY <1>6, <2>1 DEF Good, Stands, StandsAt
    <2>3. \A s \in Segment : slot[s] \in 1..Len(jobs[s])
      BY <1>4, <1>6, <2>2, InvParts DEF Prepared, Good, Backed, Row
    <2> QED BY <2>1, <2>2, <2>3
  <1>8. CASE Raise(p) /\ jobs' = jobs
    BY <1>5, <1>8, RaisedAlone DEF domains, uploads
  <1>9. CASE /\ Then(p, <<Move(Moved(r, "uploading", ""))>>, "read")
             /\ jobs' = [s \in Segment |->
                           IF jobs[s][slot[s]].st = "draft"
                           THEN [jobs[s] EXCEPT ![slot[s]].st = "queued",
                                     ![slot[s]].code = "", ![slot[s]].by = by]
                           ELSE jobs[s]]
    <2>1. /\ jobs' = [s \in Segment |-> jobs'[s]]
          /\ \A s \in Segment : jobs[s][slot[s]].st # "draft" => jobs'[s] = jobs[s]
      BY <1>9
    <2>2. by \in Confirmers /\ (by = "auto" => o.call = "advance")
      BY <1>1, <1>3 DEF By, Confirmers
    <2>3. ASSUME NEW s \in Segment, jobs[s][slot[s]].st = "draft"
          PROVE  /\ jobs[s] # <<>>
                 /\ \E x : x.st = "queued" /\ UploadTurn(jobs[s], jobs'[s], x)
      <3> PICK l \in Seq(UploadObject) : l = jobs[s]
        BY InvParts
      <3> PICK k : k = slot[s]
        OBVIOUS
      <3>1. k \in 1..Len(l) /\ l[k].st = "draft" /\ Lineage(l)
        BY <1>7, <2>3, InvParts
      <3>2. k = Len(l) /\ l # <<>> /\ Leaf(l) = l[k] /\ l[k] \in UploadObject
        <4>1. l[k].st \notin Settled
          BY <3>1 DEF Settled
        <4> QED BY <3>1, <4>1, NewestOnly
      <3>3. PICK x : x = [l[k] EXCEPT !.st = "queued", !.code = "", !.by = by]
        OBVIOUS
      <3>4. x \in UploadObject /\ x.st = "queued" /\ x.by = by
        BY <2>2, <3>2, <3>3 DEF UploadObject
      <3>5. jobs'[s] = WithLeaf(l, x)
        <4>1. jobs'[s] = [l EXCEPT ![k].st = "queued", ![k].code = "", ![k].by = by]
          BY <1>9, <2>3
        <4>2. [l EXCEPT ![k].st = "queued", ![k].code = "", ![k].by = by] = [l EXCEPT ![k] = x]
          BY <3>1, <3>3
        <4> QED BY <3>2, <4>1, <4>2 DEF WithLeaf
      <3>6. Newer(UploadObject, l, jobs'[s], x) /\ Len(jobs'[s]) = Len(l)
        BY <3>2, <3>4, <3>5, LeafSet
      <3>7. by = "auto" => profile.autoUpload /\ (Solo => Len(l) = 1)
        <4>1. by = "auto" => profile.autoUpload
          BY <1>7, <2>2
        <4>2. by = "auto" /\ Solo => k = 1
          BY <1>7, <2>2, <2>3
        <4> QED BY <3>2, <4>1, <4>2
      <3>8. Leaf(l).st # "submitted"
        BY <3>1, <3>2
      <3> QED BY <3>2, <3>4, <3>6, <3>7, <3>8 DEF UploadTurn
    <2>4. /\ DomainStep
          /\ Still /\ (\A s \in Segment : JobStill(jobs'[s], wf.slots[s])) => Still'
      <3>1. \A s \in Segment :
              \/ jobs'[s] = jobs[s]
              \/ /\ jobs[s] # <<>>
                 /\ \E x : /\ UploadTurn(jobs[s], jobs'[s], x)
                           /\ Len(jobs'[s]) = Len(jobs[s]) /\ Leaf(jobs[s]).st # "draft" =>
                                x.st # "draft"
        <4>1. ASSUME NEW s \in Segment, jobs[s][slot[s]].st = "draft"
              PROVE  /\ jobs[s] # <<>>
                     /\ \E x : /\ UploadTurn(jobs[s], jobs'[s], x)
                               /\ Len(jobs'[s]) = Len(jobs[s]) /\ Leaf(jobs[s]).st # "draft" =>
                                    x.st # "draft"
          <5>1. jobs[s] # <<>> /\ \E x : x.st = "queued" /\ UploadTurn(jobs[s], jobs'[s], x)
            BY <2>3, <4>1
          <5>2. PICK x : x.st = "queued" /\ UploadTurn(jobs[s], jobs'[s], x)
            BY <5>1
          <5>3. x.st # "draft"
            BY <5>2
          <5> QED BY <5>1, <5>2, <5>3
        <4> QED BY <2>1, <4>1
      <3> QED BY <1>5, <2>1, <3>1, JobsRenewed
    <2>5. Spares
      <3>1. Still => jobs' = jobs
        <4>1. ASSUME Still, NEW s \in Segment
              PROVE  jobs[s][slot[s]].st # "draft"
          <5>1. slot[s] \in DOMAIN jobs[s] /\ slot[s] <= wf.slots[s]
            BY <1>4, <1>6, <1>7, InvParts DEF Below
          <5> QED BY <4>1, <5>1 DEF Still
        <4> QED BY <2>1, <4>1, InvParts
      <3>2. Still => \A s \in Segment : JobStill(jobs'[s], wf.slots[s])
        BY <3>1, StillParts
      <3> QED BY <2>4, <3>2 DEF Spares
    <2>6. StandsAt(r, "uploading", "")'
      BY <1>7 DEF StandsAt, Ends, Prepared
    <2>7. /\ "uploading" \in ActiveStates /\ "" \in Codes /\ "read" \in Nexts \ {"create_batch"}
          /\ Ready(o, "read", Moved(r, "uploading", ""))'
      BY DEF ActiveStates, Codes, Nexts, Ready, Working
    <2> QED BY <1>1, <1>2, <1>5, <1>9, <2>4, <2>5, <2>6, <2>7, MoveActed
  <1> QED BY <1>5, <1>8, <1>9

-----------------------------------------------------------------------------
(***************************************************************************)
(* Cancellation                                                            *)
(***************************************************************************)
\* The row of a workflow whose furthest domain has answered
LEMMA CancelAnswered ==
  ASSUME Inv, NEW p \in Procs, NEW o \in OpRecord, o = op[p], NEW r \in Row, r = o.rec,
         Cancels(p), wf' = wf, DomainStep, Spares,
         NEW result \in {"stopped", "waiting", "completed", "ledger", "unknown", "partial",
                         "conflict"},
         Canceled(p, result),
         result = "stopped" => Fenced(r)' /\ (o.fresh => Still'),
         result = "completed" => AllDone' /\ r.outputs /\ Prepared(r),
         result = "ledger" => profile.ai
  PROVE  Inv'
  <1>1. op[p].pc \in Working /\ r.code = "cancel" /\ Rec(p) = r /\ profile' = profile
    BY DEF Cancels, At, Rec, Working, Pcs, DomainStep, Grows, Kept
  <1>2. /\ "" \in Codes /\ "done" \in Codes /\ {"ledger", "unknown", "partial", "conflict"} \subseteq Codes
        /\ "idle" \in Nexts \ {"create_batch"} /\ "read" \in Nexts \ {"create_batch"}
        /\ \A x \in Row : Ready(o, "idle", x)' /\ Ready(o, "read", x)'
        /\ \A st, c : Ready(o, "idle", Moved(r, st, c))' /\ Ready(o, "read", Moved(r, st, c))'
    BY DEF Codes, Nexts, Ready, Working
  <1>3. CASE result = "stopped"
    <2>1. Then(p, <<Move(Moved(r, "canceled", "done"))>>, "read")
      BY <1>1, <1>3 DEF Canceled
    <2>2. StandsAt(r, "canceled", "done")'
      BY DEF StandsAt, Ends
    <2> QED BY <1>1, <1>2, <1>3, <2>1, <2>2, MoveActed
  <1>4. CASE result = "waiting"
    <2>1. Then(p, <<>>, "idle")
      BY <1>4 DEF Canceled
    <2>2. Ready(o, "idle", o.rec)' /\ "idle" \in Nexts /\ "idle" # "create_batch"
      BY <1>2
    <2> QED BY <1>1, <2>1, <2>2, GoneActed
  <1>5. CASE result = "completed"
    <2>1. Then(p, <<Move(Moved(r, "completed", "done"))>>, "read")
      BY <1>1, <1>5 DEF Canceled, Completed
    <2>2. StandsAt(r, "completed", "done")'
      BY <1>5 DEF StandsAt, Ends, Prepared
    <2> QED BY <1>1, <1>2, <1>5, <2>1, <2>2, MoveActed
  <1>6. CASE result \in {"ledger", "unknown", "partial", "conflict"}
    <2>1. Then(p, <<Move(Moved(r, "attention_required", result))>>, "idle")
      BY <1>1, <1>6 DEF Canceled, Attention
    <2>2. StandsAt(r, "attention_required", result)'
      BY <1>1, <1>6 DEF StandsAt, Ends
    <2>3. result \in Codes
      BY <1>2, <1>6
    <2> QED BY <1>1, <1>2, <1>6, <2>1, <2>2, <2>3, MoveActed
  <1> QED BY <1>3, <1>4, <1>5, <1>6

\* What has come to rest in the domains before the one the row has come to,
\* and what there is not yet in those after it
LEMMA AtRest ==
  ASSUME Inv
  PROVE  /\ wf.asset /\ Solo => \A b \in DOMAIN batches : batches[b] \notin Live
         /\ planKey = "made" => \A s \in Stage : \A k \in DOMAIN tasks[s] : tasks[s][k].st \notin Live
         /\ wf.outputs => PlanStill(plans, wf.plan) /\ planKey = "made" /\ wf.asset
         /\ wf.plan # 0 => planKey = "made" /\ wf.asset
         /\ ~wf.outputs => \A s \in Segment : jobs[s] = <<>>
         /\ project # "made" => plans = <<>> /\ \A s \in Stage : tasks[s] = <<>>
         /\ planKey # "made" => plans = <<>>
         /\ ~wf.asset => /\ plans = <<>> /\ ~wf.outputs /\ \A s \in Stage : tasks[s] = <<>>
  <1> PICK r \in Row : r = wf
    BY InvParts
  <1>1. Good(r) /\ Rooted /\ Ladder(r) /\ Backed(r)
    BY InvParts DEF Inv, Good
  <1>2. r.asset /\ Solo => \A b \in DOMAIN batches : batches[b] \notin Live
    <2> SUFFICES ASSUME r.asset, Solo, NEW b \in DOMAIN batches
                 PROVE  batches[b] \notin Live
      OBVIOUS
    <2>1. b \in 1..Len(batches) /\ Len(batches) <= 1 /\ Len(batches) \in Nat /\ r.batch \in 0..2
      BY InvParts DEF Row
    <2>2. r.batch # 0 /\ r.batch <= Len(batches) /\ batches[r.batch] = "ready"
      BY <1>1 DEF Ladder, Backed
    <2>3. b = r.batch
      BY <2>1, <2>2
    <2> QED BY <2>2, <2>3 DEF Live, Running
  <1>3. planKey = "made" => \A s \in Stage : \A k \in DOMAIN tasks[s] : tasks[s][k].st \notin Live
    <2> SUFFICES ASSUME planKey = "made", NEW s \in Stage, NEW k \in DOMAIN tasks[s]
                 PROVE  tasks[s][k].st \notin Live
      OBVIOUS
    <2> PICK l \in Seq(EditObject) : l = tasks[s]
      BY InvParts
    <2>1. k \in 1..Len(l) /\ Len(l) \in Nat /\ EditLineage(l)
      BY InvParts
    <2>2. l # <<>>
      BY <2>1
    <2>3. Leaf(l).tl = "approved"
      BY <1>1, <2>2 DEF Rooted, AIDone, Approved
    <2>4. Len(l) \in DOMAIN l /\ Leaf(l) = l[Len(l)]
      BY <2>1 DEF Leaf
    <2>5. l[Len(l)].st = "ready"
      BY <2>1, <2>3, <2>4 DEF EditLineage
    <2>6. k < Len(l) => l[k].st \in Settled
      BY <2>1 DEF EditLineage, Lineage
    <2>7. k < Len(l) \/ k = Len(l)
      BY <2>1
    <2> QED BY <2>5, <2>6, <2>7 DEF Settled, Live, Running
  <1>4. r.outputs => PlanStill(plans, r.plan) /\ planKey = "made" /\ r.asset
    <2> SUFFICES ASSUME r.outputs
                 PROVE  PlanStill(plans, r.plan) /\ planKey = "made" /\ r.asset
      OBVIOUS
    <2>1. planKey = "made" /\ r.asset /\ plans # <<>> /\ Leaf(plans).st = "ready"
      BY <1>1 DEF Ladder, Backed
    <2>2. ASSUME NEW k \in DOMAIN plans
          PROVE  plans[k].st \in Settled \cup {"ready"}
      <3>1. plans \in Seq(EditObject) /\ k \in 1..Len(plans) /\ Len(plans) \in Nat /\ Lineage(plans)
        BY InvParts
      <3>2. k < Len(plans) => plans[k].st \in Settled
        BY <3>1 DEF Lineage
      <3>3. k < Len(plans) \/ k = Len(plans)
        BY <3>1
      <3> QED BY <2>1, <3>2, <3>3 DEF Leaf
    <2>3. PlanStill(plans, r.plan)
      BY <2>2 DEF PlanStill, Settled, Live, Running
    <2> QED BY <2>1, <2>3
  <1>5. ~r.outputs => \A s \in Segment : jobs[s] = <<>>
    BY <1>1 DEF Rooted
  <1>6. /\ r.plan # 0 => planKey = "made" /\ r.asset
        /\ planKey # "made" => plans = <<>>
        /\ project # "made" => plans = <<>> /\ \A s \in Stage : tasks[s] = <<>>
        /\ ~r.asset => /\ plans = <<>> /\ ~r.outputs /\ \A s \in Stage : tasks[s] = <<>>
    BY <1>1 DEF Rooted, Ladder, Backed
  <1> QED BY <1>2, <1>3, <1>4, <1>5, <1>6

LEMMA CancelDownloadKeeps ==
  ASSUME Inv, NEW p \in Procs, CancelDownload(p)
  PROVE  Inv'
  <1>1. PICK o \in OpRecord : o = op[p]
    BY OpKnows
  <1>2. PICK r \in Row : r = o.rec
    BY <1>1, OpKnows
  <1>3. /\ Cancels(p) /\ o.pc = "call" /\ ~r.asset /\ Rec(p) = r
        /\ UNCHANGED <<profile, wf, editing, uploads>>
    BY <1>1, <1>2 DEF CancelDownload, Cancels, At, Rec
  <1>4. \/ \E b \in 1..Len(batches) : (r.batch = b \/ (r.batch = 0 /\ Len(batches) = 1)) /\ StopBatch(p, b)
        \/ Len(batches) = 0 /\ Canceled(p, "stopped") /\ batches' = batches
        \/ Canceled(p, "conflict") /\ batches' = batches
    <2>1. r.batch <= Len(batches) /\ r.batch \in 0..2 /\ Len(batches) \in Nat
      BY <1>1, <1>2, OpKnows, InvParts DEF Good, Backed, Row
    <2>2. CASE r.batch # 0
      <3>1. StopBatch(p, r.batch) /\ r.batch \in 1..Len(batches)
        BY <1>3, <2>1, <2>2 DEF CancelDownload
      <3> QED BY <3>1
    <2>3. CASE r.batch = 0 /\ Len(batches) = 1
      <3>1. StopBatch(p, 1) /\ 1 \in 1..Len(batches)
        BY <1>3, <2>3 DEF CancelDownload
      <3> QED BY <2>3, <3>1
    <2>4. CASE r.batch = 0 /\ Len(batches) = 0
      BY <1>3, <2>4 DEF CancelDownload
    <2>5. CASE r.batch = 0 /\ Len(batches) # 0 /\ Len(batches) # 1
      BY <1>3, <2>5 DEF CancelDownload
    <2> QED BY <2>2, <2>3, <2>4, <2>5
  <1>5. Fenced(r)'
    <2>1. ~r.outputs
      BY <1>1, <1>2, <1>3, OpKnows DEF Good, Ladder
    <2> QED BY <1>3, <2>1 DEF Fenced
  <1>6. ASSUME batches' = batches
        PROVE  DomainStep /\ Spares /\ (Still => Still')
    <2>1. UNCHANGED <<profile, wf, domains>>
      BY <1>3, <1>6 DEF domains
    <2> QED BY <2>1, SameDomains DEF Spares
  <1>7. ASSUME o.fresh, \A b \in DOMAIN batches' : Solo => batches'[b] \notin Live
        PROVE  Still'
    <2>1. wf = r
      BY <1>1, <1>2, <1>7, OpKnows DEF OpFit
    <2>2. /\ plans = <<>> /\ (\A s \in Stage : tasks[s] = <<>>)
          /\ \A s \in Segment : jobs[s] = <<>>
      BY <1>3, <2>1, AtRest
    <2>3. plans' = <<>> /\ (\A s \in Stage : tasks'[s] = <<>>) /\ \A s \in Segment : jobs'[s] = <<>>
      BY <1>3, <2>2 DEF editing, uploads
    <2> QED BY <1>7, <2>3 DEF Still, Solo
  <1>8. ASSUME NEW b \in 1..Len(batches), r.batch = b \/ (r.batch = 0 /\ Len(batches) = 1), StopBatch(p, b)
        PROVE  Inv'
    <2>1. PICK x : x = CASE batches[b] = "queued" -> "canceled"
                         [] batches[b] = "running" -> "canceling"
                         [] OTHER -> batches[b]
      OBVIOUS
    <2>2. PICK result : result = IF x = "canceling" THEN "waiting" ELSE "stopped"
      OBVIOUS
    <2>3. batches' = [batches EXCEPT ![b] = x] /\ Canceled(p, result)
      BY <1>8, <2>1, <2>2 DEF StopBatch
    <2>4. batches \in Seq(Batch) /\ batches[b] \in Batch
      BY InvParts
    <2>5. /\ x \in Batch /\ (batches[b] = "ready" => x = "ready")
          /\ result \in {"stopped", "waiting"}
          /\ result = "stopped" => x \notin Live
      BY <2>1, <2>2, <2>4 DEF Batch, Live, Running
    <2>6. /\ batches' \in Seq(Batch) /\ Len(batches') = Len(batches) /\ batches'[b] = x
          /\ \A i \in 1..Len(batches) : i # b => batches'[i] = batches[i]
      BY <2>3, <2>4, <2>5, ExceptSeq
    <2>7. BatchesGrow
      BY <2>4, <2>5, <2>6, InvParts DEF BatchesGrow
    <2>8. DomainStep /\ Spares
      BY <1>3, <2>7, BatchesRenewed DEF Spares
    <2>9. result = "stopped" /\ o.fresh => Still'
      <3>1. ASSUME result = "stopped", Solo, NEW i \in DOMAIN batches'
            PROVE  batches'[i] \notin Live
        <4>1. i \in 1..Len(batches) /\ Len(batches) <= 1 /\ Len(batches) \in Nat
          BY <2>6, <3>1, InvParts
        <4>2. i = b
          BY <4>1
        <4> QED BY <2>5, <2>6, <3>1, <4>2
      <3> QED BY <1>7, <3>1
    <2> QED BY <1>1, <1>2, <1>3, <1>5, <2>3, <2>5, <2>8, <2>9, CancelAnswered
  <1>9. CASE Len(batches) = 0 /\ Canceled(p, "stopped") /\ batches' = batches
    <2>1. \A b \in DOMAIN batches' : Solo => batches'[b] \notin Live
      BY <1>9, InvParts
    <2>2. o.fresh => Still'
      BY <1>7, <2>1
    <2> QED BY <1>1, <1>2, <1>3, <1>5, <1>6, <1>9, <2>2, CancelAnswered
  <1>10. CASE Canceled(p, "conflict") /\ batches' = batches
    BY <1>1, <1>2, <1>3, <1>5, <1>6, <1>10, CancelAnswered
  <1> QED BY <1>4, <1>8, <1>9, <1>10

\* The cancellation of a plan or an AI task
LEMMA StopTurned ==
  ASSUME NEW l \in Seq(EditObject), EditLineage(l), l # <<>>, Leaf(l).code # "ledger",
         NEW x, x = Stop(Leaf(l))
  PROVE  /\ EditTurn(l, WithLeaf(l, x), x) /\ Len(WithLeaf(l, x)) = Len(l)
         /\ x.st \notin {"review", "queued"}
         /\ \A n : PlanStill(l, n) => /\ x.st \in Live => x.by = "late"
                                      /\ Len(l) <= n => x.st \in Settled \cup {"ready"}
  <1> PICK t : t = Leaf(l)
    OBVIOUS
  <1>1. Len(l) \in DOMAIN l /\ t = l[Len(l)] /\ t \in EditObject
    BY EmptySeq DEF Leaf
  <1>2. /\ t.tl = "approved" => t.st = "ready"
        /\ t.st \in {"review", "queued", "running", "canceling", "ready", "failed", "canceled"}
    BY <1>1 DEF EditLineage, EditObject
  <1>3. x = CASE t.st \in {"review", "queued"} -> [t EXCEPT !.st = "canceled", !.code = "failed"]
              [] t.st = "running" -> [t EXCEPT !.st = "canceling"]
              [] OTHER -> t
    BY DEF Stop
  <1>4. /\ x \in EditObject /\ x.tl = t.tl /\ x.by = t.by
        /\ x.code # "ledger" /\ x.st \notin {"review", "queued"}
        /\ t.st \in Settled \cup {"ready"} => x.st = t.st
        /\ x.st \in Live => t.st \in Live
    <2>1. CASE t.st \in {"review", "queued"}
      BY <1>1, <1>3, <2>1 DEF EditObject, Codings, Settled, Live, Running
    <2>2. CASE t.st = "running"
      BY <1>1, <1>3, <2>2 DEF EditObject, Settled, Live, Running
    <2>3. CASE t.st \notin {"review", "queued", "running"}
      BY <1>1, <1>3, <2>3
    <2> QED BY <2>1, <2>2, <2>3
  <1>5. PICK m : m = WithLeaf(l, x)
    OBVIOUS
  <1>6. Newer(EditObject, l, m, x) /\ Len(m) = Len(l)
    BY <1>4, <1>5, LeafSet
  <1>7. x.tl = "approved" => x.st = "ready"
    BY <1>2, <1>4
  <1>8. EditTurn(l, m, x)
    BY <1>4, <1>6, <1>7 DEF EditTurn, Settled
  <1>9. ASSUME NEW n, PlanStill(l, n)
        PROVE  /\ x.st \in Live => x.by = "late"
               /\ Len(l) <= n => x.st \in Settled \cup {"ready"}
    <2>1. /\ t.st \in Live => t.by = "late"
          /\ Len(l) <= n => t.st \in Settled \cup {"ready"}
      BY <1>1, <1>9 DEF PlanStill
    <2> QED BY <1>4, <2>1
  <1> QED BY <1>4, <1>5, <1>6, <1>8, <1>9

\* The cancellation of the newest render plan
LEMMA StopPlanKeeps ==
  ASSUME Inv, NEW p \in Procs, NEW o \in OpRecord, o = op[p], NEW r \in Row, r = o.rec,
         Cancels(p), StopPlan(p), planKey = "made", r.asset, ~r.outputs,
         UNCHANGED <<profile, wf, batches, project, planKey, tasks, uploads>>
  PROVE  Inv'
  <1>1. PICK t : t = Leaf(plans)
    OBVIOUS
  <1>2. PICK x : x = Stop(t)
    OBVIOUS
  <1>3. /\ plans # <<>> /\ project = "made" /\ plans \in Seq(EditObject) /\ EditLineage(plans)
        /\ t \in EditObject
    <2>1. plans # <<>> /\ project = "made"
      BY DEF Inv, Rooted
    <2>2. plans \in Seq(EditObject) /\ EditLineage(plans)
      BY InvParts
    <2>3. Len(plans) \in 1..Len(plans)
      BY <2>1, <2>2, EmptySeq
    <2> QED BY <1>1, <2>1, <2>2, <2>3 DEF Leaf
  <1>4. Fenced(r)'
    BY <1>3 DEF Fenced
  <1>5. CASE t.code = "ledger"
    <2>1. Canceled(p, "ledger") /\ plans' = plans
      BY <1>1, <1>5 DEF StopPlan
    <2>2. profile.ai
      BY <1>3, <1>5 DEF EditObject, Codings
    <2>3. UNCHANGED <<profile, wf, domains>>
      BY <2>1 DEF domains, editing
    <2>4. DomainStep /\ Spares
      BY <2>3, SameDomains DEF Spares
    <2> QED BY <2>1, <2>2, <2>4, CancelAnswered
  <1>6. CASE t.code # "ledger"
    <2>1. PICK result : result = IF x.st \in Running THEN "waiting" ELSE "stopped"
      OBVIOUS
    <2>2. plans' = WithLeaf(plans, x) /\ Canceled(p, result)
      <3>1. EditResult({x}) = result
        BY <2>1 DEF EditResult
      <3> QED BY <1>1, <1>2, <1>6, <3>1 DEF StopPlan
    <2>3. /\ EditTurn(plans, plans', x) /\ Len(plans') = Len(plans)
          /\ x.st \notin {"review", "queued"}
          /\ \A n : PlanStill(plans, n) => /\ x.st \in Live => x.by = "late"
                                           /\ Len(plans) <= n => x.st \in Settled \cup {"ready"}
      BY <1>1, <1>2, <1>3, <1>6, <2>2, StopTurned
    <2>4. DomainStep /\ PlansGrow /\ (Still => Still')
      <3>1. Still => /\ x.st \in Live => x.by = "late"
                     /\ Len(plans') <= wf.plan => x.st \in Settled \cup {"ready"}
        BY <2>3, StillParts
      <3> QED BY <1>3, <2>3, <3>1, PlansRenewed
    <2>5. ASSUME result = "stopped", o.fresh
          PROVE  Still'
      <3>1. wf = r
        BY <2>5, OpKnows DEF OpFit
      <3>2. x.st \in Settled \cup {"ready"}
        <4>1. x \in EditObject /\ x.st \notin Running
          BY <2>1, <2>3, <2>5 DEF EditTurn, Newer
        <4> QED BY <2>3, <4>1 DEF EditObject, Settled, Running
      <3>3. PlanStill(plans', wf.plan)
        <4>1. ASSUME NEW k \in DOMAIN plans'
              PROVE  plans'[k].st \in Settled \cup {"ready"}
          <5>1. /\ plans' \in Seq(EditObject) /\ Lineage(plans')
                /\ plans'[Len(plans')] = x
            BY <2>3, <2>4 DEF PlansGrow, EditGrown, EditTurn, Newer, EditLineage
          <5>2. k \in 1..Len(plans') /\ Len(plans') \in Nat
            BY <5>1
          <5>3. k < Len(plans') => plans'[k].st \in Settled
            BY <5>1 DEF Lineage
          <5>4. k < Len(plans') \/ k = Len(plans')
            BY <5>2
          <5> QED BY <3>2, <5>1, <5>3, <5>4
        <4> QED BY <4>1 DEF PlanStill, Settled, Live, Running
      <3>4. /\ Solo => \A b \in DOMAIN batches : batches[b] \notin Live
            /\ \A s \in Stage : \A k \in DOMAIN tasks[s] : tasks[s][k].st \notin Live
            /\ \A s \in Segment : jobs[s] = <<>>
        BY <3>1, AtRest
      <3> QED BY <3>3, <3>4 DEF Still, PlanStill, uploads, Solo
    <2>6. result \in {"stopped", "waiting"}
      BY <2>1
    <2> QED BY <1>4, <2>2, <2>4, <2>5, <2>6, CancelAnswered DEF Spares
  <1> QED BY <1>5, <1>6

LEMMA CancelEditKeeps ==
  ASSUME Inv, NEW p \in Procs, CancelEdit(p)
  PROVE  Inv'
  <1>1. PICK o \in OpRecord : o = op[p]
    BY OpKnows
  <1>2. PICK r \in Row : r = o.rec
    BY <1>1, OpKnows
  <1>3. /\ Cancels(p) /\ StopPlan(p) /\ ~r.outputs /\ r.plan # 0
        /\ UNCHANGED <<profile, wf, batches, project, planKey, tasks, uploads>>
    BY <1>1, <1>2 DEF CancelEdit, Rec
  <1>4. r.asset /\ planKey = "made"
    BY <1>1, <1>2, <1>3, OpKnows DEF Good, Ladder, Backed
  <1> QED BY <1>1, <1>2, <1>3, <1>4, StopPlanKeeps

\* The cancellation of the AI tasks that the workflow has so far
Stopped(ts) == [s \in Stage |-> IF ts[s] # <<>> THEN WithLeaf(ts[s], Stop(Leaf(ts[s]))) ELSE ts[s]]

LEMMA StopTasksKeeps ==
  ASSUME Inv, NEW p \in Procs, NEW o \in OpRecord, o = op[p], NEW r \in Row, r = o.rec,
         Cancels(p), project = "made", planKey # "made", r.asset, r.plan = 0,
         \A s \in Stage : tasks[s] # <<>> => Leaf(tasks[s]).code # "ledger",
         tasks' = Stopped(tasks), planKey' = "tomb",
         NEW result \in {"stopped", "waiting"},
         result = "stopped" =>
            \A s \in Stage : tasks[s] # <<>> => Leaf(tasks'[s]).st \notin Running,
         Canceled(p, result),
         UNCHANGED <<profile, wf, batches, project, plans, uploads>>
  PROVE  Inv'
  <1>1. /\ batches' = batches /\ plans' = plans /\ upKey' = upKey /\ jobs' = jobs
        /\ project' = project /\ plans = <<>>
    BY AtRest DEF uploads
  <1>2. ~r.outputs /\ Fenced(r)'
    <2>1. ~r.outputs
      BY OpKnows DEF Good, Ladder
    <2> QED BY <1>1, <2>1 DEF Fenced
  <1>3. ASSUME NEW s \in Stage
        PROVE  /\ EditGrown(tasks[s], tasks'[s])
               /\ tasks[s] = <<>> => tasks'[s] = <<>>
               /\ tasks[s] # <<>> =>
                    /\ tasks'[s] # <<>> /\ Leaf(tasks'[s]).st \notin {"review", "queued"}
                    /\ tasks'[s] \in Seq(EditObject) /\ Lineage(tasks'[s])
    <2> PICK l \in Seq(EditObject) : l = tasks[s]
      BY InvParts
    <2>1. EditLineage(l) /\ EditAuthority(l)
      BY InvParts
    <2>2. CASE l = <<>>
      <3>1. tasks'[s] = l
        BY <2>2 DEF Stopped
      <3> QED BY <2>1, <2>2, <3>1, EditSame
    <2>3. CASE l # <<>>
      <3>1. PICK x : x = Stop(Leaf(l))
        OBVIOUS
      <3>2. PICK m : m = WithLeaf(l, x)
        OBVIOUS
      <3>3. EditTurn(l, m, x) /\ x.st \notin {"review", "queued"}
        BY <2>1, <2>3, <3>1, <3>2, StopTurned
      <3>4. EditGrown(l, m) /\ m # <<>> /\ Leaf(m) = x
        BY <2>1, <3>3, EditTurned
      <3>5. tasks'[s] = m
        BY <2>3, <3>1, <3>2 DEF Stopped
      <3> QED BY <2>3, <3>3, <3>4, <3>5 DEF EditGrown, EditLineage
    <2> QED BY <2>2, <2>3
  <1>4. TasksGrow
    <2>1. tasks' = [s \in Stage |-> tasks'[s]]
      BY DEF Stopped
    <2>2. \A s \in Stage : tasks'[s] \in Seq(EditObject)
      BY <1>3 DEF EditGrown
    <2> QED BY <1>3, <2>1, <2>2 DEF TasksGrow
  <1>5. BatchesGrow /\ PlansGrow /\ JobsGrow /\ DraftsStay
    BY <1>1, SameParts
  <1>6. KeysGrow
    BY <1>1, InvParts DEF KeysGrow, Key
  <1>7. Rooted'
    BY <1>1, <1>3 DEF Inv, Rooted
  <1>8. DomainStep
    BY <1>4, <1>5, <1>6, <1>7, Developed
  <1>9. Spares
    BY <1>1 DEF Spares, Still, Solo
  <1>10. ASSUME result = "stopped", o.fresh
         PROVE  Still'
    <2>1. wf = r
      BY <1>10, OpKnows DEF OpFit
    <2>2. /\ Solo => \A b \in DOMAIN batches : batches[b] \notin Live
          /\ \A s \in Segment : jobs[s] = <<>>
      BY <1>2, <2>1, AtRest
    <2>3. ASSUME NEW s \in Stage, NEW k \in DOMAIN tasks'[s]
          PROVE  tasks'[s][k].st \notin Live
      <3>1. tasks[s] # <<>>
        BY <1>3, <2>3
      <3> PICK m \in Seq(EditObject) : m = tasks'[s]
        BY <1>3, <3>1
      <3>2. Lineage(m) /\ Leaf(m).st \notin {"queued"} \cup Running /\ k \in 1..Len(m) /\ Len(m) \in Nat
        BY <1>3, <1>10, <2>3, <3>1
      <3>3. k < Len(m) => m[k].st \in Settled
        BY <3>2 DEF Lineage
      <3>4. k < Len(m) \/ k = Len(m)
        BY <3>2
      <3> QED BY <3>2, <3>3, <3>4 DEF Leaf, Settled, Live, Running
    <2> QED BY <1>1, <2>2, <2>3 DEF Still, Solo
  <1> QED BY <1>2, <1>8, <1>9, <1>10, CancelAnswered

LEMMA CancelEditForWorkflowKeeps ==
  ASSUME Inv, NEW p \in Procs, CancelEditForWorkflow(p)
  PROVE  Inv'
  <1>1. PICK o \in OpRecord : o = op[p]
    BY OpKnows
  <1>2. PICK r \in Row : r = o.rec
    BY <1>1, OpKnows
  <1>3. /\ Cancels(p) /\ r.asset /\ r.plan = 0
        /\ UNCHANGED <<profile, wf, batches, uploads>>
    BY <1>1, <1>2 DEF CancelEditForWorkflow, Rec
  <1>4. ~r.outputs
    BY <1>1, <1>2, <1>3, OpKnows DEF Good, Ladder
  <1>5. CASE project # "made"
    <2>1. project' = "tomb" /\ planKey' = "tomb" /\ Canceled(p, "stopped") /\ UNCHANGED <<plans, tasks>>
      BY <1>5 DEF CancelEditForWorkflow
    <2>2. planKey # "made"
      BY <1>5 DEF Inv, Rooted
    <2>3. DomainStep /\ (Still => Still')
      BY <1>3, <1>5, <2>1, <2>2, KeysRenewed DEF Key
    <2>4. Fenced(r)'
      BY <1>4, <2>1 DEF Fenced
    <2>5. o.fresh => Still'
      <3> SUFFICES ASSUME o.fresh
                   PROVE  Still
        BY <2>3
      <3>1. wf = r
        BY <1>1, <1>2, OpKnows DEF OpFit
      <3>2. /\ Solo => \A b \in DOMAIN batches : batches[b] \notin Live
            /\ \A s \in Segment : jobs[s] = <<>>
            /\ plans = <<>> /\ \A s \in Stage : tasks[s] = <<>>
        BY <1>3, <1>4, <1>5, <3>1, AtRest
      <3> QED BY <3>2 DEF Still
    <2> QED BY <1>1, <1>2, <1>3, <2>1, <2>3, <2>4, <2>5, CancelAnswered DEF Spares
  <1>6. CASE project = "made" /\ planKey = "made"
    <2>1. StopPlan(p) /\ UNCHANGED <<project, planKey, tasks>>
      BY <1>6 DEF CancelEditForWorkflow
    <2> QED BY <1>1, <1>2, <1>3, <1>4, <1>6, <2>1, StopPlanKeeps
  <1>7. CASE project = "made" /\ planKey # "made"
    <2> DEFINE S == {s \in Stage : tasks[s] # <<>>}
               stopped == [s \in Stage |-> IF s \in S THEN WithLeaf(tasks[s], Stop(Leaf(tasks[s])))
                                           ELSE tasks[s]]
    <2>1. IF \E s \in S : Leaf(tasks[s]).code = "ledger"
          THEN Canceled(p, "ledger") /\ UNCHANGED editing
          ELSE /\ tasks' = stopped /\ planKey' = "tomb"
               /\ Canceled(p, EditResult({Leaf(stopped[s]) : s \in S}))
               /\ UNCHANGED <<project, plans>>
      BY <1>7 DEF CancelEditForWorkflow
    <2>2. CASE \E s \in S : Leaf(tasks[s]).code = "ledger"
      <3>1. Canceled(p, "ledger") /\ UNCHANGED <<profile, wf, domains>>
        BY <1>3, <2>1, <2>2 DEF domains
      <3>2. DomainStep /\ Spares
        BY <3>1, SameDomains DEF Spares
      <3>3. profile.ai
        BY <2>2 DEF Inv, Rooted
      <3> QED BY <1>1, <1>2, <1>3, <3>1, <3>2, <3>3, CancelAnswered
    <2>3. CASE ~\E s \in S : Leaf(tasks[s]).code = "ledger"
      <3>1. stopped = Stopped(tasks)
        BY DEF Stopped
      <3>2. PICK T : T = {Leaf(stopped[s]) : s \in S}
        OBVIOUS
      <3>3. tasks' = stopped /\ planKey' = "tomb" /\ Canceled(p, EditResult(T)) /\ UNCHANGED <<project, plans>>
        BY <2>1, <2>3, <3>2
      <3>4. PICK result : result = EditResult(T)
        OBVIOUS
      <3>5. result \in {"stopped", "waiting"} /\ (result = "stopped" => \A x \in T : x.st \notin Running)
        BY <3>4 DEF EditResult
      <3>6. result = "stopped" => \A s \in Stage : tasks[s] # <<>> => Leaf(tasks'[s]).st \notin Running
        BY <3>2, <3>3, <3>5
      <3>7. /\ \A s \in Stage : tasks[s] # <<>> => Leaf(tasks[s]).code # "ledger"
            /\ tasks' = Stopped(tasks) /\ Canceled(p, result)
        BY <2>3, <3>1, <3>3, <3>4
      <3> QED BY <1>1, <1>2, <1>3, <1>7, <3>3, <3>5, <3>6, <3>7, StopTasksKeeps
    <2> QED BY <2>2, <2>3
  <1> QED BY <1>5, <1>6, <1>7

\* The cancellation of an upload job
LEMMA StopJobTurned ==
  ASSUME NEW l \in Seq(UploadObject), Lineage(l), l # <<>>, NEW x, x = StopJob(Leaf(l))
  PROVE  /\ UploadTurn(l, WithLeaf(l, x), x) /\ Len(WithLeaf(l, x)) = Len(l)
         /\ x.st # "draft" /\ WithLeaf(l, x) # <<>> /\ Leaf(WithLeaf(l, x)) = x
         /\ \A n : JobStill(l, n) => /\ x.st \in Live => x.by = "late"
                                     /\ Len(l) <= n => x.st \notin {"draft"} \cup Live
                                     /\ JobStill(WithLeaf(l, x), n)
  <1> PICK t : t = Leaf(l)
    OBVIOUS
  <1>1. Len(l) \in DOMAIN l /\ t = l[Len(l)] /\ t \in UploadObject
    BY EmptySeq DEF Leaf
  <1>2. x = CASE t.st \in {"draft", "queued"} -> [t EXCEPT !.st = "canceled", !.code = "failed"]
              [] t.st = "running" -> [t EXCEPT !.code = "cancel"]
              [] OTHER -> t
    BY DEF StopJob
  <1>3. /\ x \in UploadObject /\ x.by = t.by /\ x.st # "draft"
        /\ t.st = "submitted" => x.st = "submitted"
        /\ x.st \in Live => t.st \in Live
    <2>1. CASE t.st \in {"draft", "queued"}
      BY <1>1, <1>2, <2>1 DEF UploadObject, Live, Running
    <2>2. CASE t.st = "running"
      BY <1>1, <1>2, <2>2 DEF UploadObject, Live, Running
    <2>3. CASE t.st \notin {"draft", "queued", "running"}
      BY <1>1, <1>2, <2>3
    <2> QED BY <2>1, <2>2, <2>3
  <1>5. PICK m : m = WithLeaf(l, x)
    OBVIOUS
  <1>6. Newer(UploadObject, l, m, x) /\ Len(m) = Len(l)
    BY <1>3, <1>5, LeafSet
  <1>7. UploadTurn(l, m, x)
    BY <1>3, <1>6 DEF UploadTurn
  <1>8. m # <<>> /\ Leaf(m) = x
    BY <1>6, NewerLineage
  <1>9. ASSUME NEW n, JobStill(l, n)
        PROVE  /\ x.st \in Live => x.by = "late"
               /\ Len(l) <= n => x.st \notin {"draft"} \cup Live
               /\ JobStill(m, n)
    <2>1. /\ t.st \in Live => t.by = "late"
          /\ Len(l) <= n => t.st \notin {"draft"} \cup Live
      BY <1>1, <1>9 DEF JobStill
    <2>2. /\ x.st \in Live => x.by = "late"
          /\ Len(l) <= n => x.st \notin {"draft"} \cup Live
      BY <1>3, <2>1
    <2>3. JobStill(m, n)
      BY <1>6, <1>9, <2>2, JobStilled
    <2> QED BY <2>2, <2>3
  <1> QED BY <1>3, <1>5, <1>6, <1>7, <1>8, <1>9

LEMMA JobsAnswer ==
  ASSUME NEW js, NEW S
  PROVE  /\ JobsResult(js, S) \in {"waiting", "unknown", "completed", "stopped", "partial"}
         /\ JobsResult(js, S) = "stopped" => \A s \in S : Leaf(js[s]).st \in Settled
         /\ JobsResult(js, S) = "completed" => \A s \in S : Leaf(js[s]).st = "submitted"
  <1> PICK states : states = {Leaf(js[s]).st : s \in S}
    OBVIOUS
  <1>1. JobsResult(js, S) =
          CASE "running" \in states -> "waiting"
            [] "running" \notin states /\ "unknown" \in states -> "unknown"
            [] states # {} /\ states \subseteq Success -> "completed"
            [] states \subseteq {"failed", "canceled"} -> "stopped"
            [] OTHER -> "partial"
    BY DEF JobsResult
  <1>2. \A s \in S : Leaf(js[s]).st \in states
    OBVIOUS
  <1>3. states # {} /\ states \subseteq Success => ~(states \subseteq {"failed", "canceled"})
    BY DEF Success
  <1>4. CASE "running" \in states
    BY <1>1, <1>4 DEF Success
  <1>5. CASE "running" \notin states /\ "unknown" \in states
    BY <1>1, <1>5 DEF Success
  <1>6. CASE "running" \notin states /\ "unknown" \notin states /\ states # {} /\ states \subseteq Success
    <2>1. JobsResult(js, S) = "completed"
      BY <1>1, <1>3, <1>6
    <2> QED BY <1>2, <1>6, <2>1 DEF Success
  <1>7. CASE /\ "running" \notin states /\ "unknown" \notin states
             /\ ~(states # {} /\ states \subseteq Success) /\ states \subseteq {"failed", "canceled"}
    <2>1. JobsResult(js, S) = "stopped"
      BY <1>1, <1>7
    <2> QED BY <1>2, <1>7, <2>1 DEF Settled
  <1>8. CASE /\ "running" \notin states /\ "unknown" \notin states
             /\ ~(states # {} /\ states \subseteq Success) /\ ~(states \subseteq {"failed", "canceled"})
    <2>1. JobsResult(js, S) = "partial"
      BY <1>1, <1>8
    <2> QED BY <2>1
  <1> QED BY <1>4, <1>5, <1>6, <1>7, <1>8

\* What stopping the jobs of the segments of S does
LEMMA JobsStopped ==
  ASSUME Inv, NEW S \in SUBSET Segment, \A s \in S : jobs[s] # <<>>, jobs' = StopJobs(S)
  PROVE  /\ jobs' = [s \in Segment |-> jobs'[s]]
         /\ \A s \in Segment \ S : jobs'[s] = jobs[s]
         /\ \A s \in Segment : jobs'[s] = <<>> <=> jobs[s] = <<>>
         /\ \A s \in S : \E x : /\ UploadTurn(jobs[s], jobs'[s], x)
                                /\ x.st # "draft"
         /\ \A s \in Segment : JobStill(jobs[s], wf.slots[s]) => JobStill(jobs'[s], wf.slots[s])
         /\ \A s \in S : Leaf(jobs'[s]).st \in Settled => JobStill(jobs'[s], wf.slots[s])
  <1>1. /\ jobs' = [s \in Segment |-> jobs'[s]]
        /\ \A s \in Segment \ S : jobs'[s] = jobs[s]
        /\ \A s \in S : jobs'[s] = WithLeaf(jobs[s], StopJob(Leaf(jobs[s])))
    BY DEF StopJobs
  <1>2. ASSUME NEW s \in S
        PROVE  /\ jobs'[s] # <<>>
               /\ \E x : UploadTurn(jobs[s], jobs'[s], x) /\ x.st # "draft"
               /\ JobStill(jobs[s], wf.slots[s]) => JobStill(jobs'[s], wf.slots[s])
               /\ Leaf(jobs'[s]).st \in Settled => JobStill(jobs'[s], wf.slots[s])
    <2> PICK l \in Seq(UploadObject) : l = jobs[s]
      BY InvParts
    <2> PICK x : x = StopJob(Leaf(l))
      OBVIOUS
    <2> PICK m : m = WithLeaf(l, x)
      OBVIOUS
    <2>1. jobs'[s] = m /\ l # <<>> /\ Lineage(l)
      BY <1>1, InvParts
    <2>2. /\ UploadTurn(l, m, x) /\ x.st # "draft" /\ m # <<>> /\ Leaf(m) = x
          /\ JobStill(l, wf.slots[s]) => JobStill(m, wf.slots[s])
      BY <2>1, StopJobTurned
    <2>3. Leaf(m).st \in Settled => JobStill(m, wf.slots[s])
      <3> SUFFICES ASSUME Leaf(m).st \in Settled, NEW k \in DOMAIN m
                   PROVE  m[k].st \in Settled
        BY DEF JobStill, Settled, Live, Running
      <3>1. m \in Seq(UploadObject) /\ Lineage(m) /\ Newer(UploadObject, l, m, x)
        BY <2>1, <2>2, NewerLineage DEF UploadTurn
      <3>2. k \in 1..Len(m) /\ Len(m) \in Nat
        BY <3>1
      <3>3. k < Len(m) => m[k].st \in Settled
        BY <3>1 DEF Lineage
      <3>4. k < Len(m) \/ k = Len(m)
        BY <3>2
      <3> QED BY <3>3, <3>4 DEF Leaf
    <2> QED BY <2>1, <2>2, <2>3
  <1> QED BY <1>1, <1>2

LEMMA CancelUploadsKeeps ==
  ASSUME Inv, NEW p \in Procs, CancelUploads(p)
  PROVE  Inv'
  <1>1. PICK o \in OpRecord : o = op[p]
    BY OpKnows
  <1>2. PICK r \in Row : r = o.rec
    BY <1>1, OpKnows
  <1>3. PICK result : result = JobsResult(jobs', Segment)
    OBVIOUS
  <1>4. /\ Cancels(p) /\ ~Unprepared(r) /\ HasJobs(r) /\ jobs' = StopJobs(Segment)
        /\ Canceled(p, result)
        /\ UNCHANGED <<profile, wf, batches, editing, upKey>>
    <2>1. /\ Cancels(p) /\ ~Unprepared(r) /\ HasJobs(r) /\ jobs' = StopJobs(Segment)
          /\ Canceled(p, JobsResult(StopJobs(Segment), Segment))
          /\ UNCHANGED <<profile, wf, batches, editing, upKey>>
      BY <1>1, <1>2 DEF CancelUploads, Rec
    <2> QED BY <1>3, <2>1
  <1>5. /\ r.outputs /\ Prepared(r) /\ r.plan # 0 /\ Good(r)
        /\ \A s \in Segment : r.slots[s] # 0 /\ r.slots[s] <= Len(jobs[s]) /\ r.slots[s] \in Nat
    <2>1. Good(r)
      BY <1>1, <1>2, OpKnows
    <2>2. r.outputs /\ Prepared(r) /\ r.plan # 0
      BY <1>4, <2>1 DEF Unprepared, Good, Ladder
    <2> QED BY <2>1, <2>2 DEF Good, Backed, Prepared, Row
  <1>6. \A s \in Segment : jobs[s] # <<>> /\ upKey[s] = "made"
    <2>1. ASSUME NEW s \in Segment, jobs[s] = <<>>
          PROVE  FALSE
      <3>1. Len(jobs[s]) = 0
        BY <2>1
      <3> QED BY <1>5, <3>1
    <2> QED BY <2>1 DEF Inv, Rooted
  <1>7. /\ jobs' = [s \in Segment |-> jobs'[s]]
        /\ \A s \in Segment : jobs'[s] # <<>>
        /\ \A s \in Segment : \E x : UploadTurn(jobs[s], jobs'[s], x) /\ x.st # "draft"
        /\ \A s \in Segment : JobStill(jobs[s], wf.slots[s]) => JobStill(jobs'[s], wf.slots[s])
        /\ \A s \in Segment : Leaf(jobs'[s]).st \in Settled => JobStill(jobs'[s], wf.slots[s])
    BY <1>4, <1>6, JobsStopped
  <1>8. /\ DomainStep
        /\ Still /\ (\A s \in Segment : JobStill(jobs'[s], wf.slots[s])) => Still'
    <2>1. \A s \in Segment :
            \/ jobs'[s] = jobs[s]
            \/ /\ jobs[s] # <<>>
               /\ \E x : /\ UploadTurn(jobs[s], jobs'[s], x)
                         /\ Len(jobs'[s]) = Len(jobs[s]) /\ Leaf(jobs[s]).st # "draft" =>
                              x.st # "draft"
      BY <1>6, <1>7
    <2> QED BY <1>4, <1>7, <2>1, JobsRenewed
  <1>9. Spares
    BY <1>7, <1>8, StillParts DEF Spares
  <1>10. /\ result \in {"waiting", "unknown", "completed", "stopped", "partial"}
         /\ result = "stopped" => \A s \in Segment : Leaf(jobs'[s]).st \in Settled
         /\ result = "completed" => \A s \in Segment : Leaf(jobs'[s]).st = "submitted"
    BY <1>3, JobsAnswer
  <1>11. result = "completed" => AllDone'
    BY <1>7, <1>10 DEF AllDone
  <1>12. Fenced(r)'
    BY <1>5 DEF Fenced
  <1>13. ASSUME result = "stopped", o.fresh
         PROVE  Still'
    <2>1. wf = r
      BY <1>1, <1>2, <1>13, OpKnows DEF OpFit
    <2>2. /\ PlanStill(plans, wf.plan) /\ planKey = "made" /\ wf.asset
      BY <1>5, <2>1, AtRest
    <2>3. /\ Solo => \A b \in DOMAIN batches : batches[b] \notin Live
          /\ \A s \in Stage : \A k \in DOMAIN tasks[s] : tasks[s][k].st \notin Live
      BY <2>2, AtRest
    <2>4. \A s \in Segment : JobStill(jobs'[s], wf.slots[s])
      BY <1>7, <1>10, <1>13
    <2> QED BY <1>4, <2>2, <2>3, <2>4 DEF Still, PlanStill, JobStill, editing, Solo
  <1>14. result \in {"stopped", "waiting", "completed", "ledger", "unknown", "partial", "conflict"}
    BY <1>10
  <1>15. result # "ledger"
    BY <1>10
  <1> QED BY <1>1, <1>2, <1>4, <1>5, <1>8, <1>9, <1>11, <1>12, <1>13, <1>14, <1>15, CancelAnswered

LEMMA CancelUploadsForWorkflowKeeps ==
  ASSUME Inv, NEW p \in Procs, CancelUploadsForWorkflow(p)
  PROVE  Inv'
  <1>1. PICK o \in OpRecord : o = op[p]
    BY OpKnows
  <1>2. PICK r \in Row : r = o.rec
    BY <1>1, OpKnows
  <1>3. PICK s : s = Pending(r)
    OBVIOUS
  <1>4. PICK S : S = {t \in Segment : r.slots[t] # 0} \cup (IF upKey[s] = "made" THEN {s} ELSE {})
    OBVIOUS
  <1>5. PICK answer : answer = JobsResult(StopJobs(S), S)
    OBVIOUS
  <1>6. PICK result : result = IF answer = "completed" THEN "partial" ELSE answer
    OBVIOUS
  <1>7. /\ Cancels(p) /\ Unprepared(r) /\ upKey' = [upKey EXCEPT ![s] = Claimed(@)]
        /\ jobs' = StopJobs(S) /\ Canceled(p, result)
        /\ UNCHANGED <<profile, wf, batches, editing>>
    <2>1. Rec(p) = r
      BY <1>1, <1>2 DEF Rec
    <2> QED BY <1>3, <1>4, <1>5, <1>6, <2>1 DEF CancelUploadsForWorkflow
  <1>8. /\ r.outputs /\ ~Prepared(r) /\ r.plan # 0 /\ Good(r) /\ Below(r, wf)
        /\ \A t \in Segment : r.slots[t] \in Nat /\ r.slots[t] <= Len(jobs[t])
    <2>1. Good(r) /\ Below(r, wf)
      BY <1>1, <1>2, OpKnows
    <2> QED BY <1>7, <2>1 DEF Unprepared, Good, Ladder, Backed, Row
  <1>9. s \in Segment /\ r.slots[s] = 0 /\ \A t \in Segment : t < s => r.slots[t] # 0
    BY <1>3, <1>8, PendingSegment
  <1>10. /\ S \in SUBSET Segment
         /\ \A t \in S : jobs[t] # <<>>
         /\ \A t \in Segment : r.slots[t] # 0 => t \in S
         /\ upKey[s] = "made" => s \in S
    <2>1. ASSUME NEW t \in Segment, r.slots[t] # 0, jobs[t] = <<>>
          PROVE  FALSE
      <3>1. Len(jobs[t]) = 0
        BY <2>1
      <3> QED BY <1>8, <2>1, <3>1
    <2>2. upKey[s] = "made" => jobs[s] # <<>>
      BY <1>9 DEF Inv, Rooted
    <2> QED BY <1>4, <1>9, <2>1, <2>2
  <1>11. /\ jobs' = [t \in Segment |-> jobs'[t]]
         /\ \A t \in Segment \ S : jobs'[t] = jobs[t]
         /\ \A t \in Segment : jobs'[t] = <<>> <=> jobs[t] = <<>>
         /\ \A t \in S : \E x : UploadTurn(jobs[t], jobs'[t], x) /\ x.st # "draft"
         /\ \A t \in Segment : JobStill(jobs[t], wf.slots[t]) => JobStill(jobs'[t], wf.slots[t])
         /\ \A t \in S : Leaf(jobs'[t]).st \in Settled => JobStill(jobs'[t], wf.slots[t])
    BY <1>7, <1>10, JobsStopped
  <1>12. /\ upKey' \in [Segment -> Key] /\ upKey'[s] # "none"
         /\ upKey'[s] = "made" <=> upKey[s] = "made"
         /\ \A t \in Segment \ {s} : upKey'[t] = upKey[t]
    <2>1. Claimed(upKey[s]) \in Key /\ Claimed(upKey[s]) # "none"
          /\ (Claimed(upKey[s]) = "made" <=> upKey[s] = "made")
      BY <1>9, InvParts DEF Claimed, Key
    <2> QED BY <1>7, <1>9, <2>1, InvParts
  <1>13. /\ DomainStep
         /\ Still /\ (\A t \in Segment : JobStill(jobs'[t], wf.slots[t])) => Still'
    <2>1. \A t \in Segment :
            /\ upKey[t] # "none" => upKey'[t] # "none"
            /\ upKey'[t] = "made" <=> jobs'[t] # <<>>
            /\ upKey'[t] # "none" => /\ wf.outputs
                                     /\ \A v \in Segment : v < t => wf.slots[v] # 0
      <3>1. wf.outputs /\ \A v \in Segment : v < s => wf.slots[v] # 0
        <4>1. \A v \in Segment : r.slots[v] # 0 => wf.slots[v] # 0
          BY <1>8, InvParts DEF Below, Row
        <4> QED BY <1>8, <1>9, <4>1 DEF Below
      <3>2. Rooted
        BY DEF Inv
      <3> QED BY <1>9, <1>11, <1>12, <3>1, <3>2 DEF Rooted
    <2>2. \A t \in Segment :
            \/ jobs'[t] = jobs[t]
            \/ \E x : /\ UploadTurn(jobs[t], jobs'[t], x)
                      /\ Len(jobs'[t]) = Len(jobs[t]) /\ Leaf(jobs[t]).st # "draft" =>
                           x.st # "draft"
      BY <1>11
    <2> QED BY <1>7, <1>11, <1>12, <2>1, <2>2, UploadsRenewed
  <1>14. Spares
    BY <1>11, <1>13, StillParts DEF Spares
  <1>15. /\ result \in {"waiting", "unknown", "stopped", "partial"}
         /\ result = "stopped" => \A t \in S : Leaf(jobs'[t]).st \in Settled
    <2>1. /\ answer \in {"waiting", "unknown", "completed", "stopped", "partial"}
          /\ answer = "stopped" => \A t \in S : Leaf(StopJobs(S)[t]).st \in Settled
      BY <1>5, JobsAnswer
    <2> QED BY <1>6, <1>7, <2>1
  <1>16. Fenced(r)'
    <2>1. ASSUME NEW t \in Segment, r.slots[t] = 0, \A v \in Segment : v < t => r.slots[v] # 0
          PROVE  t = s
      BY <1>9, <2>1 DEF Segment
    <2> QED BY <1>8, <1>12, <2>1 DEF Fenced
  <1>17. ASSUME result = "stopped", o.fresh
         PROVE  Still'
    <2>1. wf = r
      BY <1>1, <1>2, <1>17, OpKnows DEF OpFit
    <2>2. PlanStill(plans, wf.plan) /\ planKey = "made" /\ wf.asset
      BY <1>8, <2>1, AtRest
    <2>3. /\ Solo => \A b \in DOMAIN batches : batches[b] \notin Live
          /\ \A t \in Stage : \A k \in DOMAIN tasks[t] : tasks[t][k].st \notin Live
      BY <2>2, AtRest
    <2>4. ASSUME NEW t \in Segment, t \notin S
          PROVE  jobs'[t] = <<>>
      <3>1. wf.slots[t] = 0 /\ wf.slots[s] = 0
        BY <1>9, <1>10, <2>1, <2>4
      <3>2. upKey[t] # "made"
        <4>1. CASE t = s
          BY <1>10, <2>4, <4>1
        <4>2. CASE t # s
          <5>1. s < t
            <6>1. ~(t < s)
              BY <1>9, <2>1, <3>1
            <6> QED BY <1>9, <4>2, <6>1 DEF Segment
          <5> QED BY <1>9, <3>1, <5>1 DEF Inv, Rooted
        <4> QED BY <4>1, <4>2
      <3> QED BY <1>11, <2>4, <3>2 DEF Inv, Rooted
    <2>5. \A t \in Segment : JobStill(jobs'[t], wf.slots[t])
      <3>1. ASSUME NEW t \in Segment, t \notin S
            PROVE  JobStill(jobs'[t], wf.slots[t])
        BY <2>4, <3>1 DEF JobStill
      <3> QED BY <1>11, <1>15, <1>17, <3>1
    <2> QED BY <1>7, <2>2, <2>3, <2>5 DEF Still, PlanStill, JobStill, editing, Solo
  <1>18. result \in {"stopped", "waiting", "completed", "ledger", "unknown", "partial", "conflict"}
    BY <1>15
  <1>19. result # "ledger" /\ result # "completed"
    BY <1>15
  <1> QED BY <1>1, <1>2, <1>7, <1>13, <1>14, <1>16, <1>17, <1>18, <1>19, CancelAnswered

-----------------------------------------------------------------------------
(***************************************************************************)
(* The domains' workers and pages                                          *)
(***************************************************************************)
\* A step of a domain leaves every operation where it was.
LEMMA DomainsActed ==
  ASSUME Inv, op' = op, wf' = wf, DomainStep,
         Still /\ (wf.state = "canceled" \/ wf.code = "cancel") => Still',
         batches = <<>> => batches' = <<>>
  PROVE  Inv'
  <1>1. op \in [Procs -> OpRecord] /\ wf \in Row /\ \A q \in Procs : OpFit(op[q])
    BY DEF Inv, Good
  <1>2. \A q \in Procs : OpFit(op[q])'
    <2>1. ASSUME NEW q \in Procs, NEW x \in OpRecord, x = op[q]
          PROVE  OpFit(x)'
      BY <1>1, <2>1, FitKept, BelowSame DEF Inv, DomainStep
    <2>2. ASSUME NEW q \in Procs
          PROVE  OpFit(op[q])'
      <3>1. PICK x \in OpRecord : x = op[q]
        BY <1>1
      <3> QED BY <2>1, <3>1
    <2> QED BY <2>2
  <1>3. Good(wf)'
    <2>1. PICK r \in Row : r = wf
      BY <1>1
    <2>2. Good(r)'
      BY <2>1, GoodKept DEF Inv, DomainStep
    <2> QED BY <2>1, <2>2
  <1>4. Alone'
    BY DEF Inv, Alone, DomainStep, Solo
  <1>5. Quiet'
    BY DEF Inv, Quiet, Stopping
  <1> QED BY <1>1, <1>2, <1>3, <1>4, <1>5 DEF Inv, DomainStep, Grows, Kept

LEMMA DownloadWorkerKeeps ==
  ASSUME Inv, DownloadWorker
  PROVE  Inv'
  <1>1. /\ op' = op /\ wf' = wf /\ UNCHANGED <<profile, wf, editing, uploads>>
        /\ batches \in Seq(Batch) /\ Len(batches) <= 2 /\ (Solo => Len(batches) <= 1)
    BY InvParts DEF DownloadWorker
  <1>2. PICK b \in 1..Len(batches), y \in Batch :
           batches[b] \in Live /\ batches' = [batches EXCEPT ![b] = y]
    <2>1. DOMAIN batches = 1..Len(batches)
      BY <1>1
    <2>2. PICK b \in DOMAIN batches :
            \/ /\ batches[b] = "queued" /\ batches' = [batches EXCEPT ![b] = "running"]
            \/ /\ batches[b] \in Running
               /\ batches' = [batches EXCEPT ![b] = IF @ = "running" THEN "ready" ELSE "canceled"]
            \/ /\ batches[b] = "running" /\ batches' = [batches EXCEPT ![b] = "failed"]
      BY DEF DownloadWorker
    <2>3. CASE batches[b] = "queued" /\ batches' = [batches EXCEPT ![b] = "running"]
      BY <2>1, <2>3 DEF Batch, Live
    <2>4. CASE /\ batches[b] \in Running
               /\ batches' = [batches EXCEPT ![b] = IF @ = "running" THEN "ready" ELSE "canceled"]
      <3>1. PICK y : y = IF batches[b] = "running" THEN "ready" ELSE "canceled"
        OBVIOUS
      <3>2. y \in Batch /\ batches' = [batches EXCEPT ![b] = y]
        BY <2>4, <3>1 DEF Batch
      <3> QED BY <2>1, <2>4, <3>2 DEF Live
    <2>5. CASE batches[b] = "running" /\ batches' = [batches EXCEPT ![b] = "failed"]
      BY <2>1, <2>5 DEF Batch, Live, Running
    <2> QED BY <2>2, <2>3, <2>4, <2>5
  <1>3. /\ batches' \in Seq(Batch) /\ Len(batches') = Len(batches) /\ batches'[b] = y
        /\ \A k \in 1..Len(batches) : k # b => batches'[k] = batches[k]
    BY <1>1, <1>2, ExceptSeq
  <1>4. BatchesGrow
    <2>1. ASSUME NEW k \in DOMAIN batches, batches[k] = "ready"
          PROVE  batches'[k] = "ready"
      BY <1>1, <1>2, <1>3, <2>1 DEF Live, Running
    <2> QED BY <1>1, <1>3, <2>1 DEF BatchesGrow
  <1>5. DomainStep /\ (Still /\ ~Solo => Still')
    BY <1>1, <1>4, BatchesRenewed
  <1>6. ~(Still /\ Solo)
    BY <1>1, <1>2 DEF Still
  <1>7. batches # <<>>
    BY <1>1, <1>2
  <1> QED BY <1>1, <1>5, <1>6, <1>7, DomainsActed

\* A plan or AI task that goes on, or no longer does
LEMMA LiveTurned ==
  ASSUME NEW l \in Seq(EditObject), EditLineage(l), l # <<>>, NEW t, t = Leaf(l),
         t.st \in Live, NEW x \in EditObject, x.by = t.by, x.tl # "approved",
         x.code = "ledger" => x.st = "failed", NEW m, m = WithLeaf(l, x)
  PROVE  /\ EditTurn(l, m, x) /\ Len(m) = Len(l) /\ m # <<>>
         /\ \A n : PlanStill(l, n) => PlanStill(m, n)
  <1>1. Len(l) \in DOMAIN l /\ t = l[Len(l)] /\ t \in EditObject
    BY EmptySeq DEF Leaf
  <1>2. t.st \notin Settled \cup {"ready"} /\ t.tl # "approved"
    BY <1>1 DEF EditLineage, Live, Running, Settled
  <1>3. Newer(EditObject, l, m, x) /\ Len(m) = Len(l)
    BY LeafSet
  <1>4. EditTurn(l, m, x)
    BY <1>2, <1>3 DEF EditTurn
  <1>5. ASSUME NEW n, PlanStill(l, n)
        PROVE  PlanStill(m, n)
    <2>1. /\ t.st \in Live => t.by = "late"
          /\ Len(l) <= n => t.st \in Settled \cup {"ready"}
      BY <1>1, <1>5 DEF PlanStill
    <2> QED BY <1>2, <1>3, <1>5, <2>1, PlanStilled DEF EditLineage
  <1> QED BY <1>3, <1>4, <1>5, NewerLineage DEF EditLineage

\* What the editing workers and a restart make of an object that goes on
LEMMA LiveObject ==
  ASSUME NEW t \in EditObject, t.st \in Live, t.tl # "approved", t.code # "ledger",
         NEW x, \/ x = Worked(t) \/ x \in Failed(t)
                \/ x = [t EXCEPT !.st = "review", !.code = "restart"]
  PROVE  x \in EditObject /\ x.by = t.by /\ x.tl # "approved" /\ (x.code = "ledger" => x.st = "failed")
  <1>1. t.st \in {"queued", "running", "canceling"}
    BY DEF Live, Running
  <1>2. CASE x = Worked(t)
    <2>1. CASE t.st = "queued"
      <3>1. x = [t EXCEPT !.st = "running"]
        BY <1>2, <2>1 DEF Worked
      <3> QED BY <3>1 DEF EditObject
    <2>2. CASE t.st = "running"
      <3>1. x = [t EXCEPT !.st = "ready", !.tl = "review"]
        BY <1>2, <2>2 DEF Worked
      <3> QED BY <3>1 DEF EditObject
    <2>3. CASE t.st = "canceling"
      <3>1. x = [t EXCEPT !.st = "canceled", !.code = "failed"]
        BY <1>2, <2>3 DEF Worked
      <3> QED BY <3>1 DEF EditObject, Codings
    <2> QED BY <1>1, <2>1, <2>2, <2>3
  <1>3. CASE x \in Failed(t)
    <2>1. PICK c : /\ c \in IF profile.ai THEN {"failed", "ledger"} ELSE {"failed"}
                   /\ x = [t EXCEPT !.st = "failed", !.code = c]
      BY <1>3 DEF Failed
    <2>2. c \in Codings
      BY <2>1 DEF Codings
    <2> QED BY <2>1, <2>2 DEF EditObject
  <1>4. CASE x = [t EXCEPT !.st = "review", !.code = "restart"]
    BY <1>4 DEF EditObject, Codings
  <1> QED BY <1>2, <1>3, <1>4

\* The newest plan is the one that moves; its cancellation stays.
LEMMA PlanMoves ==
  ASSUME Inv, UNCHANGED <<profile, wf, op, batches, project, planKey, tasks, uploads>>,
         plans # <<>>, NEW x, EditTurn(plans, plans', x),
         wf.state = "canceled" \/ wf.code = "cancel" =>
            (PlanStill(plans, wf.plan) => PlanStill(plans', wf.plan))
  PROVE  Inv'
  <1>1. DomainStep
    BY PlansRenewed
  <1>2. Still /\ (wf.state = "canceled" \/ wf.code = "cancel") => Still'
    BY DEF Still, PlanStill, uploads, Solo
  <1> QED BY <1>1, <1>2, DomainsActed

LEMMA TaskMoves ==
  ASSUME Inv, UNCHANGED <<profile, wf, op, batches, project, planKey, plans, uploads>>,
         NEW s \in Stage, tasks[s] # <<>>, NEW m, NEW x, EditTurn(tasks[s], m, x),
         tasks' = [tasks EXCEPT ![s] = m],
         wf.state = "canceled" \/ wf.code = "cancel" =>
            (PlanStill(tasks[s], 0) => PlanStill(m, 0))
  PROVE  Inv'
  <1>1. DomainStep
    BY TaskTurned
  <1>2. \A t \in Stage : tasks'[t] = IF t = s THEN m ELSE tasks[t]
    BY InvParts
  <1>3. ASSUME Still, wf.state = "canceled" \/ wf.code = "cancel"
        PROVE  Still'
    <2>1. ASSUME Solo, NEW t \in Stage
          PROVE  \A k \in DOMAIN tasks'[t] : tasks'[t][k].st \in Live => tasks'[t][k].by = "late"
      <3>1. PlanStill(tasks[t], 0)
        <4>1. \A k \in DOMAIN tasks[t] : k \notin {j \in DOMAIN tasks[t] : j <= 0}
          <5>1. tasks[t] \in Seq(EditObject)
            BY InvParts
          <5> QED BY <5>1
        <4> QED BY <1>3, <2>1, <4>1 DEF Still, PlanStill
      <3>2. PlanStill(tasks'[t], 0)
        BY <1>2, <1>3, <3>1
      <3> QED BY <3>2 DEF PlanStill
    <2> QED BY <1>3, <2>1 DEF Still, uploads, Solo
  <1> QED BY <1>1, <1>3, DomainsActed

LEMMA EditWorkerKeeps ==
  ASSUME Inv, EditWorker
  PROVE  Inv'
  <1>1. UNCHANGED <<profile, wf, op, batches, project, planKey, uploads>>
    BY DEF EditWorker
  <1>2. \/ /\ UNCHANGED tasks
           /\ \E i \in DOMAIN plans : \E x :
                /\ plans[i].st \in Live /\ (x = Worked(plans[i]) \/ x \in Failed(plans[i]))
                /\ plans' = [plans EXCEPT ![i] = x]
        \/ /\ UNCHANGED plans
           /\ \E s \in Stage : \E x :
                /\ tasks[s] # <<>> /\ Leaf(tasks[s]).st \in Live
                /\ x = Worked(Leaf(tasks[s])) \/ x \in Failed(Leaf(tasks[s]))
                /\ tasks' = [tasks EXCEPT ![s] = WithLeaf(@, x)]
    BY DEF EditWorker, Live, Running
  <1>3. ASSUME UNCHANGED tasks, NEW i \in DOMAIN plans, NEW x, plans[i].st \in Live,
               x = Worked(plans[i]) \/ x \in Failed(plans[i]),
               plans' = [plans EXCEPT ![i] = x]
        PROVE  Inv'
    <2>1. plans \in Seq(EditObject) /\ EditLineage(plans) /\ Lineage(plans)
      BY InvParts
    <2>2. PICK t \in EditObject : t = plans[i]
      BY <1>3, <2>1
    <2>3. i = Len(plans) /\ plans # <<>> /\ Leaf(plans) = t
      <3>1. i \in 1..Len(plans) /\ plans[i].st \notin Settled
        BY <1>3, <2>1 DEF Live, Running, Settled
      <3> QED BY <2>1, <2>2, <3>1, NewestOnly
    <2>4. t.tl # "approved" /\ t.code # "ledger" /\ t.st \in Live
      BY <1>3, <2>1, <2>2 DEF EditLineage, Live, Running
    <2>5. x \in EditObject /\ x.by = t.by /\ x.tl # "approved" /\ (x.code = "ledger" => x.st = "failed")
      BY <1>3, <2>2, <2>4, LiveObject
    <2>6. plans' = WithLeaf(plans, x)
      BY <1>3, <2>3 DEF WithLeaf
    <2>7. PICK m : m = plans'
      OBVIOUS
    <2>8. EditTurn(plans, m, x) /\ \A n : PlanStill(plans, n) => PlanStill(m, n)
      BY <2>1, <2>3, <2>4, <2>5, <2>6, <2>7, LiveTurned
    <2> QED BY <1>1, <1>3, <2>3, <2>7, <2>8, PlanMoves
  <1>4. ASSUME UNCHANGED plans, NEW s \in Stage, NEW x, tasks[s] # <<>>,
               Leaf(tasks[s]).st \in Live,
               x = Worked(Leaf(tasks[s])) \/ x \in Failed(Leaf(tasks[s])),
               tasks' = [tasks EXCEPT ![s] = WithLeaf(@, x)]
        PROVE  Inv'
    <2>1. PICK l \in Seq(EditObject) : l = tasks[s]
      BY InvParts
    <2>2. PICK t : t = Leaf(l)
      OBVIOUS
    <2>3. l # <<>> /\ EditLineage(l)
      BY <1>4, <2>1, InvParts
    <2>4. t \in EditObject /\ t.tl # "approved" /\ t.code # "ledger" /\ t.st \in Live
      <3>1. Len(l) \in DOMAIN l
        BY <2>3, EmptySeq
      <3> QED BY <1>4, <2>1, <2>2, <2>3, <3>1 DEF EditLineage, Leaf, Live, Running
    <2>5. x \in EditObject /\ x.by = t.by /\ x.tl # "approved" /\ (x.code = "ledger" => x.st = "failed")
      BY <1>4, <2>1, <2>2, <2>4, LiveObject
    <2>6. PICK m : m = WithLeaf(l, x)
      OBVIOUS
    <2>7. EditTurn(l, m, x) /\ \A n : PlanStill(l, n) => PlanStill(m, n)
      BY <2>2, <2>3, <2>4, <2>5, <2>6, LiveTurned
    <2>8. tasks' = [tasks EXCEPT ![s] = m]
      BY <1>4, <2>1, <2>6
    <2> QED BY <1>1, <1>4, <2>1, <2>7, <2>8, TaskMoves
  <1> QED BY <1>2, <1>3, <1>4

\* What the user may do with a plan or an AI task on the editing page
LEMMA EditPaged ==
  ASSUME NEW l \in Seq(EditObject), EditLineage(l), l # <<>>, NEW m \in Paged(l, "review")
  PROVE  \E x : /\ EditTurn(l, m, x)
                /\ \A n \in Nat : n <= Len(l) /\ ByPage = "late" /\ PlanStill(l, n) =>
                      PlanStill(m, n)
  <1> PICK t : t = Leaf(l)
    OBVIOUS
  <1>1. Len(l) \in DOMAIN l /\ t = l[Len(l)] /\ t \in EditObject
    BY EmptySeq DEF Leaf
  <1>2. /\ t.tl = "approved" => t.st = "ready"
        /\ t.code = "ledger" => t.st = "failed"
    BY <1>1 DEF EditLineage
  <1>3. ByPage \in {"late", "page"}
    BY DEF ByPage
  <1>4. \/ \E x : /\ m = WithLeaf(l, x)
                  /\ \/ t.st = "review" /\ x = [t EXCEPT !.st = "queued", !.code = "", !.by = ByPage]
                     \/ t.st \in {"review", "queued"} /\ x = StopJob(Stop(t))
                     \/ /\ t.code = "ledger" \/ t.st = "unknown"
                        /\ x = [t EXCEPT !.st = "failed", !.code = "failed"]
        \/ t.st \in Settled /\ m = Append(l, Draft)
    BY DEF Paged, Settled, Draft
  <1>5. ASSUME NEW x \in EditObject, m = WithLeaf(l, x), x.tl = t.tl,
               x.by = t.by \/ x.by # "auto",
               t.st \in {"review", "queued"} \/ (t.st \in Settled /\ x.st \in Settled),
               x.code # "ledger",
               ByPage = "late" /\ x.st \in Live => x.by = "late",
               x.st \in Settled \/ t.st = "review"
        PROVE  /\ EditTurn(l, m, x)
               /\ \A n \in Nat : n <= Len(l) /\ ByPage = "late" /\ PlanStill(l, n) =>
                     PlanStill(m, n)
    <2>1. Newer(EditObject, l, m, x) /\ Len(m) = Len(l)
      BY <1>5, LeafSet
    <2>2. t.tl # "approved" /\ t.st # "ready"
      BY <1>2, <1>5 DEF Settled
    <2>3. EditTurn(l, m, x)
      BY <1>5, <2>1, <2>2 DEF EditTurn, Settled
    <2>4. ASSUME NEW n \in Nat, ByPage = "late", PlanStill(l, n)
          PROVE  PlanStill(m, n)
      <3>1. Len(l) <= n => t.st \in Settled \cup {"ready"}
        BY <1>1, <2>4 DEF PlanStill
      <3>2. Len(m) <= n => x.st \in Settled \cup {"ready"}
        BY <1>5, <2>1, <3>1 DEF Settled
      <3> QED BY <1>5, <2>1, <2>4, <3>2, PlanStilled DEF EditLineage
    <2> QED BY <2>3, <2>4
  <1>6. ASSUME NEW x, m = WithLeaf(l, x), t.st = "review",
               x = [t EXCEPT !.st = "queued", !.code = "", !.by = ByPage]
        PROVE  \E y : /\ EditTurn(l, m, y)
                      /\ \A n \in Nat : n <= Len(l) /\ ByPage = "late" /\ PlanStill(l, n) =>
                            PlanStill(m, n)
    <2>1. x \in EditObject /\ x.tl = t.tl /\ x.by = ByPage /\ x.code = "" /\ x.by # "auto"
      <3>1. PICK y : y = ByPage
        OBVIOUS
      <3>2. y \in {"late", "page"} /\ x = [t EXCEPT !.st = "queued", !.code = "", !.by = y]
        BY <1>3, <1>6, <3>1
      <3>3. x \in EditObject /\ x.tl = t.tl /\ x.by = y /\ x.code = "" /\ x.by # "auto"
        BY <1>1, <3>2 DEF EditObject, Codings, Confirmers
      <3> QED BY <3>1, <3>3
    <2> QED BY <1>5, <1>6, <2>1
  <1>7. ASSUME NEW x, m = WithLeaf(l, x), t.st \in {"review", "queued"}, x = StopJob(Stop(t))
        PROVE  \E y : /\ EditTurn(l, m, y)
                      /\ \A n \in Nat : n <= Len(l) /\ ByPage = "late" /\ PlanStill(l, n) =>
                            PlanStill(m, n)
    <2>1. PICK y : y = [t EXCEPT !.st = "canceled", !.code = "failed"]
      OBVIOUS
    <2>2. y \in EditObject /\ y.st = "canceled" /\ y.code = "failed" /\ y.tl = t.tl /\ y.by = t.by
      BY <1>1, <2>1 DEF EditObject, Codings
    <2>3. x = y
      <3>1. Stop(t) = y
        BY <1>7, <2>1 DEF Stop
      <3>2. StopJob(y) = y
        BY <2>2 DEF StopJob
      <3> QED BY <1>7, <3>1, <3>2
    <2>4. x.st \in Settled /\ x.st \notin Live
      BY <2>2, <2>3 DEF Settled, Live, Running
    <2> QED BY <1>5, <1>7, <2>2, <2>3, <2>4
  <1>8. ASSUME NEW x, m = WithLeaf(l, x), t.code = "ledger" \/ t.st = "unknown",
               x = [t EXCEPT !.st = "failed", !.code = "failed"]
        PROVE  \E y : /\ EditTurn(l, m, y)
                      /\ \A n \in Nat : n <= Len(l) /\ ByPage = "late" /\ PlanStill(l, n) =>
                            PlanStill(m, n)
    <2>1. t.st = "failed"
      BY <1>1, <1>2, <1>8 DEF EditObject
    <2>2. /\ x \in EditObject /\ x.st = "failed" /\ x.code = "failed" /\ x.tl = t.tl
          /\ x.by = t.by
      BY <1>1, <1>8 DEF EditObject, Codings
    <2>3. x.st \in Settled /\ x.st \notin Live /\ t.st \in Settled
      BY <2>1, <2>2 DEF Settled, Live, Running
    <2> QED BY <1>5, <1>8, <2>2, <2>3
  <1>9. ASSUME t.st \in Settled, m = Append(l, Draft)
        PROVE  \E y : /\ EditTurn(l, m, y)
                      /\ \A n \in Nat : n <= Len(l) /\ ByPage = "late" /\ PlanStill(l, n) =>
                            PlanStill(m, n)
    <2>1. EditTurn(l, m, Draft) /\ Len(m) = Len(l) + 1
      BY <1>9, DraftAdded
    <2>2. Draft.st \notin Live
      BY DraftObjects DEF Live, Running
    <2>3. ASSUME NEW n \in Nat, n <= Len(l), PlanStill(l, n)
          PROVE  PlanStill(m, n)
      <3>1. ~(Len(m) <= n)
        BY <2>1, <2>3
      <3> QED BY <2>1, <2>2, <2>3, <3>1, PlanStilled DEF EditTurn, EditLineage
    <2> QED BY <2>1, <2>3
  <1> QED BY <1>4, <1>6, <1>7, <1>8, <1>9

\* An upload job that goes on, or no longer does
LEMMA LiveJobTurned ==
  ASSUME NEW l \in Seq(UploadObject), Lineage(l), l # <<>>, NEW t, t = Leaf(l),
         t.st \in Live, NEW x \in UploadObject, x.by = t.by, NEW m, m = WithLeaf(l, x)
  PROVE  /\ UploadTurn(l, m, x) /\ Len(m) = Len(l)
         /\ \A n : JobStill(l, n) => JobStill(m, n)
  <1>1. Len(l) \in DOMAIN l /\ t = l[Len(l)] /\ t \in UploadObject
    BY EmptySeq DEF Leaf
  <1>2. t.st # "submitted"
    BY DEF Live, Running
  <1>3. Newer(UploadObject, l, m, x) /\ Len(m) = Len(l)
    BY LeafSet
  <1>4. UploadTurn(l, m, x)
    BY <1>2, <1>3 DEF UploadTurn
  <1>5. ASSUME NEW n, JobStill(l, n)
        PROVE  JobStill(m, n)
    <2>1. /\ t.st \in Live => t.by = "late"
          /\ Len(l) <= n => t.st \notin {"draft"} \cup Live
      BY <1>1, <1>5 DEF JobStill
    <2> QED BY <1>3, <1>5, <2>1, JobStilled
  <1> QED BY <1>3, <1>4, <1>5

\* One segment's jobs move; a cancellation of them stays.
LEMMA JobMoves ==
  ASSUME Inv, UNCHANGED <<profile, wf, op, batches, editing, upKey>>,
         NEW s \in Segment, jobs[s] # <<>>, NEW m, NEW x, UploadTurn(jobs[s], m, x),
         Len(m) = Len(jobs[s]) /\ Leaf(jobs[s]).st # "draft" => x.st # "draft",
         jobs' = [jobs EXCEPT ![s] = m],
         wf.state = "canceled" \/ wf.code = "cancel" =>
            (JobStill(jobs[s], wf.slots[s]) => JobStill(m, wf.slots[s]))
  PROVE  Inv'
  <1>1. jobs \in [Segment -> Seq(UploadObject)]
    BY InvParts
  <1>2. /\ jobs' = [t \in Segment |-> jobs'[t]]
        /\ jobs'[s] = m /\ \A t \in Segment \ {s} : jobs'[t] = jobs[t]
    BY <1>1
  <1>3. \A t \in Segment :
          \/ jobs'[t] = jobs[t]
          \/ /\ jobs[t] # <<>>
             /\ \E y : /\ UploadTurn(jobs[t], jobs'[t], y)
                       /\ Len(jobs'[t]) = Len(jobs[t]) /\ Leaf(jobs[t]).st # "draft" =>
                            y.st # "draft"
    BY <1>2
  <1>4. /\ DomainStep
        /\ Still /\ (\A t \in Segment : JobStill(jobs'[t], wf.slots[t])) => Still'
    BY <1>2, <1>3, JobsRenewed
  <1>5. ASSUME Still, wf.state = "canceled" \/ wf.code = "cancel", NEW t \in Segment
        PROVE  JobStill(jobs'[t], wf.slots[t])
    <2>1. JobStill(jobs[t], wf.slots[t])
      BY <1>5, StillParts
    <2> QED BY <1>2, <1>5, <2>1
  <1> QED BY <1>4, <1>5, DomainsActed

LEMMA UploadWorkerKeeps ==
  ASSUME Inv, UploadWorker
  PROVE  Inv'
  <1>1. UNCHANGED <<profile, wf, op, batches, editing, upKey>>
    BY DEF UploadWorker
  <1>2. PICK s \in Segment : \E st, c :
          /\ jobs[s] # <<>> /\ Leaf(jobs[s]).st \in {"queued", "running"}
          /\ st \in {"running", "canceled", "submitted", "failed", "unknown"}
          /\ c \in {"", "failed"}
          /\ jobs' = [jobs EXCEPT ![s] = WithLeaf(@, [Leaf(jobs[s]) EXCEPT !.st = st, !.code = c])]
    BY DEF UploadWorker
  <1>3. PICK l \in Seq(UploadObject) : l = jobs[s]
    BY InvParts
  <1>4. PICK t : t = Leaf(l)
    OBVIOUS
  <1>10. PICK st, c :
          /\ l # <<>> /\ t.st \in {"queued", "running"}
          /\ st \in {"running", "canceled", "submitted", "failed", "unknown"}
          /\ c \in {"", "failed"}
          /\ jobs' = [jobs EXCEPT ![s] = WithLeaf(@, [t EXCEPT !.st = st, !.code = c])]
    BY <1>2, <1>3, <1>4
  <1>5. PICK x : x = [t EXCEPT !.st = st, !.code = c]
    OBVIOUS
  <1>6. PICK m : m = WithLeaf(l, x)
    OBVIOUS
  <1>7. l # <<>> /\ Lineage(l) /\ t.st \in Live /\ jobs' = [jobs EXCEPT ![s] = m]
    BY <1>10, <1>3, <1>5, <1>6, InvParts DEF Live, Running
  <1>8. x \in UploadObject /\ x.by = t.by /\ x.st # "draft"
    <2>1. t \in UploadObject
      <3>1. Len(l) \in DOMAIN l
        BY <1>7, EmptySeq
      <3> QED BY <1>4, <3>1 DEF Leaf
    <2> QED BY <1>10, <1>5, <2>1 DEF UploadObject
  <1>9. UploadTurn(l, m, x) /\ \A n : JobStill(l, n) => JobStill(m, n)
    BY <1>4, <1>6, <1>7, <1>8, LiveJobTurned
  <1> QED BY <1>1, <1>3, <1>7, <1>8, <1>9, JobMoves

\* What the user may do with a job on the upload page
LEMMA UploadPaged ==
  ASSUME NEW l \in Seq(UploadObject), Lineage(l), UploadAuthority(l), l # <<>>,
         NEW m \in Paged(l, "draft")
  PROVE  \E x : /\ UploadTurn(l, m, x)
                /\ Len(m) = Len(l) /\ Leaf(l).st # "draft" => x.st # "draft"
                /\ \A n \in Nat : n <= Len(l) /\ ByPage = "late" /\ JobStill(l, n) =>
                      JobStill(m, n)
  <1> DEFINE Fine(x) == /\ UploadTurn(l, m, x)
                        /\ Len(m) = Len(l) /\ Leaf(l).st # "draft" => x.st # "draft"
                        /\ \A n \in Nat : n <= Len(l) /\ ByPage = "late" /\ JobStill(l, n) =>
                              JobStill(m, n)
  <1> PICK t : t = Leaf(l)
    OBVIOUS
  <1>1. Len(l) \in DOMAIN l /\ t = l[Len(l)] /\ t \in UploadObject
    BY EmptySeq DEF Leaf
  <1>2. t.code # "ledger"
    BY <1>1 DEF UploadObject
  <1>3. ByPage \in {"late", "page"}
    BY DEF ByPage
  <1>4. \/ \E x : /\ m = WithLeaf(l, x)
                  /\ \/ t.st = "draft" /\ x = [t EXCEPT !.st = "queued", !.code = "", !.by = ByPage]
                     \/ t.st \in {"draft", "queued"} /\ x = StopJob(Stop(t))
                     \/ t.st = "unknown" /\ x = [t EXCEPT !.st = "failed", !.code = "failed"]
        \/ t.st \in Settled /\ m = Append(l, UploadDraft)
    BY <1>2 DEF Paged, Settled, UploadDraft
  <1>5. ASSUME NEW x \in UploadObject, m = WithLeaf(l, x),
               x.by = t.by \/ x.by # "auto", t.st # "submitted", x.st # "draft",
               ByPage = "late" /\ x.st \in Live => x.by = "late",
               x.st \notin Live \/ t.st = "draft"
        PROVE  Fine(x)
    <2>1. Newer(UploadObject, l, m, x) /\ Len(m) = Len(l)
      BY <1>5, LeafSet
    <2>2. UploadTurn(l, m, x)
      BY <1>5, <2>1 DEF UploadTurn
    <2>3. ASSUME NEW n \in Nat, ByPage = "late", JobStill(l, n)
          PROVE  JobStill(m, n)
      <3>1. Len(l) <= n => t.st # "draft"
        BY <1>1, <2>3 DEF JobStill
      <3>2. Len(m) <= n => x.st \notin {"draft"} \cup Live
        BY <1>5, <2>1, <3>1
      <3> QED BY <1>5, <2>1, <2>3, <3>2, JobStilled
    <2> QED BY <1>5, <2>2, <2>3
  <1>6. ASSUME NEW x, m = WithLeaf(l, x), t.st = "draft",
               x = [t EXCEPT !.st = "queued", !.code = "", !.by = ByPage]
        PROVE  Fine(x)
    <2>1. PICK y : y = ByPage
      OBVIOUS
    <2>2. y \in {"late", "page"} /\ x = [t EXCEPT !.st = "queued", !.code = "", !.by = y]
      BY <1>3, <1>6, <2>1
    <2>3. x \in UploadObject /\ x.by = y /\ x.by # "auto" /\ x.st = "queued"
      BY <1>1, <2>2 DEF UploadObject, Confirmers
    <2> HIDE DEF Fine
    <2> QED BY <1>5, <1>6, <2>1, <2>3
  <1>7. ASSUME NEW x, m = WithLeaf(l, x), t.st \in {"draft", "queued"}, x = StopJob(Stop(t))
        PROVE  Fine(x)
    <2>1. PICK y : y = [t EXCEPT !.st = "canceled", !.code = "failed"]
      OBVIOUS
    <2>2. y \in UploadObject /\ y.st = "canceled" /\ y.by = t.by
      BY <1>1, <2>1 DEF UploadObject
    <2>3. x = y
      <3>1. CASE t.st = "draft"
        <4>1. Stop(t) = t
          BY <3>1 DEF Stop
        <4> QED BY <1>7, <2>1, <3>1, <4>1 DEF StopJob
      <3>2. CASE t.st = "queued"
        <4>1. Stop(t) = y
          BY <2>1, <3>2 DEF Stop
        <4>2. StopJob(y) = y
          BY <2>2 DEF StopJob
        <4> QED BY <1>7, <4>1, <4>2
      <3> QED BY <1>7, <3>1, <3>2
    <2>4. x.st = "canceled" /\ x.st \notin Live /\ x \in UploadObject /\ x.by = t.by
      BY <2>2, <2>3 DEF Live, Running
    <2> HIDE DEF Fine
    <2> QED BY <1>5, <1>7, <2>4
  <1>8. ASSUME NEW x, m = WithLeaf(l, x), t.st = "unknown",
               x = [t EXCEPT !.st = "failed", !.code = "failed"]
        PROVE  Fine(x)
    <2>1. x \in UploadObject /\ x.st = "failed" /\ x.by = t.by /\ x.st \notin Live
      BY <1>1, <1>8 DEF UploadObject, Live, Running
    <2> HIDE DEF Fine
    <2> QED BY <1>5, <1>8, <2>1
  <1>9. ASSUME t.st \in Settled, m = Append(l, UploadDraft)
        PROVE  Fine(UploadDraft)
    <2>1. PICK x \in UploadObject : x = UploadDraft
      BY DraftObjects
    <2>2. x.by = "none" /\ x.st = "draft"
      BY <2>1, DraftObjects
    <2>3. Newer(UploadObject, l, m, x) /\ Len(m) = Len(l) + 1
      BY <1>9, <2>1, LeafAdded
    <2>4. Len(m) # Len(l)
      BY <2>3
    <2>5. UploadTurn(l, m, x)
      BY <2>2, <2>3, <2>4 DEF UploadTurn
    <2>6. ASSUME NEW n \in Nat, n <= Len(l), JobStill(l, n)
          PROVE  JobStill(m, n)
      <3>1. ~(Len(m) <= n)
        BY <2>3, <2>6
      <3>2. x.st \notin Live
        BY <2>2 DEF Live, Running
      <3> QED BY <2>3, <2>6, <3>1, <3>2, JobStilled
    <2> QED BY <2>1, <2>4, <2>5, <2>6
  <1>10. \E x : Fine(x)
    <2> HIDE DEF Fine
    <2> QED BY <1>4, <1>6, <1>7, <1>8, <1>9
  <1> QED BY <1>10

LEMMA PageKeeps ==
  ASSUME Inv, Page
  PROVE  Inv'
  <1>1. UNCHANGED <<profile, wf, op, batches, project, planKey, upKey>>
    BY DEF Page
  <1>2. wf.state = "canceled" \/ wf.code = "cancel" => ByPage = "late"
    BY DEF ByPage
  <1>3. /\ wf.plan \in Nat /\ wf.plan <= Len(plans)
        /\ \A s \in Segment : wf.slots[s] \in Nat /\ wf.slots[s] <= Len(jobs[s])
    BY InvParts DEF Good, Backed, Row
  <1>4. CASE plans # <<>> /\ plans' \in Paged(plans, "review") /\ UNCHANGED <<tasks, jobs>>
    <2>1. PICK m : m = plans'
      OBVIOUS
    <2>2. PICK x : /\ EditTurn(plans, m, x)
                   /\ \A n \in Nat : n <= Len(plans) /\ ByPage = "late" /\ PlanStill(plans, n) =>
                         PlanStill(m, n)
      BY <1>4, <2>1, InvParts, EditPaged
    <2> QED BY <1>1, <1>2, <1>3, <1>4, <2>1, <2>2, PlanMoves DEF uploads
  <1>5. ASSUME UNCHANGED <<plans, jobs>>, NEW s \in Stage, tasks[s] # <<>>,
               NEW m \in Paged(tasks[s], "review"), tasks' = [tasks EXCEPT ![s] = m]
        PROVE  Inv'
    <2>1. PICK l \in Seq(EditObject) : l = tasks[s]
      BY InvParts
    <2>2. EditLineage(l) /\ l # <<>> /\ m \in Paged(l, "review")
      BY <1>5, <2>1, InvParts
    <2>3. PICK x : /\ EditTurn(l, m, x)
                   /\ \A n \in Nat : n <= Len(l) /\ ByPage = "late" /\ PlanStill(l, n) =>
                         PlanStill(m, n)
      BY <2>2, EditPaged
    <2>4. 0 \in Nat /\ 0 <= Len(l)
      OBVIOUS
    <2> QED BY <1>1, <1>2, <1>5, <2>1, <2>3, <2>4, TaskMoves DEF uploads
  <1>6. ASSUME UNCHANGED <<plans, tasks>>, NEW s \in Segment, jobs[s] # <<>>,
               NEW m \in Paged(jobs[s], "draft"), jobs' = [jobs EXCEPT ![s] = m]
        PROVE  Inv'
    <2>1. PICK l \in Seq(UploadObject) : l = jobs[s]
      BY InvParts
    <2>2. Lineage(l) /\ UploadAuthority(l) /\ l # <<>> /\ m \in Paged(l, "draft")
      BY <1>6, <2>1, InvParts
    <2>3. PICK x : /\ UploadTurn(l, m, x)
                   /\ Len(m) = Len(l) /\ Leaf(l).st # "draft" => x.st # "draft"
                   /\ \A n \in Nat : n <= Len(l) /\ ByPage = "late" /\ JobStill(l, n) =>
                         JobStill(m, n)
      BY <2>2, UploadPaged
    <2>4. UNCHANGED editing
      BY <1>1, <1>6 DEF editing
    <2> QED BY <1>1, <1>2, <1>3, <1>6, <2>1, <2>3, <2>4, JobMoves
  <1> QED BY <1>4, <1>5, <1>6 DEF Page

\* What a restart makes of a lineage of plans or AI tasks
LEMMA EditRecovered ==
  ASSUME NEW l \in Seq(EditObject), EditLineage(l), l # <<>>, NEW x \in Recovered(Leaf(l)),
         NEW m, m = WithLeaf(l, x)
  PROVE  /\ EditTurn(l, m, x) /\ m # <<>>
         /\ \A n : PlanStill(l, n) => PlanStill(m, n)
  <1> PICK t : t = Leaf(l)
    OBVIOUS
  <1>1. Len(l) \in DOMAIN l /\ t = l[Len(l)] /\ t \in EditObject
    BY EmptySeq DEF Leaf
  <1>2. /\ t.tl = "approved" => t.st = "ready"
        /\ t.code = "ledger" => t.st = "failed"
    BY <1>1 DEF EditLineage
  <1>3. CASE t.st \in Live
    <2>1. x \in Failed(t) \/ x = [t EXCEPT !.st = "review", !.code = "restart"]
      <3>1. CASE t.st = "queued"
        BY <3>1 DEF Recovered
      <3>2. CASE t.st \in Running
        <4>1. t.st # "queued"
          BY <3>2 DEF Running
        <4> QED BY <3>2, <4>1 DEF Recovered
      <3> QED BY <1>3, <3>1, <3>2 DEF Live
    <2>2. t.tl # "approved" /\ t.code # "ledger"
      BY <1>2, <1>3 DEF Live, Running
    <2>3. x \in EditObject /\ x.by = t.by /\ x.tl # "approved" /\ (x.code = "ledger" => x.st = "failed")
      BY <1>1, <1>3, <2>1, <2>2, LiveObject
    <2> QED BY <1>3, <2>3, LiveTurned
  <1>4. CASE t.st \notin Live
    <2>1. x = t
      <3>1. t.st # "queued" /\ t.st \notin Running
        BY <1>4 DEF Live
      <3> QED BY <3>1 DEF Recovered
    <2>2. Newer(EditObject, l, m, x) /\ Len(m) = Len(l)
      BY <1>1, <2>1, LeafSet
    <2>3. EditTurn(l, m, x)
      BY <1>2, <2>1, <2>2 DEF EditTurn
    <2>4. ASSUME NEW n, PlanStill(l, n)
          PROVE  PlanStill(m, n)
      <3>1. Len(l) <= n => t.st \in Settled \cup {"ready"}
        BY <1>1, <2>4 DEF PlanStill
      <3> QED BY <1>4, <2>1, <2>2, <2>4, <3>1, PlanStilled DEF EditLineage
    <2> QED BY <2>2, <2>3, <2>4 DEF Newer
  <1> QED BY <1>3, <1>4

LEMMA JobRecovered ==
  ASSUME NEW l \in Seq(UploadObject), Lineage(l), l # <<>>, NEW x \in RecoveredJob(Leaf(l)),
         NEW m, m = WithLeaf(l, x)
  PROVE  /\ UploadTurn(l, m, x) /\ m # <<>>
         /\ \A n : JobStill(l, n) => JobStill(m, n)
  <1> PICK t : t = Leaf(l)
    OBVIOUS
  <1>1. Len(l) \in DOMAIN l /\ t = l[Len(l)] /\ t \in UploadObject
    BY EmptySeq DEF Leaf
  <1>2. CASE t.st \in {"queued", "running"}
    <2>1. x \in UploadObject /\ x.by = t.by
      <3>1. CASE t.st = "queued"
        <4>1. x = [t EXCEPT !.st = "draft", !.code = "restart"]
          BY <3>1 DEF RecoveredJob
        <4> QED BY <1>1, <4>1 DEF UploadObject
      <3>2. CASE t.st = "running"
        <4>1. x \in {[t EXCEPT !.st = s, !.code = "failed"] : s \in {"failed", "unknown"}}
          BY <3>2 DEF RecoveredJob
        <4> QED BY <1>1, <4>1 DEF UploadObject
      <3> QED BY <1>2, <3>1, <3>2
    <2>2. t.st \in Live
      BY <1>2 DEF Live, Running
    <2> QED BY <2>1, <2>2, LiveJobTurned DEF UploadTurn, Newer
  <1>3. CASE t.st \notin {"queued", "running"}
    <2>1. x = t
      BY <1>3 DEF RecoveredJob
    <2>2. Newer(UploadObject, l, m, x) /\ Len(m) = Len(l)
      BY <1>1, <2>1, LeafSet
    <2>3. UploadTurn(l, m, x)
      BY <2>1, <2>2 DEF UploadTurn
    <2>4. ASSUME NEW n, JobStill(l, n)
          PROVE  JobStill(m, n)
      <3>1. /\ t.st \in Live => t.by = "late"
            /\ Len(l) <= n => t.st \notin {"draft"} \cup Live
        BY <1>1, <2>4 DEF JobStill
      <3> QED BY <2>1, <2>2, <2>4, <3>1, JobStilled
    <2> QED BY <2>2, <2>3, <2>4 DEF Newer
  <1> QED BY <1>2, <1>3

\* A restart revokes confirmations, so that with one process, which has no
\* operation any more, an upload job can become a draft again.
LEMMA CrashKeeps ==
  ASSUME Inv, NEW p \in Procs, Crash(p)
  PROVE  Inv'
  <1>1. /\ UNCHANGED <<profile, wf, batches, project, planKey, upKey>>
        /\ op' = [op EXCEPT ![p] = Idle]
    BY DEF Crash
  <1>2. \/ plans = <<>> /\ plans' = plans
        \/ plans # <<>> /\ \E x \in Recovered(Leaf(plans)) : plans' = WithLeaf(plans, x)
    BY DEF Crash
  <1>3. /\ DOMAIN tasks' = Stage
        /\ \A s \in Stage :
             \/ tasks[s] = <<>> /\ tasks'[s] = <<>>
             \/ tasks[s] # <<>> /\ \E x \in Recovered(Leaf(tasks[s])) : tasks'[s] = WithLeaf(tasks[s], x)
        /\ tasks' = [s \in Stage |-> tasks'[s]]
    BY DEF Crash
  <1>4. /\ \A s \in Segment :
             \/ jobs[s] = <<>> /\ jobs'[s] = <<>>
             \/ jobs[s] # <<>> /\ \E x \in RecoveredJob(Leaf(jobs[s])) : jobs'[s] = WithLeaf(jobs[s], x)
        /\ jobs' = [s \in Segment |-> jobs'[s]]
    BY DEF Crash
  <1>5. /\ PlansGrow /\ (plans' = <<>> <=> plans = <<>>)
        /\ \A n : PlanStill(plans, n) => PlanStill(plans', n)
    <2>1. CASE plans = <<>> /\ plans' = plans
      BY <2>1, SameParts
    <2>2. ASSUME plans # <<>>, NEW x \in Recovered(Leaf(plans)), plans' = WithLeaf(plans, x)
          PROVE  /\ PlansGrow /\ plans' # <<>>
                 /\ \A n : PlanStill(plans, n) => PlanStill(plans', n)
      <3>1. PICK m : m = plans'
        OBVIOUS
      <3>2. /\ EditTurn(plans, m, x) /\ m # <<>>
            /\ \A n : PlanStill(plans, n) => PlanStill(m, n)
        BY <2>2, <3>1, InvParts, EditRecovered
      <3>3. EditGrown(plans, m)
        BY <3>2, InvParts, EditTurned
      <3> QED BY <3>1, <3>2, <3>3 DEF PlansGrow
    <2> QED BY <1>2, <2>1, <2>2
  <1>6. ASSUME NEW s \in Stage
        PROVE  /\ EditGrown(tasks[s], tasks'[s]) /\ (tasks'[s] = <<>> <=> tasks[s] = <<>>)
               /\ PlanStill(tasks[s], 0) => PlanStill(tasks'[s], 0)
    <2> PICK l \in Seq(EditObject) : l = tasks[s]
      BY InvParts
    <2> PICK m : m = tasks'[s]
      OBVIOUS
    <2>1. EditLineage(l) /\ EditAuthority(l)
      BY InvParts
    <2>2. CASE l = <<>> /\ m = <<>>
      BY <2>1, <2>2, EditSame
    <2>3. ASSUME l # <<>>, NEW x \in Recovered(Leaf(l)), m = WithLeaf(l, x)
          PROVE  EditGrown(l, m) /\ m # <<>> /\ (PlanStill(l, 0) => PlanStill(m, 0))
      BY <2>1, <2>3, EditRecovered, EditTurned
    <2> QED BY <1>3, <2>2, <2>3
  <1>7. ASSUME NEW s \in Segment
        PROVE  /\ UploadGrown(jobs[s], jobs'[s]) /\ (jobs'[s] = <<>> <=> jobs[s] = <<>>)
               /\ \A n : JobStill(jobs[s], n) => JobStill(jobs'[s], n)
    <2> PICK l \in Seq(UploadObject) : l = jobs[s]
      BY InvParts
    <2> PICK m : m = jobs'[s]
      OBVIOUS
    <2>1. Lineage(l) /\ UploadAuthority(l)
      BY InvParts
    <2>2. CASE l = <<>> /\ m = <<>>
      BY <2>1, <2>2, UploadSame
    <2>3. ASSUME l # <<>>, NEW x \in RecoveredJob(Leaf(l)), m = WithLeaf(l, x)
          PROVE  UploadGrown(l, m) /\ m # <<>> /\ \A n : JobStill(l, n) => JobStill(m, n)
      BY <2>1, <2>3, JobRecovered, UploadTurned
    <2> QED BY <1>4, <2>2, <2>3
  <1>8. BatchesGrow /\ KeysGrow
    BY <1>1, SameParts
  <1>9. TasksGrow /\ JobsGrow
    <2>1. \A s \in Stage : tasks'[s] \in Seq(EditObject)
      BY <1>6 DEF EditGrown
    <2>2. \A s \in Segment : jobs'[s] \in Seq(UploadObject)
      BY <1>7 DEF UploadGrown
    <2> QED BY <1>3, <1>4, <1>6, <1>7, <2>1, <2>2 DEF TasksGrow, JobsGrow
  <1>10. /\ Kept /\ DomainTypes' /\ Lineages' /\ AuthorityHolds' /\ Rooted'
         /\ DraftsStay => DomainStep
    <2>1. Rooted'
      BY <1>1, <1>5, <1>6, <1>7, <1>9, RootedKept
    <2> QED BY <1>1, <1>5, <1>8, <1>9, <2>1, Developed
  <1>11. Still => Still'
    <2> SUFFICES ASSUME Still
                 PROVE  Still'
      OBVIOUS
    <2>1. PlanStill(plans', wf.plan) /\ \A s \in Segment : JobStill(jobs'[s], wf.slots[s])
      BY <1>5, <1>7, StillParts
    <2>2. ASSUME Solo, NEW s \in Stage
          PROVE  \A k \in DOMAIN tasks'[s] : tasks'[s][k].st \in Live => tasks'[s][k].by = "late"
      <3>1. PlanStill(tasks[s], 0)
        <4>1. \A k \in DOMAIN tasks[s] : ~(k <= 0)
          <5>1. tasks[s] \in Seq(EditObject)
            BY InvParts
          <5> QED BY <5>1
        <4> QED BY <2>2, <4>1 DEF Still, PlanStill
      <3>2. PlanStill(tasks'[s], 0)
        BY <1>6, <3>1
      <3> QED BY <3>2 DEF PlanStill
    <2> QED BY <1>1, <2>1, <2>2 DEF Still, PlanStill, JobStill, Solo
  <1>12. PICK o \in OpRecord : o = Idle
    BY IdleType
  <1>13. /\ o.pc = "idle" /\ o.rec = Created /\ ~o.fresh /\ o.todo = <<>>
         /\ op' = [op EXCEPT ![p] = o]
    BY <1>1, <1>12, IdleType
  <1>14. OpFit(o)' /\ ~Stopping(o)
    <2>1. wf' \in Row
      BY <1>1, InvParts
    <2> QED BY <1>10, <1>13, <2>1, RestFits
  <1>15. CASE ~Solo
    <2>1. DomainStep
      BY <1>10, <1>15 DEF DraftsStay
    <2>2. o.pc \notin Working /\ o.pc # "create_batch"
      BY <1>13 DEF Working
    <2> QED BY <1>1, <1>11, <1>13, <1>14, <2>1, <2>2, Composed
  <1>16. CASE Solo
    <2>1. op \in [Procs -> OpRecord] /\ \A q \in Procs : q = p
      BY <1>16, SoloOne DEF Inv
    <2>2. op' \in [Procs -> OpRecord] /\ \A q \in Procs : op'[q] = o
      BY <1>13, <2>1
    <2>3. \A q \in Procs : OpFit(op[q])'
      BY <1>14, <2>2
    <2>4. Good(wf)'
      <3>1. PICK r \in Row : r = wf
        BY InvParts
      <3>2. Good(r)'
        BY <1>10, <3>1, InvParts, KeptGood
      <3> QED BY <1>1, <3>1, <3>2
    <2>5. Alone'
      BY <1>1, <1>13, <1>16, <2>2, InvParts DEF Alone, Working, Solo
    <2>6. Quiet'
      BY <1>1, <1>11, <1>14, <2>2 DEF Inv, Quiet, Stopping
    <2> QED BY <1>1, <1>10, <2>2, <2>3, <2>4, <2>5, <2>6 DEF Inv
  <1> QED BY <1>15, <1>16

-----------------------------------------------------------------------------
(***************************************************************************)
(* The theorems                                                            *)
(***************************************************************************)
LEMMA AdvanceKeeps ==
  ASSUME Inv, NEW p \in Procs, Advance(p)
  PROVE  Inv'
  <1>1. CASE Read(p) \/ Write(p) \/ RequireAttention(p)
    BY <1>1, ReadKeeps, WriteKeeps, RequireAttentionKeeps
  <1>2. CASE AdvanceCreated(p) \/ CreateBatch(p) \/ AdvanceDownloading(p)
    BY <1>2, AdvanceCreatedKeeps, CreateBatchKeeps, AdvanceDownloadingKeeps
  <1>3. CASE CreateProject(p) \/ CreatePlan(p)
    BY <1>3, CreateProjectKeeps, CreatePlanKeeps
  <1>4. CASE CallAI(p) \/ AdvanceTask(p) \/ FinishAI(p) \/ RetryAI(p)
    BY <1>4, CallAIKeeps, AdvanceTaskKeeps, FinishAIKeeps, RetryAIKeeps
  <1>5. CASE ObserveEdit(p) \/ ConfirmEdit(p) \/ RetryEdit(p)
    BY <1>5, ObserveEditKeeps, ConfirmEditKeeps, RetryEditKeeps
  <1>6. CASE PrepareUpload(p) \/ ObserveUpload(p) \/ ConfirmUploads(p) \/ RetryUploads(p)
    BY <1>6, PrepareUploadKeeps, ObserveUploadKeeps, ConfirmUploadsKeeps, RetryUploadsKeeps
  <1>7. CASE ReenterAttention(p)
    BY <1>7, ReenterAttentionKeeps
  <1>8. CASE CancelUploadsForWorkflow(p) \/ CancelUploads(p)
    BY <1>8, CancelUploadsForWorkflowKeeps, CancelUploadsKeeps
  <1>9. CASE CancelEdit(p) \/ CancelEditForWorkflow(p) \/ CancelDownload(p)
    BY <1>9, CancelEditKeeps, CancelEditForWorkflowKeeps, CancelDownloadKeeps
  <1> QED BY <1>1, <1>2, <1>3, <1>4, <1>5, <1>6, <1>7, <1>8, <1>9 DEF Advance

LEMMA StepKeeps ==
  ASSUME Inv, Next
  PROVE  Inv'
  <1>1. ASSUME NEW p \in Procs, Advance(p) \/ Scan(p) \/ User(p) \/ Crash(p)
        PROVE  Inv'
    BY <1>1, AdvanceKeeps, ScanKeeps, CancelKeeps, CrashKeeps DEF User
  <1>2. CASE Workers
    BY <1>2, DownloadWorkerKeeps, EditWorkerKeeps, UploadWorkerKeeps DEF Workers
  <1>3. CASE Page
    BY <1>3, PageKeeps
  <1> QED BY <1>1, <1>2, <1>3 DEF Next

LEMMA StutterKeeps ==
  ASSUME Inv, UNCHANGED vars
  PROVE  Inv'
  <1>1. op' = op /\ wf' = wf /\ UNCHANGED <<profile, wf, domains>> /\ batches' = batches
    BY DEF vars, domains
  <1>2. DomainStep /\ (Still => Still')
    BY <1>1, SameDomains
  <1> QED BY <1>1, <1>2, DomainsActed

LEMMA InitInv == Init => Inv
  <1> SUFFICES ASSUME Init PROVE Inv
    OBVIOUS
  <1>1. /\ profile \in Profiles /\ wf = Created /\ op = [p \in Procs |-> Idle]
        /\ batches = <<>> /\ project = "none" /\ planKey = "none" /\ plans = <<>>
        /\ tasks = [s \in Stage |-> <<>>] /\ upKey = [s \in Segment |-> "none"]
        /\ jobs = [s \in Segment |-> <<>>]
    BY DEF Init
  <1>2. DomainTypes
    <2>1. profile \in Profile
      BY <1>1, WorkflowAssumption
    <2>2. batches \in Seq(Batch) /\ Len(batches) <= 2 /\ plans \in Seq(EditObject)
      BY <1>1
    <2>3. tasks \in [Stage -> Seq(EditObject)] /\ jobs \in [Segment -> Seq(UploadObject)]
      BY <1>1
    <2>4. project \in Key /\ planKey \in Key /\ upKey \in [Segment -> Key]
      BY <1>1 DEF Key
    <2> QED BY <2>1, <2>2, <2>3, <2>4 DEF DomainTypes
  <1>3. PICK r \in Row : r = Created
    BY CreatedRow
  <1>4. Good(r)
    <2>1. /\ r.state = "created" /\ r.code = "" /\ r.batch = 0 /\ ~r.asset /\ ~r.resolved
          /\ ~r.project /\ r.plan = 0 /\ ~r.outputs /\ \A s \in Segment : r.slots[s] = 0
      BY <1>3, CreatedFields
    <2>2. Ladder(r) /\ Stands(r)
      BY <2>1 DEF Ladder, Stands, StandsAt, HasJobs, Ends
    <2>3. Len(batches) >= 0 /\ Len(plans) >= 0 /\ \A s \in Segment : Len(jobs[s]) >= 0
      BY <1>2 DEF DomainTypes
    <2>4. Backed(r)
      BY <2>1, <2>3 DEF Backed
    <2> QED BY <2>2, <2>4 DEF Good
  <1>5. PICK o \in OpRecord : o = Idle
    BY IdleType
  <1>6. o.pc = "idle" /\ o.rec = r /\ ~o.fresh /\ o.todo = <<>>
    BY <1>3, <1>5, IdleType
  <1>7. OpFit(o)
    <2>1. Below(r, wf) /\ Ready(o, o.pc, o.rec)
      BY <1>1, <1>3, <1>6, BelowSame DEF Ready, Working
    <2> QED BY <1>4, <1>6, <2>1 DEF OpFit
  <1>8. op \in [Procs -> OpRecord] /\ \A p \in Procs : op[p] = o
    BY <1>1, <1>5
  <1>9. Lineages /\ AuthorityHolds
    BY <1>1 DEF Lineages, EditLineage, Lineage, AuthorityHolds
  <1>10. Rooted
    BY <1>1 DEF Rooted
  <1>11. Alone /\ Quiet
    <2>1. wf.state # "canceled"
      BY <1>1, CreatedFields
    <2> QED BY <1>1, <1>6, <1>8, <2>1 DEF Alone, Quiet, Stopping, Working
  <1>12. Good(wf)
    BY <1>1, <1>3, <1>4
  <1>13. \A p \in Procs : OpFit(op[p])
    BY <1>7, <1>8
  <1> QED BY <1>1, <1>2, <1>8, <1>9, <1>10, <1>11, <1>12, <1>13 DEF Inv

\* Row, operations and domains agree in every state: whatever an operation
\* still knows was true of the row once, and everything it is about to write
\* is backed by its domain (service.py, repository.py, local_adapter.py).
THEOREM WorkflowInvariance == Spec => []Inv
  <1>1. Inv /\ [Next]_vars => Inv'
    BY StepKeeps, StutterKeeps
  <1> QED BY InitInv, <1>1, PTL DEF Spec

\* Every row that can be read passes _public's checks, and a start repeated
\* after a crash finds its batch (_set_refs, _transition, create_download).
THEOREM RowsReadable == Spec => []RowReadable
  <1>1. Inv => RowReadable
    <2> SUFFICES ASSUME Inv PROVE RowReadable
      OBVIOUS
    <2>1. TypeOK
      <3>1. ASSUME NEW p \in Procs
            PROVE  /\ op[p].pc \in Pcs /\ op[p].who \in {"manager", "api"} /\ op[p].call \in Calls
                   /\ op[p].rec \in Row /\ {op[p].fresh, op[p].item, op[p].auth} \subseteq BOOLEAN
                   /\ \A k \in DOMAIN op[p].todo : op[p].todo[k].row \in Row
        <4>1. PICK o \in OpRecord : o = op[p]
          BY OpKnows
        <4>2. /\ o.pc \in Pcs /\ o.who \in {"manager", "api"} /\ o.call \in Calls /\ o.rec \in Row
              /\ o.fresh \in BOOLEAN /\ o.item \in BOOLEAN /\ o.auth \in BOOLEAN
              /\ o.todo \in Seq(WriteRecord)
          BY DEF OpRecord
        <4>3. \A k \in DOMAIN o.todo : o.todo[k] \in WriteRecord
          BY <4>2
        <4>4. \A k \in DOMAIN o.todo : o.todo[k].row \in Row
          BY <4>3 DEF WriteRecord
        <4> QED BY <4>1, <4>2, <4>4
      <3> QED BY <3>1, InvParts DEF TypeOK, Inv, Key
    <2>2. PICK r \in Row : r = wf
      BY InvParts
    <2>3. Ladder(r) /\ Stands(r)
      BY <2>2 DEF Inv, Good
    <2>4. OutputsMatchState(r)
      BY <2>3 DEF OutputsMatchState, Ladder, Stands, StandsAt, Row, ActiveStates
    <2>5. ResolvedMatchesState(r)
      BY <2>3 DEF ResolvedMatchesState, Ladder, Stands, StandsAt, Titled, Row, ActiveStates
    <2>6. OneBatch
      BY DEF Inv, Alone, OneBatch, Solo
    <2> QED BY <2>1, <2>2, <2>4, <2>5, <2>6 DEF RowReadable
  <1> QED BY <1>1, WorkflowInvariance, PTL

\* completed means that the platforms acknowledged every segment, and nothing
\* of a canceled workflow goes on, whoever is late in his operation
\* (_advance_once's cancellation branch, inspect_upload).
THEOREM EndsHold == Spec => []EndsAreTrue
  <1>1. Inv => EndsAreTrue
    <2> SUFFICES ASSUME Inv PROVE EndsAreTrue
      OBVIOUS
    <2>1. CompletedIsTrue
      BY DEF Inv, Good, Backed, AllDone, CompletedIsTrue, Success
    <2>2. CanceledIsQuiet
      BY DEF Inv, Quiet, Still, CanceledIsQuiet, Solo
    <2> QED BY <2>1, <2>2 DEF EndsAreTrue
  <1> QED BY <1>1, WorkflowInvariance, PTL

\* Only what the profile authorized runs without a confirmation of the user
\* (confirm_edit, confirm_uploads, advance_ai).
THEOREM AuthorityKept == Spec => []AuthorityHolds
  <1>1. Inv => AuthorityHolds
    BY DEF Inv
  <1> QED BY <1>1, WorkflowInvariance, PTL

\* Only three steps write the row: each takes it further, and none when it has
\* come to its end.
LEMMA RowSteps ==
  ASSUME Inv, Next
  PROVE  wf' = wf \/ (wf.state \notin Ends /\ Below(wf, wf'))
  <1>1. ASSUME NEW p \in Procs, Write(p)
        PROVE  wf' = wf \/ (wf.state \notin Ends /\ Below(wf, wf'))
    <2> PICK o \in OpRecord : o = op[p]
      BY OpKnows
    <2> PICK w : w = Head(o.todo)
      OBVIOUS
    <2>1. o.pc = "write" /\ (wf' = wf \/ (o.fresh /\ wf' = w.row))
      BY <1>1 DEF Write, At, Changed
    <2>2. OpFit(o) /\ o.rec \in Row
      BY OpKnows DEF OpRecord
    <2>3. CASE o.fresh /\ wf' = w.row
      <3>1. o.rec = wf /\ Chain(o.rec, o.todo) /\ wf.state \notin Ends
        BY <2>1, <2>2, <2>3 DEF OpFit
      <3>2. w = o.todo[1]
        BY <3>1 DEF Chain
      <3>3. StepOf(wf, w) /\ w.kind \in {"move", "refs"}
        <4>1. o.todo \in Seq(WriteRecord) /\ 1 \in DOMAIN o.todo
          BY <3>1 DEF OpRecord, Chain
        <4>2. w \in WriteRecord
          BY <3>2, <4>1
        <4> QED BY <3>1, <3>2, <4>2 DEF Chain, WriteRecord
      <3>4. Below(wf, w.row)
        <4>1. w.row \in Row /\ wf \in Row
          BY <2>2, <3>1, <3>3 DEF StepOf, Good
        <4>2. CASE w.kind = "move"
          <5>1. w.row = Moved(wf, w.row.state, w.row.code)
            BY <3>3, <4>2 DEF StepOf
          <5>2. PICK st, c : st = w.row.state /\ c = w.row.code
            OBVIOUS
          <5>3. Moved(wf, st, c) \in Row /\ w.row = Moved(wf, st, c)
            BY <4>1, <5>1, <5>2
          <5> QED BY <4>1, <5>3, MovedRow
        <4> QED BY <3>3, <4>2 DEF StepOf
      <3> QED BY <2>3, <3>1, <3>4
    <2> QED BY <2>1, <2>3
  <1>2. ASSUME NEW p \in Procs, RequireAttention(p) \/ Cancel(p)
        PROVE  wf' = wf \/ (wf.state \notin Ends /\ Below(wf, wf'))
    <2> PICK r \in Row : r = wf
      BY InvParts
    <2>1. \/ wf' = r
          \/ r.state \in ActiveStates /\ wf' = Attention(r, "conflict")
          \/ r.state \in ActiveStates \cup {"attention_required"} /\ wf' = [r EXCEPT !.code = "cancel"]
      BY <1>2 DEF RequireAttention, Cancel, Changed
    <2>2. ASSUME NEW m, m = Attention(r, "conflict") \/ m = [r EXCEPT !.code = "cancel"]
          PROVE  Below(r, m)
      <3>1. /\ m.batch = r.batch /\ m.asset = r.asset /\ m.project = r.project
            /\ m.plan = r.plan /\ m.outputs = r.outputs /\ m.slots = r.slots
        BY <2>2 DEF Attention, Moved, Row
      <3> QED BY <3>1 DEF Below, Row
    <2>3. PICK m : m = wf'
      OBVIOUS
    <2>4. (r.state \notin Ends /\ Below(r, m)) \/ m = r
      BY <2>1, <2>2, <2>3 DEF ActiveStates, Ends
    <2> QED BY <2>3, <2>4
  <1>3. ASSUME NEW p \in Procs, Advance(p), ~Write(p), ~RequireAttention(p)
        PROVE  wf' = wf
    <2>1. CASE Read(p) \/ AdvanceCreated(p) \/ CreateBatch(p) \/ AdvanceDownloading(p)
      BY <2>1 DEF Read, AdvanceCreated, CreateBatch, AdvanceDownloading
    <2>2. CASE CreateProject(p) \/ CreatePlan(p) \/ CallAI(p) \/ AdvanceTask(p)
      BY <2>2 DEF CreateProject, CreatePlan, CallAI, AdvanceTask
    <2>3. CASE FinishAI(p) \/ RetryAI(p) \/ ObserveEdit(p) \/ ConfirmEdit(p) \/ RetryEdit(p)
      BY <2>3 DEF FinishAI, RetryAI, ObserveEdit, ConfirmEdit, RetryEdit
    <2>4. CASE PrepareUpload(p) \/ ObserveUpload(p) \/ ConfirmUploads(p) \/ RetryUploads(p)
      BY <2>4 DEF PrepareUpload, ObserveUpload, ConfirmUploads, RetryUploads
    <2>5. CASE ReenterAttention(p) \/ CancelUploadsForWorkflow(p) \/ CancelUploads(p)
      BY <2>5 DEF ReenterAttention, CancelUploadsForWorkflow, CancelUploads
    <2>6. CASE CancelEdit(p) \/ CancelEditForWorkflow(p) \/ CancelDownload(p)
      BY <2>6 DEF CancelEdit, CancelEditForWorkflow, CancelDownload
    <2> QED BY <1>3, <2>1, <2>2, <2>3, <2>4, <2>5, <2>6 DEF Advance
  <1>4. ASSUME NEW p \in Procs, Scan(p) \/ (\E call \in Calls : Request(p, call)) \/ Crash(p)
        PROVE  wf' = wf
    BY <1>4 DEF Scan, Request, Crash
  <1>5. CASE Workers \/ Page
    BY <1>5 DEF Workers, DownloadWorker, EditWorker, UploadWorker, Page
  <1> QED BY <1>1, <1>2, <1>3, <1>4, <1>5 DEF Next, User

\* What the row refers to stays, whoever writes it (_set_refs' compare and set).
THEOREM RefsKept == Spec => RefsStable
  <1> DEFINE Step == /\ wf.batch # 0 => wf'.batch = wf.batch
                     /\ wf.asset => wf'.asset
                     /\ wf.project => wf'.project
                     /\ wf'.plan >= wf.plan
                     /\ \A s \in Segment : wf'.slots[s] >= wf.slots[s]
                     /\ wf.state \in {"canceled", "completed"} => wf'.state = wf.state
  <1>1. Inv /\ Inv' /\ [Next]_vars => [Step]_vars
    <2> SUFFICES ASSUME Inv, Inv', Next PROVE Step
      OBVIOUS
    <2>1. wf \in Row /\ wf' \in Row
      BY DEF Inv, Good
    <2>2. PICK r \in Row, s \in Row : r = wf /\ s = wf'
      BY <2>1
    <2>3. s = r \/ (r.state \notin Ends /\ Below(r, s))
      BY <2>2, RowSteps
    <2>4. Below(r, s)
      BY <2>3, BelowSame
    <2>5. /\ r.plan \in Nat /\ s.plan \in Nat
          /\ \A x \in Segment : r.slots[x] \in Nat /\ s.slots[x] \in Nat
      BY DEF Row
    <2>6. /\ r.batch # 0 => s.batch = r.batch
          /\ r.asset => s.asset
          /\ r.project => s.project
          /\ s.plan >= r.plan
          /\ \A x \in Segment : s.slots[x] >= r.slots[x]
          /\ r.state \in {"canceled", "completed"} => s.state = r.state
      BY <2>3, <2>4, <2>5 DEF Below, Ends
    <2> QED BY <2>2, <2>6
  <1> QED BY <1>1, WorkflowInvariance, PTL DEF Spec, RefsStable

\* Who makes a project, a plan or the jobs of a segment, and for which row
LEMMA KeySteps ==
  ASSUME Inv, Next
  PROVE  /\ project' = "made" /\ project # "made" =>
              project = "none" /\ \E p \in Procs : Rec(p).asset /\ Below(Rec(p), wf)
         /\ planKey' = "made" /\ planKey # "made" =>
              planKey = "none" /\ \E p \in Procs : Rec(p).asset /\ Below(Rec(p), wf)
         /\ \A s \in Segment : upKey'[s] = "made" /\ upKey[s] # "made" =>
              /\ upKey[s] = "none"
              /\ \E p \in Procs : /\ Rec(p).outputs /\ Below(Rec(p), wf)
                                  /\ \A t \in Segment : t < s => Rec(p).slots[t] # 0
  <1> DEFINE Goal ==
         /\ project' = "made" /\ project # "made" =>
              project = "none" /\ \E p \in Procs : Rec(p).asset /\ Below(Rec(p), wf)
         /\ planKey' = "made" /\ planKey # "made" =>
              planKey = "none" /\ \E p \in Procs : Rec(p).asset /\ Below(Rec(p), wf)
         /\ \A s \in Segment : upKey'[s] = "made" /\ upKey[s] # "made" =>
              /\ upKey[s] = "none"
              /\ \E p \in Procs : /\ Rec(p).outputs /\ Below(Rec(p), wf)
                                  /\ \A t \in Segment : t < s => Rec(p).slots[t] # 0
  <1>0. project \in Key /\ planKey \in Key /\ upKey \in [Segment -> Key]
    BY InvParts
  <1>1. ASSUME project' = project, planKey' = planKey, upKey' = upKey
        PROVE  Goal
    BY <1>1
  <1>2. ASSUME NEW p \in Procs, CreateProject(p)
        PROVE  Goal
    <2>1. /\ planKey' = planKey /\ upKey' = upKey /\ op[p].pc = "call"
          /\ Rec(p).state = "preparing_edit" /\ (project = "tomb" => project' = project)
      BY <1>2 DEF CreateProject, Advancing, At, uploads
    <2>2. Rec(p).asset /\ Below(Rec(p), wf)
      BY <2>1, OpKnows DEF Good, Stands, StandsAt, Rec
    <2> QED BY <1>0, <2>1, <2>2 DEF Key
  <1>3. ASSUME NEW p \in Procs, CreatePlan(p)
        PROVE  Goal
    <2>1. /\ project' = project /\ upKey' = upKey /\ op[p].pc = "create_plan"
          /\ planKey = "tomb" => planKey' = planKey
      BY <1>3 DEF CreatePlan, At, uploads
    <2>2. Rec(p).asset /\ Below(Rec(p), wf)
      BY <2>1, OpKnows DEF OpFit, Ready, Rec
    <2> QED BY <1>0, <2>1, <2>2 DEF Key
  <1>4. ASSUME NEW p \in Procs, PrepareUpload(p)
        PROVE  Goal
    <2> PICK r \in Row : r = Rec(p)
      BY OpKnows DEF Rec
    <2>1. /\ project' = project /\ planKey' = planKey
          /\ op[p].pc = "call" /\ r.state = "preparing_upload"
          /\ \/ upKey' = upKey
             \/ /\ ~Prepared(r) /\ upKey[Pending(r)] # "tomb"
                /\ upKey' = [upKey EXCEPT ![Pending(r)] = "made"]
      BY <1>4 DEF PrepareUpload, Advancing, At, editing, uploads
    <2>2. r.outputs /\ Below(r, wf)
      BY <2>1, OpKnows DEF Good, Stands, StandsAt, Rec
    <2>3. CASE ~Prepared(r) /\ upKey[Pending(r)] # "tomb" /\ upKey' = [upKey EXCEPT ![Pending(r)] = "made"]
      <3>1. PICK n \in Segment : n = Pending(r) /\ \A t \in Segment : t < n => r.slots[t] # 0
        BY <2>3, PendingSegment
      <3>2. /\ upKey[n] \in {"none", "made"}
            /\ \A s \in Segment : s # n => upKey'[s] = upKey[s]
        BY <1>0, <2>3, <3>1 DEF Key
      <3> QED BY <2>1, <2>2, <3>1, <3>2
    <2> QED BY <2>1, <2>3
  <1>5. ASSUME NEW p \in Procs, CancelEditForWorkflow(p)
        PROVE  Goal
    <2>1. /\ upKey' = upKey /\ project' \in {project, "tomb"} /\ planKey' \in {planKey, "tomb"}
      BY <1>5 DEF CancelEditForWorkflow, editing, uploads
    <2> QED BY <2>1
  <1>6. ASSUME NEW p \in Procs, CancelUploadsForWorkflow(p)
        PROVE  Goal
    <2>1. /\ project' = project /\ planKey' = planKey
          /\ \A s \in Segment : upKey'[s] \in {upKey[s], "tomb"}
      <3>1. PICK n : upKey' = [upKey EXCEPT ![n] = Claimed(@)]
        BY <1>6 DEF CancelUploadsForWorkflow
      <3>2. \A s \in Segment : upKey'[s] \in {upKey[s], Claimed(upKey[s])}
        BY <1>0, <3>1
      <3> QED BY <1>6, <3>2 DEF CancelUploadsForWorkflow, Claimed, editing
    <2> QED BY <2>1
  <1>7. ASSUME NEW p \in Procs, Advance(p), ~CreateProject(p), ~CreatePlan(p), ~PrepareUpload(p),
               ~CancelEditForWorkflow(p), ~CancelUploadsForWorkflow(p)
        PROVE  project' = project /\ planKey' = planKey /\ upKey' = upKey
    <2>1. CASE Read(p) \/ Write(p) \/ RequireAttention(p) \/ AdvanceCreated(p) \/ CreateBatch(p)
      BY <2>1 DEF Read, Write, RequireAttention, AdvanceCreated, CreateBatch, domains, editing, uploads
    <2>2. CASE AdvanceDownloading(p) \/ CallAI(p) \/ AdvanceTask(p) \/ FinishAI(p) \/ RetryAI(p)
      BY <2>2 DEF AdvanceDownloading, CallAI, AdvanceTask, FinishAI, RetryAI, domains, editing, uploads
    <2>3. CASE ObserveEdit(p) \/ ConfirmEdit(p) \/ RetryEdit(p) \/ ObserveUpload(p)
      BY <2>3 DEF ObserveEdit, ConfirmEdit, RetryEdit, ObserveUpload, domains, editing, uploads
    <2>4. CASE ConfirmUploads(p) \/ RetryUploads(p) \/ ReenterAttention(p)
      BY <2>4 DEF ConfirmUploads, RetryUploads, ReenterAttention, domains, editing, uploads
    <2>5. CASE CancelUploads(p) \/ CancelEdit(p) \/ CancelDownload(p)
      BY <2>5 DEF CancelUploads, CancelEdit, CancelDownload, editing, uploads
    <2> QED BY <1>7, <2>1, <2>2, <2>3, <2>4, <2>5 DEF Advance
  <1>8. ASSUME NEW p \in Procs, Scan(p) \/ User(p) \/ Crash(p)
        PROVE  project' = project /\ planKey' = planKey /\ upKey' = upKey
    BY <1>8 DEF Scan, User, Cancel, Request, Crash, domains, editing, uploads
  <1>9. ASSUME Workers \/ Page
        PROVE  Goal
    <2>1. project' = project /\ planKey' = planKey /\ upKey' = upKey
      BY <1>9 DEF Workers, DownloadWorker, EditWorker, UploadWorker, Page, editing, uploads
    <2> QED BY <1>1, <2>1
  <1>10. Goal
    <2> HIDE DEF Goal
    <2>1. ASSUME NEW p \in Procs, Advance(p) PROVE Goal
      BY <1>1, <1>2, <1>3, <1>4, <1>5, <1>6, <1>7, <2>1
    <2>2. ASSUME NEW p \in Procs, Scan(p) \/ User(p) \/ Crash(p) PROVE Goal
      BY <1>1, <1>8, <2>2
    <2> QED BY <1>9, <2>1, <2>2 DEF Next
  <1> QED BY <1>10

\* What a cancellation found to be not made is never made, however late a
\* process is in its operation (cancel_edit_for_workflow, cancel_uploads_for_workflow).
THEOREM FenceKept == Spec => FenceHolds
  <1> DEFINE Step == wf.state = "canceled" =>
                        /\ project' = "made" => project = "made"
                        /\ planKey' = "made" => planKey = "made"
                        /\ \A s \in Segment : upKey'[s] = "made" => upKey[s] = "made"
  <1>1. Inv /\ [Next]_vars => [Step]_vars
    <2> SUFFICES ASSUME Inv, Next, wf.state = "canceled"
                 PROVE  /\ project' = "made" => project = "made"
                        /\ planKey' = "made" => planKey = "made"
                        /\ \A s \in Segment : upKey'[s] = "made" => upKey[s] = "made"
      OBVIOUS
    <2> PICK r \in Row : r = wf
      BY InvParts
    <2>1. Fenced(r) /\ Ladder(r) /\ Backed(r)
      BY DEF Inv, Good, Backed
    <2>2. r.asset => project # "none" /\ planKey # "none"
      BY <2>1 DEF Fenced, Ladder, Backed
    <2>3. ASSUME NEW s \in Segment, r.outputs, \A t \in Segment : t < s => r.slots[t] # 0
          PROVE  upKey[s] # "none"
      <3>1. CASE r.slots[s] = 0
        BY <2>1, <2>3, <3>1 DEF Fenced
      <3>2. CASE r.slots[s] # 0
        <4>1. r.slots[s] \in Nat /\ r.slots[s] <= Len(jobs[s]) /\ jobs[s] \in Seq(UploadObject)
          BY <2>1, InvParts DEF Backed, Row
        <4>2. jobs[s] # <<>>
          BY <3>2, <4>1, EmptySeq
        <4> QED BY <4>2 DEF Inv, Rooted
      <3> QED BY <3>1, <3>2
    <2>4. ASSUME NEW q \in Row, Below(q, r)
          PROVE  /\ q.asset => r.asset
                 /\ q.outputs => r.outputs
                 /\ \A t \in Segment : q.slots[t] # 0 => r.slots[t] # 0
      BY <2>4 DEF Below, Row
    <2>5. \A p \in Procs : Rec(p) \in Row
      BY OpKnows DEF Rec
    <2>6. /\ project' = "made" => project = "made"
          /\ planKey' = "made" => planKey = "made"
      BY <2>2, <2>4, <2>5, KeySteps
    <2>7. ASSUME NEW s \in Segment, upKey'[s] = "made", upKey[s] # "made"
          PROVE  FALSE
      <3>1. PICK p \in Procs : /\ upKey[s] = "none" /\ Rec(p).outputs /\ Below(Rec(p), wf)
                               /\ \A t \in Segment : t < s => Rec(p).slots[t] # 0
        BY <2>7, KeySteps
      <3>2. r.outputs /\ \A t \in Segment : t < s => r.slots[t] # 0
        BY <2>4, <2>5, <3>1
      <3> QED BY <2>3, <3>1, <3>2
    <2> QED BY <2>6, <2>7
  <1> QED BY <1>1, WorkflowInvariance, PTL DEF Spec, FenceHolds
=============================================================================
