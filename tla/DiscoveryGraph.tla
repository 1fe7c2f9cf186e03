--------------------------- MODULE DiscoveryGraph ---------------------------
(***************************************************************************)
(* The tables of the control database that give a submitted URL its jobs:  *)
(* inputs, discover jobs, immutable discovery snapshots, one download job  *)
(* per attachment, links of a generation, reuse of a ready asset, and the  *)
(* status that every input and batch takes from them (repository.py,       *)
(* worker_repository.py, docs/adr/0001-x-attachment-discovery.md).         *)
(*                                                                         *)
(* All inputs submit the same X post, each in a batch of its own, as one   *)
(* graph or as one flat download.  An attachment target is a child source  *)
(* with the selector and media key that fetch it; a snapshot is the set of *)
(* targets of one probe.  Route policy and credential of an input never    *)
(* change, so an input has at most one child job per target, named by the  *)
(* pair of both.  An attempt of a child or flat job is one step to its     *)
(* outcome (its leases are in DownloadQueue, its files in AssetCommit); an *)
(* attempt of a discover job is a claim, a probe outside any transaction,  *)
(* and a commit that may come too late.                                    *)
(***************************************************************************)
EXTENDS Integers, FiniteSets

CONSTANTS
    Inputs,        \* input records, all of the same post
    Targets,       \* attachments with a selector and a media key
    ItemOf,        \* the child source of each target
    Snapshots,     \* the results a probe can have
    Others,        \* the statuses of the other inputs in the batch of an input
    MaxGeneration, \* bound on rediscoveries and retries of an input
    MaxProbes      \* bound on the attempts of a discover job

ASSUME GraphAssumption ==
    /\ Snapshots \subseteq SUBSET Targets /\ {} \notin Snapshots
    /\ \A S \in Snapshots : \A s, t \in S : ItemOf[s] = ItemOf[t] => s = t
    /\ Others \in [Inputs -> SUBSET {"failed", "duplicate"}]
    /\ MaxGeneration \in Nat \ {0} /\ MaxProbes \in Nat

VARIABLES
    input,        \* input_records and the status of their batches
    main,         \* the discover or flat download job of each input
    child,        \* the download job of each input and target
    link,         \* input_relation_jobs: input, generation, snapshot, target
    discoveries,  \* source_discoveries with their relations
    assets,       \* media_assets, named by the child job that registered them
    probing       \* attempts of discover jobs whose process still runs

graphVars == <<input, main, child, link, discoveries, assets, probing>>

Children == Inputs \X Targets

\* A job that is claimed: "stopping" once cancel_requested_at is set.
Claimed == {"active", "stopping"}
Live    == {"queued"} \cup Claimed
Ended   == {"ready", "failed", "canceled"}

InputStatuses == {"queued", "ready", "partial_success", "failed", "canceled",
                  "duplicate"}

GraphTypeOK ==
    /\ input \in [Inputs -> [kind : {"none", "graph", "flat", "duplicate"},
                             gen : 1..MaxGeneration, disc : {{}} \cup Snapshots,
                             cancel : BOOLEAN, status : InputStatuses,
                             batch : InputStatuses]]
    /\ main \in [Inputs -> [status : {"none"} \cup Live \cup Ended,
                            gen : 1..MaxGeneration, tries : 0..MaxProbes,
                            lease : 0..MaxProbes]]
    /\ child \in [Children -> [status : {"none"} \cup Live \cup Ended,
                               gen : 0..MaxGeneration,
                               reused : SUBSET Inputs,
                               assets : SUBSET Children]]
    /\ link \subseteq [input : Inputs, gen : 1..MaxGeneration,
                       disc : Snapshots, target : Targets]
    /\ discoveries \subseteq Snapshots
    /\ assets \subseteq Children
    /\ probing \subseteq Inputs \X (1..MaxProbes)

NoChild == [status |-> "none", gen |-> 0, reused |-> {}, assets |-> {}]

GraphInit ==
    /\ input = [i \in Inputs |-> [kind |-> "none", gen |-> 1, disc |-> {},
                                  cancel |-> FALSE, status |-> "queued",
                                  batch |-> "queued"]]
    /\ main = [i \in Inputs |-> [status |-> "none", gen |-> 1, tries |-> 0,
                                 lease |-> 0]]
    /\ child = [c \in Children |-> NoChild]
    /\ link = {} /\ discoveries = {} /\ assets = {} /\ probing = {}

-----------------------------------------------------------------------------
(***************************************************************************)
(* Aggregates                                                              *)
(***************************************************************************)
\* The status of an input from the statuses of the jobs in its scope.
Aggregate(statuses) ==
    IF statuses \cap Live /= {} THEN "queued"
    ELSE IF "ready" \in statuses
         THEN IF statuses = {"ready"} THEN "ready" ELSE "partial_success"
    ELSE IF "failed" \in statuses THEN "failed" ELSE "canceled"

\* _refresh_batch_locked, from the statuses of the inputs of the batch.
BatchStatus(statuses) ==
    IF "queued" \in statuses THEN "queued"
    ELSE IF "partial_success" \in statuses THEN "partial_success"
    ELSE IF "ready" \in statuses
         THEN IF statuses \cap {"failed", "canceled"} /= {}
              THEN "partial_success" ELSE "ready"
    ELSE IF "failed" \in statuses THEN "failed"
    ELSE IF "canceled" \in statuses THEN "canceled" ELSE "duplicate"

\* Mutant: every child job of the input counts, whatever snapshot it is of.
Scope_AllChildren(inp, mains, children, links, i) ==
    IF inp[i].disc = {} THEN {mains[i].status}
    ELSE {children[c].status : c \in {d \in Children : d[1] = i}} \ {"none"}

\* The jobs an input counts: the children linked for its active snapshot and
\* generation, or the discover or flat job while there is no snapshot.
Scope(inp, mains, children, links, i) ==
    IF inp[i].disc = {} THEN {mains[i].status}
    ELSE {children[<<i, l.target>>].status :
            l \in {k \in links : /\ k.input = i /\ k.gen = inp[i].gen
                                 /\ k.disc = inp[i].disc}}

\* _mark_input_and_refresh_batch, after the other writes of its transaction.
Marked(inp, mains, children, links, i) ==
    LET status == Aggregate(Scope(inp, mains, children, links, i))
    IN  [inp EXCEPT ![i].status = status,
                    ![i].batch = BatchStatus({status} \cup Others[i])]

\* A transaction that writes inp, mains, children and links and marks input i.
MarkedWrite(inp, mains, children, links, i) ==
    /\ input' = Marked(inp, mains, children, links, i)
    /\ main' = mains /\ child' = children /\ link' = links

-----------------------------------------------------------------------------
(***************************************************************************)
(* Submission                                                              *)
(***************************************************************************)
\* create_batch looks for any live or ready job of the same source.
Occupied == \E j \in Inputs : main[j].status \in Live \cup {"ready"}

\* create_batch; a graph is always created, a flat download only when nothing
\* of the same source is live or ready.
CreateBatch(i, kind) ==
    /\ input[i].kind = "none"
    /\ LET duplicate == kind = "flat" /\ Occupied
       IN  /\ input' = [input EXCEPT
                ![i].kind = IF duplicate THEN "duplicate" ELSE kind,
                ![i].status = IF duplicate THEN "duplicate" ELSE "queued",
                ![i].batch = IF ~duplicate THEN "queued"
                             ELSE IF "failed" \in Others[i] THEN "failed"
                             ELSE "duplicate"]
           /\ main' = IF duplicate THEN main
                      ELSE [main EXCEPT ![i].status = "queued"]
    /\ UNCHANGED <<child, link, discoveries, assets, probing>>

-----------------------------------------------------------------------------
(***************************************************************************)
(* Discovery                                                               *)
(***************************************************************************)
\* claim_next takes the discover job; the probe of an earlier attempt that
\* lost its lease may still be running.
ClaimDiscovery(i) ==
    /\ input[i].kind = "graph" /\ main[i].status = "queued"
    /\ main[i].tries < MaxProbes
    /\ main' = [main EXCEPT ![i].status = "active", ![i].tries = @ + 1,
                            ![i].lease = main[i].tries + 1]
    /\ probing' = probing \cup {<<i, main[i].tries + 1>>}
    /\ UNCHANGED <<input, child, link, discoveries, assets>>

\* The lease of attempt n is the one the job carries.
HoldsProbe(i, n) == main[i].status \in Claimed /\ main[i].lease = n

\* The main job after its lease ended.
MainEnded(i, status) ==
    [main EXCEPT ![i].status = status, ![i].lease = 0]

\* Mutant: the donor may still be downloading.
Donors_Live(i, t) ==
    {j \in Inputs \ {i} : child[<<j, t>>].status \in {"active", "ready"}}

\* Ready jobs of other inputs with the same target, policy and credential.
Donors(i, t) == {j \in Inputs \ {i} : child[<<j, t>>].status = "ready"}

\* _get_or_create_child_job_locked: the job the input already has for the
\* target, whatever became of it, or a job made ready by a donor's asset, or
\* a queued one.
FannedOut(i, S, c) ==
    IF c[1] /= i \/ c[2] \notin S \/ child[c].status /= "none" THEN child[c]
    ELSE IF Donors(i, c[2]) = {}
         THEN [NoChild EXCEPT !.status = "queued", !.gen = main[i].gen]
         ELSE LET j == CHOOSE j \in Donors(i, c[2]) : TRUE
              IN  [status |-> "ready", gen |-> main[i].gen, reused |-> {j},
                   assets |-> child[<<j, c[2]>>].assets]

\* Mutant: the cancellation of the input is not looked at.
StopsProbe_Never(i) == FALSE

\* The discover job or its input has a cancellation request.
StopsProbe(i) == main[i].status = "stopping" \/ input[i].cancel

\* commit_discovery: LostLease or a replay changes nothing.
CommitDiscovery(i, n, S) ==
    /\ <<i, n>> \in probing
    /\ probing' = probing \ {<<i, n>>}
    /\ \/ ~HoldsProbe(i, n)
          /\ UNCHANGED <<input, main, child, link, discoveries>>
       \/ HoldsProbe(i, n) /\ StopsProbe(i)
          /\ MarkedWrite(input, MainEnded(i, "canceled"), child, link, i)
          /\ UNCHANGED discoveries
       \/ HoldsProbe(i, n) /\ ~StopsProbe(i)
          /\ discoveries' = discoveries \cup {S}
          /\ MarkedWrite([input EXCEPT ![i].disc = S],
                         MainEnded(i, "ready"),
                         [c \in Children |-> FannedOut(i, S, c)],
                         link \cup {[input |-> i, gen |-> main[i].gen,
                                     disc |-> S, target |-> t] : t \in S},
                         i)
    /\ UNCHANGED assets

\* The end of a claimed job without a result: finish_canceled, finish_failure
\* and _recover_expired.  A job that goes back to the queue marks nothing.
Unfinished(status) ==
    IF status = "stopping" THEN {"canceled"} ELSE {"queued", "failed"}

MainUnfinished(i) ==
    \E status \in Unfinished(main[i].status) :
        IF status = "queued"
        THEN /\ main' = MainEnded(i, status)
             /\ UNCHANGED <<input, child, link>>
        ELSE MarkedWrite(input, MainEnded(i, status), child, link, i)

FailDiscovery(i, n) ==
    /\ <<i, n>> \in probing
    /\ probing' = probing \ {<<i, n>>}
    /\ \/ HoldsProbe(i, n) /\ MainUnfinished(i)
       \/ ~HoldsProbe(i, n) /\ UNCHANGED <<input, main, child, link>>
    /\ UNCHANGED <<discoveries, assets>>

\* The lease of a discover or flat job expires, whether its process is gone
\* or late, and the next claim recovers it.
RecoverMain(i) ==
    /\ main[i].status \in Claimed
    /\ MainUnfinished(i)
    /\ \/ UNCHANGED probing
       \/ /\ <<i, main[i].lease>> \in probing
          /\ probing' = probing \ {<<i, main[i].lease>>}
    /\ UNCHANGED <<discoveries, assets>>

\* claim_next refuses a queued job: no exact selector, an invalid target, or
\* a credential that is no longer valid.
RefuseMain(i) ==
    /\ main[i].status = "queued"
    /\ MarkedWrite(input, MainEnded(i, "failed"), child, link, i)
    /\ UNCHANGED <<discoveries, assets, probing>>

-----------------------------------------------------------------------------
(***************************************************************************)
(* Downloads                                                               *)
(***************************************************************************)
ClaimFlat(i) ==
    /\ input[i].kind = "flat" /\ main[i].status = "queued"
    /\ main' = [main EXCEPT ![i].status = "active"]
    /\ UNCHANGED <<input, child, link, discoveries, assets, probing>>

FinishFlat(i) ==
    /\ input[i].kind = "flat" /\ main[i].status = "active"
    /\ MarkedWrite(input, MainEnded(i, "ready"), child, link, i)
    /\ UNCHANGED <<discoveries, assets, probing>>

ClaimChild(c) ==
    /\ child[c].status = "queued"
    /\ child' = [child EXCEPT ![c].status = "active"]
    /\ UNCHANGED <<input, main, link, discoveries, assets, probing>>

\* UNIQUE(source_item_id, media_key) of media_assets.
KeyTaken(c) == \E d \in assets : d[2] = c[2]

ChildWrite(c, new) ==
    MarkedWrite(input, main, [child EXCEPT ![c] = new], link, c[1])

\* finalize_asset_commit_intents.  A key that is taken fails the transaction,
\* and the attempt ends as any failed one.
FinishChild(c) ==
    /\ child[c].status = "active" /\ ~KeyTaken(c)
    /\ assets' = assets \cup {c}
    /\ ChildWrite(c, [child[c] EXCEPT !.status = "ready", !.assets = {c}])
    /\ UNCHANGED <<discoveries, probing>>

ChildUnfinished(c) ==
    /\ child[c].status \in Claimed
    /\ \E status \in Unfinished(child[c].status) :
          IF status = "queued"
          THEN /\ child' = [child EXCEPT ![c].status = status]
               /\ UNCHANGED <<input, main, link>>
          ELSE ChildWrite(c, [child[c] EXCEPT !.status = status])
    /\ UNCHANGED <<discoveries, assets, probing>>

RefuseChild(c) ==
    /\ child[c].status = "queued"
    /\ ChildWrite(c, [child[c] EXCEPT !.status = "failed"])
    /\ UNCHANGED <<discoveries, assets, probing>>

-----------------------------------------------------------------------------
(***************************************************************************)
(* Requests                                                                *)
(***************************************************************************)
\* What a cancellation makes of a job.
Stopped(status) ==
    CASE status = "queued" -> "canceled"
      [] status = "active" -> "stopping"
      [] OTHER -> status

\* request_cancel of a discover or flat job; an active one marks nothing.
CancelMain(i) ==
    /\ main[i].status \in {"queued", "active"}
    /\ LET mains == [main EXCEPT ![i].status = Stopped(@)]
       IN  IF main[i].status = "queued"
           THEN MarkedWrite(input, mains, child, link, i)
           ELSE main' = mains /\ UNCHANGED <<input, child, link>>
    /\ UNCHANGED <<discoveries, assets, probing>>

CancelChild(c) ==
    /\ child[c].status \in {"queued", "active"}
    /\ IF child[c].status = "queued"
       THEN ChildWrite(c, [child[c] EXCEPT !.status = "canceled"])
       ELSE /\ child' = [child EXCEPT ![c].status = "stopping"]
            /\ UNCHANGED <<input, main, link>>
    /\ UNCHANGED <<discoveries, assets, probing>>

\* request_cancel_input: queued jobs end, claimed ones are asked to stop.
CancelInput(i) ==
    /\ input[i].kind \in {"graph", "flat"}
    /\ MarkedWrite([input EXCEPT ![i].cancel = TRUE],
                   [main EXCEPT ![i].status = Stopped(@)],
                   [c \in Children |-> IF c[1] = i
                        THEN [child[c] EXCEPT !.status = Stopped(@)]
                        ELSE child[c]],
                   link, i)
    /\ UNCHANGED <<discoveries, assets, probing>>

\* Mutant: the retry of a flat job does not look for other work on its source.
Conflicts_Never(i) == FALSE

\* Another job of the same source is live or ready.
Conflicts(i) == \E j \in Inputs \ {i} : main[j].status \in Live \cup {"ready"}

\* request_retry, for flat jobs only.
RetryFlat(i) ==
    /\ input[i].kind = "flat" /\ main[i].status = "failed"
    /\ main[i].gen < MaxGeneration /\ ~Conflicts(i)
    /\ main' = [main EXCEPT ![i].status = "queued", ![i].gen = @ + 1]
    /\ input' = [input EXCEPT
            ![i].gen = @ + 1, ![i].cancel = FALSE, ![i].status = "queued",
            ![i].batch = BatchStatus({"queued"} \cup Others[i])]
    /\ UNCHANGED <<child, link, discoveries, assets, probing>>

\* Every job of the input is at its end.
Settled(i) ==
    /\ main[i].status \in Ended
    /\ \A t \in Targets : child[<<i, t>>].status \notin Live

\* request_rediscover
Rediscover(i) ==
    /\ input[i].kind = "graph" /\ main[i].gen < MaxGeneration /\ Settled(i)
    /\ MarkedWrite([input EXCEPT ![i].gen = @ + 1, ![i].disc = {},
                                 ![i].cancel = FALSE],
                   [main EXCEPT ![i].status = "queued", ![i].gen = @ + 1,
                                ![i].lease = 0],
                   child, link, i)
    /\ UNCHANGED <<discoveries, assets, probing>>

InputStep(i) ==
    \/ \E kind \in {"graph", "flat"} : CreateBatch(i, kind)
    \/ ClaimDiscovery(i) \/ RecoverMain(i) \/ RefuseMain(i)
    \/ \E n \in 1..MaxProbes : \/ FailDiscovery(i, n)
                               \/ \E S \in Snapshots : CommitDiscovery(i, n, S)
    \/ ClaimFlat(i) \/ FinishFlat(i) \/ CancelMain(i) \/ CancelInput(i)
    \/ RetryFlat(i) \/ Rediscover(i)

ChildStep(c) ==
    ClaimChild(c) \/ FinishChild(c) \/ ChildUnfinished(c) \/ RefuseChild(c)
    \/ CancelChild(c)

GraphNext ==
    \/ \E i \in Inputs : InputStep(i)
    \/ \E c \in Children : ChildStep(c)

GraphSpec == GraphInit /\ [][GraphNext]_graphVars

-----------------------------------------------------------------------------
(***************************************************************************)
(* Properties                                                              *)
(***************************************************************************)
\* What _audit_graph_state asks of the links: their jobs were created in the
\* generation of the link or before; the links of the active generation are
\* those of the active snapshot, complete; and every child job has a link.
AuditLinks ==
    /\ \A l \in link :
          LET job == child[<<l.input, l.target>>]
          IN  /\ job.status /= "none" /\ l.target \in l.disc
              /\ l.disc \in discoveries
              /\ job.gen <= l.gen /\ l.gen <= input[l.input].gen
    /\ \A i \in Inputs :
          {<<l.disc, l.target>> : l \in {k \in link : /\ k.input = i
                                                      /\ k.gen = input[i].gen}}
              = {input[i].disc} \X input[i].disc
    /\ \A c \in Children :
          child[c].status /= "none" =>
              \E l \in link : l.input = c[1] /\ l.target = c[2]

\* A child job is ready exactly if it has its one asset; reused assets are the
\* donor's, and the donor is a ready job of another input.
AuditAssets ==
    \A c \in Children :
        /\ (child[c].status = "ready") =
              (\E d \in assets : d[2] = c[2] /\ child[c].assets = {d})
        /\ child[c].status /= "ready" => child[c].assets = {}
        /\ \A j \in child[c].reused :
              /\ j /= c[1]
              /\ child[<<j, c[2]>>].status = "ready"
              /\ child[<<j, c[2]>>].assets = child[c].assets

\* The discover job and its input are of one generation.
AuditGenerations ==
    \A i \in Inputs : input[i].kind = "graph" => main[i].gen = input[i].gen

\* Whatever was committed, repeated, canceled, rediscovered or reused, and
\* whichever attempt came too late, the graph passes the audit that create_backup
\* and restore_backup make of it (backup.py _audit_graph_state), and two inputs
\* that fetch the same attachment at once never register it twice: no sequence
\* of legal requests leaves a database that cannot be backed up.
GraphAudited ==
    /\ GraphTypeOK /\ AuditLinks /\ AuditAssets /\ AuditGenerations
    /\ \A c, d \in assets : c[2] = d[2] => c = d

\* An input says what docs/adr/0001-x-attachment-discovery.md section 6 says of
\* its current work, after every step and not only after those that aggregate
\* again: jobs of an earlier snapshot never count, and its batch agrees.
StatusesAgree ==
    \A i \in Inputs :
        input[i].kind \in {"graph", "flat"} =>
            LET Of(t)   == child[<<i, t>>].status
                members == input[i].disc
                live    == IF members = {} THEN main[i].status \in Live
                           ELSE \E t \in members : Of(t) \in Live
            IN  /\ (input[i].status = "queued") = live
                /\ input[i].kind = "graph" /\ members = {} /\ ~live =>
                       input[i].status \in {"failed", "canceled"}
                /\ members /= {} /\ ~live =>
                       input[i].status =
                           IF \A t \in members : Of(t) = "ready" THEN "ready"
                           ELSE IF \E t \in members : Of(t) = "ready" THEN "partial_success"
                           ELSE IF \A t \in members : Of(t) = "canceled" THEN "canceled"
                           ELSE "failed"
                /\ input[i].batch = BatchStatus({input[i].status} \cup Others[i])

\* At most one flat download of a source is live or ready, although no index of
\* the database says so since Schema 8: submissions and retries both look first.
OneFlatDownload ==
    \A i, j \in Inputs :
        /\ input[i].kind = "flat" /\ main[i].status \in Live \cup {"ready"}
        /\ input[j].kind = "flat" /\ main[j].status \in Live \cup {"ready"}
        => i = j

\* Each input says what its current jobs say, and no two inputs download one
\* source flat, whatever was repeated, retried or reused in between.
InputsAgree == StatusesAgree /\ OneFlatDownload

\* The graph can be backed up, and every input tells its state.
GraphSound == GraphAudited /\ InputsAgree

\* Once an input is canceled, nothing of it starts, is created or becomes ready
\* until it is rediscovered or retried: not the fan-out of a probe under way,
\* and not a claimed job that fails or whose lease expires.
CancelSticks ==
    [][\A i \in Inputs :
          input[i].cancel /\ input'[i].cancel =>
              /\ main'[i].status \notin {"queued", "active", "ready"}
                     \/ main'[i].status = main[i].status
              /\ \A t \in Targets :
                    child'[<<i, t>>].status \notin {"queued", "active", "ready"}
                       \/ child'[<<i, t>>].status = child[<<i, t>>].status
      ]_graphVars
=============================================================================
