------------------------------ MODULE LegacyRows ------------------------------
(***************************************************************************)
(* What a migration does to the rows of an old database: uploads/schema.py *)
(* from versions 1 and 2 to 4, and editing/schema.py from version 3 to 4.  *)
(* Each is one transaction, so it is one action here; the statements in it *)
(* are operators applied one after the other.                              *)
(*                                                                         *)
(* The uploads database holds one request of two root jobs and a retry of  *)
(* the first.  A request stores a digest of what the client asked for, not *)
(* the words themselves, so a digest is modelled as the payload it hashes, *)
(* and whoever changes the jobs must be able to tell what was hashed.      *)
(* The editing database holds one owner of AI calls.                       *)
(***************************************************************************)
EXTENDS Naturals

CONSTANT JobStates  \* states a legacy job may be in

ASSUME LegacyRowsAssumption ==
    JobStates \subseteq {"draft", "queued", "running", "submitted", "failed", "canceled", "unknown"}

Roots    == {"j1", "j2"}
Jobs     == Roots \cup {"k1"}          \* k1 is a retry of j1
RetryOf  == [j \in Jobs |-> IF j = "k1" THEN "j1" ELSE "none"]
Platform == {"bilibili", "douyin", "tencent"}

Absent  == 0                           \* the client left the copyright out
Foreign == [tags |-> "foreign"]        \* the digest of something else

VARIABLES
    legacy,   \* the old database
    jobs,     \* the jobs table
    digest,   \* the request's digest
    sentinel, \* the owner of AI calls has an "unknown" invocation
    phase     \* whether the migration took place

legacyVars == <<legacy, jobs, digest, sentinel, phase>>

Payload(job, category, copyright) ==
    [tags |-> job.tags, credit |-> job.credit, category |-> category, copyright |-> copyright]

-----------------------------------------------------------------------------
(* Old databases *)

OldJob(l, j) ==
    [platform |-> IF j = "j2" THEN l.second ELSE l.first, tags |-> l.tags, credit |-> l.credit,
     copyright |-> l.copyright, options |-> "none", state |-> l.state[j], code |-> ""]

WithBilibili(l) == "bilibili" \in {l.first, l.second}

\* What the services of versions 1 and 2 could store: the copyright may be
\* left out for an original that does not go to Bilibili, and version 1 hashed
\* the category in the type it came in, except for Bilibili.
UploadDatabases ==
    {l \in [of : {"uploads"}, version : 1..2, first : Platform, second : Platform,
            tags : {"plain", "marked"}, credit : BOOLEAN, copyright : 1..2, absent : BOOLEAN,
            category : {"canonical", "typed"}, provable : BOOLEAN, state : [Jobs -> JobStates]] :
        /\ l.absent => l.copyright = 1 /\ ~WithBilibili(l)
        /\ l.category = "typed" => l.version = 1 /\ ~WithBilibili(l)
        /\ ~l.provable => l.category = "canonical" /\ ~l.absent}

OldDigest(l) ==
    IF l.provable THEN Payload(OldJob(l, "j1"), l.category, IF l.absent THEN Absent ELSE l.copyright)
                  ELSE Foreign

\* An AI task or a plan with dubbing: how its authorization reads, its state,
\* the class of its failure code and whether it was ever started.
Owners ==
    {o \in [of : {"editing"}, auth : {"none", "local", "remote"},
            state : {"draft", "queued", "running", "canceling", "canceled", "failed", "done"},
            code : {"none", "before", "doubtful", "other"}, started : BOOLEAN] :
        /\ o.state \in {"running", "canceling", "done"} => o.started
        /\ o.state \in {"draft", "queued"} => ~o.started
        /\ (o.state = "failed") = (o.code # "none")}

LegacyInit ==
    /\ legacy \in UploadDatabases \cup Owners
    /\ jobs = IF legacy.of = "uploads" THEN [j \in Jobs |-> OldJob(legacy, j)] ELSE <<>>
    /\ digest = IF legacy.of = "uploads" THEN OldDigest(legacy) ELSE Foreign
    /\ sentinel = FALSE /\ phase = "old"

-----------------------------------------------------------------------------
(* uploads: each statement maps a database [jobs, digest, ok] to the next *)

\* A job whose words change has no longer the approval it was queued with,
\* and what a running one sent nobody knows.
Withdrawn(state) ==
    CASE state = "running" -> "unknown" [] state = "queued" -> "draft" [] OTHER -> state

Reviewed(job, code) ==
    IF job.state \in {"draft", "queued", "running"}
    THEN [job EXCEPT !.state = Withdrawn(job.state), !.code = code]
    ELSE job

CopyrightInputs(db) ==
    LET c == db.jobs["j1"].copyright
    IN  {c} \cup IF c = 1 /\ \A j \in Roots : db.jobs[j].platform # "bilibili" THEN {Absent} ELSE {}

\* Mutant: the types version 1 hashed are left for the next statement.
CategoriesCanonical_Skipped(db) == db

\* _normalize_v1_legacy_category_digests, for a digest it can prove.
CategoriesCanonical(db) ==
    IF /\ \A j \in Roots : db.jobs[j].platform # "bilibili"
       /\ db.digest \in {Payload(db.jobs["j1"], "typed", c) : c \in CopyrightInputs(db)}
    THEN [db EXCEPT !.digest.category = "canonical"]
    ELSE db

\* _normalize_v2_legacy_tags: syntax characters in the tags are replaced.
TagsSafe(db) ==
    LET changed == {j \in Jobs : db.jobs[j].tags = "marked"}
    IN  IF changed = {} THEN db
        ELSE IF db.digest \notin {Payload(db.jobs["j1"], "canonical", c) : c \in CopyrightInputs(db)}
             THEN [db EXCEPT !.ok = FALSE]
             ELSE [db EXCEPT !.digest.tags = "safe",
                     !.jobs = [j \in Jobs |->
                         IF j \in changed
                         THEN [Reviewed(@[j], "tags_review") EXCEPT !.tags = "safe"]
                         ELSE @[j]]]

\* Mutant: the roots of the request only.
Lineage_Roots(roots) == roots

Lineage(roots) == roots \cup {j \in Jobs : RetryOf[j] \in roots}

\* _normalize_v2_bilibili_original_sources: an original names no source.
SourcesDropped(db) ==
    LET affected == {j \in Jobs : /\ db.jobs[j].platform = "bilibili"
                                  /\ db.jobs[j].copyright = 1 /\ db.jobs[j].credit}
        first    == db.jobs["j1"]
    IN  IF ~db.ok \/ affected = {} THEN db
        ELSE IF \/ Roots \cap affected = {}
                \/ db.digest # Payload(first, "canonical", first.copyright)
             THEN [db EXCEPT !.ok = FALSE]
             ELSE [db EXCEPT !.digest.credit = FALSE,
                     !.jobs = [j \in Jobs |->
                         IF j \in Lineage(Roots)
                         THEN [Reviewed(@[j], "credit_review") EXCEPT !.credit = FALSE]
                         ELSE @[j]]]

\* _populate_v3_legacy_platform_options: what the platform's page had implied
\* becomes visible, and is to be approved.
OptionsShown(db) ==
    [db EXCEPT !.jobs = [j \in Jobs |->
        IF @[j].platform = "bilibili" THEN @[j]
        ELSE [Reviewed(@[j], "options_review") EXCEPT !.options = "declared"]]]

ReviewCodes == {"tags_review", "credit_review", "options_review"}

\* Mutant: every job that was changed keeps the code of its last change.
Reasoned_Last(db, before) == db

\* _preserve_v3_legacy_review_state_reasons: why the job had been stopped
\* matters more than which of its words changed last.
Reasoned(db, before) ==
    [db EXCEPT !.jobs = [j \in Jobs |->
        IF @[j].code \notin ReviewCodes THEN @[j]
        ELSE CASE before[j].state = "running" ->
                    [@[j] EXCEPT !.state = "unknown", !.code = "interrupted"]
               [] before[j].state = "queued" ->
                    [@[j] EXCEPT !.state = "draft", !.code = "reconfirm"]
               [] OTHER -> @[j]]]

\* _migrate_to_latest: the statements in their order; the last version adds
\* only a table.
Latest(db) ==
    LET second == IF legacy.version = 1 THEN CategoriesCanonical(db) ELSE db
        words  == SourcesDropped(TagsSafe(second))
    IN  IF words.ok THEN Reasoned(OptionsShown(words), db.jobs) ELSE words

MigrateUploads ==
    /\ phase = "old" /\ legacy.of = "uploads"
    /\ LET new == Latest([jobs |-> jobs, digest |-> digest, ok |-> TRUE])
       IN  IF new.ok
           THEN phase' = "new" /\ jobs' = new.jobs /\ digest' = new.digest
           ELSE phase' = "refused" /\ UNCHANGED <<jobs, digest>>
    /\ UNCHANGED <<legacy, sentinel>>

-----------------------------------------------------------------------------
(* editing: _migrate_legacy_remote_invocations *)

\* Mutant: only what stopped in the middle of a call.
OutcomeDoubtful_Running(o) == o.state \in {"running", "canceling"}

\* _legacy_outcome_may_be_unknown
OutcomeDoubtful(o) ==
    \/ o.state \in {"running", "canceling"}
    \/ o.state = "canceled" /\ o.started
    \/ o.state = "failed" /\ ((o.started /\ o.code # "before") \/ o.code = "doubtful")

MigrateEditing ==
    /\ phase = "old" /\ legacy.of = "editing"
    /\ sentinel' = (legacy.auth # "local" /\ OutcomeDoubtful(legacy))
    /\ phase' = "new" /\ UNCHANGED <<legacy, jobs, digest>>

LegacyNext == MigrateUploads \/ MigrateEditing

LegacySpec == LegacyInit /\ [][LegacyNext]_legacyVars

-----------------------------------------------------------------------------
(***************************************************************************)
(* Properties.                                                             *)
(***************************************************************************)
LegacyTypeOK == phase \in {"old", "new", "refused"} /\ sentinel \in BOOLEAN

Words(job) == <<job.tags, job.credit, job.options>>

\* Nothing is uploaded, without a new approval, in other words than those that
\* were approved; and what may have been sent is never offered as unsent.
ApprovalsEnd ==
    \A j \in Jobs :
        LET old == OldJob(legacy, j)
        IN  /\ jobs[j].state = "queued" => old.state = "queued" /\ Words(jobs[j]) = Words(old)
            /\ jobs[j].state = "running" => old.state = "running" /\ Words(jobs[j]) = Words(old)
            /\ old.state = "running" => jobs[j].state \in {"running", "unknown"}
            /\ old.state \in {"submitted", "failed", "canceled", "unknown"} => jobs[j].state = old.state

\* A job that the migration stopped says that it was stopped, which is what a
\* restart asks; only a draft says which of its words changed.
ReasonsKept ==
    \A j \in Jobs :
        LET old == OldJob(legacy, j)
        IN  jobs[j].state # old.state =>
              jobs[j].code = IF old.state = "running" THEN "interrupted" ELSE "reconfirm"

\* A client that repeats the request finds the jobs it made: the digest is
\* still that of what is stored, in one of the forms the service computes.
StillReplayed ==
    digest \in {Payload(jobs["j1"], "canonical", c) : c \in {Absent, legacy.copyright}}

\* A retry repeats its parent's words, and the jobs of one request agree.
StillOneRequest ==
    \A j \in Jobs : jobs[j].tags = jobs["j1"].tags /\ jobs[j].credit = jobs["j1"].credit

\* The migration refuses only what no service of the old version stored.
\* An AI call that may have been taken is marked, and no local one is.
RowsCarried ==
    /\ phase = "refused" => ~legacy.provable
    /\ phase = "new" /\ legacy.of = "uploads" =>
         /\ ApprovalsEnd /\ ReasonsKept /\ StillOneRequest
         /\ legacy.provable => StillReplayed
    /\ phase = "new" /\ legacy.of = "editing" =>
         /\ legacy.started /\ legacy.auth # "local" /\ legacy.state # "done"
              /\ legacy.code # "before" => sentinel
         /\ sentinel => legacy.auth # "local"
=============================================================================
