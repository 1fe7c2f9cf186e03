----------------------------- MODULE RuntimeSetup -----------------------------
(***************************************************************************)
(* How a directory the application runs from is installed: the Python     *)
(* environment of the source tree, the media tools, the AI runtime or the *)
(* upload runtime (source_setup.py, toolchain.py, ai_runtime_builder.py   *)
(* and uploads/runtime_setup.py).                                         *)
(*                                                                         *)
(* The tools and the AI runtime are built beside their place and renamed   *)
(* into it; the environment and the upload runtime are built in place.  A  *)
(* setup holds the exclusive side of a file lock whose shared side the     *)
(* application holds; the command lines of the tools and of the AI runtime *)
(* take no lock.  Any of them may fail or die at any step, a file of the   *)
(* directory may be damaged, and the user may remove the directory.        *)
(***************************************************************************)
EXTENDS Naturals, FiniteSets

CONSTANTS
    Setups,        \* runs of a setup
    MaxEnds,       \* bound: runs that die
    MaxDamages,    \* bound: damages to an installed file
    MaxRemovals    \* bound: removals of the directory by the user

Bundle == {"environment", "tools", "ai", "upload"}

\* The parts in the order they are made.  environment: the owner's mark,
\* the interpreter, the packages.  tools: the files, the smoke test's mark.
\* ai: the files, the manifest.  upload: the two archives, what is unpacked
\* and installed from them, the check of the command lines, the manifest.
LastPart == [b \in Bundle |-> CASE b = "environment" -> 3 [] b = "upload" -> 4 [] OTHER -> 2]

NoRun       == "no one"
NoDirectory == [by |-> NoRun, parts |-> 0, half |-> FALSE, bad |-> FALSE, pending |-> {}, serial |-> 0]
NoStatus    == [serial |-> 0, ready |-> FALSE]

ASSUME SetupAssumption == NoRun \notin Setups /\ "user" \notin Setups

VARIABLES
    what,      \* the bundle
    direct,    \* runs started without the lock
    place,     \* the directory under its name
    staging,   \* the directory each run builds beside it
    setup,     \* where each run is
    holder,    \* run that has the exclusive lock
    app,       \* whether the application uses the directory, under the shared one
    status,    \* the application's cached answer about the upload runtime
    began,     \* ghost: the place as the application began to use it
    vouched,   \* ghost: maker of the place that was last called ready
    serials,   \* manifests written
    foreign,   \* ghost: parts of an environment that no setup made
    ends, damages, removals

setupVars == <<what, direct, place, staging, setup, holder, app, status, began, vouched,
               serials, foreign, ends, damages, removals>>

counters == <<ends, damages, removals>>

Complete == LastPart[what]
InPlace  == what \in {"environment", "upload"}
Exists   == place.by # NoRun

\* inspect_runtime, inspect_toolchain and load_current_ai_runtime compare the
\* whole file set with the manifest, file by file.
WholeDirectory(d) ==
    /\ d.by # NoRun /\ d.parts = Complete /\ ~d.half
    /\ ~d.bad /\ d.pending = {}

\* verify_toolchain, the mark aside: no file too many, none that differs.
ToolsVerified == ~place.bad /\ place.pending = {}

\* _runtime_ready asks the environment for the versions of its packages.
ProbeReady == place.parts = Complete /\ ~place.half

SetupInit ==
    /\ what \in Bundle
    /\ direct \in {D \in SUBSET Setups : what \notin {"tools", "ai"} => D = {}}
    /\ foreign \in IF what = "environment" THEN {0, 2, 3} ELSE {0}
    /\ place = IF foreign = 0 THEN NoDirectory ELSE [NoDirectory EXCEPT !.by = "user", !.parts = foreign]
    /\ staging = [p \in Setups |-> NoDirectory]
    /\ setup = [p \in Setups |-> "idle"]
    /\ holder = NoRun /\ app = FALSE /\ status = NoStatus
    /\ began = NoDirectory /\ vouched = NoRun /\ serials = 0
    /\ ends = 0 /\ damages = 0 /\ removals = 0

-----------------------------------------------------------------------------
(* Runs *)

To(p, where) ==
    /\ setup' = [setup EXCEPT ![p] = where]
    /\ UNCHANGED <<holder, vouched>>

\* A run ends with an answer and gives up the lock.
Answers(p, says) ==
    /\ setup' = [setup EXCEPT ![p] = "ended"]
    /\ holder' = IF holder = p THEN NoRun ELSE holder
    /\ vouched' = IF says = "ready" THEN place'.by ELSE vouched

\* Mutant: the lock excludes other setups only.
LockFree_Setups(p) == p \in direct \/ holder = NoRun

\* source_environment_lock, exclusive: fails at once.
LockFree(p) == p \in direct \/ (holder = NoRun /\ ~app)

\* A run that found the lock taken.
Refused(p) ==
    /\ setup[p] = "idle" /\ ~LockFree(p)
    /\ Answers(p, "busy")
    /\ UNCHANGED <<what, direct, place, staging, app, status, began, serials, foreign, counters>>

Enters(p) ==
    /\ setup[p] = "idle" /\ LockFree(p)
    /\ UNCHANGED <<what, direct, app, status, began, serials, foreign, counters>>

\* It goes on with the lock, or ends.
Proceeds(p, where) ==
    /\ setup' = [setup EXCEPT ![p] = where]
    /\ holder' = IF p \in direct THEN holder ELSE p
    /\ UNCHANGED vouched

\* Mutant: any environment is repaired.
Owned_Any == Exists

\* _owned_environment: the mark is the first part.
Owned == place.by \notin {"user", NoRun} /\ place.parts >= 1

\* _ensure_environment: verified, refused, made or repaired.
LookAtEnvironment(p) ==
    /\ what = "environment" /\ Enters(p) /\ UNCHANGED staging
    /\ \/ /\ ~Exists /\ Proceeds(p, "building") /\ place' = [NoDirectory EXCEPT !.by = p]
       \/ /\ Exists /\ ProbeReady  \* no repair asked for
          /\ UNCHANGED place /\ Answers(p, "ready")
       \/ /\ Exists /\ ~Owned
          /\ UNCHANGED place /\ Answers(p, "failed")
       \/ /\ Exists /\ Owned /\ Proceeds(p, "building")
          /\ place' = [place EXCEPT !.parts = IF @ = Complete THEN Complete - 1 ELSE @]

\* _prepare_tools and the tools' own command line.
LookAtTools(p) ==
    /\ what = "tools" /\ Enters(p) /\ UNCHANGED place
    /\ \/ ~Exists /\ Proceeds(p, "building") /\ staging' = [staging EXCEPT ![p].by = p]
       \/ Exists /\ ToolsVerified /\ Proceeds(p, "smoking") /\ UNCHANGED staging
       \/ Exists /\ Answers(p, "failed") /\ UNCHANGED staging

\* _prepare_ai_runtime; the builder itself refuses an existing output.
LookAtAiRuntime(p) ==
    /\ what = "ai" /\ Enters(p) /\ UNCHANGED place
    /\ \/ ~Exists /\ Proceeds(p, "building") /\ staging' = [staging EXCEPT ![p].by = p]
       \/ Exists /\ UNCHANGED staging
            /\ Answers(p, IF p \notin direct /\ WholeDirectory(place) THEN "ready" ELSE "failed")

\* _runtime_preseed_is_safe: complete archives only.  It makes the guards that
\* install repeats later (a part that is already there) unreachable.
PreseedIsSafe == place.parts <= 1 /\ ~place.half /\ ~place.bad

\* install, up to its first change: an upload runtime that is not whole is
\* never repaired.
UploadVerdict ==
    CASE WholeDirectory(place)                   -> "check"
      [] place.parts < Complete /\ PreseedIsSafe -> "install"
      [] OTHER                                   -> "reinstall"

\* _prepare_upload_runtime and the installer's own command line.
LookAtUploadRuntime(p) ==
    /\ what = "upload" /\ Enters(p) /\ UNCHANGED staging
    /\ \/ UploadVerdict = "check" /\ Proceeds(p, "checking") /\ UNCHANGED place
       \/ /\ UploadVerdict = "install" /\ Proceeds(p, "building")
          /\ place' = [place EXCEPT !.by = p]
       \/ UploadVerdict = "reinstall" /\ UNCHANGED place /\ Answers(p, "failed")

-----------------------------------------------------------------------------
(* Building *)

Site(p) == IF InPlace THEN place ELSE staging[p]

Put(p, d) ==
    IF InPlace THEN place' = d /\ UNCHANGED staging
               ELSE staging' = [staging EXCEPT ![p] = d] /\ UNCHANGED place

\* What arrives, from the network, a cache or an archive, may be wrong.  In
\* the environment a part that was left is made again.
BeginPart(p) ==
    LET again == what = "environment"
    IN  /\ setup[p] = "building" /\ Site(p).parts < Complete /\ (again \/ ~Site(p).half)
        /\ \E wrong \in BOOLEAN :
              Put(p, [Site(p) EXCEPT !.half = TRUE, !.bad = wrong \/ (@ /\ ~again)])
    /\ UNCHANGED <<what, direct, setup, holder, app, status, began, vouched, serials,
                   foreign, counters>>

\* Every part is compared with its locked size and hash, or run, first.
PartIsRight(d) == ~d.bad

\* Every manifest of the upload runtime is a file of its own.
IsManifest(p) == what = "upload" /\ Site(p).parts + 1 = Complete

EndPart(p) ==
    /\ setup[p] = "building" /\ Site(p).half /\ PartIsRight(Site(p))
    /\ serials' = IF IsManifest(p) THEN serials + 1 ELSE serials
    /\ Put(p, [Site(p) EXCEPT !.parts = @ + 1, !.half = FALSE,
                              !.serial = IF IsManifest(p) THEN serials' ELSE @])
    /\ UNCHANGED <<what, direct, setup, holder, app, status, began, vouched, foreign, counters>>

\* Mutant: a run that failed removes whatever has the name.
Published_Any(p) == Exists

\* _rollback_published: only what this run gave the name.
Published(p) == setup[p] = "validating" /\ place.by = p

\* An exception: what is beside the place is removed, best effort.
Fails(p) ==
    /\ setup[p] \in {"building", "validating"}
    /\ staging' = [staging EXCEPT ![p] = NoDirectory]
    /\ \/ ~InPlace /\ what = "ai" /\ Published(p) /\ place' = NoDirectory
       \/ UNCHANGED place
    /\ Answers(p, "failed")
    /\ UNCHANGED <<what, direct, app, status, began, serials, foreign, counters>>

\* staging.replace(root) and os.rename: a directory is never replaced.
Publish(p) ==
    /\ setup[p] = "building" /\ ~InPlace /\ staging[p].parts = Complete /\ ~Exists
    /\ place' = staging[p] /\ staging' = [staging EXCEPT ![p] = NoDirectory]
    /\ IF what = "tools" THEN Answers(p, "ready") ELSE To(p, "validating")
    /\ UNCHANGED <<what, direct, app, status, began, serials, foreign, counters>>

\* The installed directory is looked at as every later reader does.
Finish(p) ==
    /\ \/ setup[p] = "validating"
       \/ setup[p] = "building" /\ InPlace /\ place.parts = Complete
    /\ what = "environment" \/ WholeDirectory(place)
    /\ UNCHANGED place /\ Answers(p, "ready")
    /\ UNCHANGED <<what, direct, staging, app, status, began, serials, foreign, counters>>

\* install: a manifest that its own reader refuses goes.
Unvouch(p) ==
    /\ setup[p] = "building" /\ what = "upload" /\ place.parts = Complete /\ ~WholeDirectory(place)
    /\ place' = [place EXCEPT !.parts = Complete - 1, !.serial = 0] /\ Answers(p, "failed")
    /\ UNCHANGED <<what, direct, staging, app, status, began, serials, foreign, counters>>

\* An installed upload runtime is run, and looked at again.
Recheck(p) ==
    /\ setup[p] = "checking" /\ UNCHANGED place
    /\ \/ WholeDirectory(place) /\ Answers(p, "ready")
       \/ Answers(p, "failed")
    /\ UNCHANGED <<what, direct, staging, app, status, began, serials, foreign, counters>>

-----------------------------------------------------------------------------
(* run_offline_smoke on installed tools *)

WriteMark(p) ==
    /\ setup[p] = "smoking" /\ p \notin place.pending
    /\ \/ Exists /\ place' = [place EXCEPT !.pending = @ \cup {p}] /\ To(p, "smoking")
       \/ UNCHANGED place /\ Answers(p, "failed")
    /\ UNCHANGED <<what, direct, staging, app, status, began, serials, foreign, counters>>

\* The mark replaces the old one, and everything is verified again.
ReplaceMark(p) ==
    /\ setup[p] = "smoking" /\ p \in place.pending
    /\ place' = [place EXCEPT !.pending = @ \ {p}]
    /\ Answers(p, IF WholeDirectory(place') THEN "ready" ELSE "failed")
    /\ UNCHANGED <<what, direct, staging, app, status, began, serials, foreign, counters>>

-----------------------------------------------------------------------------
(* The application *)

\* The status page: a complete answer is kept for some seconds while the
\* manifest is the same file.
Poll ==
    /\ what = "upload" /\ holder = NoRun /\ place.parts = Complete
    /\ status' = IF status.serial = place.serial THEN status
                 ELSE [serial |-> place.serial, ready |-> WholeDirectory(place)]
    /\ UNCHANGED <<what, direct, place, staging, setup, holder, app, began, vouched, serials,
                   foreign, counters>>

StatusExpires ==
    /\ status # NoStatus /\ status' = NoStatus
    /\ UNCHANGED <<what, direct, place, staging, setup, holder, app, began, vouched, serials,
                   foreign, counters>>

\* Mutant: what the status page was told admits an operation.
FoundReady_Cached ==
    IF status.serial = place.serial /\ status.serial # 0 THEN status.ready ELSE WholeDirectory(place)

\* _inspect_for_execution, uncached; the tools' and the AI runtime's readers.
FoundReady == IF what = "environment" THEN ProbeReady ELSE WholeDirectory(place)

\* The shared lock is held as long as the directory is used.
BeginUse ==
    /\ ~app /\ holder = NoRun /\ FoundReady
    /\ app' = TRUE /\ began' = place
    /\ UNCHANGED <<what, direct, place, staging, setup, holder, status, vouched, serials,
                   foreign, counters>>

EndUse ==
    /\ app /\ app' = FALSE /\ began' = NoDirectory
    /\ UNCHANGED <<what, direct, place, staging, setup, holder, status, vouched, serials,
                   foreign, counters>>

-----------------------------------------------------------------------------
(* Faults *)

\* A process ends: the lock goes with it, what it had written stays.
EndsAbruptly(p) ==
    /\ setup[p] \notin {"idle", "ended"} /\ ends < MaxEnds
    /\ ends' = ends + 1
    /\ place' = [place EXCEPT !.pending = IF p \in @ THEN (@ \ {p}) \cup {"litter"} ELSE @]
    /\ staging' = [staging EXCEPT ![p] = NoDirectory]
    /\ Answers(p, "died")
    /\ UNCHANGED <<what, direct, app, status, began, serials, foreign, damages, removals>>

\* Setup is run again.
Rerun(p) ==
    /\ setup[p] = "ended"
    /\ setup' = [setup EXCEPT ![p] = "idle"]
    /\ UNCHANGED <<what, direct, place, staging, holder, app, status, began, vouched, serials,
                   foreign, counters>>

Damage ==
    /\ what # "environment" /\ Exists /\ ~place.bad /\ damages < MaxDamages
    /\ damages' = damages + 1 /\ place' = [place EXCEPT !.bad = TRUE]
    /\ UNCHANGED <<what, direct, staging, setup, holder, app, status, began, vouched, serials,
                   foreign, ends, removals>>

\* While nothing runs, a user removes the directory to install it anew.
Remove ==
    /\ Exists /\ ~app /\ removals < MaxRemovals
    /\ \A p \in Setups : setup[p] \in {"idle", "ended"}
    /\ removals' = removals + 1 /\ place' = NoDirectory /\ vouched' = NoRun /\ foreign' = 0
    /\ UNCHANGED <<what, direct, staging, setup, holder, app, status, began, serials, ends, damages>>

SetupNext ==
    \/ \E p \in Setups :
          \/ Refused(p) \/ LookAtEnvironment(p) \/ LookAtTools(p) \/ LookAtAiRuntime(p)
          \/ LookAtUploadRuntime(p) \/ BeginPart(p) \/ EndPart(p) \/ Publish(p) \/ Finish(p)
          \/ Unvouch(p) \/ Fails(p) \/ Recheck(p) \/ WriteMark(p) \/ ReplaceMark(p)
          \/ EndsAbruptly(p) \/ Rerun(p)
    \/ Poll \/ StatusExpires \/ BeginUse \/ EndUse \/ Damage \/ Remove

SetupSpec == SetupInit /\ [][SetupNext]_setupVars

-----------------------------------------------------------------------------
(***************************************************************************)
(* Properties.                                                             *)
(***************************************************************************)
SetupTypeOK ==
    /\ place.parts \in 0..Complete /\ holder \in Setups \cup {NoRun}
    /\ place.pending \subseteq Setups \cup {"litter"}

\* Whatever died, failed or raced, tools and AI runtimes have their name only
\* when they are complete.
NamedIsComplete == ~InPlace /\ Exists => place.parts = Complete /\ ~place.half

\* The AI runtime's builder gives it its name before it validates it; run
\* without the lock, it may take back what another already found whole.
OnTrial(maker) == what = "ai" /\ maker \in direct

\* What was called ready is not taken away or taken apart by another setup,
\* except an environment under repair.
ReadyStays ==
    vouched # NoRun /\ ~OnTrial(vouched) =>
        /\ place.by = vouched
        /\ place.parts = Complete \/ what = "environment"

\* What the application uses was whole when it began, and is neither replaced
\* nor rebuilt until it ends.
UsedIsStable ==
    app /\ ~OnTrial(began.by) =>
        /\ began.parts = Complete /\ ~began.bad
        /\ place.by = began.by /\ place.parts = Complete /\ ~place.half

\* An environment that no setup made is left as it is.
ForeignIsKept == foreign # 0 => place = [NoDirectory EXCEPT !.by = "user", !.parts = foreign]

SetupSound == NamedIsComplete /\ ReadyStays /\ UsedIsStable /\ ForeignIsKept
=============================================================================
