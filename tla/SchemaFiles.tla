----------------------------- MODULE SchemaFiles -----------------------------
(***************************************************************************)
(* How the processes of the application open a database they share: they  *)
(* create it if there is none, bring an old one to the current version and *)
(* refuse every other, while others do the same and any of them may die.   *)
(*                                                                         *)
(* uploads/schema.py, editing/schema.py and workflows/schema.py publish a  *)
(* finished temporary file under the database's name with a hard link and  *)
(* migrate it in one transaction; uploads adds a lock on the file, which   *)
(* every opener holds.  database.py creates the file empty and has one     *)
(* transaction for versions up to 7 and one for each later version.        *)
(***************************************************************************)
EXTENDS Naturals, FiniteSets

CONSTANTS
    Openers,    \* processes that open the database
    MaxDeaths   \* bound: processes that die, or cannot remove a name

Store == {"uploads", "editing", "workflow", "control"}

CurrentOf == [s \in Store |-> CASE s = "workflow" -> 3 [] s = "control" -> 11 [] OTHER -> 4]

None    == 0
NoOwner == "nobody"

ASSUME SchemaAssumption == NoOwner \notin Openers

VARIABLES
    kind,     \* which database it is
    base,     \* its version at first, None if there is no file
    file,     \* the version it has, None if there is no file
    maker,    \* who made the file at the path; "old" for one that was there
    temp,     \* temporary file of each opener
    orphans,  \* links to the database that a dead opener left
    flock,    \* holder of the lock on the file
    writer,   \* opener whose transaction is open, and the version it reached
    opening,  \* where each opener is
    seen,     \* the version it found
    trusts,   \* the maker of the file it ended with
    applied,  \* ghost: committed migrations to each version
    deaths    \* ghost

schemaVars == <<kind, base, file, maker, temp, orphans, flock, writer, opening, seen, trusts,
                applied, deaths>>

Current  == CurrentOf[kind]
NoWriter == [by |-> NoOwner, at |-> None, steps |-> {}]

\* One name, and no link of a publisher beside it: _plain_file and
\* _require_plain_database refuse a file with a second link.
Links == orphans + Cardinality({p \in Openers : temp[p] = "linked"})
Plain == file # None /\ Links = 0

SchemaInit ==
    /\ kind \in Store
    /\ base \in {None, Current + 1, Current} \cup
                {IF kind = "control" THEN v ELSE Current - 1 : v \in {3, 7, 9}} \cup {1}
    /\ file = base /\ maker = IF base = None THEN NoOwner ELSE "old"
    /\ temp = [p \in Openers |-> "none"] /\ orphans = 0
    /\ flock = NoOwner /\ writer = NoWriter
    /\ opening = [p \in Openers |-> "closed"] /\ seen = [p \in Openers |-> None]
    /\ trusts = [p \in Openers |-> NoOwner]
    /\ applied = [v \in 1..12 |-> 0] /\ deaths = 0

-----------------------------------------------------------------------------
(* Creation: ensure_*_schema up to an existing file *)

Goes(p, where) == opening' = [opening EXCEPT ![p] = where]

\* An opener that ends gives up its lock and its transaction.
Leaves(p, where) ==
    /\ Goes(p, where)
    /\ flock' = IF flock = p THEN NoOwner ELSE flock
    /\ writer' = IF writer.by = p THEN NoWriter ELSE writer

Look(p) ==
    /\ opening[p] = "closed" /\ kind # "control"
    /\ Goes(p, IF file = None THEN "creating" ELSE IF kind = "uploads" THEN "queueing" ELSE "checking")
    /\ UNCHANGED <<kind, base, file, maker, temp, orphans, flock, writer, seen, trusts, applied, deaths>>

\* The whole database, closed and validated, under a temporary name.
BuildTemp(p) ==
    /\ opening[p] = "creating" /\ temp[p] = "none"
    /\ \/ temp' = [temp EXCEPT ![p] = "whole"] /\ UNCHANGED <<opening, flock, writer>>
       \/ Leaves(p, "failed") /\ UNCHANGED temp
    /\ UNCHANGED <<kind, base, file, maker, orphans, seen, trusts, applied, deaths>>

\* Mutant: the temporary file is renamed over whatever is there.
Vacant_Never == TRUE

Vacant == file = None

\* os.link gives the file its name only if no other has it.
LinkTemp(p) ==
    /\ opening[p] = "creating" /\ temp[p] = "whole"
    /\ IF Vacant
       THEN /\ file' = Current /\ maker' = p
            /\ temp' = [temp EXCEPT ![p] = "linked"]
       ELSE temp' = [temp EXCEPT ![p] = "spare"] /\ UNCHANGED <<file, maker>>
    /\ UNCHANGED <<kind, base, orphans, flock, writer, opening, seen, trusts, applied, deaths>>

\* The temporary name goes; editing and workflow go on if it does not.
UnlinkTemp(p) ==
    /\ opening[p] = "creating" /\ temp[p] \in {"linked", "spare"}
    /\ \/ /\ temp' = [temp EXCEPT ![p] = "none"] /\ UNCHANGED orphans
          /\ Goes(p, IF kind = "uploads" THEN "queueing" ELSE "checking")
       \/ /\ deaths < MaxDeaths
          /\ temp' = [temp EXCEPT ![p] = "none"]
          /\ orphans' = orphans + (IF temp[p] = "linked" THEN 1 ELSE 0)
          /\ Goes(p, IF kind = "uploads" THEN "failed" ELSE "checking")
    /\ deaths' = IF orphans' # orphans THEN deaths + 1 ELSE deaths
    /\ UNCHANGED <<kind, base, file, maker, flock, writer, seen, trusts, applied>>

-----------------------------------------------------------------------------
(* Validation *)

\* uploads: _exclusive_schema_access waits for a publisher to unlink and for
\* the lock, both for a limited time, and looks at the file again under it.
Enter(p) ==
    /\ opening[p] = "queueing"
    /\ \/ Plain /\ flock = NoOwner /\ flock' = p /\ Goes(p, "checking") /\ UNCHANGED writer
       \/ (~Plain \/ flock # NoOwner) /\ Leaves(p, "failed")
    /\ UNCHANGED <<kind, base, file, maker, temp, orphans, seen, trusts, applied, deaths>>

\* A file that another opener writes may look changed, or be busy; uploads
\* copies it, and its log, and compares the copies.
LooksChanged(p) == writer.by # NoOwner \/ \E q \in Openers \ {p} : opening[q] = "ready"

\* A version the program knows, and exactly its tables.
KnownVersion == file \in 1..Current

\* _validated_schema_version
Check(p) ==
    /\ opening[p] = "checking" /\ kind # "control"
    /\ \/ /\ Plain /\ KnownVersion
          /\ seen' = [seen EXCEPT ![p] = file]
          /\ Goes(p, IF file = Current THEN "verifying" ELSE "migrating")
          /\ UNCHANGED <<flock, writer>>
       \/ /\ ~Plain \/ ~KnownVersion \/ LooksChanged(p)
          /\ Leaves(p, "failed") /\ UNCHANGED seen
    /\ UNCHANGED <<kind, base, file, maker, temp, orphans, trusts, applied, deaths>>

Verify(p) ==
    /\ opening[p] = "verifying"
    /\ \/ /\ kind = "control" \/ (Plain /\ file = Current)
          /\ trusts' = [trusts EXCEPT ![p] = maker] /\ Leaves(p, "ready")
       \/ /\ kind # "control"
          /\ ~Plain \/ file # Current \/ LooksChanged(p)
          /\ Leaves(p, "failed") /\ UNCHANGED trusts
    /\ UNCHANGED <<kind, base, file, maker, temp, orphans, seen, applied, deaths>>

-----------------------------------------------------------------------------
(* Migration: one transaction of the three stores *)

\* Mutant: the version found before the transaction began is used in it.
FoundVersion_Seen(p) == seen[p]

\* BEGIN IMMEDIATE, then the version is read again.
FoundVersion(p) == file

BeginWrite(p) ==
    /\ opening[p] = "migrating" /\ writer = NoWriter
    /\ IF kind = "workflow" /\ file # seen[p]  \* it validates the version it had found
       THEN Leaves(p, "failed")
       ELSE /\ writer' = [by |-> p, at |-> FoundVersion(p), steps |-> {}]
            /\ Goes(p, "stepping") /\ UNCHANGED flock
    /\ UNCHANGED <<kind, base, file, maker, temp, orphans, seen, trusts, applied, deaths>>

\* The statements to the next version and the validation of it; a workflow
\* goes to the current one at once.
Step(p) ==
    /\ opening[p] = "stepping" /\ writer.by = p /\ writer.at < Current
    /\ \/ LET next == IF kind = "workflow" THEN Current ELSE writer.at + 1
          IN  writer' = [writer EXCEPT !.at = next, !.steps = @ \cup {next}]
          /\ UNCHANGED <<opening, flock>>
       \/ Leaves(p, "failed")
    /\ UNCHANGED <<kind, base, file, maker, temp, orphans, seen, trusts, applied, deaths>>

\* What a transaction did, all of it or nothing.
Committed ==
    /\ file' = writer.at
    /\ applied' = [v \in DOMAIN applied |-> applied[v] + IF v \in writer.steps THEN 1 ELSE 0]

Commit(p) ==
    /\ opening[p] = "stepping" /\ writer.by = p /\ writer.at = Current
    /\ \/ Committed /\ writer' = NoWriter /\ Goes(p, "verifying") /\ UNCHANGED flock
       \/ Leaves(p, "failed") /\ UNCHANGED <<file, applied>>
    /\ UNCHANGED <<kind, base, maker, temp, orphans, seen, trusts, deaths>>

-----------------------------------------------------------------------------
(* Migration: the control database, a transaction for each stage *)

\* _enable_wal creates an empty file; the first transaction begins.
OpenControl(p) ==
    /\ opening[p] = "closed" /\ kind = "control"
    /\ maker' = IF file = None THEN p ELSE maker
    /\ Goes(p, "first")
    /\ UNCHANGED <<kind, base, file, temp, orphans, flock, writer, seen, trusts, applied, deaths>>

\* Mutant: stage 8 takes the version that the first transaction found.
Reread_Not(p, target) == IF target = 8 THEN seen[p] ELSE file

\* Every stage reads the version in its own transaction.
Reread(p, target) == file

Apply(steps) ==
    /\ file' = IF steps = {} THEN file
               ELSE CHOOSE v \in steps : \A w \in steps : w <= v
    /\ applied' = [v \in DOMAIN applied |-> applied[v] + IF v \in steps THEN 1 ELSE 0]

\* initialize: versions 1 to 7 in one transaction.
FirstStage(p) ==
    /\ opening[p] = "first"
    /\ \/ /\ file > Current /\ Goes(p, "failed") /\ UNCHANGED <<file, applied, seen>>
       \/ /\ file <= Current
          /\ Apply({v \in 1..7 : v > file})
          /\ seen' = [seen EXCEPT ![p] = IF file < 7 THEN 7 ELSE file]
          /\ Goes(p, IF file < 8 THEN "stage8" ELSE "stage9")
       \/ Goes(p, "failed") /\ UNCHANGED <<file, applied, seen>>  \* busy, or a statement fails
    /\ UNCHANGED <<kind, base, maker, temp, orphans, flock, writer, trusts, deaths>>

StageVersion == [s \in {"stage8", "stage9", "stage10", "stage11"} |->
             CASE s = "stage8" -> 8 [] s = "stage9" -> 9 [] s = "stage10" -> 10 [] OTHER -> 11]

NextOf(s) == CASE s = "stage8" -> "stage9" [] s = "stage9" -> "stage10"
               [] s = "stage10" -> "stage11" [] OTHER -> "verifying"

\* _migrate_to_8 to _migrate_to_11: returns if another opener was faster.
LaterStage(p) ==
    /\ opening[p] \in DOMAIN StageVersion
    /\ LET target == StageVersion[opening[p]]  found == Reread(p, target)
       IN  \/ /\ found \in target..Current /\ Goes(p, NextOf(opening[p]))
              /\ UNCHANGED <<file, applied>>
           \/ /\ found = target - 1 /\ Goes(p, NextOf(opening[p])) /\ Apply({target})
           \/ Goes(p, "failed") /\ UNCHANGED <<file, applied>>
    /\ UNCHANGED <<kind, base, maker, temp, orphans, flock, writer, seen, trusts, deaths>>

-----------------------------------------------------------------------------
(* Processes die at any step, and are started again *)

Die(p) ==
    /\ opening[p] \notin {"closed", "failed"} /\ deaths < MaxDeaths
    /\ deaths' = deaths + 1 /\ Leaves(p, "failed")
    /\ temp' = [temp EXCEPT ![p] = "none"]
    /\ orphans' = orphans + (IF temp[p] = "linked" THEN 1 ELSE 0)
    /\ UNCHANGED <<kind, base, file, maker, seen, trusts, applied>>

Again(p) ==
    /\ opening[p] = "failed"
    /\ Goes(p, "closed") /\ seen' = [seen EXCEPT ![p] = None]
    /\ UNCHANGED <<kind, base, file, maker, temp, orphans, flock, writer, trusts, applied, deaths>>

SchemaNext ==
    \E p \in Openers :
        \/ Look(p) \/ BuildTemp(p) \/ LinkTemp(p) \/ UnlinkTemp(p)
        \/ Enter(p) \/ Check(p) \/ Verify(p) \/ BeginWrite(p) \/ Step(p) \/ Commit(p)
        \/ OpenControl(p) \/ FirstStage(p) \/ LaterStage(p)
        \/ Die(p) \/ Again(p)

SchemaSpec == SchemaInit /\ [][SchemaNext]_schemaVars

-----------------------------------------------------------------------------
(***************************************************************************)
(* Properties.                                                             *)
(***************************************************************************)
SchemaTypeOK ==
    /\ file \in 0..12 /\ orphans \in 0..MaxDeaths /\ deaths \in 0..MaxDeaths
    /\ temp \in [Openers -> {"none", "whole", "linked", "spare"}]
    /\ flock \in Openers \cup {NoOwner} /\ writer.by \in Openers \cup {NoOwner}

\* Two openers that both found no file end with the same one: who is ready
\* works on the file at the path, and it has the current version.
SameFile == \A p \in Openers : opening[p] = "ready" => file = Current /\ trusts[p] = maker

\* Whatever processes began, committed or lost, every version was reached once
\* and none was left out.
MigratedOnce ==
    LET first == IF kind = "control" \/ base # None THEN base ELSE Current
        Last  == IF kind = "workflow" THEN {Current} ELSE first + 1..file
    IN  /\ \A v \in DOMAIN applied : applied[v] <= 1
        /\ {v \in DOMAIN applied : applied[v] = 1} =
             IF file \in {None, first} THEN {} ELSE Last

\* A database of a newer program is neither changed nor used.
NewerUntouched ==
    base > Current => file = base /\ maker = "old" /\ \A p \in Openers : opening[p] # "ready"

\* Between the openers the database is always one whole version.
SchemaSound == SameFile /\ MigratedOnce /\ NewerUntouched
=============================================================================
