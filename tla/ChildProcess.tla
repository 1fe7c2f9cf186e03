---------------------------- MODULE ChildProcess ----------------------------
(* One child process at a time under SecureSubprocessRunner.run              *)
(* (subprocess_runner.py): the process and the descendants it leaves on its  *)
(* pipes, the two bounded readers, the polling loop with its limit, stop,    *)
(* deadline and observers, and the two ways the tree is taken down.          *)
(*                                                                           *)
(* Output is counted in units.  The command line, the environment and the    *)
(* checks of both are one choice (the policy refuses or not).                *)
EXTENDS Naturals

CONSTANTS
    Streams,      \* the child's output streams
    OutputLimit,  \* what a reader keeps of one stream
    MaxOutput     \* bound: what the tree writes to one stream

ASSUME OutputAssumption ==
    /\ OutputLimit \in Nat
    /\ MaxOutput \in Nat

VARIABLES
    call,     \* where run() is
    verdict,  \* the failure it has decided on, or "none"
    root,     \* the process: "none", "alive", "exited" by itself or "killed"
    kin,      \* a descendant that holds the pipes: "none", "alive" or "gone"
    wrote,    \* what the tree wrote to each stream
    pipe,     \* what of it no reader has taken
    buffer,   \* what the readers kept
    over,     \* the readers' `exceeded` events
    reader,   \* the reader threads: "off", "reading" or "done"
    seen,     \* what the line observers were given
    stop,     \* the Worker's stop_event, never reset
    late,     \* the deadline has passed
    killFaults \* bound: attempts to end the tree that may still raise

procVars == <<call, verdict, root, kin, wrote, pipe, buffer, over, reader, seen,
               stop, late, killFaults>>
treeVars   == <<root, kin>>
outputVars == <<wrote, pipe, buffer, over, reader>>

Calls == {"idle", "setup", "polling", "observing", "terminating", "shutdown",
          "waiting", "joining", "ended"}
Failures == {"none", "policy", "cancelled", "limit", "timeout", "process", "callback"}
Silent == [s \in Streams |-> 0]

ChildTypeOK ==
    /\ call \in Calls /\ verdict \in Failures
    /\ root \in {"none", "alive", "exited", "killed"} /\ kin \in {"none", "alive", "gone"}
    /\ \A f \in {wrote, pipe, buffer, seen} : f \in [Streams -> 0..MaxOutput]
    /\ over \in [Streams -> BOOLEAN]
    /\ reader \in [Streams -> {"off", "reading", "done"}]
    /\ stop \in BOOLEAN /\ late \in BOOLEAN /\ killFaults \in {0, 1}

ChildInit ==
    /\ call = "idle" /\ verdict = "none" /\ root = "none" /\ kin = "none"
    /\ wrote = Silent /\ pipe = Silent /\ buffer = Silent /\ seen = Silent
    /\ over = [s \in Streams |-> FALSE] /\ reader = [s \in Streams |-> "off"]
    /\ stop = FALSE /\ late = FALSE /\ killFaults = 1

Fail(why, next) == verdict' = why /\ call' = next

-----------------------------------------------------------------------------
(* run() *)

\* A rejected specification, a stop before the launch and a failed spawn leave
\* no process behind.
SpawnChild ==
    /\ call = "idle"
    /\ \/ Fail("policy", "ended") /\ UNCHANGED root
       \/ stop /\ Fail("cancelled", "ended") /\ UNCHANGED root
       \/ ~stop /\ Fail("process", "ended") /\ UNCHANGED root
       \/ ~stop /\ call' = "setup" /\ root' = "alive" /\ UNCHANGED verdict
    /\ UNCHANGED <<kin, outputVars, seen, stop, late, killFaults>>

\* A reader that cannot start fails the call over the live process.
StartReaders ==
    /\ call = "setup"
    /\ \/ /\ reader' = [s \in Streams |-> "reading"]
          /\ call' = "polling" /\ UNCHANGED verdict
       \/ /\ \E started \in SUBSET Streams \ {Streams} :
                reader' = [s \in Streams |-> IF s \in started THEN "reading" ELSE "off"]
          /\ Fail("process", "shutdown")
    /\ UNCHANGED <<treeVars, wrote, pipe, buffer, over, seen, stop, late, killFaults>>

Exceeded == \E s \in Streams : over[s]

\* One turn of the loop: the end of the process wins over the limit, the limit
\* over a stop, a stop over the deadline; the callback itself may raise.
Poll ==
    /\ call = "polling"
    /\ IF root # "alive" THEN call' = "waiting" /\ UNCHANGED verdict
       ELSE IF Exceeded THEN Fail("limit", "terminating")
       ELSE IF stop THEN Fail("cancelled", "terminating")
       ELSE \/ Fail("cancelled", "terminating")
            \/ Fail("callback", "shutdown")
            \/ late /\ Fail("timeout", "terminating")
            \/ ~late /\ call' = "observing" /\ UNCHANGED verdict
    /\ UNCHANGED <<treeVars, outputVars, seen, stop, late, killFaults>>

\* The observers are given what the readers have admitted; one may raise.
Observe ==
    /\ call = "observing"
    /\ \/ seen' = buffer /\ call' = "polling" /\ UNCHANGED verdict
       \/ Fail("callback", "shutdown") /\ UNCHANGED seen
    /\ UNCHANGED <<treeVars, outputVars, stop, late, killFaults>>

\* Mutant: only the process itself is killed.
KilledKin_RootOnly == kin

\* _terminate_tree acts only while the process itself is alive.
KilledRoot == IF root = "alive" THEN "killed" ELSE root
KilledKin  == IF root = "alive" /\ kin = "alive" THEN "gone" ELSE kin

Terminate ==
    /\ call = "terminating"
    /\ \/ /\ root' = KilledRoot /\ kin' = KilledKin
          /\ call' = "waiting" /\ UNCHANGED <<verdict, killFaults>>
       \/ /\ killFaults > 0 /\ killFaults' = killFaults - 1
          /\ Fail("process", "shutdown") /\ UNCHANGED treeVars
    /\ UNCHANGED <<outputVars, seen, stop, late>>

\* _best_effort_shutdown: a second attempt on a tree that resisted the first.
Shutdown ==
    /\ call = "shutdown"
    /\ root' = KilledRoot /\ kin' = KilledKin
    /\ call' = "waiting"
    /\ UNCHANGED <<verdict, outputVars, seen, stop, late, killFaults>>

WaitProcess ==
    /\ call = "waiting" /\ root # "alive"
    /\ call' = "joining"
    /\ UNCHANGED <<verdict, treeVars, outputVars, seen, stop, late, killFaults>>

\* Mutant: what the readers met after the loop is not looked at again.
LateLimit_Loop == verdict

LateLimit == IF verdict = "none" /\ Exceeded THEN "limit" ELSE verdict

\* Both readers are at the end of their stream; a reader that never started is
\* closed instead.  A call without a failure gives the observers the rest.
Finish ==
    /\ call = "joining"
    /\ \A s \in Streams : reader[s] # "reading"
    /\ IF LateLimit # "none"
       THEN Fail(LateLimit, "ended") /\ UNCHANGED seen
       ELSE \/ seen' = buffer /\ call' = "ended" /\ UNCHANGED verdict
            \/ Fail("callback", "ended") /\ UNCHANGED seen
    /\ UNCHANGED <<treeVars, outputVars, stop, late, killFaults>>

\* The next command of the same runner.
NextCommand ==
    /\ call = "ended"
    /\ call' = "idle" /\ verdict' = "none" /\ root' = "none" /\ kin' = "none"
    /\ wrote' = Silent /\ pipe' = Silent /\ buffer' = Silent /\ seen' = Silent
    /\ over' = [s \in Streams |-> FALSE] /\ reader' = [s \in Streams |-> "off"]
    /\ late' = FALSE /\ killFaults' = 1
    /\ UNCHANGED stop

-----------------------------------------------------------------------------
(* The reader threads, the tree and the clock *)

\* A reader takes what is in the pipe and keeps what its limit leaves room for;
\* it goes on reading beyond it, so that the child never blocks on a full pipe.
ReadChunk(s) ==
    /\ reader[s] = "reading" /\ pipe[s] > 0
    /\ LET room == OutputLimit - buffer[s] IN
       /\ buffer' = [buffer EXCEPT ![s] = @ + (IF pipe[s] > room THEN room ELSE pipe[s])]
       /\ over' = [over EXCEPT ![s] = @ \/ pipe[s] > room]
    /\ pipe' = [pipe EXCEPT ![s] = 0]
    /\ UNCHANGED <<call, verdict, treeVars, wrote, reader, seen, stop, late, killFaults>>

Writers == root = "alive" \/ kin = "alive"

EndOfStream(s) ==
    /\ reader[s] = "reading" /\ pipe[s] = 0 /\ ~Writers
    /\ reader' = [reader EXCEPT ![s] = "done"]
    /\ UNCHANGED <<call, verdict, treeVars, wrote, pipe, buffer, over, seen, stop, late,
                   killFaults>>

ReaderStep == \E s \in Streams : ReadChunk(s) \/ EndOfStream(s)

ChildWrites(s) ==
    /\ Writers /\ wrote[s] < MaxOutput
    /\ wrote' = [wrote EXCEPT ![s] = @ + 1] /\ pipe' = [pipe EXCEPT ![s] = @ + 1]
    /\ UNCHANGED <<call, verdict, treeVars, buffer, over, reader, seen, stop, late, killFaults>>

SpawnKin ==
    /\ root = "alive" /\ kin = "none"
    /\ kin' = "alive"
    /\ UNCHANGED <<call, verdict, root, outputVars, seen, stop, late, killFaults>>

RootExits ==
    /\ root = "alive" /\ root' = "exited"
    /\ UNCHANGED <<call, verdict, kin, outputVars, seen, stop, late, killFaults>>

KinExits ==
    /\ kin = "alive" /\ kin' = "gone"
    /\ UNCHANGED <<call, verdict, root, outputVars, seen, stop, late, killFaults>>

RequestStop ==
    /\ ~stop /\ stop' = TRUE
    /\ UNCHANGED <<call, verdict, treeVars, outputVars, seen, late, killFaults>>

DeadlinePasses ==
    /\ call \in {"setup", "polling", "observing"} /\ ~late
    /\ late' = TRUE
    /\ UNCHANGED <<call, verdict, treeVars, outputVars, seen, stop, killFaults>>

RunStep ==
    \/ StartReaders \/ Poll \/ Observe \/ Terminate \/ Shutdown \/ WaitProcess \/ Finish

ChildNext ==
    \/ SpawnChild \/ RunStep \/ NextCommand
    \/ ReaderStep \/ \E s \in Streams : ChildWrites(s)
    \/ SpawnKin \/ RootExits \/ KinExits \/ RequestStop \/ DeadlinePasses

\* A descendant whose parent exited by itself, in time for the tree not to be
\* taken down any more: the runner leaves it alone, and only its own end closes
\* the pipes.
OrphanExits == root = "exited" /\ KinExits

ChildFairness ==
    /\ WF_procVars(RunStep)
    /\ WF_procVars(ReaderStep)
    /\ WF_procVars(DeadlinePasses)
    /\ WF_procVars(OrphanExits)

ChildSpec == ChildInit /\ [][ChildNext]_procVars /\ ChildFairness

-----------------------------------------------------------------------------
(* Properties *)

\* A result is the whole output of a tree that has ended, no stream of it cut
\* off, all of it shown to the observers; and a call that ended in any way
\* leaves no process of its own behind.
OutputWhole ==
    call = "ended" =>
        /\ root # "alive"
        /\ verdict = "none" =>
               \A s \in Streams : buffer[s] = wrote[s] /\ seen[s] = wrote[s]

\* The deadline ends every call: whatever the child writes, leaves unread or
\* starts, run() returns, provided that a
\* descendant which outlives a parent that exited by itself ends some day.
RunReturns == (call = "setup") ~> (call = "ended")
=============================================================================
