---------------------------- MODULE UploadBridge ----------------------------
(***************************************************************************)
(* One operation of the optional upload tools (uploads/backend.py) and the *)
(* owned child that carries it out (uploads/bridge.py, browser_login.py,   *)
(* bilibili_login.py).  The host stages a request, starts the child, lets  *)
(* it pass its gate once it owns it, and then waits for it, for a stop or  *)
(* for its deadline; the child works against a page it does not control    *)
(* and leaves one result file.  Only the host's verdict goes on to         *)
(* UploadService, which repeats an upload only if the verdict is "failed"  *)
(* or "cancelled".                                                         *)
(*                                                                         *)
(* Pages, platforms and the pinned uploader are environment: the page can  *)
(* lose a parameter at any moment, the uploader may press its button again *)
(* or give up, a pressed button may or may not reach the platform.         *)
(***************************************************************************)
EXTENDS Naturals, FiniteSets

CONSTANTS
    Codes,        \* QR images a login page can show
    MaxRefresh,   \* reloads of an expired login page (3 in the code)
    HostLead,     \* _SCHEDULE_LEAD_SECONDS of backend.py
    ChildLead,    \* _SCHEDULE_LEAD_SECONDS of bridge.py and its margin
    Dues,         \* scheduled times, and 0 for an immediate publication
    MaxOrders,    \* bound: operations in all
    MaxTime       \* bound: passage of time

ASSUME BridgeAssumption ==
    /\ {MaxRefresh, HostLead, ChildLead, MaxOrders, MaxTime} \subseteq Nat
    /\ Dues \subseteq Nat /\ 0 \in Dues

VARIABLES
    order,      \* the operation: action, platform, due time, draft
    orders,     \* operations so far
    host,       \* where the host's _run is
    halt,       \* the stop event
    gate,       \* the child's go file exists
    tool,      \* where the child is
    said,       \* the result the child is about to write
    answer,     \* its result file
    verdict,    \* the BackendResult
    session,    \* the account's state file
    now,        \* wall clock
    form,       \* parameters on the upload page
    attempted,  \* SingleSubmission: none, or the time of the final action
    posted,     \* submissions the platform took in this operation
    poll,       \* state of the login loop
    face,       \* what the login page shows
    update      \* login-update.json

hostVars   == <<order, orders, host, halt, gate, verdict>>
uploadVars == <<form, attempted, posted>>
loginVars  == <<poll, face, update>>
toolVars == <<tool, said, answer>>
bridgeVars == <<hostVars, toolVars, session, now, uploadVars, loginVars>>

NoCode   == "no code"
Unsaid   == "nothing"
Gone     == {"none", "exited", "killed"}
Browsers == {"douyin", "tencent"}
Order    == [action : {"login", "check"}, platform : Browsers \cup {"bilibili"},
             due : {0}, draft : {FALSE}]
               \cup [action : {"upload"}, platform : Browsers \cup {"bilibili"},
                     due : Dues, draft : {FALSE}]
               \cup [action : {"upload"}, platform : {"tencent"}, due : {0}, draft : {TRUE}]
NoPoll   == [scanned |-> FALSE, last |-> NoCode, expired |-> {},
             refreshes |-> 0, auths |-> 0]
Silence  == [phase |-> "preparing", code |-> NoCode]

\* A scheduled publication whose time is closer than the lead has elapsed.
Elapsed(lead) == order.due # 0 /\ order.due <= now + lead

BridgeInit ==
    /\ order = [action |-> "check", platform |-> "bilibili", due |-> 0, draft |-> FALSE]
    /\ orders = 0 /\ host = "idle" /\ halt = FALSE /\ gate = FALSE
    /\ tool = "none" /\ said = Unsaid /\ answer = Unsaid /\ verdict = Unsaid
    /\ session \in {"none", "old"} /\ now = 0
    /\ form = "blank" /\ attempted = {} /\ posted = 0
    /\ poll = NoPoll /\ face = "blank" /\ update = Silence

-----------------------------------------------------------------------------
(* The host: backend.py *)

Ends(v) == host' = "done" /\ verdict' = v

\* login, check and upload; upload refuses at once what is due too soon.
Submit(o) ==
    /\ host \in {"idle", "done"} /\ orders < MaxOrders
    /\ orders' = orders + 1 /\ order' = o /\ halt' = FALSE /\ gate' = FALSE
    /\ tool' = "none" /\ said' = Unsaid /\ answer' = Unsaid
    /\ form' = "blank" /\ attempted' = {} /\ posted' = 0
    /\ poll' = NoPoll /\ face' = "blank" /\ update' = Silence
    /\ UNCHANGED <<session, now>>
    /\ IF Elapsed(HostLead)' THEN Ends("failed")
                             ELSE host' = "entered" /\ verdict' = Unsaid

RequestHalt ==
    /\ host \notin {"idle", "done"} /\ ~halt /\ halt' = TRUE
    /\ UNCHANGED <<order, orders, host, gate, verdict, toolVars, session, now,
                   uploadVars, loginVars>>

\* _run_locked up to the staged request: the runtime's lock and inspection,
\* the account's file, the private directories and the linked media.
Stage ==
    /\ host = "entered"
    /\ \/ halt /\ Ends("cancelled")
       \/ ~halt /\ Ends("failed")
       \/ ~halt /\ (order.action = "login" \/ session # "none")
            /\ host' = "staged" /\ UNCHANGED verdict
    /\ UNCHANGED <<order, orders, halt, gate, toolVars, session, now, uploadVars, loginVars>>

\* The child is spawned and, on Windows, put into a job that ends with the
\* host; if either fails, what was started is killed.
Spawn ==
    /\ host = "staged"
    /\ \/ Ends("failed") /\ UNCHANGED tool
       \/ host' = "spawned" /\ tool' = "gate" /\ UNCHANGED verdict
    /\ UNCHANGED <<order, orders, halt, gate, said, answer, session, now, uploadVars, loginVars>>

\* The go file is written, or cannot be created.
Release ==
    /\ host = "spawned"
    /\ \/ halt /\ host' = "closing" /\ verdict' = "cancelled" /\ UNCHANGED gate
       \/ ~halt /\ host' = "polling" /\ gate' = TRUE /\ UNCHANGED verdict
       \/ ~halt /\ host' = "closing" /\ verdict' = "failed" /\ UNCHANGED gate
    /\ UNCHANGED <<order, orders, halt, toolVars, session, now, uploadVars, loginVars>>

\* Mutant: an upload that was stopped is reported as canceled.
CutShort_Known(otherwise) == otherwise

\* Whatever ends the wait while the child of an upload lives is uncertain.
CutShort(otherwise) == IF order.action = "upload" THEN "unknown" ELSE otherwise

StopWaiting ==
    /\ host = "polling" /\ tool \notin Gone
    /\ \/ halt /\ verdict' = CutShort("cancelled")
       \/ verdict' = CutShort("failed")   \* the deadline
    /\ host' = "closing"
    /\ UNCHANGED <<order, orders, halt, gate, toolVars, session, now, uploadVars, loginVars>>

\* The result an action may have, and an upload's of the requested mode.
Allowed ==
    CASE order.action # "upload" -> {"ready", "failed"}
      [] order.draft             -> {"draft_saved", "failed", "unknown"}
      [] OTHER                   -> {"submitted", "failed", "unknown"}

ReadAnswer ==
    /\ host = "polling" /\ tool = "exited"
    /\ verdict' = IF answer \in Allowed THEN answer ELSE CutShort("failed")
    /\ host' = "closing"
    /\ UNCHANGED <<order, orders, halt, gate, toolVars, session, now, uploadVars, loginVars>>

\* The finally block of _execute and the removal of the operation directory.
Reclaim ==
    /\ host = "closing"
    /\ host' = "done" /\ tool' = IF tool \in Gone THEN tool ELSE "killed"
    /\ UNCHANGED <<order, orders, halt, gate, verdict, said, answer, session, now,
                   uploadVars, loginVars>>

DisconnectLocal ==
    /\ host \in {"idle", "done"} /\ session # "none"
    /\ session' = "none"
    /\ UNCHANGED <<hostVars, toolVars, now, uploadVars, loginVars>>

TimePasses ==
    /\ host \notin {"idle", "done"} /\ order.due # 0 /\ now < MaxTime
    /\ now' = now + 1
    /\ UNCHANGED <<hostVars, toolVars, session, uploadVars, loginVars>>

-----------------------------------------------------------------------------
(* The child: bridge.py *)

Stay == UNCHANGED <<hostVars, answer, now>>

\* main ends with one result and exit code 0.
Say(r)   == tool' = "say" /\ said' = r
GoOn(p)  == tool' = p /\ UNCHANGED said
\* An exception, or SubmissionUncertain past every retry of the uploader.
Raise   == Say(IF order.action = "upload" THEN "unknown" ELSE "failed")

\* The gate: the child waits 15 seconds for its go file before it looks at
\* its request.
PassGate ==
    /\ tool = "gate"
    /\ \/ gate /\ GoOn(CASE order.action = "login" -> "login" [] OTHER -> "auth")
       \/ ~gate /\ tool' = "exited" /\ UNCHANGED said
    /\ UNCHANGED <<session, uploadVars, loginVars>> /\ Stay

WriteAnswer ==
    /\ tool = "say" /\ answer' = said /\ tool' = "exited"
    /\ UNCHANGED <<hostVars, said, session, now, uploadVars, loginVars>>

\* The stored session is renewed or tried, never logged in again.
Authenticate ==
    /\ tool = "auth"
    /\ \/ Say("failed") \/ Raise
       \/ session # "none" /\ (IF order.action = "check" THEN Say("ready") ELSE GoOn("fill"))
    /\ UNCHANGED <<session, uploadVars, loginVars>> /\ Stay

\* biliup fills and presses by itself, in a process of its own.
RunBiliup ==
    /\ tool = "fill" /\ order.platform = "bilibili"
    /\ IF Elapsed(ChildLead) THEN Say("failed") ELSE GoOn("click")
    /\ UNCHANGED <<session, uploadVars, loginVars>> /\ Stay

\* The pinned uploader fills the page; every parameter that was confirmed is
\* read back from it, or the upload raises (_install_strict_*).
FillForm ==
    /\ tool = "fill" /\ order.platform \in Browsers
    /\ \/ Elapsed(ChildLead) /\ Say("failed") /\ UNCHANGED form
       \/ ~Elapsed(ChildLead) /\ form' = "confirmed" /\ GoOn("press")
       \/ ~Elapsed(ChildLead) /\ form' = "changed" /\ Raise
    /\ UNCHANGED <<session, attempted, posted, loginVars>> /\ Stay

\* The page changes under the child: a script, or the user in the window.
FormChanges ==
    /\ tool \in {"press", "preflight"} /\ form = "confirmed"
    /\ form' = "changed"
    /\ UNCHANGED <<hostVars, toolVars, session, now, attempted, posted, loginVars>>

\* SingleSubmission._check: a publication in its window, and one final action.
TooLate == ~order.draft /\ Elapsed(ChildLead)

\* Mutant: the guard forgets the final action it allowed.
Repeated_Never == FALSE

Repeated == attempted # {}

\* before_click up to its first wait.
Press ==
    /\ tool = "press"
    /\ \/ Repeated /\ Raise
       \/ ~Repeated /\ TooLate /\ Say("failed")
       \/ ~Repeated /\ ~TooLate /\ GoOn("preflight")
    /\ UNCHANGED <<session, uploadVars, loginVars>> /\ Stay

\* Mutant: the clock is not read again after the parameters.
Rechecked_Never == TRUE

\* Reading the parameters may have waited: the clock is read once more.
Rechecked == ~TooLate

\* The rest of before_click: what passes both readings is attempted.
Preflight ==
    /\ tool = "preflight"
    /\ \/ form # "confirmed" /\ Say("failed") /\ UNCHANGED attempted
       \/ form = "confirmed" /\ ~Rechecked /\ Say("failed") /\ UNCHANGED attempted
       \/ form = "confirmed" /\ Rechecked /\ attempted' = {now} /\ GoOn("click")
    /\ UNCHANGED <<session, form, posted, loginVars>> /\ Stay

\* The click reaches the platform or not, and returns or raises.
Click ==
    /\ tool = "click"
    /\ posted' \in {posted, posted + 1}
    /\ Raise \/ GoOn("clicked")
    /\ UNCHANGED <<session, form, attempted, loginVars>> /\ Stay

\* Tencent's answer to the submission, or its list of drafts, acknowledges it
\* (submit_tencent_once); biliup exits with 0 once its submission was taken.
Acknowledge ==
    /\ tool = "clicked" /\ order.platform # "douyin"
    /\ \/ posted > 0 /\ Say(IF order.draft THEN "draft_saved" ELSE "submitted")
       \/ Raise
    /\ UNCHANGED <<session, uploadVars, loginVars>> /\ Stay

\* Douyin: the uploader presses again, gives up or returns.
UploaderGoesOn ==
    /\ tool = "clicked" /\ order.platform = "douyin"
    /\ GoOn("press") \/ Raise \/ Say("submitted")
    /\ UNCHANGED <<session, uploadVars, loginVars>> /\ Stay

\* The uploader returns without a final action.
UploaderGivesUp ==
    /\ tool = "press" /\ ~Repeated
    /\ Say("unknown")
    /\ UNCHANGED <<session, uploadVars, loginVars>> /\ Stay

\* The child is ended by the system, or its result cannot be written.
ChildDies ==
    /\ tool \notin Gone /\ tool' = "exited"
    /\ UNCHANGED <<hostVars, said, answer, session, now, uploadVars, loginVars>>

-----------------------------------------------------------------------------
(* The child: logins *)

Show(phase, code) == update' = [phase |-> phase, code |-> code]

\* The login page by itself: a code appears, goes stale, is scanned, the user
\* confirms, or the platform asks for more than a scan.
PageMoves ==
    /\ tool = "login" /\ order.platform \in Browsers
    /\ \/ face = "blank" /\ face' \in Codes \cup {"inside"}
       \/ face \in Codes /\ face' \in {"blank", "stale", "scanned"}
       \/ face = "scanned" /\ face' \in {"inside", "stale", "challenge"} \cup Codes
    /\ UNCHANGED <<hostVars, toolVars, session, now, uploadVars, poll, update>>

\* Mutant: a code is shown whenever the page shows it.
Outdated_Never(q) == FALSE

\* A code that went stale once is not shown again.
Outdated(q) == q \in poll.expired

\* A pass of _login's loop that leaves it.
LeaveLogin ==
    /\ tool = "login" /\ order.platform \in Browsers
    /\ \/ face = "challenge" /\ Show("verification_required", NoCode) /\ Say("failed")
            /\ UNCHANGED <<session, poll, face>>
       \/ face = "inside" /\ poll.auths = 1 /\ session' = "new" /\ Say("ready")
            /\ UNCHANGED <<poll, face, update>>
       \/ face = "stale" /\ poll.refreshes = MaxRefresh /\ Show("expired", NoCode)
            /\ Say("failed") /\ UNCHANGED <<session, poll, face>>
       \* no code in time, or the login's own deadline, or an error
       \/ Say("failed") /\ update' \in {update, [phase |-> "expired", code |-> NoCode]}
            /\ UNCHANGED <<session, poll, face>>
    /\ UNCHANGED uploadVars /\ Stay

\* A pass that goes on: the order of its tests is the code's.
LoginPass ==
    /\ tool = "login" /\ order.platform \in Browsers
    /\ \/ face = "inside" /\ poll.auths = 0
            /\ poll' = [poll EXCEPT !.auths = 1] /\ Show("scanned", NoCode)
            /\ UNCHANGED face
       \/ face = "stale" /\ poll.refreshes < MaxRefresh
            /\ poll' = [NoPoll EXCEPT !.refreshes = poll.refreshes + 1, !.last = poll.last,
                                      !.expired = poll.expired \cup ({poll.last} \ {NoCode})]
            /\ Show("expired", NoCode) /\ face' = "blank"
       \/ face = "scanned"
            /\ poll' = [poll EXCEPT !.auths = 0, !.scanned = TRUE] /\ Show("scanned", NoCode)
            /\ UNCHANGED face
       \/ /\ face \in Codes
          /\ LET shown == ~Outdated(face) /\ (~poll.scanned \/ face # poll.last)
             IN  /\ poll' = [poll EXCEPT !.auths = 0, !.last = face,
                                         !.scanned = @ /\ ~shown]
                 /\ IF Outdated(face) THEN Show("preparing", NoCode)
                    ELSE IF shown THEN Show("waiting_scan", face) ELSE UNCHANGED update
          /\ UNCHANGED face
       \/ face \in Codes /\ ~poll.scanned /\ Show("preparing", NoCode)  \* unreadable
            /\ poll' = [poll EXCEPT !.auths = 0] /\ UNCHANGED face
       \/ face = "blank" /\ poll' = [poll EXCEPT !.auths = 0] /\ UNCHANGED face
            /\ IF poll.scanned THEN UNCHANGED update ELSE Show("preparing", NoCode)
    /\ UNCHANGED <<said, tool, session, uploadVars>> /\ Stay

\* bilibili_login: one code, polled until it is confirmed, expires or fails.
BilibiliPoll ==
    /\ tool = "login" /\ order.platform = "bilibili"
    /\ \/ update.phase = "preparing" /\ (\E q \in Codes : Show("waiting_scan", q))
            /\ UNCHANGED <<session, tool, said>>
       \/ update.phase = "waiting_scan" /\ Show("scanned", NoCode)
            /\ UNCHANGED <<session, tool, said>>
       \/ update.phase # "preparing" /\ session' = "new" /\ Say("ready") /\ UNCHANGED update
       \/ update.phase # "preparing" /\ Show("expired", NoCode) /\ Say("failed")
            /\ UNCHANGED session
       \/ Say("failed") /\ UNCHANGED <<session, update>>
    /\ UNCHANGED <<poll, face, uploadVars>> /\ Stay

-----------------------------------------------------------------------------
HostStep == Stage \/ Spawn \/ Release \/ StopWaiting \/ ReadAnswer \/ Reclaim

BridgeNext ==
    \/ \E o \in Order : Submit(o)
    \/ RequestHalt \/ HostStep \/ DisconnectLocal \/ TimePasses
    \/ PassGate \/ WriteAnswer \/ ChildDies \/ Authenticate \/ RunBiliup
    \/ FillForm \/ FormChanges \/ Press \/ Preflight \/ Click
    \/ Acknowledge \/ UploaderGoesOn \/ UploaderGivesUp
    \/ PageMoves \/ LeaveLogin \/ LoginPass \/ BilibiliPoll

BridgeSpec == BridgeInit /\ [][BridgeNext]_bridgeVars

-----------------------------------------------------------------------------
(* Properties *)

\* The verdict never invites what UploadService must not do: after "failed" or
\* "cancelled" nothing was sent and nothing runs that could still send; the
\* platform took at most one submission; a scheduled one was pressed within
\* its window, however long the page was read before; and success rests on the
\* final action, for Tencent on the platform's own answer.
VerdictHonest ==
    /\ posted <= 1
    /\ host = "done" => tool \in Gone
    /\ host = "done" /\ verdict \in {"failed", "cancelled"} => posted = 0
    /\ verdict \in {"submitted", "draft_saved"} =>
          /\ order.platform \in Browsers => attempted # {}
          /\ order.platform # "douyin" => posted = 1
    /\ order.due # 0 => \A t \in attempted : order.due > t + ChildLead

\* A login shows no code that went stale before, and says ready only for the
\* session it stored.
LoginHonest ==
    /\ update.phase = "waiting_scan" => update.code \notin poll.expired
    /\ host = "done" /\ verdict = "ready" /\ order.action = "login" => session # "old"

\* What an operation of the upload tools tells the host is so.
BridgeHonest == VerdictHonest /\ LoginHonest
=============================================================================
