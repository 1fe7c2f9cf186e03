-------------------------------- MODULE AiCall --------------------------------
(***************************************************************************)
(* One call of the isolated AI runtime: the executor and the bridge in the *)
(* core (editing/ai_execution.py, ai_bridge.py, ai_authorization.py), the  *)
(* worker process behind it (ai_worker.py, ai_protocol.py) and the bundled *)
(* OpenAI provider (openai_provider.py).                                   *)
(*                                                                         *)
(* The bridge runs one call at a time.  It hashes the runtime it may use   *)
(* and the media it may send, freezes the media in a scratch directory,    *)
(* brackets a remote call with transitions of its ledger row, and believes *)
(* the worker's answer only if nothing changed meanwhile.  The runtime's   *)
(* files, the media and the credential belong to others and may change at  *)
(* any moment; the remote provider is the requests it took.                *)
(***************************************************************************)
EXTENDS Naturals, Sequences

CONSTANTS
    Asks,        \* calls
    OffersOf,    \* operation and kind of provider each of them may have
    NumLines,    \* cues of a translation
    Weight,      \* bytes each of them adds to a request
    MaxBody,     \* _MAX_JSON_REQUEST_BYTES
    BatchLines,  \* _MAX_TRANSLATION_BATCH_CUES
    MaxUpdates,  \* _MAX_TRANSLATION_PROGRESS_UPDATES
    MaxTold,     \* MAX_PROGRESS_LINES
    MaxDenied    \* bound: ledger writes that fail

Operation == {"health", "transcribe", "translate", "synthesize"}
Kind      == {"plugin", "http", "remote_plugin"}

Nobody == "nobody"  \* no call

ASSUME AiCallAssumption ==
    /\ {NumLines, MaxBody, BatchLines, MaxUpdates, MaxTold, MaxDenied} \subseteq Nat
    /\ 0 \notin {NumLines, BatchLines, MaxUpdates} /\ Nobody \notin Asks
    /\ MaxUpdates + 3 <= MaxTold   \* 250 and 256 in the code
    /\ Weight \in [1..NumLines -> 1..MaxBody]
    /\ \A c \in Asks : OffersOf[c] \subseteq Operation \X Kind

VARIABLES
    ask,       \* where each call is in the core, and what it ended with
    want,      \* its operation, kind of provider and media digest
    stopped,   \* cancellation of each call
    turn,      \* the call that holds _run_lock
    step,      \* where the bridge is in it
    code,      \* the failure it is closing the call with
    guard,     \* _InvocationGuard.state
    entry,     \* ledger row of each call
    frozen,    \* media copied into the scratch directory
    speech,    \* audio the worker left there
    outcome,   \* its result file
    result,    \* audio at the caller's destination
    helper,    \* where the worker process is
    done,      \* cues a translation has back
    spoken,    \* progress lines emitted
    runtime,   \* files of the installed runtime
    media,     \* the media at the path the call names
    core,      \* the application process
    denied,    \* ghost: ledger writes that failed
    taken      \* ghost: what the remote provider took of each call

coreVars   == <<ask, turn, step, code, guard, entry, result, denied>>
helperVars == <<helper, done, spoken, speech, outcome, taken>>
worldVars  == <<stopped, runtime, media, core>>
aiVars     == <<coreVars, helperVars, worldVars, want, frozen>>

Nothing   == "nothing"
Unwanted  == [op |-> "health", kind |-> "plugin", digest |-> Nothing]

Remote(c)   == want[c].kind # "plugin"
Ledgered(c) == Remote(c) /\ want[c].op # "health"
Ongoing(c)  == ask[c] \in {"waiting", "in"}

AiInit ==
    /\ ask = [c \in Asks |-> "idle"] /\ want = [c \in Asks |-> Unwanted]
    /\ stopped = [c \in Asks |-> FALSE]
    /\ turn = Nobody /\ step = "none" /\ code = "none" /\ guard = "none"
    /\ entry = [c \in Asks |-> "none"] /\ result = [c \in Asks |-> Nothing]
    /\ frozen = Nothing /\ speech = Nothing /\ outcome = Nothing
    /\ helper = "none" /\ done = 0 /\ spoken = 0
    /\ runtime = "approved" /\ media = "v1" /\ core = "up"
    /\ denied = 0 /\ taken = [c \in Asks |-> <<>>]

-----------------------------------------------------------------------------
(* The core before the lock *)

\* require_operation_authorization: the manifest and every artifact of the
\* operation hash to what the persisted authorization binds.
RuntimeApproved == runtime = "approved"

\* execute and speech_provider up to bridge.run: authorization, credential,
\* budget of the finished media or text, voice; then the digest of the media.
AskFor(c, op, kind) ==
    /\ core = "up" /\ ask[c] = "idle" /\ <<op, kind>> \in OffersOf[c]
    /\ \/ ask' = [ask EXCEPT ![c] = "failed"]   \* refused by one of them
       \/ RuntimeApproved /\ ask' = [ask EXCEPT ![c] = "waiting"]
    /\ want' = [want EXCEPT ![c] =
         [op |-> op, kind |-> kind,
          digest |-> IF op = "transcribe" THEN media ELSE Nothing]]
    /\ UNCHANGED <<turn, step, code, guard, entry, result, denied, helperVars, worldVars,
                   frozen>>

\* Of the lock's two cancellation tests the second decides.
TakeTurn(c) ==
    /\ core = "up" /\ ask[c] = "waiting" /\ turn = Nobody
    /\ IF stopped[c]
       THEN ask' = [ask EXCEPT ![c] = "canceled"] /\ UNCHANGED <<turn, step>>
       ELSE ask' = [ask EXCEPT ![c] = "in"] /\ turn' = c /\ step' = "gate"
    /\ UNCHANGED <<code, guard, entry, result, denied, helperVars, worldVars, want, frozen>>

-----------------------------------------------------------------------------
(* run: each stage of the bridge before the worker exists *)

AtStep(s)    == core = "up" /\ step = s
CloseWith(v) == step' = "closing" /\ code' = v
Pass(s)      == step' = s /\ UNCHANGED code
TurnKeeps    == UNCHANGED <<ask, turn, result, helperVars, worldVars, want>>

FirstGate ==
    /\ AtStep("gate") /\ (IF RuntimeApproved THEN Pass("identify") ELSE CloseWith("failed"))
    /\ UNCHANGED <<guard, entry, denied, frozen>> /\ TurnKeeps

\* _source_identity, for the one operation that names media.
Identify ==
    /\ AtStep("identify")
    /\ IF want[turn].digest \in {Nothing, media} THEN Pass("freeze") ELSE CloseWith("failed")
    /\ UNCHANGED <<guard, entry, denied, frozen>> /\ TurnKeeps

\* _copy_verified_input: a copy that does not hash to the digest is removed.
Freeze == IF media = want[turn].digest THEN media ELSE Nothing

\* The copy, the request file, the credential of the environment.
WriteRequest ==
    /\ AtStep("freeze")
    /\ \/ CloseWith("failed") /\ UNCHANGED frozen
       \/ want[turn].op # "transcribe" /\ Pass("regate") /\ UNCHANGED frozen
       \/ want[turn].op = "transcribe" /\ frozen' = Freeze
            /\ (IF frozen' = Nothing THEN CloseWith("failed") ELSE Pass("regate"))
    /\ UNCHANGED <<guard, entry, denied>> /\ TurnKeeps

FinalGate ==
    /\ AtStep("regate") /\ (IF RuntimeApproved THEN Pass("reserve") ELSE CloseWith("failed"))
    /\ UNCHANGED <<guard, entry, denied, frozen>> /\ TurnKeeps

\* A write of the ledger takes place, or fails and leaves the row.
Ledger(state) ==
    \/ entry' = [entry EXCEPT ![turn] = state] /\ UNCHANGED denied
    \/ denied < MaxDenied /\ denied' = denied + 1 /\ UNCHANGED entry

ReserveEntry ==
    /\ AtStep("reserve")
    /\ IF ~Ledgered(turn)
       THEN Pass("commit") /\ UNCHANGED <<guard, entry, denied>>
       ELSE /\ Ledger("reserved")
            /\ IF denied' = denied THEN guard' = "reserved" /\ Pass("commit")
                                   ELSE UNCHANGED guard /\ CloseWith("failed")
    /\ UNCHANGED frozen /\ TurnKeeps

LastTest ==
    /\ AtStep("commit")
    /\ (IF stopped[turn] THEN CloseWith("canceled") ELSE Pass("dispatch"))
    /\ UNCHANGED <<guard, entry, denied, frozen>> /\ TurnKeeps

\* Mutant: the guard counts as dispatched only once the worker has started.
DispatchedState_Late == "reserved"

DispatchedState == "dispatched"

DispatchEntry ==
    /\ AtStep("dispatch")
    /\ IF guard = "none"
       THEN Pass("launch") /\ UNCHANGED <<guard, entry, denied>>
       ELSE /\ Ledger("dispatched")
            /\ IF denied' = denied THEN guard' = DispatchedState /\ Pass("launch")
                                   ELSE UNCHANGED guard /\ CloseWith("failed")
    /\ UNCHANGED frozen /\ TurnKeeps

\* runner.run: the worker starts, or the runner refuses or fails to start it.
LaunchHelper ==
    /\ AtStep("launch")
    /\ \/ CloseWith("failed") /\ UNCHANGED helper
       \/ Pass("running") /\ helper' = "receive"
    /\ UNCHANGED <<ask, turn, result, guard, entry, denied, done, spoken, speech, outcome, taken,
                   worldVars, want, frozen>>

-----------------------------------------------------------------------------
(* The worker process: ai_worker.main around its provider.  It outlives a   *)
(* core that crashed, with the request of the call whose turn it was.       *)

Living == helper \notin {"none", "exited", "killed"}

\* Whatever it raises, it leaves an error as its result, if it can.
LeaveError == helper' = "exited" /\ outcome' \in {"error", Nothing}

\* ProgressEmitter: one line more, within the limit.
TellMore(n) == spoken + n <= MaxTold /\ spoken' = spoken + n

HelperKeeps == UNCHANGED <<coreVars, worldVars, want, frozen>>

\* Any step may raise, for what it was given, read back or was answered; or
\* the process is ended by the system.
HelperFails ==
    /\ Living /\ LeaveError
    /\ UNCHANGED <<done, spoken, speech, taken>> /\ HelperKeeps

\* The first look at the media, and the lines before the provider's work: one
\* of the worker, and one of the bundled provider.
ReceiveRequest ==
    /\ helper = "receive" /\ want[turn].digest = frozen
    /\ TellMore(IF want[turn].kind = "remote_plugin" THEN 2 ELSE 1)
    /\ helper' = "calling"
    /\ UNCHANGED <<done, speech, outcome, taken>> /\ HelperKeeps

Total[n \in 0..NumLines] == IF n = 0 THEN 0 ELSE Total[n - 1] + Weight[n]

Batched(c) == want[c].op = "translate" /\ want[c].kind = "remote_plugin"

\* _translation_batch: as many cues as may go into one request and fit.  The
\* generic HTTP provider sends the whole operation at once.
Ends(c, first) ==
    IF ~Batched(c) THEN {NumLines}
    ELSE {last \in first..NumLines :
            /\ last < first + BatchLines
            /\ Total[last] - Total[first - 1] <= MaxBody}

LastOf(c, first) == CHOOSE last \in Ends(c, first) : \A other \in Ends(c, first) : other <= last

\* The request of a remote provider arrives there; one that does not makes
\* the provider fail.  health of the bundled provider sends nothing.
SendAway ==
    /\ helper = "calling" /\ Remote(turn)
    /\ want[turn].op = "health" => want[turn].kind = "http"
    /\ Ends(turn, done + 1) # {}
    /\ taken' = IF want[turn].op = "health" THEN taken
                ELSE [taken EXCEPT ![turn] = Append(@,
                        [content |-> frozen, first |-> done + 1,
                         last |-> LastOf(turn, done + 1), by |-> runtime])]
    /\ helper' = "waiting"
    /\ UNCHANGED <<done, spoken, speech, outcome>> /\ HelperKeeps

Bucket(n) == (n * MaxUpdates) \div NumLines

\* Mutant: a line of progress for every batch.
Noted_Always(last) == TRUE

\* _translate reports a batch if its bucket, or the translation, is complete.
Noted(last) == last = NumLines \/ Bucket(last) > Bucket(done)

\* An answer that the provider accepts; the generic one does not look at the
\* order of translated items.
Answered ==
    /\ helper = "waiting"
    /\ CASE Batched(turn) ->
              LET last == LastOf(turn, done + 1)
              IN  /\ done' = last
                  /\ IF Noted(last) THEN TellMore(1) ELSE UNCHANGED spoken
                  /\ helper' = IF last = NumLines THEN "ending" ELSE "calling"
                  /\ UNCHANGED <<speech, outcome>>
         [] want[turn].op = "synthesize" ->
              /\ helper' = "writing" /\ speech' = "part" /\ UNCHANGED <<done, spoken, outcome>>
         [] OTHER ->
              /\ (IF want[turn].kind = "remote_plugin" THEN TellMore(1) ELSE UNCHANGED spoken)
              /\ helper' = "ending" /\ UNCHANGED <<done, speech>>
              /\ outcome' \in IF want[turn].op = "translate" THEN {Nothing, "misaligned"}
                                                           ELSE {Nothing}
    /\ UNCHANGED taken /\ HelperKeeps

\* A provider inside the runtime; the bundled one's health is one.
ComputeLocally ==
    /\ helper = "calling"
    /\ ~Remote(turn) \/ (want[turn].op = "health" /\ want[turn].kind = "remote_plugin")
    /\ IF want[turn].op = "synthesize" THEN helper' = "writing" /\ speech' = "part"
                                       ELSE helper' = "ending" /\ UNCHANGED speech
    /\ UNCHANGED <<done, spoken, outcome, taken>> /\ HelperKeeps

WriteSpeech ==
    /\ helper = "writing" /\ speech' = "whole" /\ helper' = "ending"
    /\ (IF want[turn].kind = "remote_plugin" THEN TellMore(1) ELSE UNCHANGED spoken)
    /\ UNCHANGED <<done, outcome, taken>> /\ HelperKeeps

\* A second look at the media, the last line, _success and its file.
FinishHelper ==
    /\ helper = "ending" /\ want[turn].digest = frozen
    /\ TellMore(1)
    /\ helper' = "exited"
    /\ outcome' = IF outcome = "misaligned" THEN outcome ELSE "ok"
    /\ UNCHANGED <<done, speech, taken>> /\ HelperKeeps

-----------------------------------------------------------------------------
(* run: after the worker *)

\* Cancellation, the provider's timeout, a failed progress callback.
Interrupt ==
    /\ AtStep("running") /\ Living /\ helper' = "killed"
    /\ CloseWith(IF stopped[turn] THEN "canceled" ELSE "failed")
    /\ UNCHANGED <<ask, turn, result, guard, entry, denied, done, spoken, speech, outcome, taken,
                   worldVars, want, frozen>>

\* _verify_source_after, for the media and for its copy.
MediaKept == want[turn].digest \in {Nothing, media} /\ want[turn].digest = frozen

CheckMedia ==
    /\ AtStep("running") /\ helper = "exited"
    /\ (IF MediaKept THEN Pass("recheck") ELSE CloseWith("failed"))
    /\ UNCHANGED <<guard, entry, denied, frozen>> /\ TurnKeeps

\* Mutant: the runtime is not hashed again.
Rehashed_Not == TRUE

Rehashed == RuntimeApproved

Recheck ==
    /\ AtStep("recheck") /\ (IF Rehashed THEN Pass("read") ELSE CloseWith("failed"))
    /\ UNCHANGED <<guard, entry, denied, frozen>> /\ TurnKeeps

\* validate_result, the status, the exit code, the order of the translation.
ReadReply ==
    /\ AtStep("read") /\ (IF outcome = "ok" THEN Pass("publish") ELSE CloseWith("failed"))
    /\ UNCHANGED <<guard, entry, denied, frozen>> /\ TurnKeeps

\* _copy_verified_audio links a verified copy to its destination, or nothing.
PublishSpeech ==
    /\ AtStep("publish")
    /\ \/ want[turn].op # "synthesize" /\ Pass("respond") /\ UNCHANGED result
       \/ want[turn].op = "synthesize" /\ result' = [result EXCEPT ![turn] = speech]
            /\ Pass("respond")
       \/ want[turn].op = "synthesize" /\ CloseWith("failed") /\ UNCHANGED result
    /\ UNCHANGED <<ask, turn, guard, entry, denied, helperVars, worldVars, want, frozen>>

RespondEntry ==
    /\ AtStep("respond")
    /\ IF guard = "none"
       THEN step' = "cleaning" /\ code' = "ok" /\ UNCHANGED <<guard, entry, denied>>
       ELSE /\ Ledger("responded")
            /\ IF denied' = denied
               THEN guard' = "responded" /\ step' = "cleaning" /\ code' = "ok"
               ELSE UNCHANGED guard /\ CloseWith("failed")
    /\ UNCHANGED frozen /\ TurnKeeps

\* _InvocationGuard.fail: what was only reserved is released, what may have
\* been sent becomes unknown; a failed write leaves the row for recovery.
CloseEntry ==
    /\ AtStep("closing") /\ step' = "cleaning"
    /\ CASE guard = "reserved" ->
              /\ Ledger("released")
              /\ code' = IF denied' = denied THEN code ELSE "failed"
         [] guard = "dispatched" ->
              /\ Ledger("unknown")
              /\ code' = IF denied' = denied THEN "unknown" ELSE "failed"
         [] OTHER -> UNCHANGED <<entry, denied, code>>
    /\ UNCHANGED <<guard, frozen>> /\ TurnKeeps

\* The scratch directory is removed, the lock released, the caller told.
CleanUp ==
    /\ AtStep("cleaning")
    /\ ask' = [ask EXCEPT ![turn] = code]
    /\ turn' = Nobody /\ step' = "none" /\ code' = "none" /\ guard' = "none"
    /\ frozen' = Nothing /\ speech' = Nothing /\ outcome' = Nothing
    /\ helper' = "none" /\ done' = 0 /\ spoken' = 0
    /\ UNCHANGED <<entry, result, denied, taken, worldVars, want>>

-----------------------------------------------------------------------------
(* The world around the call *)

StopAsk(c) ==
    /\ Ongoing(c) /\ ~stopped[c] /\ stopped' = [stopped EXCEPT ![c] = TRUE]
    /\ UNCHANGED <<coreVars, helperVars, runtime, media, core, want, frozen>>

\* Files of the runtime or the media are replaced; neither is put back.
Replace ==
    /\ \/ runtime = "approved" /\ runtime' = "changed" /\ UNCHANGED media
       \/ media = "v1" /\ media' = "v2" /\ UNCHANGED runtime
    /\ UNCHANGED <<coreVars, helperVars, stopped, core, want, frozen>>

\* The core dies between any two steps; the worker may go on.
CrashCore ==
    /\ core = "up" /\ core' = "down"
    /\ ask' = [c \in Asks |-> IF Ongoing(c) THEN "lost" ELSE ask[c]]
    /\ helper' \in IF Living THEN {helper, "killed"} ELSE {helper}
    /\ UNCHANGED <<turn, step, code, guard, entry, result, denied, done, spoken, speech, outcome,
                   taken, stopped, runtime, media, want, frozen>>

\* AiInvocationLedger.recover at the next start.
RecoverEntries ==
    /\ core = "down" /\ core' = "recovered"
    /\ entry' = [c \in Asks |-> CASE entry[c] = "reserved"   -> "released"
                                  [] entry[c] = "dispatched" -> "unknown"
                                  [] OTHER                   -> entry[c]]
    /\ UNCHANGED <<ask, turn, step, code, guard, result, denied, helperVars, stopped, runtime,
                   media, want, frozen>>

\* Every call has ended, or the core has.
AiRests ==
    /\ core = "recovered" \/ \A c \in Asks : ask[c] # "idle" /\ ~Ongoing(c)
    /\ UNCHANGED aiVars

CoreStep ==
    \/ \E c \in Asks : TakeTurn(c)
    \/ FirstGate \/ Identify \/ WriteRequest \/ FinalGate \/ ReserveEntry \/ LastTest
    \/ DispatchEntry \/ LaunchHelper \/ Interrupt \/ CheckMedia \/ Recheck \/ ReadReply
    \/ PublishSpeech \/ RespondEntry \/ CloseEntry \/ CleanUp

HelperStep ==
    \/ HelperFails \/ ReceiveRequest \/ SendAway \/ Answered \/ ComputeLocally \/ WriteSpeech \/ FinishHelper

AiNext ==
    \/ \E c \in Asks, op \in Operation, kind \in Kind : AskFor(c, op, kind)
    \/ CoreStep \/ HelperStep
    \/ \E c \in Asks : StopAsk(c)
    \/ Replace \/ CrashCore \/ RecoverEntries \/ AiRests

\* The bridge takes its steps; run() has a timeout, so it ends a worker that
\* does not end.  Nothing is assumed of the worker.
AiFairness == WF_aiVars(CoreStep)

AiSpec == AiInit /\ [][AiNext]_aiVars /\ AiFairness

-----------------------------------------------------------------------------
(***************************************************************************)
(* Properties.                                                             *)
(***************************************************************************)
AiTypeOK ==
    /\ ask \in [Asks -> {"idle", "waiting", "in", "ok", "failed", "canceled", "unknown", "lost"}]
    /\ turn \in Asks \cup {Nobody} /\ stopped \in [Asks -> BOOLEAN]
    /\ guard \in {"none", "reserved", "dispatched", "responded"}
    /\ entry \in [Asks -> {"none", "reserved", "released", "dispatched", "responded", "unknown"}]
    /\ result \in [Asks -> {Nothing, "part", "whole"}]
    /\ done \in 0..NumLines /\ spoken \in 0..MaxTold /\ denied \in 0..MaxDenied

\* A ledger row that promises that nothing was sent is right whatever failed
\* or crashed, a worker that outlived the core included: the bridge writes
\* "dispatched" before the worker exists, and releases only before that.
UnsentRow(c) == Ledgered(c) /\ entry[c] \in {"none", "reserved", "released"} => taken[c] = <<>>

\* A call that ended as failed or canceled was not taken, or its row, whose
\* last write failed, keeps it from being repeated.
RepeatSafe(c) ==
    ask[c] \in {"failed", "canceled"} /\ taken[c] # <<>> =>
        entry[c] \in {"dispatched", "unknown"}

\* Only media the call was made for leaves the machine, even in a call that
\* fails, although the file may change at any moment.
OnlyItsMedia(c) == \A n \in DOMAIN taken[c] : taken[c][n].content = want[c].digest

\* A batch begins where the last one ended: no cue is sent twice or left out.
InOrder(c) ==
    \A n \in DOMAIN taken[c] :
        taken[c][n].first = IF n = 1 THEN 1 ELSE taken[c][n - 1].last + 1

\* A result that is returned is complete, was computed from this call's media
\* by files that were the approved ones, and its remote call is closed.
Believed(c) ==
    ask[c] = "ok" =>
        /\ Ledgered(c) =>
             /\ entry[c] = "responded" /\ taken[c] # <<>>
             /\ \A n \in DOMAIN taken[c] : taken[c][n].by = "approved"
             /\ taken[c][Len(taken[c])].last = NumLines
        /\ want[c].op = "synthesize" => result[c] = "whole"

\* The bundled provider never exceeds the progress lines the worker may write.
ProgressFits ==
    helper \in {"waiting", "writing", "ending"} /\ want[turn].kind # "plugin" => spoken < MaxTold

\* What an AI call leaves behind is what happened: in the ledger, at the
\* provider, at the destination of its audio and in its verdict.
CallsHonest ==
    /\ \A c \in Asks :
         /\ UnsentRow(c) /\ RepeatSafe(c) /\ OnlyItsMedia(c) /\ InOrder(c) /\ Believed(c)
         /\ result[c] # "part"
    /\ ProgressFits

\* A call that waits for its turn is answered, or lost with the core.
AskEnds == \A c \in Asks : ask[c] = "waiting" ~> ~Ongoing(c)
=============================================================================
