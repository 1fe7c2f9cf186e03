------------------------------ MODULE ShortLink ------------------------------
(* Short links: the inputs of one batch (service.py), the hop-by-hop         *)
(* resolution of one link (short_links.py), and the signed single-hop        *)
(* transport with the egress service behind it (short_link_transport.py).    *)
(*                                                                           *)
(* A signed frame is its nonce, its URL and the time it was issued; whoever  *)
(* sees it can deliver it again, and nobody can make another one.  The       *)
(* clock is the egress service's, which never goes back; the control side    *)
(* reads it with a constant drift.  A deadline that ends a wait may fire at  *)
(* any moment, and late.                                                     *)
EXTENDS Integers, Sequences, FiniteSets

CONSTANTS
    Urls,          \* addresses a redirect may name
    KindOf,        \* "start", "hop", "final" or "foreign", for each of them
    Batch,         \* the short links submitted, in order
    MaxRedirects,  \* ShortLinkLimits.max_redirects
    MaxDns,        \* slots of _BoundedResolver
    Nonces,        \* bound: the requests that can be signed
    Lanes,         \* the egress service's connections
    ReplaySlots,   \* its replay workers
    Skew, Validity, \* clock_skew_seconds and the validity of a frame
    MaxClock,      \* bound of the clock
    MaxRepeats     \* bound: frames that arrive again

ASSUME ShortLinkAssumption ==
    /\ KindOf \in [Urls -> {"start", "hop", "final", "foreign"}] /\ "new" \notin Urls
    /\ Batch \in Seq({u \in Urls : KindOf[u] = "start"})
    /\ Nonces \subseteq Nat \ {0} /\ ReplaySlots \subseteq Nat /\ 0 \notin Lanes
    /\ MaxRedirects \in Nat \ {0} /\ MaxDns \in Nat
    /\ Skew \in Nat /\ Validity \in Nat \ {0} /\ MaxClock \in Nat /\ MaxRepeats \in Nat

VARIABLES
    time,      \* the egress service's clock
    drift,     \* the control side's clock is time + drift
    point,     \* where create_batch stands
    results,   \* what each input so far has become: a URL or "failed"
    known,     \* short_link_cache and short_link_failures
    overdue,   \* the batch's short-link deadline has passed
    here,      \* the URL of the current hop
    visited,   \* the URLs of this resolution
    hops,      \* requests made for it
    lookups,   \* DNS threads that outlived their caller
    ticket,    \* the request that is being waited for: its nonce, and its
               \* connection to the egress service; none once that is lost
    reply,     \* the answer that was accepted
    frames,    \* when the frame of each nonce was issued
    repeats,   \* frames that have arrived again
    service,   \* the egress service: "off", "on" or "closing"
    lane,      \* its connections
    writer,    \* its replay workers
    markers,   \* expiry of each nonce in the replay store
    fetched    \* how often the egress service fetched for each nonce

batchVars  == <<point, results, known, overdue>>
hopVars    == <<here, visited, hops, lookups, ticket, reply>>
egressVars == <<service, lane, writer, markers, fetched>>
sentVars   == <<frames, repeats>>
linkVars   == <<time, drift, batchVars, hopVars, sentVars, egressVars>>

Unsent  == -1 - Skew
NoLane  == [step |-> "idle", nonce |-> 0, answer |-> "bad"]
NoWrite == [nonce |-> 0, now |-> 0, lane |-> 0]
NoTicket == [nonce |-> 0, lane |-> 0]
Absent  == -1
Forever == MaxClock + Validity + 2 * Skew + 1  \* an incomplete marker

Answers == Urls \union {"bad"}
Steps == {"idle", "consuming", "consumed", "answer"}

LinkTypeOK ==
    /\ time \in 0..MaxClock /\ drift \in (-Skew)..Skew
    /\ point \in {"idle", "next", "approve", "ask", "wait", "judge", "done"}
    /\ results \in Seq(Urls \union {"failed"}) /\ Len(results) <= Len(Batch)
    /\ known \in [{Batch[i] : i \in 1..Len(Batch)} -> Urls \union {"new", "failed"}]
    /\ overdue \in BOOLEAN /\ here \in Urls \union {"-"} /\ visited \subseteq Urls
    /\ hops \in 0..MaxRedirects /\ lookups \in 0..MaxDns
    /\ ticket \in [nonce : Nonces \union {0}, lane : Lanes \union {0}] /\ reply \in Answers
    /\ frames \in [Nonces -> Unsent..(MaxClock + Skew)]
    /\ repeats \in 0..MaxRepeats /\ service \in {"off", "on", "closing"}
    /\ lane \in [Lanes -> [step : Steps, nonce : Nonces \union {0}, answer : Answers]]
    /\ writer \in [ReplaySlots -> [nonce : Nonces \union {0}, now : 0..MaxClock,
                                   lane : Lanes \union {0}]]
    /\ markers \in [Nonces -> Absent..Forever] /\ fetched \in [Nonces -> Nat]

LinkInit ==
    /\ time = 0 /\ drift \in (-Skew)..Skew
    /\ point = "idle" /\ results = <<>> /\ overdue = FALSE
    /\ known = [k \in {Batch[i] : i \in 1..Len(Batch)} |-> "new"]
    /\ here = "-" /\ visited = {} /\ hops = 0 /\ lookups = 0
    /\ ticket = NoTicket /\ reply = "bad"
    /\ frames = [n \in Nonces |-> Unsent] /\ repeats = 0
    /\ service = "off" /\ lane = [l \in Lanes |-> NoLane]
    /\ writer = [s \in ReplaySlots |-> NoWrite]
    /\ markers = [n \in Nonces |-> Absent] /\ fetched = [n \in Nonces |-> 0]

-----------------------------------------------------------------------------
(* The batch *)

Input == Batch[Len(results) + 1]

\* create_batch has extracted and normalised its inputs.
SubmitBatch ==
    /\ point = "idle" /\ point' = "next"
    /\ UNCHANGED <<time, drift, results, known, overdue, hopVars, sentVars, egressVars>>

\* Mutant: a link that failed is tried again for its next input.
Remembered_Resolved(k) == known[k] \notin {"new", "failed"}

Remembered(k) == known[k] # "new"

\* The next input: an outcome that is known is used again, the first use of a
\* link resolves it, and a batch past its deadline resolves no more.
NextInput ==
    /\ point = "next"
    /\ \/ /\ Len(results) = Len(Batch)
          /\ point' = "done" /\ UNCHANGED <<results, known, here, visited, hops>>
       \/ /\ Len(results) < Len(Batch) /\ Remembered(Input)
          /\ results' = Append(results, known[Input])
          /\ UNCHANGED <<point, known, here, visited, hops>>
       \/ /\ Len(results) < Len(Batch) /\ ~Remembered(Input) /\ overdue
          /\ known' = [known EXCEPT ![Input] = "failed"]
          /\ UNCHANGED <<point, results, here, visited, hops>>
       \/ /\ Len(results) < Len(Batch) /\ ~Remembered(Input) /\ ~overdue
          /\ point' = "approve" /\ here' = Input /\ visited' = {Input} /\ hops' = 0
          /\ UNCHANGED <<results, known>>
    /\ UNCHANGED <<time, drift, overdue, lookups, ticket, reply, sentVars, egressVars>>

BatchDeadline ==
    /\ ~overdue /\ point \notin {"idle", "done"} /\ overdue' = TRUE
    /\ UNCHANGED <<time, drift, point, results, known, hopVars, sentVars, egressVars>>

\* A resolution ends; one that ends past the deadline has failed.  Its input
\* takes the outcome at once.
Settle(outcome) ==
    LET kept == IF overdue THEN "failed" ELSE outcome IN
    /\ known' = [known EXCEPT ![Input] = kept]
    /\ results' = Append(results, kept)
    /\ point' = "next" /\ ticket' = NoTicket
    /\ here' = "-" /\ visited' = {} /\ hops' = 0 /\ reply' = "bad"

GoesTo(step) == point' = step /\ UNCHANGED <<known, results>>

-----------------------------------------------------------------------------
(* What the egress service does with a frame it has read *)

Expires(n) == frames[n] + Validity

Reply(l, answer) ==
    lane' = [lane EXCEPT ![l] = [NoLane EXCEPT !.step = "answer", !.answer = answer]]

FreeLane(l) == lane[l].step = "idle"
FreeWriters == {s \in ReplaySlots : writer[s] = NoWrite}

\* _decode_request: the signature holds, the times are checked against now.
Fresh(n) == frames[n] <= time + Skew /\ Expires(n) >= time - Skew

\* _consume_replay: a replay worker is reserved without waiting, and told the
\* time as it is now.
Reservable(n) == Expires(n) + Skew > time /\ FreeWriters # {}

ReceiveFrame(l, n) ==
    /\ service = "on" /\ FreeLane(l)
    /\ IF Fresh(n) /\ Reservable(n)
       THEN LET s == CHOOSE s \in FreeWriters : \A t \in FreeWriters : s <= t IN
            /\ writer' = [writer EXCEPT ![s] = [nonce |-> n, now |-> time, lane |-> l]]
            /\ lane' = [lane EXCEPT ![l] = [NoLane EXCEPT !.step = "consuming", !.nonce = n]]
       ELSE Reply(l, "bad") /\ UNCHANGED writer

-----------------------------------------------------------------------------
(* One resolution *)

\* The host policy, then one DNS lookup in a thread that may outlive the call,
\* whose answers must all be public.  The approved target of a final URL ends
\* the resolution.
Approve ==
    /\ point = "approve"
    /\ \/ Settle("failed") /\ UNCHANGED lookups
       \/ /\ lookups < MaxDns /\ KindOf[here] # "foreign"
          /\ Settle("failed") /\ lookups' = lookups + 1
       \/ /\ lookups < MaxDns /\ KindOf[here] # "foreign" /\ UNCHANGED lookups
          /\ IF KindOf[here] = "final" THEN Settle(here)
             ELSE GoesTo("ask") /\ UNCHANGED <<here, visited, hops, ticket, reply>>
    /\ UNCHANGED <<time, drift, overdue, sentVars, egressVars>>

LookupReturns ==
    /\ lookups > 0 /\ lookups' = lookups - 1
    /\ UNCHANGED <<time, drift, batchVars, here, visited, hops, ticket, reply, sentVars,
                   egressVars>>

\* One signed request: a fresh nonce, valid from now.
Ask ==
    /\ point = "ask"
    /\ \/ Settle("failed") /\ UNCHANGED frames
       \/ \E n \in Nonces :
            /\ hops < MaxRedirects /\ frames[n] = Unsent
            /\ \A m \in Nonces : m < n => frames[m] # Unsent
            /\ frames' = [frames EXCEPT ![n] = time + drift]
            /\ ticket' = [nonce |-> n, lane |-> 0] /\ hops' = hops + 1 /\ GoesTo("wait")
            /\ UNCHANGED <<here, visited, reply>>
    /\ UNCHANGED <<time, drift, overdue, lookups, repeats, egressVars>>

Connect(l) ==
    /\ point = "wait" /\ ticket.nonce # 0 /\ ticket.lane = 0
    /\ ReceiveFrame(l, ticket.nonce) /\ ticket' = [ticket EXCEPT !.lane = l]
    /\ UNCHANGED <<time, drift, batchVars, here, visited, hops, lookups, reply, sentVars,
                   service, markers, fetched>>

\* Mutant: an egress service that has accepted the frame is waited for.
GivesUp_Unconnected == point = "wait" /\ ticket.lane = 0

\* No service, no room, no answer in time, or an unsafe socket.
GivesUp == point = "wait"

GiveUp ==
    /\ GivesUp /\ Settle("failed")
    /\ UNCHANGED <<time, drift, overdue, lookups, sentVars, egressVars>>

\* Mutant: a redirect back to an earlier URL is followed.
Revisited_Never(url) == FALSE

Revisited(url) == url \in visited

\* Status, single Location, loop: the redirect is approved like the first URL.
Judge ==
    /\ point = "judge"
    /\ IF reply = "bad" \/ Revisited(reply)
       THEN Settle("failed")
       ELSE /\ here' = reply /\ visited' = visited \union {reply} /\ reply' = "bad"
            /\ GoesTo("approve") /\ UNCHANGED <<hops, ticket>>
    /\ UNCHANGED <<time, drift, overdue, lookups, sentVars, egressVars>>

-----------------------------------------------------------------------------
(* The egress service *)

\* A frame that was seen before arrives again, on a connection of its own.
Redeliver(l, n) ==
    /\ frames[n] # Unsent /\ repeats < MaxRepeats
    /\ ReceiveFrame(l, n) /\ repeats' = repeats + 1
    /\ UNCHANGED <<time, drift, batchVars, hopVars, frames, service, markers, fetched>>

\* FileReplayStore.consume, under the store's lock and with the time it was
\* told: some expired markers go, the nonce's own among them, and the nonce is
\* marked unless it is marked still.  A write that fails leaves a marker that
\* never expires.
Consume(s) ==
    LET n == writer[s].nonce
        expired == {m \in Nonces : markers[m] # Absent /\ markers[m] < writer[s].now} IN
    /\ writer[s] # NoWrite
    /\ \E gone \in SUBSET expired, expiry \in {Expires(n) + Skew, Forever}, fails \in BOOLEAN :
        /\ n \in expired => n \in gone
        /\ LET left == [m \in Nonces |-> IF m \in gone THEN Absent ELSE markers[m]]
               unmarked == left[n] = Absent /\ ~fails IN
           /\ markers' = IF unmarked THEN [left EXCEPT ![n] = expiry] ELSE left
           /\ lane' = IF writer[s].lane = 0 THEN lane
                      ELSE [lane EXCEPT ![writer[s].lane] =
                              IF unmarked /\ expiry # Forever
                              THEN [@ EXCEPT !.step = "consumed"]
                              ELSE [NoLane EXCEPT !.step = "answer"]]
    /\ writer' = [writer EXCEPT ![s] = NoWrite]
    /\ UNCHANGED <<time, drift, batchVars, hopVars, sentVars, service, fetched>>

\* The handler no longer waits for its worker, which goes on.
Forsake(l) == [s \in ReplaySlots |-> IF writer[s].lane = l THEN [writer[s] EXCEPT !.lane = 0]
                                                          ELSE writer[s]]

ConsumeTimeout(l) ==
    /\ lane[l].step = "consuming" /\ Reply(l, "bad") /\ writer' = Forsake(l)
    /\ UNCHANGED <<time, drift, batchVars, hopVars, sentVars, service, markers, fetched>>

\* Mutant: the frame was fresh when it arrived.
StillFresh_Decoded(n) == TRUE

StillFresh(n) == time <= Expires(n) + Skew

Asked(l) == point = "wait" /\ ticket.lane = l

\* One exchange: any redirect, or anything that is not one whole answer within
\* its limits; what the control side no longer waits for is any answer.
Received(l) == IF Asked(l) THEN Answers ELSE {"bad"}

\* The frame is checked once more after the wait for its worker; then _fetch
\* tries the approved addresses for one answer.
Fetch(l) ==
    /\ lane[l].step = "consumed"
    /\ IF StillFresh(lane[l].nonce)
       THEN /\ fetched' = [fetched EXCEPT ![lane[l].nonce] = @ + 1]
            /\ \E answer \in Received(l) : Reply(l, answer)
       ELSE Reply(l, "bad") /\ UNCHANGED fetched
    /\ UNCHANGED <<time, drift, batchVars, hopVars, sentVars, service, writer, markers>>

\* _decode_response's times; nonce, hash and target are those of its connection.
Timely(n) ==
    /\ time + drift <= Expires(n) + Skew
    /\ time >= frames[n] - Skew /\ time <= Expires(n) + Skew

\* The signed answer goes to whoever sent the frame, and the connection ends.
Answer(l) ==
    /\ lane[l].step = "answer"
    /\ lane' = [lane EXCEPT ![l] = NoLane]
    /\ IF Asked(l)
       THEN IF Timely(ticket.nonce)
            THEN /\ GoesTo("judge") /\ reply' = lane[l].answer /\ ticket' = NoTicket
                 /\ UNCHANGED <<here, visited, hops>>
            ELSE Settle("failed")
       ELSE UNCHANGED <<point, known, results, here, visited, hops, ticket, reply>>
    /\ UNCHANGED <<time, drift, overdue, lookups, sentVars, service, writer, markers, fetched>>

\* A new process over the same replay directory.
StartService ==
    /\ service = "off" /\ \A s \in ReplaySlots : writer[s] = NoWrite
    /\ service' = "on"
    /\ UNCHANGED <<time, drift, batchVars, hopVars, sentVars, lane, writer, markers, fetched>>

CloseService ==
    /\ service = "on" /\ service' = "closing"
    /\ UNCHANGED <<time, drift, batchVars, hopVars, sentVars, lane, writer, markers, fetched>>

\* close() ends handlers at any wait, and workers that have not begun.
DropLane(l) ==
    /\ service = "closing" /\ ~FreeLane(l)
    /\ lane' = [lane EXCEPT ![l] = NoLane] /\ writer' = Forsake(l)
    /\ ticket' = IF ticket.lane = l THEN NoTicket ELSE ticket
    /\ UNCHANGED <<time, drift, batchVars, here, visited, hops, lookups, reply, sentVars,
                   service, markers, fetched>>

ServiceClosed ==
    /\ service = "closing" /\ \A l \in Lanes : FreeLane(l)
    /\ \E begun \in SUBSET ReplaySlots :
          writer' = [s \in ReplaySlots |-> IF s \in begun THEN writer[s] ELSE NoWrite]
    /\ service' = "off"
    /\ UNCHANGED <<time, drift, batchVars, hopVars, sentVars, lane, markers, fetched>>

\* A crash may cut a worker between the creation of its marker and the write.
CrashService ==
    /\ service # "off" /\ service' = "off"
    /\ lane' = [l \in Lanes |-> NoLane] /\ writer' = [s \in ReplaySlots |-> NoWrite]
    /\ \E cut \in SUBSET {writer[s].nonce : s \in ReplaySlots} :
          markers' = [n \in Nonces |-> IF n \in cut /\ markers[n] = Absent THEN Forever
                                                                         ELSE markers[n]]
    /\ ticket' = IF ticket.lane = 0 THEN ticket ELSE NoTicket
    /\ UNCHANGED <<time, drift, batchVars, here, visited, hops, lookups, reply, sentVars, fetched>>

TimePasses ==
    /\ time < MaxClock /\ time' = time + 1
    /\ UNCHANGED <<drift, batchVars, hopVars, sentVars, egressVars>>

ControlStep == NextInput \/ Approve \/ Ask \/ GiveUp \/ Judge

LinkNext ==
    \/ SubmitBatch \/ ControlStep \/ BatchDeadline \/ LookupReturns \/ TimePasses
    \/ StartService \/ CloseService \/ ServiceClosed \/ CrashService
    \/ \E l \in Lanes :
        \/ Connect(l) \/ ConsumeTimeout(l) \/ Fetch(l) \/ Answer(l) \/ DropLane(l)
        \/ \E n \in Nonces : Redeliver(l, n)
    \/ \E s \in ReplaySlots : Consume(s)

LinkFairness == WF_linkVars(ControlStep)

LinkSpec == LinkInit /\ [][LinkNext]_linkVars /\ LinkFairness

-----------------------------------------------------------------------------
(* Properties *)

\* A signed request is fetched at most once, however often its frame arrives,
\* whenever its marker is collected, however long a replay worker takes, and
\* across crashes and restarts (FileReplayStore, handle_frame).
FetchedOnce == \A n \in Nonces : fetched[n] <= 1

\* A resolution asks no URL twice and stays within its redirects, and one link
\* has one outcome in its batch (create_batch, _resolve).
ChainSound ==
    /\ point \in {"approve", "ask", "wait", "judge"} =>
          Cardinality(visited) = hops + (IF point \in {"wait", "judge"} THEN 0 ELSE 1)
    /\ \A i, j \in 1..Len(results) : Batch[i] = Batch[j] => results[i] = results[j]
    /\ \A i \in 1..Len(results) :
          results[i] # "failed" => KindOf[results[i]] = "final"

\* A link costs at most one request to its platform and gets one answer,
\* however frames, markers, redirects and repetitions of it meet.
LinksSound == FetchedOnce /\ ChainSound

\* Every batch is answered, whatever hangs: DNS threads, the egress service or
\* its replay workers (create_batch, _BoundedResolver).
BatchAnswered == (point = "next") ~> (point = "done")
=============================================================================
