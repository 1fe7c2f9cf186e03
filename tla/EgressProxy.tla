----------------------------- MODULE EgressProxy ----------------------------
(* The controlled forward proxy (security/forward_proxy.py) and the policy   *)
(* it dials by (security/egress.py): its listener and socket path, the       *)
(* connections it admits, one CONNECT tunnel or plain exchange on each, and  *)
(* the clocks and byte budgets that end them.                                *)
(*                                                                           *)
(* Bytes are counted in units.  A request is what the checks of its line,    *)
(* headers and target leave of it: a tunnel, a plain exchange or a refusal.  *)
(* A clock may run out at any wait it bounds.                                *)
EXTENDS Naturals, Sequences, FiniteSets

CONSTANTS
    Clients,         \* connections to the listener
    MaxConnections,  \* ForwardProxyLimits.max_connections
    Public, Private, \* numeric addresses
    MaxUnits         \* max_upload_bytes and max_download_bytes

ASSUME ProxyAssumption == MaxConnections \in Nat /\ MaxUnits \in Nat

VARIABLES
    proxy,     \* "off", "on", "draining" (wait_closed), "cancelling"
    path,      \* the socket path: "absent", "own" or "foreign"
    admitted,    \* _active_connections
    stage,     \* where each connection's handler is
    exchange,  \* what it carries: "none", "tunnel" or "plain"
    answers,   \* the approved addresses not tried yet
    dialed,    \* the address the upstream leg is connected to, or "none"
    body,      \* framing of a plain answer and the units it announces
    carried,   \* units relayed in each direction
    flow,      \* the directions of a relay: "open", "eof" or "failed"
    told       \* what the client has been sent: subset of {"refusal", "answer", "end"}

proxyVars == <<proxy, path, admitted, stage, exchange, answers, dialed, body, carried,
               flow, told>>

Directions == {"up", "down"}
Framings == {"none", "length", "chunked", "close"}
Stages == {"none", "rejecting", "request", "resolving", "dialing", "head", "relay",
           "report", "closing"}
Handling == {"request", "resolving", "dialing", "head", "relay", "report", "closing"}
Still == [d \in Directions |-> 0]
Open  == [d \in Directions |-> "open"]
NoBody == [framing |-> "none", size |-> 0]

\* What the system's resolver may answer for one host.
DnsAnswers ==
    {<<a>> : a \in Public \union Private} \union
    {p \in Public \X (Public \union Private) : p[1] # p[2]}

ProxyTypeOK ==
    /\ proxy \in {"off", "on", "draining", "cancelling"}
    /\ path \in {"absent", "own", "foreign"}
    /\ admitted \in 0..Cardinality(Clients)
    /\ stage \in [Clients -> Stages]
    /\ exchange \in [Clients -> {"none", "tunnel", "plain"}]
    /\ \A c \in Clients : answers[c] \in Seq(Public \union Private)
    /\ dialed \in [Clients -> Public \union Private \union {"none"}]
    /\ body \in [Clients -> [framing : Framings, size : 0..(MaxUnits + 1)]]
    /\ carried \in [Clients -> [Directions -> 0..MaxUnits]]
    /\ flow \in [Clients -> [Directions -> {"open", "eof", "failed"}]]
    /\ told \in [Clients -> SUBSET {"refusal", "answer", "end"}]

ProxyInit ==
    /\ proxy = "off" /\ path \in {"absent", "foreign"} /\ admitted = 0
    /\ stage = [c \in Clients |-> "none"]
    /\ exchange = [c \in Clients |-> "none"]
    /\ answers = [c \in Clients |-> <<>>]
    /\ dialed = [c \in Clients |-> "none"]
    /\ body = [c \in Clients |-> NoBody]
    /\ carried = [c \in Clients |-> Still]
    /\ flow = [c \in Clients |-> Open]
    /\ told = [c \in Clients |-> {}]

serverVars == <<proxy, path, admitted>>
wireVars   == <<exchange, answers, dialed, body, carried, flow, told>>

-----------------------------------------------------------------------------
(* The listener *)

\* start_unix refuses whatever stands at its path.  A failure between the bind
\* and the chmod takes the socket away again.
StartProxy ==
    /\ proxy = "off" /\ path = "absent"
    /\ proxy' = "on" /\ path' = "own"
    /\ UNCHANGED <<admitted, stage, wireVars>>

\* Connections beyond the limit are told so by a task of their own.
Accept(c) ==
    /\ proxy = "on" /\ stage[c] = "none"
    /\ IF admitted >= MaxConnections
       THEN /\ stage' = [stage EXCEPT ![c] = "rejecting"] /\ UNCHANGED admitted
       ELSE /\ stage' = [stage EXCEPT ![c] = "request"] /\ admitted' = admitted + 1
    /\ UNCHANGED <<proxy, path, wireVars>>

Reject(c) ==
    /\ stage[c] = "rejecting"
    /\ stage' = [stage EXCEPT ![c] = "none"]
    /\ UNCHANGED <<serverVars, wireVars>>

\* Someone else replaces the path of a running proxy.
ReplacePath ==
    /\ path = "own" /\ path' = "foreign"
    /\ UNCHANGED <<proxy, admitted, stage, wireVars>>

Tasks == {c \in Clients : stage[c] # "none"}

\* close(): the listener first, whose wait_closed ends with the last transport,
\* then whatever tasks are left.
CloseProxy ==
    /\ proxy = "on" /\ proxy' = "draining"
    /\ UNCHANGED <<path, admitted, stage, wireVars>>

ProxyDrained ==
    /\ proxy = "draining" /\ \A c \in Tasks : stage[c] = "closing"
    /\ proxy' = "cancelling"
    /\ UNCHANGED <<path, admitted, stage, wireVars>>

\* The path is removed only if it is still the socket this proxy made.
UnlinkOwn == IF path = "own" THEN "absent" ELSE path

ProxyStopped ==
    /\ proxy = "cancelling" /\ Tasks = {}
    /\ proxy' = "off" /\ path' = UnlinkOwn
    /\ UNCHANGED <<admitted, stage, wireVars>>

\* A supervisor clears a path left behind.
ClearPath ==
    /\ proxy = "off" /\ path = "foreign" /\ path' = "absent"
    /\ UNCHANGED <<proxy, admitted, stage, wireVars>>

-----------------------------------------------------------------------------
(* One connection *)

At(c, from, to) == stage[c] = from /\ stage' = [stage EXCEPT ![c] = to]

\* A failure is reported before the connection is closed; the upstream leg is
\* closed on the way.
Drop(c) == dialed' = [dialed EXCEPT ![c] = "none"]

\* _read_request and the checks of the method, the target and its authority.
ReadRequest(c) ==
    /\ \/ /\ At(c, "request", "resolving")
          /\ \E kind \in {"tunnel", "plain"} : exchange' = [exchange EXCEPT ![c] = kind]
       \/ At(c, "request", "report") /\ UNCHANGED exchange
    /\ UNCHANGED <<serverVars, answers, dialed, body, carried, flow, told>>

Approved(addresses) == \A i \in 1..Len(addresses) : addresses[i] \in Public

\* resolve_public_target: one answer that is not public refuses the host.
Resolve(c) ==
    /\ \/ \E addresses \in DnsAnswers :
             IF Approved(addresses)
             THEN /\ At(c, "resolving", "dialing")
                  /\ answers' = [answers EXCEPT ![c] = addresses]
             ELSE At(c, "resolving", "report") /\ UNCHANGED answers
       \/ At(c, "resolving", "report") /\ UNCHANGED answers
    /\ UNCHANGED <<serverVars, exchange, dialed, body, carried, flow, told>>

\* _connect: the approved addresses in order; a connection whose peer is not an
\* approved one is closed and ends the exchange.
Dial(c) ==
    /\ stage[c] = "dialing"
    /\ IF answers[c] = <<>>
       THEN At(c, "dialing", "report") /\ UNCHANGED <<answers, dialed>>
       ELSE \/ /\ answers' = [answers EXCEPT ![c] = Tail(@)]
               /\ UNCHANGED <<stage, dialed>>
            \/ /\ At(c, "dialing", "head")
               /\ dialed' = [dialed EXCEPT ![c] = Head(answers[c])]
               /\ answers' = [answers EXCEPT ![c] = <<>>]
            \/ At(c, "dialing", "report") /\ UNCHANGED <<answers, dialed>>
    /\ UNCHANGED <<serverVars, exchange, body, carried, flow, told>>

Say(c, what) == told' = [told EXCEPT ![c] = @ \union {what}]

Establish(c) ==
    /\ exchange[c] = "tunnel" /\ At(c, "head", "relay")
    /\ Say(c, "answer")
    /\ UNCHANGED <<serverVars, exchange, answers, dialed, body, carried, flow>>

\* An upstream head: an interim answer is passed on and another one awaited, an
\* upgrade, a broken head and a length beyond the budget are refused.
ForwardHead(c) ==
    /\ exchange[c] = "plain" /\ stage[c] = "head"
    /\ \/ UNCHANGED <<stage, body>> /\ Say(c, "answer")
       \/ At(c, "head", "report") /\ UNCHANGED <<body, told>>
       \/ \E framing \in Framings, size \in 0..(MaxUnits + 1) :
             /\ framing = "none" => size = 0
             /\ IF framing = "length" /\ size > MaxUnits
                THEN At(c, "head", "report") /\ UNCHANGED <<body, told>>
                ELSE /\ At(c, "head", "relay") /\ Say(c, "answer")
                     /\ body' = [body EXCEPT ![c] = [framing |-> framing, size |-> size]]
    /\ UNCHANGED <<serverVars, exchange, answers, dialed, carried, flow>>

HeadFails(c) ==
    /\ At(c, "head", "report") /\ Drop(c)
    /\ UNCHANGED <<serverVars, exchange, answers, body, carried, flow, told>>

BudgetLeft(c, d) == carried[c][d] < MaxUnits

\* A unit goes through, or breaks the budget of its direction.
Relay(c, d) ==
    /\ stage[c] = "relay" /\ flow[c][d] = "open"
    /\ exchange[c] = "plain" => d = "down" /\ carried[c].down < body[c].size
    /\ IF BudgetLeft(c, d)
       THEN carried' = [carried EXCEPT ![c][d] = @ + 1] /\ UNCHANGED flow
       ELSE flow' = [flow EXCEPT ![c][d] = "failed"] /\ UNCHANGED carried
    /\ UNCHANGED <<serverVars, stage, exchange, answers, dialed, body, told>>

\* The end of one direction of a tunnel closes the other side's half; a read or
\* a drain that stays idle, and a connection that breaks, fail it.
TunnelEof(c, d) ==
    /\ stage[c] = "relay" /\ exchange[c] = "tunnel" /\ flow[c][d] = "open"
    /\ \E end \in {"eof", "failed"} : flow' = [flow EXCEPT ![c][d] = end]
    /\ UNCHANGED <<serverVars, stage, exchange, answers, dialed, body, carried, told>>

\* One failed direction cancels the other.
TunnelEnds(c) ==
    /\ stage[c] = "relay" /\ exchange[c] = "tunnel"
    /\ \/ \E d \in Directions : flow[c][d] = "failed" /\ At(c, "relay", "report") /\ UNCHANGED told
       \/ /\ \A d \in Directions : flow[c][d] = "eof"
          /\ At(c, "relay", "closing") /\ Say(c, "end")
    /\ Drop(c)
    /\ UNCHANGED <<serverVars, exchange, answers, body, carried, flow>>

Complete(c) == carried[c].down = body[c].size

\* A plain answer is complete when its announced units have gone through, or at
\* the upstream's end when it announced none; the upstream may end early.
ExchangeEnds(c) ==
    /\ stage[c] = "relay" /\ exchange[c] = "plain"
    /\ IF flow[c].down = "open" /\ (Complete(c) \/ body[c].framing = "close")
       THEN At(c, "relay", "closing") /\ Say(c, "end")
       ELSE At(c, "relay", "report") /\ UNCHANGED told
    /\ Drop(c)
    /\ UNCHANGED <<serverVars, exchange, answers, body, carried, flow>>

\* Mutant: the failure is always written to the client.
Refusal_Always(c) == {"refusal"}

\* _report_failure: a refusal is never written into an answer that has begun.
Refusal(c) == IF "answer" \in told[c] THEN {} ELSE {"refusal"}

Report(c) ==
    /\ At(c, "report", "closing")
    /\ Drop(c)
    /\ \E sent \in {Refusal(c), {}} : told' = [told EXCEPT ![c] = @ \union sent]
    /\ UNCHANGED <<serverVars, exchange, answers, body, carried, flow>>

\* Mutant: the total deadline covers the exchange but not the dialing.
TotalTimeout_Relay(c) ==
    /\ stage[c] \in {"head", "relay", "report"}
    /\ stage' = [stage EXCEPT ![c] = "closing"]
    /\ Drop(c)
    /\ UNCHANGED <<serverVars, exchange, answers, body, carried, flow, told>>

\* The total deadline, and close()'s cancellation, end a handler at any wait
\* without a word to the client.
TotalTimeout(c) ==
    /\ stage[c] \in Handling \ {"closing"}
    /\ stage' = [stage EXCEPT ![c] = "closing"]
    /\ Drop(c)
    /\ UNCHANGED <<serverVars, exchange, answers, body, carried, flow, told>>

\* The handler's task is over; the client's slot is that of a new connection.
CloseConnection(c) ==
    /\ At(c, "closing", "none")
    /\ admitted' = admitted - 1
    /\ exchange' = [exchange EXCEPT ![c] = "none"]
    /\ answers' = [answers EXCEPT ![c] = <<>>]
    /\ body' = [body EXCEPT ![c] = NoBody]
    /\ carried' = [carried EXCEPT ![c] = Still]
    /\ flow' = [flow EXCEPT ![c] = Open]
    /\ told' = [told EXCEPT ![c] = {}]
    /\ UNCHANGED <<proxy, path, dialed>>

ProxyNext ==
    \/ StartProxy \/ ReplacePath \/ CloseProxy \/ ProxyDrained \/ ProxyStopped \/ ClearPath
    \/ \E c \in Clients :
        \/ Accept(c) \/ Reject(c) \/ ReadRequest(c) \/ Resolve(c) \/ Dial(c)
        \/ Establish(c) \/ ForwardHead(c) \/ HeadFails(c) \/ TunnelEnds(c) \/ ExchangeEnds(c)
        \/ Report(c) \/ TotalTimeout(c) \/ CloseConnection(c)
        \/ \E d \in Directions : Relay(c, d) \/ TunnelEof(c, d)

ProxyFairness ==
    /\ WF_proxyVars(ProxyDrained) /\ WF_proxyVars(ProxyStopped)
    /\ \A c \in Clients :
        /\ WF_proxyVars(Reject(c)) /\ WF_proxyVars(TotalTimeout(c))
        /\ WF_proxyVars(CloseConnection(c))

ProxySpec == ProxyInit /\ [][ProxyNext]_proxyVars /\ ProxyFairness

-----------------------------------------------------------------------------
(* Properties *)

\* What the limits and the policy promise, over every exchange at once: the
\* counter of connections is that of the handlers and within its limit; an
\* upstream leg goes to a public address and lives no longer than its handler;
\* no direction carries more than its budget; a client that has begun to read
\* an answer is never sent a refusal in the middle of it, and one that is told
\* the end has the announced body (handle_connection, _connect, _forward_response,
\* _report_failure).
EgressBounded ==
    /\ admitted = Cardinality({c \in Clients : stage[c] \in Handling})
    /\ admitted <= MaxConnections
    /\ \A c \in Clients :
        /\ dialed[c] # "none" => dialed[c] \in Public /\ stage[c] \in {"head", "relay", "report"}
        /\ \A d \in Directions : carried[c][d] <= MaxUnits
        /\ ~({"answer", "refusal"} \subseteq told[c])
        /\ "end" \in told[c] /\ body[c].framing \in {"length", "chunked"} => Complete(c)

\* close() comes to an end although it waits for the transports before it
\* cancels anything: the total deadline ends every one of them
\* (close, handle_connection).
ProxyStops == (proxy = "draining") ~> (proxy = "off")
=============================================================================
