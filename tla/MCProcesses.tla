----------------------------- MODULE MCProcesses -----------------------------
(* The processes around the queues, for TLC: the supervisor and its children *)
(* (LocalApp), a child of the Worker (ChildProcess), the two egress servers  *)
(* (EgressProxy, UnixRelay), the short-link resolution with its egress       *)
(* service (ShortLink), and a call of the AI runtime's worker (AiCall).      *)
(* They share no variable and every property is about one of them, so a      *)
(* behaviour moves one part and leaves the others at their beginning, where  *)
(* no fair action of theirs is enabled.                                      *)
EXTENDS LocalApp, ChildProcess, EgressProxy, UnixRelay, ShortLink, AiCall

VARIABLE part  \* the part that moves

\* Two inputs are the same short link; one redirect leads to another hop, one
\* to a video, one out of the platform.
LinkKinds == [u \in Urls |-> CASE u = "s" -> "start" [] u = "h" -> "hop"
                               [] u = "v" -> "final" [] OTHER -> "foreign"]
LinkBatch == <<"s", "s">>

\* One call of any kind, and a local one beside it.
AiOffers == [c \in Asks |-> IF c = "k1" THEN Operation \X Kind
                                        ELSE {<<"synthesize", "plugin">>}]

\* The middle cue fits into no request together with another.
CueWeight == <<1, 2, 1>>

ProcessesInit ==
    /\ part \in {"app", "child", "proxy", "relay", "link", "ai"}
    /\ part # "proxy" => path = "absent"
    /\ Init /\ ChildInit /\ ProxyInit /\ RelayInit /\ LinkInit /\ AiInit

ProcessesNext ==
    /\ part' = part
    /\ \/ part = "app" /\ Next /\ UNCHANGED <<procVars, proxyVars, relayVars, linkVars, aiVars>>
       \/ part = "child" /\ ChildNext /\ UNCHANGED <<vars, proxyVars, relayVars, linkVars, aiVars>>
       \/ part = "proxy" /\ ProxyNext /\ UNCHANGED <<vars, procVars, relayVars, linkVars, aiVars>>
       \/ part = "relay" /\ RelayNext /\ UNCHANGED <<vars, procVars, proxyVars, linkVars, aiVars>>
       \/ part = "link" /\ LinkNext /\ UNCHANGED <<vars, procVars, proxyVars, relayVars, aiVars>>
       \/ part = "ai" /\ AiNext
            /\ UNCHANGED <<vars, procVars, proxyVars, relayVars, linkVars>>

ProcessesSpec ==
    /\ ProcessesInit
    /\ [][ProcessesNext]_<<vars, procVars, proxyVars, relayVars, linkVars, aiVars, part>>
    /\ Fairness /\ ChildFairness /\ ProxyFairness /\ RelayFairness /\ LinkFairness
    /\ AiFairness

\* Nothing leaves for an address that was not approved, nothing comes back
\* beyond its budget or in a broken order, and no connection is ended for
\* silence while either direction moves, through either egress server.
EgressSound == EgressBounded /\ RelaySound

\* What is stopped, cut off or timed out comes to an end: a call of run(), a
\* proxy or a relay that is being closed, a batch of short links, a call that
\* waits for the AI runtime.  (One leads-to for RunReturns, ProxyStops,
\* RelayStops, BatchAnswered and AskEnds, of which each behaviour meets the
\* one of its part.)
ProcessesEnd ==
    \/ part = "child" /\ call = "setup"
    \/ part = "proxy" /\ proxy = "draining"
    \/ part = "relay" /\ relay = "closing"
    \/ part = "link" /\ point = "next"
    \/ part = "ai" /\ \E c \in Asks : ask[c] = "waiting"
    ~>
    \/ part = "child" /\ call = "ended"
    \/ part = "proxy" /\ proxy = "off"
    \/ part = "relay" /\ relay = "off"
    \/ part = "link" /\ point = "done"
    \/ part = "ai" /\ \A c \in Asks : ~Ongoing(c)
=============================================================================
