------------------------------ MODULE UnixRelay -----------------------------
(* The loopback-to-socket relay (security/unix_relay.py): admission, the     *)
(* check of the socket's identity before and after the connect, two pumps    *)
(* with a byte budget each, the watchdog over the activity they share, the   *)
(* total deadline, and close().                                              *)
(*                                                                           *)
(* The idle timeout is counted in ticks of a clock; everything else that is  *)
(* bounded by a time may run out at any moment.  asyncio runs one task at a  *)
(* time, so a step is what happens between two awaits.                       *)
EXTENDS Naturals, FiniteSets

CONSTANTS
    Peers,       \* connections to the listener
    MaxRelays,   \* UnixRelayLimits.max_connections
    RelayUnits,  \* the byte limit of each direction, in units
    IdleTicks    \* idle_timeout_seconds

ASSUME RelayAssumption ==
    MaxRelays \in Nat /\ RelayUnits \in Nat /\ IdleTicks \in Nat \ {0}

VARIABLES
    relay,    \* "off", "on" or "closing"
    socket,   \* identity of the upstream socket; 0 if it is unsafe or missing
    relays,   \* _active_connections
    at,       \* where each connection's handler is
    checked,  \* the identity found before the connect
    moved,    \* units pumped in each direction
    pump,     \* the pumps: "open", "eof" or "failed"
    quiet,    \* ticks since the last progress
    dog,      \* the watchdog: ticks until it wakes, and whether the activity
              \* has changed since it went to sleep
    ended     \* why the last relay of a connection ended

relayVars == <<relay, socket, relays, at, checked, moved, pump, quiet, dog, ended>>
flowVars  == <<checked, moved, pump, quiet, dog, ended>>

Ways == {"up", "down"}
Relaying == {"check", "connect", "pumping", "leaving"}
Asleep == [left |-> IdleTicks, changed |-> FALSE]

RelayTypeOK ==
    /\ relay \in {"off", "on", "closing"} /\ socket \in 0..2
    /\ relays \in 0..Cardinality(Peers)
    /\ at \in [Peers -> {"none", "rejected"} \union Relaying]
    /\ checked \in [Peers -> 0..2]
    /\ moved \in [Peers -> [Ways -> 0..RelayUnits]]
    /\ pump \in [Peers -> [Ways -> {"open", "eof", "failed"}]]
    /\ quiet \in [Peers -> 0..IdleTicks]
    /\ dog \in [Peers -> [left : 0..IdleTicks, changed : BOOLEAN]]
    /\ ended \in [Peers -> {"-", "unsafe", "failed", "idle", "completed", "canceled"}]

RelayInit ==
    /\ relay = "off" /\ socket = 1 /\ relays = 0
    /\ at = [p \in Peers |-> "none"] /\ checked = [p \in Peers |-> 0]
    /\ moved = [p \in Peers |-> [w \in Ways |-> 0]]
    /\ pump = [p \in Peers |-> [w \in Ways |-> "open"]]
    /\ quiet = [p \in Peers |-> 0] /\ dog = [p \in Peers |-> Asleep]
    /\ ended = [p \in Peers |-> "-"]

\* start() checks the socket before it listens.
StartRelay ==
    /\ relay = "off" /\ socket # 0
    /\ relay' = "on"
    /\ UNCHANGED <<socket, relays, at, flowVars>>

\* The proxy behind the socket stops, starts again or is replaced.
SocketChanges ==
    /\ \E s \in 0..2 \ {socket} : socket' = s
    /\ UNCHANGED <<relay, relays, at, flowVars>>

\* A connection that arrives while the relay closes, or beyond its limit, is
\* closed by a task of its own.  Bound: the listener is closed first, so arrivals
\* follow only while handlers are still being canceled.
Admit(p) ==
    /\ at[p] = "none"
    /\ \/ relay = "on"
       \/ relay = "closing" /\ \E q \in Peers : at[q] \in Relaying
    /\ IF relay = "closing" \/ relays >= MaxRelays
       THEN at' = [at EXCEPT ![p] = "rejected"] /\ UNCHANGED relays
       ELSE at' = [at EXCEPT ![p] = "check"] /\ relays' = relays + 1
    /\ UNCHANGED <<relay, socket, flowVars>>

RejectPeer(p) ==
    /\ at[p] = "rejected" /\ at' = [at EXCEPT ![p] = "none"]
    /\ UNCHANGED <<relay, socket, relays, flowVars>>

Leave(p, why) == at' = [at EXCEPT ![p] = "leaving"] /\ ended' = [ended EXCEPT ![p] = why]

CheckSocket(p) ==
    /\ at[p] = "check"
    /\ IF socket = 0 THEN Leave(p, "unsafe") /\ UNCHANGED checked
       ELSE /\ checked' = [checked EXCEPT ![p] = socket]
            /\ at' = [at EXCEPT ![p] = "connect"] /\ UNCHANGED ended
    /\ UNCHANGED <<relay, socket, relays, moved, pump, quiet, dog>>

SameSocket(p) == socket # 0 /\ socket = checked[p]

\* Connected: the socket must still be the one that was checked.
ConnectUpstream(p) ==
    /\ at[p] = "connect"
    /\ \/ Leave(p, "failed") /\ UNCHANGED <<moved, pump, quiet, dog>>
       \/ ~SameSocket(p) /\ Leave(p, "unsafe") /\ UNCHANGED <<moved, pump, quiet, dog>>
       \/ /\ SameSocket(p)
          /\ at' = [at EXCEPT ![p] = "pumping"]
          /\ moved' = [moved EXCEPT ![p] = [w \in Ways |-> 0]]
          /\ pump' = [pump EXCEPT ![p] = [w \in Ways |-> "open"]]
          /\ quiet' = [quiet EXCEPT ![p] = 0] /\ dog' = [dog EXCEPT ![p] = Asleep]
          /\ UNCHANGED ended
    /\ UNCHANGED <<relay, socket, relays, checked>>

\* _Activity.touch
Touch(p) ==
    /\ quiet' = [quiet EXCEPT ![p] = 0]
    /\ dog' = [dog EXCEPT ![p].changed = TRUE]

\* A unit that does not fit the budget fails the pump that read it.
Pump(p, w) ==
    /\ at[p] = "pumping" /\ pump[p][w] = "open"
    /\ IF moved[p][w] < RelayUnits
       THEN moved' = [moved EXCEPT ![p][w] = @ + 1] /\ Touch(p) /\ UNCHANGED pump
       ELSE pump' = [pump EXCEPT ![p][w] = "failed"] /\ UNCHANGED <<moved, quiet, dog>>
    /\ UNCHANGED <<relay, socket, relays, at, checked, ended>>

\* The half close of the other leg is progress too, if that leg can still do it.
PumpEof(p, w) ==
    /\ at[p] = "pumping" /\ pump[p][w] = "open"
    /\ pump' = [pump EXCEPT ![p][w] = "eof"]
    /\ Touch(p) \/ UNCHANGED <<quiet, dog>>
    /\ UNCHANGED <<relay, socket, relays, at, checked, moved, ended>>

PumpBreaks(p, w) ==
    /\ at[p] = "pumping" /\ pump[p][w] = "open"
    /\ pump' = [pump EXCEPT ![p][w] = "failed"]
    /\ UNCHANGED <<relay, socket, relays, at, checked, moved, quiet, dog, ended>>

\* Mutant: the watchdog trusts its own sleep.
Rearmed_Never(p) == FALSE

\* wait_until_idle goes back to sleep for what is left of the timeout whenever
\* something has moved since it fell asleep.
Rearmed(p) == dog[p].changed

DogWakes(p) ==
    /\ at[p] = "pumping"
    /\ dog[p].left = 0 \/ dog[p].changed
    /\ IF Rearmed(p)
       THEN /\ dog' = [dog EXCEPT ![p] = [left |-> IdleTicks - quiet[p], changed |-> FALSE]]
            /\ UNCHANGED <<at, ended>>
       ELSE dog[p].left = 0 /\ Leave(p, "idle") /\ UNCHANGED dog
    /\ UNCHANGED <<relay, socket, relays, checked, moved, pump, quiet>>

\* A failed pump cancels the other one; two that reached the end complete.
PumpsEnd(p) ==
    /\ at[p] = "pumping"
    /\ IF \E w \in Ways : pump[p][w] = "failed" THEN Leave(p, "failed")
       ELSE (\A w \in Ways : pump[p][w] = "eof") /\ Leave(p, "completed")
    /\ UNCHANGED <<relay, socket, relays, checked, moved, pump, quiet, dog>>

\* The clock: nobody sleeps past the end of a sleep that is over.
RelayTick ==
    /\ \E p \in Peers : at[p] = "pumping"
    /\ \A p \in Peers : at[p] = "pumping" => dog[p].left > 0
    /\ quiet' = [p \in Peers |-> IF at[p] = "pumping" THEN quiet[p] + 1 ELSE quiet[p]]
    /\ dog' = [p \in Peers |-> IF at[p] = "pumping" THEN [dog[p] EXCEPT !.left = @ - 1]
                                                      ELSE dog[p]]
    /\ UNCHANGED <<relay, socket, relays, at, checked, moved, pump, ended>>

\* The total deadline, at any wait.
Expire(p) ==
    /\ at[p] \in {"connect", "pumping"} /\ Leave(p, "failed")
    /\ UNCHANGED <<relay, socket, relays, checked, moved, pump, quiet, dog>>

LeaveRelay(p) ==
    /\ at[p] = "leaving"
    /\ at' = [at EXCEPT ![p] = "none"] /\ relays' = relays - 1
    /\ moved' = [moved EXCEPT ![p] = [w \in Ways |-> 0]]
    /\ pump' = [pump EXCEPT ![p] = [w \in Ways |-> "open"]]
    /\ quiet' = [quiet EXCEPT ![p] = 0] /\ dog' = [dog EXCEPT ![p] = Asleep]
    /\ checked' = [checked EXCEPT ![p] = 0] /\ ended' = [ended EXCEPT ![p] = "-"]
    /\ UNCHANGED <<relay, socket>>

\* close(): no new relays from here on, and every task is cancelled, again and
\* again while some are left.
CloseRelay ==
    /\ relay = "on" /\ relay' = "closing"
    /\ UNCHANGED <<socket, relays, at, flowVars>>

CancelRelay(p) ==
    /\ relay = "closing" /\ at[p] \in Relaying \ {"leaving"}
    /\ Leave(p, "canceled")
    /\ UNCHANGED <<relay, socket, relays, checked, moved, pump, quiet, dog>>

RelayClosed ==
    /\ relay = "closing" /\ \A p \in Peers : at[p] = "none"
    /\ relay' = "off"
    /\ UNCHANGED <<socket, relays, at, flowVars>>

RelayNext ==
    \/ StartRelay \/ SocketChanges \/ RelayTick \/ CloseRelay \/ RelayClosed
    \/ \E p \in Peers :
        \/ Admit(p) \/ RejectPeer(p) \/ CheckSocket(p) \/ ConnectUpstream(p) \/ DogWakes(p)
        \/ PumpsEnd(p) \/ Expire(p) \/ LeaveRelay(p) \/ CancelRelay(p)
        \/ \E w \in Ways : Pump(p, w) \/ PumpEof(p, w) \/ PumpBreaks(p, w)

RelayFairness ==
    /\ WF_relayVars(RelayClosed)
    /\ \A p \in Peers :
        WF_relayVars(RejectPeer(p)) /\ WF_relayVars(LeaveRelay(p)) /\ WF_relayVars(CancelRelay(p))

RelaySpec == RelayInit /\ [][RelayNext]_relayVars /\ RelayFairness

-----------------------------------------------------------------------------
(* Properties *)

\* The relay's limits over every interleaving of its pumps and its watchdog:
\* admitted connections are counted exactly and within the limit, and a relay
\* is ended for idleness only when nothing has moved in either direction for
\* the whole timeout (_client_connected, _Activity).
RelaySound ==
    /\ relays = Cardinality({p \in Peers : at[p] \in Relaying})
    /\ relays <= MaxRelays
    /\ \A p \in Peers : at[p] = "leaving" /\ ended[p] = "idle" => quiet[p] = IdleTicks
    /\ \A p \in Peers, w \in Ways : moved[p][w] <= RelayUnits

\* close() ends, whatever arrives meanwhile (close).
RelayStops == (relay = "closing") ~> (relay = "off")
=============================================================================
