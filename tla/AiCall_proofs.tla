---------------------------- MODULE AiCall_proofs ----------------------------
(***************************************************************************)
(* Proofs about AiCall for any number of calls, of lines and of lines a    *)
(* helper is told: AiInv relates the bridge's step and its guard, the row  *)
(* in the ledger, the helper and what the provider was sent, and no step   *)
(* leads out of it; the account a task gives of a call is therefore so.    *)
(***************************************************************************)
EXTENDS AiCall, WellFoundedInduction, TLAPS

Digests == {Nothing, "v1", "v2"}

AskRecord == [op : Operation, kind : Kind, digest : Digests]

Request == [content : Digests, first : Nat, last : Nat, by : {"approved", "changed"}]

HelperSteps == {"none", "receive", "calling", "waiting", "writing", "ending", "exited", "killed"}

BeforeHelper == {"gate", "identify", "freeze", "regate", "reserve", "commit", "dispatch", "launch"}
AfterHelper  == {"recheck", "read", "publish", "respond"}
BridgeSteps  == BeforeHelper \cup {"running"} \cup AfterHelper \cup {"closing", "cleaning"}

AiTypes ==
    /\ ask \in [Asks -> {"idle", "waiting", "in", "ok", "failed", "canceled", "unknown", "lost"}]
    /\ want \in [Asks -> AskRecord]
    /\ turn \in Asks \cup {Nobody} /\ step \in {"none"} \cup BridgeSteps
    /\ code \in {"none", "ok", "failed", "canceled", "unknown"}
    /\ guard \in {"none", "reserved", "dispatched", "responded"}
    /\ entry \in [Asks -> {"none", "reserved", "released", "dispatched", "responded", "unknown"}]
    /\ frozen \in Digests /\ media \in {"v1", "v2"} /\ runtime \in {"approved", "changed"}
    /\ speech \in {Nothing, "part", "whole"} /\ outcome \in {Nothing, "error", "misaligned", "ok"}
    /\ result \in [Asks -> {Nothing, "part", "whole"}]
    /\ helper \in HelperSteps /\ core \in {"up", "down", "recovered"}
    /\ done \in 0..NumLines /\ spoken \in 0..MaxTold /\ denied \in 0..MaxDenied
    /\ taken \in [Asks -> Seq(Request)]

\* The call whose turn it is, and the calls that have not had theirs.
TurnInv ==
    /\ turn = Nobody <=> step = "none"
    /\ \A c \in Asks : ask[c] = "in" => c = turn
    /\ turn # Nobody => ask[turn] \in {"in", "lost"}
    /\ turn # Nobody /\ core = "up" => ask[turn] = "in"
    /\ \A c \in Asks :
         ask[c] \in {"idle", "waiting"} => entry[c] = "none" /\ taken[c] = <<>> /\ result[c] = Nothing
    /\ code # "none" <=> step \in {"closing", "cleaning"}
    /\ step = "closing" => code \in {"failed", "canceled"}

\* The guard, the row of the call whose turn it is, and the step.
GuardInv ==
    /\ turn = Nobody => guard = "none"
    /\ turn # Nobody =>
         /\ guard = "none" => entry[turn] = "none"
         /\ guard = "reserved" => entry[turn] \in {"reserved", "released"}
         /\ guard = "dispatched" => entry[turn] \in {"dispatched", "unknown"}
         /\ guard = "responded" => entry[turn] = "responded"
         /\ step \in {"gate", "identify", "freeze", "regate", "reserve"} => guard = "none"
         /\ step \in {"commit", "dispatch"} => guard = IF Ledgered(turn) THEN "reserved" ELSE "none"
         /\ step \in {"launch", "running"} \cup AfterHelper =>
              guard = IF Ledgered(turn) THEN "dispatched" ELSE "none"
         /\ helper # "none" /\ Ledgered(turn) => guard \in {"dispatched", "responded"}
    /\ guard = "responded" => code = "ok"

\* The worker exists from its launch to the end of the turn, and lives only
\* while the bridge waits for it.
HelperInv ==
    /\ step \in {"none"} \cup BeforeHelper => helper = "none"
    /\ step \in {"running"} \cup AfterHelper => helper # "none"
    /\ Living => step = "running"
    /\ step \in AfterHelper => helper = "exited"
    /\ helper = "none" =>
         /\ done = 0 /\ spoken = 0 /\ outcome = Nothing
         /\ turn # Nobody => taken[turn] = <<>>
    /\ helper = "receive" =>
         done = 0 /\ spoken = 0 /\ outcome = Nothing /\ taken[turn] = <<>>
    /\ outcome = "ok" => helper = "exited"

\* The whole translation was sent.
AllSent(s) == s # <<>> /\ s[Len(s)].last = NumLines

\* What a living worker has sent.
SentInv ==
    turn # Nobody =>
        /\ ~Ledgered(turn) => taken[turn] = <<>>
        /\ ~Batched(turn) => done = 0
        /\ helper \in {"calling", "waiting", "writing", "ending"} => want[turn].digest = frozen
        /\ helper = "calling" =>
             /\ done < NumLines
             /\ taken[turn] = <<>> => done = 0
             /\ taken[turn] # <<>> => Batched(turn) /\ taken[turn][Len(taken[turn])].last = done
        /\ helper = "waiting" =>
             /\ done < NumLines /\ Remote(turn) /\ Ends(turn, done + 1) # {}
             /\ Ledgered(turn) =>
                  taken[turn] # <<>> /\ taken[turn][Len(taken[turn])].last = LastOf(turn, done + 1)
        /\ (helper \in {"writing", "ending"} \/ outcome = "ok") /\ Ledgered(turn) =>
             AllSent(taken[turn])
        /\ (helper = "ending" \/ outcome = "ok") /\ want[turn].op = "synthesize" => speech = "whole"

\* The lines a remote provider has told.
ToldInv ==
    turn # Nobody /\ Remote(turn) =>
        /\ helper \in {"calling", "waiting"} => spoken <= 2 + Bucket(done)
        /\ helper = "writing" => spoken <= 2
        /\ helper = "ending" => spoken <= 2 + MaxUpdates

\* What was sent under the approved files.
ByInv ==
    runtime = "approved" => \A c \in Asks : \A n \in DOMAIN taken[c] : taken[c][n].by = "approved"

\* What the bridge has made sure of when it is about to return a result.
VerdictInv ==
    /\ step \in {"publish", "respond"} \/ code = "ok" => outcome = "ok"
    /\ step \in {"read", "publish", "respond"} \/ code = "ok" =>
         \A n \in DOMAIN taken[turn] : taken[turn][n].by = "approved"
    /\ (step = "respond" \/ code = "ok") /\ want[turn].op = "synthesize" => result[turn] = "whole"
    /\ code = "ok" /\ Ledgered(turn) => guard = "responded"
    /\ code = "ok" => step = "cleaning"

CallInv(c) ==
    UnsentRow(c) /\ RepeatSafe(c) /\ OnlyItsMedia(c) /\ InOrder(c) /\ Believed(c) /\ result[c] # "part"

AiInv ==
    /\ AiTypes /\ TurnInv /\ GuardInv /\ HelperInv /\ SentInv /\ ToldInv /\ ByInv /\ VerdictInv
    /\ \A c \in Asks : CallInv(c)

LEMMA Constants ==
    /\ NumLines \in Nat \ {0} /\ MaxBody \in Nat /\ BatchLines \in Nat \ {0}
    /\ MaxUpdates \in Nat \ {0} /\ MaxTold \in Nat /\ MaxDenied \in Nat
    /\ MaxUpdates + 3 <= MaxTold /\ Nobody \notin Asks
    /\ Weight \in [1..NumLines -> 1..MaxBody]
  BY AiCallAssumption

LEMMA LeastNumber ==
    ASSUME NEW T \in SUBSET Nat, T # {}
    PROVE  \E x \in T : \A y \in T : x <= y
  <1> DEFINE R == {ss \in Nat \X Nat : ss[1] < ss[2]}
  <1>1. IsWellFoundedOn(R, Nat)
    BY NatLessThanWellFounded DEF OpToRel
  <1>2. \E x \in T : \A y \in T : <<y, x>> \notin R
    <2> HIDE DEF R
    <2> QED BY <1>1, WFMin
  <1>3. \A x, y \in T : <<y, x>> \notin R => x <= y
    OBVIOUS
  <1> QED BY <1>2, <1>3

-----------------------------------------------------------------------------
LEMMA Division ==
    ASSUME NEW a \in Nat, NEW b \in Nat \ {0}
    PROVE  /\ a \div b \in Nat /\ (a \div b) * b <= a /\ a < (a \div b) * b + b
  OBVIOUS

LEMMA Products ==
    ASSUME NEW a \in Nat, NEW b \in Nat, NEW c \in Nat, a <= b
    PROVE  a * c \in Nat /\ b * c \in Nat /\ a * c <= b * c
  OBVIOUS

LEMMA Quotients ==
    ASSUME NEW p \in Nat, NEW q \in Nat, NEW d \in Nat \ {0}, p * d < q * d + d
    PROVE  p <= q
  OBVIOUS

LEMMA NoBucket == Bucket(0) = 0
  <1>1. 0 * MaxUpdates = 0 /\ 0 \div NumLines = 0
    BY Constants
  <1> QED BY <1>1 DEF Bucket

LEMMA Buckets ==
    /\ \A n \in 0..NumLines : Bucket(n) \in Nat
    /\ \A m, n \in 0..NumLines : m <= n => Bucket(m) <= Bucket(n)
    /\ Bucket(NumLines) = MaxUpdates
    /\ \A n \in 0..NumLines : n < NumLines => Bucket(n) < MaxUpdates
  <1>c. NumLines \in Nat \ {0} /\ MaxUpdates \in Nat \ {0}
    BY Constants
  <1>1. ASSUME NEW n \in 0..NumLines
        PROVE  /\ n * MaxUpdates \in Nat /\ Bucket(n) \in Nat
               /\ Bucket(n) * NumLines <= n * MaxUpdates
               /\ n * MaxUpdates < Bucket(n) * NumLines + NumLines
    <2>1. n \in Nat /\ n * MaxUpdates \in Nat
      BY <1>c
    <2> QED BY <1>c, <2>1, Division DEF Bucket
  <1>2. ASSUME NEW m \in 0..NumLines, NEW n \in 0..NumLines, m <= n
        PROVE  Bucket(m) <= Bucket(n)
    <2>1. m * MaxUpdates <= n * MaxUpdates
      BY <1>c, <1>2, Products
    <2> DEFINE p == Bucket(m)
               q == Bucket(n)
    <2>2. p \in Nat /\ q \in Nat /\ p * NumLines <= m * MaxUpdates /\ n * MaxUpdates < q * NumLines + NumLines
          /\ m * MaxUpdates \in Nat /\ n * MaxUpdates \in Nat
      BY <1>1
    <2> HIDE DEF p, q
    <2>3. p * NumLines \in Nat /\ q * NumLines \in Nat
      BY <1>c, <2>2
    <2>4. p * NumLines < q * NumLines + NumLines
      BY <1>c, <2>1, <2>2, <2>3
    <2>5. p <= q
      BY <1>c, <2>2, <2>4, Quotients
    <2> QED BY <2>5 DEF p, q
  <1>3. ASSUME NEW n \in 0..NumLines, n < NumLines
        PROVE  Bucket(n) < MaxUpdates
    <2>1. n * MaxUpdates < NumLines * MaxUpdates
      BY <1>c, <1>3
    <2> DEFINE p == Bucket(n)
    <2>3. p \in Nat /\ p * NumLines <= n * MaxUpdates /\ n * MaxUpdates \in Nat
      BY <1>1
    <2> HIDE DEF p
    <2>5. p * NumLines \in Nat /\ NumLines * MaxUpdates \in Nat
      BY <1>c, <2>3
    <2>2. p * NumLines < NumLines * MaxUpdates
      BY <2>1, <2>3, <2>5
    <2>4. ASSUME MaxUpdates <= p PROVE FALSE
      <3>1. MaxUpdates * NumLines <= p * NumLines
        BY <1>c, <2>3, <2>4, Products
      <3>2. MaxUpdates * NumLines = NumLines * MaxUpdates
        BY <1>c
      <3> QED BY <2>2, <2>5, <3>1, <3>2
    <2> QED BY <1>c, <2>3, <2>4 DEF p
  <1>4. Bucket(NumLines) = MaxUpdates
    <2>1. NumLines \in 0..NumLines
      BY <1>c
    <2> DEFINE q == Bucket(NumLines)
    <2>2. /\ q \in Nat /\ q * NumLines <= NumLines * MaxUpdates
          /\ NumLines * MaxUpdates < q * NumLines + NumLines
      BY <1>1, <2>1
    <2> HIDE DEF q
    <2>3. /\ NumLines * MaxUpdates = MaxUpdates * NumLines /\ q * NumLines \in Nat
          /\ MaxUpdates * NumLines \in Nat
      BY <1>c, <2>2
    <2>4. MaxUpdates <= q
      BY <1>c, <2>2, <2>3, Quotients
    <2>5. q * NumLines < MaxUpdates * NumLines + NumLines
      BY <1>c, <2>2, <2>3
    <2>6. q <= MaxUpdates
      BY <1>c, <2>2, <2>5, Quotients
    <2> QED BY <1>c, <2>2, <2>4, <2>6 DEF q
  <1> QED BY <1>1, <1>2, <1>3, <1>4

\* A batch that may be sent has a last cue, at or after its first.
LEMMA LastLine ==
    ASSUME NEW c \in Asks, NEW first \in 1..NumLines, Ends(c, first) # {}
    PROVE  LastOf(c, first) \in first..NumLines
  <1> DEFINE S == Ends(c, first)
  <1>1. S \subseteq first..NumLines
    BY Constants DEF Ends
  <1> HIDE DEF S
  <1>2. \E last \in S : \A other \in S : other <= last
    <2> DEFINE T == {NumLines - x : x \in S}
    <2>1. T \subseteq Nat /\ T # {}
      BY <1>1, Constants DEF S
    <2>2. PICK m \in T : \A t \in T : m <= t
      BY <2>1, LeastNumber
    <2>3. PICK x \in S : m = NumLines - x
      OBVIOUS
    <2>4. ASSUME NEW y \in S PROVE y <= x
      <3>1. NumLines - y \in T /\ NumLines - y \in Nat /\ m \in Nat
        BY <2>1
      <3>2. ~(NumLines - y < m)
        BY <2>2, <3>1
      <3> QED BY <1>1, <2>3, <3>1, <3>2, Constants
    <2> QED BY <2>4
  <1>3. LastOf(c, first) \in S
    BY <1>2 DEF LastOf, S
  <1> QED BY <1>1, <1>3

\* A step of the bridge that leaves the worker, the world and the requests.
LEMMA BridgeKeeps ==
    ASSUME AiInv, TurnKeeps, frozen' = frozen \/ helper = "none"
    PROVE  SentInv' /\ ToldInv' /\ ByInv'
  <1>u. /\ UNCHANGED <<ask, turn, result, want, stopped, runtime, media, core>>
        /\ UNCHANGED <<helper, done, spoken, speech, outcome, taken>>
    BY DEF TurnKeeps, helperVars, worldVars
  <1>1. SentInv'
    BY <1>u DEF AiInv, SentInv, Ledgered, Remote, Batched, LastOf, Ends
  <1>2. ToldInv'
    BY <1>u DEF AiInv, ToldInv, Remote, Bucket
  <1>3. ByInv'
    BY <1>u DEF AiInv, ByInv
  <1> QED BY <1>1, <1>2, <1>3

LEMMA LedgerTypes ==
    ASSUME AiInv, turn # Nobody, NEW st, Ledger(st),
           st \in {"none", "reserved", "released", "dispatched", "responded", "unknown"}
    PROVE  /\ entry' \in [Asks -> {"none", "reserved", "released", "dispatched", "responded", "unknown"}]
           /\ denied' \in 0..MaxDenied
  <1>1. /\ entry \in [Asks -> {"none", "reserved", "released", "dispatched", "responded", "unknown"}]
        /\ denied \in 0..MaxDenied /\ turn \in Asks
    BY DEF AiInv, AiTypes
  <1>2. CASE entry' = [entry EXCEPT ![turn] = st] /\ denied' = denied
    BY <1>1, <1>2
  <1>3. CASE denied < MaxDenied /\ denied' = denied + 1 /\ entry' = entry
    BY <1>1, <1>3, Constants
  <1> QED BY <1>2, <1>3 DEF Ledger

LEMMA FirstGateInv == ASSUME AiInv, FirstGate PROVE AiInv'
  <1>u. /\ UNCHANGED <<ask, turn, result, want, stopped, runtime, media, core>>
        /\ UNCHANGED <<helper, done, spoken, speech, outcome, taken>>
    BY DEF FirstGate, TurnKeeps, helperVars, worldVars
  <1>k. SentInv' /\ ToldInv' /\ ByInv'
    BY BridgeKeeps DEF FirstGate
  <1>1. AiTypes'
    BY <1>u, Constants
    DEF FirstGate, AiInv, AiTypes, CloseWith, Pass, BridgeSteps, BeforeHelper, AfterHelper
  <1>2. TurnInv'
    BY <1>u, Constants DEF FirstGate, AiInv, TurnInv, AtStep, CloseWith, Pass
  <1>3. GuardInv'
    BY <1>u, Constants
    DEF FirstGate, AiInv, GuardInv, HelperInv, AtStep, CloseWith, Pass, BeforeHelper,
        AfterHelper
  <1>4. HelperInv'
    BY <1>u
    DEF FirstGate, AiInv, HelperInv, AtStep, CloseWith, Pass, Living, BeforeHelper, AfterHelper
  <1>5. VerdictInv'
    BY <1>u, Constants DEF FirstGate, AiInv, VerdictInv, AtStep, CloseWith, Pass
  <1>6. ASSUME NEW c \in Asks PROVE CallInv(c)'
    <2>1. CallInv(c) /\ OnlyItsMedia(c)' /\ InOrder(c)' /\ result'[c] # "part"
      BY <1>u DEF AiInv, CallInv, OnlyItsMedia, InOrder
    <2>2. UnsentRow(c)' /\ RepeatSafe(c)' /\ Believed(c)'
      BY <1>u, <2>1, Constants
      DEF FirstGate, CallInv, UnsentRow, RepeatSafe, Believed, Ledger, Ledgered, Remote,
          BeforeHelper, AfterHelper
    <2> QED BY <2>1, <2>2 DEF CallInv
  <1> QED BY <1>k, <1>1, <1>2, <1>3, <1>4, <1>5, <1>6 DEF AiInv

LEMMA IdentifyInv == ASSUME AiInv, Identify PROVE AiInv'
  <1>u. /\ UNCHANGED <<ask, turn, result, want, stopped, runtime, media, core>>
        /\ UNCHANGED <<helper, done, spoken, speech, outcome, taken>>
    BY DEF Identify, TurnKeeps, helperVars, worldVars
  <1>k. SentInv' /\ ToldInv' /\ ByInv'
    BY BridgeKeeps DEF Identify
  <1>1. AiTypes'
    BY <1>u, Constants
    DEF Identify, AiInv, AiTypes, CloseWith, Pass, BridgeSteps, BeforeHelper, AfterHelper
  <1>2. TurnInv'
    BY <1>u, Constants DEF Identify, AiInv, TurnInv, AtStep, CloseWith, Pass
  <1>3. GuardInv'
    BY <1>u, Constants
    DEF Identify, AiInv, GuardInv, HelperInv, AtStep, CloseWith, Pass, BeforeHelper,
        AfterHelper
  <1>4. HelperInv'
    BY <1>u
    DEF Identify, AiInv, HelperInv, AtStep, CloseWith, Pass, Living, BeforeHelper, AfterHelper
  <1>5. VerdictInv'
    BY <1>u, Constants DEF Identify, AiInv, VerdictInv, AtStep, CloseWith, Pass
  <1>6. ASSUME NEW c \in Asks PROVE CallInv(c)'
    <2>1. CallInv(c) /\ OnlyItsMedia(c)' /\ InOrder(c)' /\ result'[c] # "part"
      BY <1>u DEF AiInv, CallInv, OnlyItsMedia, InOrder
    <2>2. UnsentRow(c)' /\ RepeatSafe(c)' /\ Believed(c)'
      BY <1>u, <2>1, Constants
      DEF Identify, CallInv, UnsentRow, RepeatSafe, Believed, Ledger, Ledgered, Remote,
          BeforeHelper, AfterHelper
    <2> QED BY <2>1, <2>2 DEF CallInv
  <1> QED BY <1>k, <1>1, <1>2, <1>3, <1>4, <1>5, <1>6 DEF AiInv

LEMMA WriteRequestInv == ASSUME AiInv, WriteRequest PROVE AiInv'
  <1>u. /\ UNCHANGED <<ask, turn, result, want, stopped, runtime, media, core>>
        /\ UNCHANGED <<helper, done, spoken, speech, outcome, taken>>
    BY DEF WriteRequest, TurnKeeps, helperVars, worldVars
  <1>k. SentInv' /\ ToldInv' /\ ByInv'
    BY BridgeKeeps DEF WriteRequest, AtStep, AiInv, HelperInv, BeforeHelper
  <1>1. AiTypes'
    BY <1>u, Constants
    DEF WriteRequest, AiInv, AiTypes, CloseWith, Pass, Freeze, Digests, BridgeSteps,
        BeforeHelper, AfterHelper
  <1>2. TurnInv'
    BY <1>u, Constants DEF WriteRequest, AiInv, TurnInv, AtStep, CloseWith, Pass
  <1>3. GuardInv'
    BY <1>u, Constants
    DEF WriteRequest, AiInv, GuardInv, HelperInv, AtStep, CloseWith, Pass, BeforeHelper,
        AfterHelper
  <1>4. HelperInv'
    BY <1>u
    DEF WriteRequest, AiInv, HelperInv, AtStep, CloseWith, Pass, Living, BeforeHelper,
        AfterHelper
  <1>5. VerdictInv'
    BY <1>u, Constants DEF WriteRequest, AiInv, VerdictInv, AtStep, CloseWith, Pass
  <1>6. ASSUME NEW c \in Asks PROVE CallInv(c)'
    <2>1. CallInv(c) /\ OnlyItsMedia(c)' /\ InOrder(c)' /\ result'[c] # "part"
      BY <1>u DEF AiInv, CallInv, OnlyItsMedia, InOrder
    <2>2. UnsentRow(c)' /\ RepeatSafe(c)' /\ Believed(c)'
      BY <1>u, <2>1, Constants
      DEF WriteRequest, CallInv, UnsentRow, RepeatSafe, Believed, Ledger, Ledgered, Remote,
          BeforeHelper, AfterHelper
    <2> QED BY <2>1, <2>2 DEF CallInv
  <1> QED BY <1>k, <1>1, <1>2, <1>3, <1>4, <1>5, <1>6 DEF AiInv

LEMMA FinalGateInv == ASSUME AiInv, FinalGate PROVE AiInv'
  <1>u. /\ UNCHANGED <<ask, turn, result, want, stopped, runtime, media, core>>
        /\ UNCHANGED <<helper, done, spoken, speech, outcome, taken>>
    BY DEF FinalGate, TurnKeeps, helperVars, worldVars
  <1>k. SentInv' /\ ToldInv' /\ ByInv'
    BY BridgeKeeps DEF FinalGate
  <1>1. AiTypes'
    BY <1>u, Constants
    DEF FinalGate, AiInv, AiTypes, CloseWith, Pass, BridgeSteps, BeforeHelper, AfterHelper
  <1>2. TurnInv'
    BY <1>u, Constants DEF FinalGate, AiInv, TurnInv, AtStep, CloseWith, Pass
  <1>3. GuardInv'
    BY <1>u, Constants
    DEF FinalGate, AiInv, GuardInv, HelperInv, AtStep, CloseWith, Pass, BeforeHelper,
        AfterHelper
  <1>4. HelperInv'
    BY <1>u
    DEF FinalGate, AiInv, HelperInv, AtStep, CloseWith, Pass, Living, BeforeHelper, AfterHelper
  <1>5. VerdictInv'
    BY <1>u, Constants DEF FinalGate, AiInv, VerdictInv, AtStep, CloseWith, Pass
  <1>6. ASSUME NEW c \in Asks PROVE CallInv(c)'
    <2>1. CallInv(c) /\ OnlyItsMedia(c)' /\ InOrder(c)' /\ result'[c] # "part"
      BY <1>u DEF AiInv, CallInv, OnlyItsMedia, InOrder
    <2>2. UnsentRow(c)' /\ RepeatSafe(c)' /\ Believed(c)'
      BY <1>u, <2>1, Constants
      DEF FinalGate, CallInv, UnsentRow, RepeatSafe, Believed, Ledger, Ledgered, Remote,
          BeforeHelper, AfterHelper
    <2> QED BY <2>1, <2>2 DEF CallInv
  <1> QED BY <1>k, <1>1, <1>2, <1>3, <1>4, <1>5, <1>6 DEF AiInv

LEMMA ReserveEntryInv == ASSUME AiInv, ReserveEntry PROVE AiInv'
  <1>u. /\ UNCHANGED <<ask, turn, result, want, stopped, runtime, media, core>>
        /\ UNCHANGED <<helper, done, spoken, speech, outcome, taken>>
    BY DEF ReserveEntry, TurnKeeps, helperVars, worldVars
  <1>k. SentInv' /\ ToldInv' /\ ByInv'
    BY BridgeKeeps DEF ReserveEntry
  <1>e. /\ entry' \in [Asks -> {"none", "reserved", "released", "dispatched", "responded", "unknown"}]
        /\ denied' \in 0..MaxDenied
    <2>1. turn # Nobody
      BY DEF ReserveEntry, AtStep, AiInv, TurnInv
    <2>2. Ledger("reserved") \/ UNCHANGED <<entry, denied>>
      BY DEF ReserveEntry
    <2>3. CASE Ledger("reserved")
      BY <2>1, <2>3, LedgerTypes
    <2> QED BY <2>2, <2>3 DEF AiInv, AiTypes
  <1>t. /\ step' \in {"none"} \cup BridgeSteps /\ frozen' = frozen
        /\ code' \in {"none", "ok", "failed", "canceled", "unknown"}
        /\ guard' \in {"none", "reserved", "dispatched", "responded"}
    BY DEF ReserveEntry, AiInv, AiTypes, CloseWith, Pass, BridgeSteps, BeforeHelper
  <1>1. AiTypes'
    BY <1>u, <1>e, <1>t DEF AiInv, AiTypes
  <1>2. TurnInv'
    BY <1>u, Constants
    DEF ReserveEntry, AiInv, AiTypes, TurnInv, AtStep, CloseWith, Pass, Ledger
  <1>3. GuardInv'
    BY <1>u, Constants
    DEF ReserveEntry, AiInv, AiTypes, TurnInv, GuardInv, AtStep, CloseWith, Pass, Ledger,
        Ledgered, Remote, BeforeHelper, AfterHelper
  <1>4. HelperInv'
    BY <1>u
    DEF ReserveEntry, AiInv, HelperInv, AtStep, CloseWith, Pass, Living, BeforeHelper,
        AfterHelper
  <1>5. VerdictInv'
    BY <1>u, Constants DEF ReserveEntry, AiInv, VerdictInv, AtStep, CloseWith, Pass
  <1>6. ASSUME NEW c \in Asks PROVE CallInv(c)'
    <2>1. CallInv(c) /\ OnlyItsMedia(c)' /\ InOrder(c)' /\ result'[c] # "part"
      BY <1>u DEF AiInv, CallInv, OnlyItsMedia, InOrder
    <2>2. UnsentRow(c)' /\ RepeatSafe(c)' /\ Believed(c)'
      BY <1>u, <2>1, Constants
      DEF ReserveEntry, AiInv, AiTypes, HelperInv, CallInv, UnsentRow, RepeatSafe, Believed,
          AtStep, CloseWith, Pass, Ledger, Ledgered, Remote, BeforeHelper, AfterHelper
    <2> QED BY <2>1, <2>2 DEF CallInv
  <1> QED BY <1>k, <1>1, <1>2, <1>3, <1>4, <1>5, <1>6 DEF AiInv

LEMMA LastTestInv == ASSUME AiInv, LastTest PROVE AiInv'
  <1>u. /\ UNCHANGED <<ask, turn, result, want, stopped, runtime, media, core>>
        /\ UNCHANGED <<helper, done, spoken, speech, outcome, taken>>
    BY DEF LastTest, TurnKeeps, helperVars, worldVars
  <1>k. SentInv' /\ ToldInv' /\ ByInv'
    BY BridgeKeeps DEF LastTest
  <1>1. AiTypes'
    BY <1>u, Constants
    DEF LastTest, AiInv, AiTypes, CloseWith, Pass, BridgeSteps, BeforeHelper, AfterHelper
  <1>2. TurnInv'
    BY <1>u, Constants DEF LastTest, AiInv, TurnInv, AtStep, CloseWith, Pass
  <1>3. GuardInv'
    BY <1>u, Constants
    DEF LastTest, AiInv, GuardInv, AtStep, CloseWith, Pass, Ledgered, Remote, BeforeHelper,
        AfterHelper
  <1>4. HelperInv'
    BY <1>u
    DEF LastTest, AiInv, HelperInv, AtStep, CloseWith, Pass, Living, BeforeHelper, AfterHelper
  <1>5. VerdictInv'
    BY <1>u, Constants DEF LastTest, AiInv, VerdictInv, AtStep, CloseWith, Pass
  <1>6. ASSUME NEW c \in Asks PROVE CallInv(c)'
    <2>1. CallInv(c) /\ OnlyItsMedia(c)' /\ InOrder(c)' /\ result'[c] # "part"
      BY <1>u DEF AiInv, CallInv, OnlyItsMedia, InOrder
    <2>2. UnsentRow(c)' /\ RepeatSafe(c)' /\ Believed(c)'
      BY <1>u, <2>1, Constants
      DEF LastTest, CallInv, UnsentRow, RepeatSafe, Believed, Ledger, Ledgered, Remote,
          BeforeHelper, AfterHelper
    <2> QED BY <2>1, <2>2 DEF CallInv
  <1> QED BY <1>k, <1>1, <1>2, <1>3, <1>4, <1>5, <1>6 DEF AiInv

LEMMA DispatchEntryInv == ASSUME AiInv, DispatchEntry PROVE AiInv'
  <1>u. /\ UNCHANGED <<ask, turn, result, want, stopped, runtime, media, core>>
        /\ UNCHANGED <<helper, done, spoken, speech, outcome, taken>>
    BY DEF DispatchEntry, TurnKeeps, helperVars, worldVars
  <1>k. SentInv' /\ ToldInv' /\ ByInv'
    BY BridgeKeeps DEF DispatchEntry
  <1>1. AiTypes'
    BY <1>u, Constants
    DEF DispatchEntry, AiInv, AiTypes, CloseWith, Pass, Ledger, Digests, BridgeSteps,
        BeforeHelper, AfterHelper, DispatchedState, TurnInv
  <1>2. TurnInv'
    BY <1>u, Constants
    DEF DispatchEntry, AiInv, AiTypes, TurnInv, AtStep, CloseWith, Pass, Ledger
  <1>3. GuardInv'
    BY <1>u, Constants
    DEF DispatchEntry, AiInv, AiTypes, GuardInv, AtStep, CloseWith, Pass, Ledger, Ledgered,
        Remote, BeforeHelper, AfterHelper, DispatchedState
  <1>4. HelperInv'
    BY <1>u
    DEF DispatchEntry, AiInv, HelperInv, AtStep, CloseWith, Pass, Living, BeforeHelper,
        AfterHelper
  <1>5. VerdictInv'
    BY <1>u, Constants DEF DispatchEntry, AiInv, VerdictInv, AtStep, CloseWith, Pass
  <1>6. ASSUME NEW c \in Asks PROVE CallInv(c)'
    <2>1. CallInv(c) /\ OnlyItsMedia(c)' /\ InOrder(c)' /\ result'[c] # "part"
      BY <1>u DEF AiInv, CallInv, OnlyItsMedia, InOrder
    <2>2. UnsentRow(c)' /\ RepeatSafe(c)' /\ Believed(c)'
      BY <1>u, <2>1, Constants
      DEF DispatchEntry, AiInv, AiTypes, GuardInv, CallInv, UnsentRow, RepeatSafe, Believed,
          AtStep, CloseWith, Pass, Ledger, Ledgered, Remote, BeforeHelper, AfterHelper
    <2> QED BY <2>1, <2>2 DEF CallInv
  <1> QED BY <1>k, <1>1, <1>2, <1>3, <1>4, <1>5, <1>6 DEF AiInv

LEMMA CheckMediaInv == ASSUME AiInv, CheckMedia PROVE AiInv'
  <1>u. /\ UNCHANGED <<ask, turn, result, want, stopped, runtime, media, core>>
        /\ UNCHANGED <<helper, done, spoken, speech, outcome, taken>>
    BY DEF CheckMedia, TurnKeeps, helperVars, worldVars
  <1>k. SentInv' /\ ToldInv' /\ ByInv'
    BY BridgeKeeps DEF CheckMedia
  <1>1. AiTypes'
    BY <1>u, Constants
    DEF CheckMedia, AiInv, AiTypes, CloseWith, Pass, BridgeSteps, AfterHelper
  <1>2. TurnInv'
    BY <1>u, Constants DEF CheckMedia, AiInv, TurnInv, AtStep, CloseWith, Pass
  <1>3. GuardInv'
    BY <1>u, Constants
    DEF CheckMedia, AiInv, GuardInv, AtStep, CloseWith, Pass, Ledgered, Remote
  <1>4. HelperInv'
    BY <1>u DEF CheckMedia, HelperInv, CloseWith, Pass, Living, BeforeHelper
  <1>5. VerdictInv'
    BY <1>u, Constants DEF CheckMedia, AiInv, VerdictInv, AtStep, CloseWith, Pass
  <1>6. ASSUME NEW c \in Asks PROVE CallInv(c)'
    <2>1. CallInv(c) /\ OnlyItsMedia(c)' /\ InOrder(c)' /\ result'[c] # "part"
      BY <1>u DEF AiInv, CallInv, OnlyItsMedia, InOrder
    <2>2. UnsentRow(c)' /\ RepeatSafe(c)' /\ Believed(c)'
      BY <1>u, <2>1, Constants
      DEF CheckMedia, CallInv, UnsentRow, RepeatSafe, Believed, Ledger, Ledgered, Remote,
          BeforeHelper, AfterHelper
    <2> QED BY <2>1, <2>2 DEF CallInv
  <1> QED BY <1>k, <1>1, <1>2, <1>3, <1>4, <1>5, <1>6 DEF AiInv

LEMMA RecheckInv == ASSUME AiInv, Recheck PROVE AiInv'
  <1>u. /\ UNCHANGED <<ask, turn, result, want, stopped, runtime, media, core>>
        /\ UNCHANGED <<helper, done, spoken, speech, outcome, taken>>
    BY DEF Recheck, TurnKeeps, helperVars, worldVars
  <1>k. SentInv' /\ ToldInv' /\ ByInv'
    BY BridgeKeeps DEF Recheck
  <1>1. AiTypes'
    BY <1>u, Constants DEF Recheck, AiInv, AiTypes, CloseWith, Pass, BridgeSteps, AfterHelper
  <1>2. TurnInv'
    BY <1>u, Constants DEF Recheck, AiInv, TurnInv, AtStep, CloseWith, Pass
  <1>3. GuardInv'
    BY <1>u, Constants
    DEF Recheck, AiInv, GuardInv, AtStep, CloseWith, Pass, Ledgered, Remote, BeforeHelper,
        AfterHelper
  <1>4. HelperInv'
    BY <1>u
    DEF Recheck, AiInv, HelperInv, AtStep, CloseWith, Pass, Living, BeforeHelper, AfterHelper
  <1>5. VerdictInv'
    BY <1>u, Constants
    DEF Recheck, AiInv, AiTypes, TurnInv, ByInv, VerdictInv, AtStep, CloseWith, Pass, Rehashed,
        RuntimeApproved, AfterHelper
  <1>6. ASSUME NEW c \in Asks PROVE CallInv(c)'
    <2>1. CallInv(c) /\ OnlyItsMedia(c)' /\ InOrder(c)' /\ result'[c] # "part"
      BY <1>u DEF AiInv, CallInv, OnlyItsMedia, InOrder
    <2>2. UnsentRow(c)' /\ RepeatSafe(c)' /\ Believed(c)'
      BY <1>u, <2>1, Constants
      DEF Recheck, CallInv, UnsentRow, RepeatSafe, Believed, Ledger, Ledgered, Remote,
          BeforeHelper, AfterHelper
    <2> QED BY <2>1, <2>2 DEF CallInv
  <1> QED BY <1>k, <1>1, <1>2, <1>3, <1>4, <1>5, <1>6 DEF AiInv

LEMMA ReadReplyInv == ASSUME AiInv, ReadReply PROVE AiInv'
  <1>u. /\ UNCHANGED <<ask, turn, result, want, stopped, runtime, media, core>>
        /\ UNCHANGED <<helper, done, spoken, speech, outcome, taken>>
    BY DEF ReadReply, TurnKeeps, helperVars, worldVars
  <1>k. SentInv' /\ ToldInv' /\ ByInv'
    BY BridgeKeeps DEF ReadReply
  <1>1. AiTypes'
    BY <1>u, Constants DEF ReadReply, AiInv, AiTypes, CloseWith, Pass, BridgeSteps, AfterHelper
  <1>2. TurnInv'
    BY <1>u, Constants DEF ReadReply, AiInv, TurnInv, AtStep, CloseWith, Pass
  <1>3. GuardInv'
    BY <1>u, Constants
    DEF ReadReply, AiInv, GuardInv, AtStep, CloseWith, Pass, Ledgered, Remote, BeforeHelper,
        AfterHelper
  <1>4. HelperInv'
    BY <1>u
    DEF ReadReply, AiInv, HelperInv, AtStep, CloseWith, Pass, Living, BeforeHelper, AfterHelper
  <1>5. VerdictInv'
    BY <1>u, Constants DEF ReadReply, AiInv, VerdictInv, AtStep, CloseWith, Pass
  <1>6. ASSUME NEW c \in Asks PROVE CallInv(c)'
    <2>1. CallInv(c) /\ OnlyItsMedia(c)' /\ InOrder(c)' /\ result'[c] # "part"
      BY <1>u DEF AiInv, CallInv, OnlyItsMedia, InOrder
    <2>2. UnsentRow(c)' /\ RepeatSafe(c)' /\ Believed(c)'
      BY <1>u, <2>1, Constants
      DEF ReadReply, CallInv, UnsentRow, RepeatSafe, Believed, Ledger, Ledgered, Remote,
          BeforeHelper, AfterHelper
    <2> QED BY <2>1, <2>2 DEF CallInv
  <1> QED BY <1>k, <1>1, <1>2, <1>3, <1>4, <1>5, <1>6 DEF AiInv

LEMMA RespondEntryInv == ASSUME AiInv, RespondEntry PROVE AiInv'
  <1>u. /\ UNCHANGED <<ask, turn, result, want, stopped, runtime, media, core>>
        /\ UNCHANGED <<helper, done, spoken, speech, outcome, taken>>
    BY DEF RespondEntry, TurnKeeps, helperVars, worldVars
  <1>k. SentInv' /\ ToldInv' /\ ByInv'
    BY BridgeKeeps DEF RespondEntry
  <1>e. /\ entry' \in [Asks -> {"none", "reserved", "released", "dispatched", "responded", "unknown"}]
        /\ denied' \in 0..MaxDenied
    <2>1. turn # Nobody
      BY DEF RespondEntry, AtStep, AiInv, TurnInv
    <2>2. Ledger("responded") \/ UNCHANGED <<entry, denied>>
      BY DEF RespondEntry
    <2>3. CASE Ledger("responded")
      BY <2>1, <2>3, LedgerTypes
    <2> QED BY <2>2, <2>3 DEF AiInv, AiTypes
  <1>t. /\ step' \in {"none"} \cup BridgeSteps /\ frozen' = frozen
        /\ code' \in {"none", "ok", "failed", "canceled", "unknown"}
        /\ guard' \in {"none", "reserved", "dispatched", "responded"}
    BY DEF RespondEntry, AiInv, AiTypes, CloseWith, BridgeSteps
  <1>1. AiTypes'
    BY <1>u, <1>e, <1>t DEF AiInv, AiTypes
  <1>2. TurnInv'
    BY <1>u, Constants DEF RespondEntry, AiInv, AiTypes, TurnInv, AtStep, CloseWith, Ledger
  <1>3. GuardInv'
    BY <1>u, Constants
    DEF RespondEntry, AiInv, AiTypes, GuardInv, AtStep, CloseWith, Pass, Ledger, Ledgered,
        Remote, BeforeHelper, AfterHelper
  <1>4. HelperInv'
    BY <1>u
    DEF RespondEntry, AiInv, HelperInv, AtStep, CloseWith, Living, BeforeHelper, AfterHelper
  <1>5. VerdictInv'
    BY <1>u, Constants
    DEF RespondEntry, AiInv, TurnInv, GuardInv, HelperInv, VerdictInv, AtStep, CloseWith, Pass,
        Ledger, Ledgered, Remote
  <1>6. ASSUME NEW c \in Asks PROVE CallInv(c)'
    <2>1. CallInv(c) /\ OnlyItsMedia(c)' /\ InOrder(c)' /\ result'[c] # "part"
      BY <1>u DEF AiInv, CallInv, OnlyItsMedia, InOrder
    <2>2. UnsentRow(c)' /\ RepeatSafe(c)' /\ Believed(c)'
      BY <1>u, <2>1, Constants
      DEF RespondEntry, AiInv, AiTypes, TurnInv, CallInv, UnsentRow, RepeatSafe, Believed,
          AtStep, CloseWith, Pass, Ledger, Ledgered, Remote, BeforeHelper, AfterHelper
    <2> QED BY <2>1, <2>2 DEF CallInv
  <1> QED BY <1>k, <1>1, <1>2, <1>3, <1>4, <1>5, <1>6 DEF AiInv

LEMMA CloseEntryInv == ASSUME AiInv, CloseEntry PROVE AiInv'
  <1>u. /\ UNCHANGED <<ask, turn, result, want, stopped, runtime, media, core>>
        /\ UNCHANGED <<helper, done, spoken, speech, outcome, taken>>
    BY DEF CloseEntry, TurnKeeps, helperVars, worldVars
  <1>k. SentInv' /\ ToldInv' /\ ByInv'
    BY BridgeKeeps DEF CloseEntry
  <1>1. AiTypes'
    BY <1>u, Constants
    DEF CloseEntry, AiInv, AiTypes, AtStep, Ledger, Digests, BridgeSteps, DispatchedState,
        TurnInv
  <1>2. TurnInv'
    BY <1>u, Constants DEF CloseEntry, AiInv, AiTypes, TurnInv, AtStep, Ledger
  <1>3. GuardInv'
    BY <1>u, Constants
    DEF CloseEntry, AiInv, AiTypes, GuardInv, Ledger, Ledgered, Remote, BeforeHelper,
        AfterHelper
  <1>4. HelperInv'
    BY <1>u DEF CloseEntry, AiInv, HelperInv, AtStep, Living, BeforeHelper, AfterHelper
  <1>5. VerdictInv'
    BY <1>u, Constants DEF CloseEntry, AiInv, VerdictInv, AtStep
  <1>6. ASSUME NEW c \in Asks PROVE CallInv(c)'
    <2>1. CallInv(c) /\ OnlyItsMedia(c)' /\ InOrder(c)' /\ result'[c] # "part"
      BY <1>u DEF AiInv, CallInv, OnlyItsMedia, InOrder
    <2>2. UnsentRow(c)' /\ RepeatSafe(c)' /\ Believed(c)'
      BY <1>u, <2>1, Constants
      DEF CloseEntry, AiInv, AiTypes, GuardInv, CallInv, UnsentRow, RepeatSafe, Believed,
          AtStep, CloseWith, Pass, Ledger, Ledgered, Remote, BeforeHelper, AfterHelper
    <2> QED BY <2>1, <2>2 DEF CallInv
  <1> QED BY <1>k, <1>1, <1>2, <1>3, <1>4, <1>5, <1>6 DEF AiInv

LEMMA LaunchHelperInv == ASSUME AiInv, LaunchHelper PROVE AiInv'
  <1>u. UNCHANGED << ask, turn, result, guard, entry, denied, done, spoken, speech, outcome,
                    taken, stopped, runtime, media, core, want, frozen>>
    BY DEF LaunchHelper, worldVars
  <1>1. AiTypes'
    BY <1>u, Constants
    DEF LaunchHelper, AiInv, AiTypes, TurnInv, AtStep, CloseWith, Pass, Ledgered, BridgeSteps,
        coreVars, HelperSteps, AskRecord
  <1>2. TurnInv'
    BY <1>u, Constants DEF LaunchHelper, AiInv, TurnInv, AtStep, CloseWith, Pass, Ledgered
  <1>3. GuardInv'
    BY <1>u, Constants
    DEF LaunchHelper, AiInv, GuardInv, AtStep, CloseWith, Pass, Ledgered, Remote
  <1>4. HelperInv'
    BY <1>u, Constants
    DEF LaunchHelper, AiInv, AiTypes, TurnInv, GuardInv, HelperInv, AtStep, CloseWith, Pass,
        Ledgered, Remote, Living, BeforeHelper, AfterHelper
  <1>5. SentInv'
    BY <1>u, Constants
    DEF LaunchHelper, AiInv, HelperInv, SentInv, ToldInv, AtStep, CloseWith, BeforeHelper,
        AfterHelper
  <1>6. ToldInv'
    BY <1>u, Constants DEF LaunchHelper, AiInv, ToldInv, Remote, Living
  <1>7. ByInv'
    BY <1>u, Constants DEF AiInv, ByInv
  <1>8. VerdictInv'
    BY <1>u, Constants DEF LaunchHelper, AiInv, VerdictInv, AtStep, CloseWith, Pass
  <1>9. ASSUME NEW d \in Asks PROVE CallInv(d)'
    <2>1. CallInv(d) /\ OnlyItsMedia(d)' /\ InOrder(d)'
      BY <1>u, Constants DEF AiInv, CallInv, OnlyItsMedia, InOrder
    <2>2. UnsentRow(d)' /\ RepeatSafe(d)' /\ Believed(d)' /\ result'[d] # "part"
      BY <1>u, <2>1, Constants
      DEF Ledgered, Remote, CallInv, UnsentRow, RepeatSafe, Believed, Ongoing
    <2> QED BY <2>1, <2>2 DEF CallInv
  <1> QED BY <1>1, <1>2, <1>3, <1>4, <1>5, <1>6, <1>7, <1>8, <1>9 DEF AiInv

LEMMA InterruptInv == ASSUME AiInv, Interrupt PROVE AiInv'
  <1>u. UNCHANGED << ask, turn, result, guard, entry, denied, done, spoken, speech, outcome,
                    taken, stopped, runtime, media, core, want, frozen>>
    BY DEF Interrupt, worldVars
  <1>1. AiTypes'
    BY <1>u, Constants
    DEF Interrupt, AiInv, AiTypes, TurnInv, AtStep, CloseWith, BridgeSteps, coreVars,
        HelperSteps, AskRecord
  <1>2. TurnInv'
    BY <1>u, Constants DEF Interrupt, AiInv, TurnInv, AtStep, CloseWith
  <1>3. GuardInv'
    BY <1>u, Constants
    DEF Interrupt, AiInv, GuardInv, AtStep, CloseWith, Pass, Ledgered, Remote
  <1>4. HelperInv'
    BY <1>u, Constants
    DEF Interrupt, AiInv, GuardInv, HelperInv, AtStep, CloseWith, Remote, Living, BeforeHelper,
        AfterHelper
  <1>5. SentInv'
    BY <1>u, Constants
    DEF Interrupt, AiInv, SentInv, ToldInv, Pass, Ledgered, Remote, Living, Batched, Ends
  <1>6. ToldInv'
    BY <1>u, Constants DEF Interrupt, ToldInv
  <1>7. ByInv'
    BY <1>u, Constants DEF AiInv, ByInv
  <1>8. VerdictInv'
    BY <1>u, Constants DEF Interrupt, VerdictInv, CloseWith
  <1>9. ASSUME NEW d \in Asks PROVE CallInv(d)'
    <2>1. CallInv(d) /\ OnlyItsMedia(d)' /\ InOrder(d)'
      BY <1>u, Constants DEF AiInv, CallInv, OnlyItsMedia, InOrder
    <2>2. UnsentRow(d)' /\ RepeatSafe(d)' /\ Believed(d)' /\ result'[d] # "part"
      BY <1>u, <2>1, Constants
      DEF Ledgered, Remote, CallInv, UnsentRow, RepeatSafe, Believed, Ongoing
    <2> QED BY <2>1, <2>2 DEF CallInv
  <1> QED BY <1>1, <1>2, <1>3, <1>4, <1>5, <1>6, <1>7, <1>8, <1>9 DEF AiInv

LEMMA PublishSpeechInv == ASSUME AiInv, PublishSpeech PROVE AiInv'
  <1>u. UNCHANGED << ask, turn, guard, entry, denied, helper, done, spoken, speech, outcome,
                    taken, stopped, runtime, media, core, want, frozen>>
    BY DEF PublishSpeech, helperVars, worldVars
  <1>1. AiTypes'
    <2>1. /\ result \in [Asks -> {Nothing, "part", "whole"}]
          /\ speech \in {Nothing, "part", "whole"}
          /\ step \in {"none"} \cup BridgeSteps
          /\ code \in {"none", "ok", "failed", "canceled", "unknown"}
      BY DEF AiInv, AiTypes
    <2>2. result' \in [Asks -> {Nothing, "part", "whole"}]
      BY <2>1 DEF PublishSpeech
    <2>3. /\ step' \in {"none"} \cup BridgeSteps
          /\ code' \in {"none", "ok", "failed", "canceled", "unknown"}
      BY <2>1 DEF PublishSpeech, CloseWith, Pass, BridgeSteps, AfterHelper
    <2> QED BY <1>u, <2>2, <2>3 DEF AiInv, AiTypes
  <1>2. TurnInv'
    BY <1>u, Constants
    DEF PublishSpeech, AiInv, AiTypes, TurnInv, AtStep, CloseWith, Pass, Ledgered
  <1>3. GuardInv'
    BY <1>u, Constants
    DEF PublishSpeech, AiInv, AiTypes, GuardInv, HelperInv, VerdictInv, AtStep, CloseWith,
        Pass, Ledgered, Remote, BridgeSteps, coreVars, helperVars
  <1>4. HelperInv'
    BY <1>u, Constants
    DEF PublishSpeech, AiInv, GuardInv, HelperInv, AtStep, CloseWith, Pass, Ledgered, Remote,
        Living, BeforeHelper, AfterHelper
  <1>5. SentInv'
    BY <1>u, Constants
    DEF PublishSpeech, AiInv, SentInv, ToldInv, Pass, Ledgered, Remote, Living, Batched, Ends,
        LastOf
  <1>6. ToldInv'
    BY <1>u, Constants DEF AiInv, ToldInv, Remote, Living
  <1>7. ByInv'
    BY <1>u, Constants DEF AiInv, ByInv
  <1>8. VerdictInv'
    BY <1>u, Constants
    DEF PublishSpeech, AiInv, AiTypes, TurnInv, SentInv, VerdictInv, AtStep, CloseWith, Pass,
        Ledgered
  <1>9. ASSUME NEW d \in Asks PROVE CallInv(d)'
    <2>1. CallInv(d) /\ OnlyItsMedia(d)' /\ InOrder(d)'
      BY <1>u, Constants DEF AiInv, CallInv, OnlyItsMedia, InOrder
    <2>2. UnsentRow(d)' /\ RepeatSafe(d)' /\ Believed(d)' /\ result'[d] # "part"
      BY <1>u, <2>1, Constants
      DEF PublishSpeech, AiInv, AiTypes, TurnInv, SentInv, ToldInv, ByInv, VerdictInv, AtStep,
          CloseWith, Pass, Ledgered, Remote, Living, helperVars, worldVars, CallInv, UnsentRow,
          RepeatSafe, Believed, Ongoing
    <2> QED BY <2>1, <2>2 DEF CallInv
  <1> QED BY <1>1, <1>2, <1>3, <1>4, <1>5, <1>6, <1>7, <1>8, <1>9 DEF AiInv

LEMMA CleanUpInv == ASSUME AiInv, CleanUp PROVE AiInv'
  <1>u. UNCHANGED <<entry, result, denied, taken, stopped, runtime, media, core, want>>
    BY DEF CleanUp, worldVars
  <1>1. AiTypes'
    <2>1. /\ ask \in [Asks -> {"idle", "waiting", "in", "ok", "failed", "canceled", "unknown", "lost"}]
          /\ code \in {"ok", "failed", "canceled", "unknown"}
      BY DEF AiInv, AiTypes, TurnInv, CleanUp, AtStep
    <2>2. ask' \in [Asks -> {"idle", "waiting", "in", "ok", "failed", "canceled", "unknown", "lost"}]
      BY <2>1 DEF CleanUp
    <2> QED BY <1>u, <2>2, Constants DEF CleanUp, AiInv, AiTypes, Digests, HelperSteps
  <1>2. TurnInv'
    BY <1>u, Constants DEF CleanUp, AiInv, AiTypes, TurnInv
  <1>3. GuardInv'
    BY <1>u, Constants DEF CleanUp, GuardInv
  <1>4. HelperInv'
    BY DEF CleanUp, HelperInv, Living, AfterHelper, Nothing
  <1>5. SentInv'
    BY <1>u, Constants DEF CleanUp, SentInv
  <1>6. ToldInv'
    BY DEF CleanUp, ToldInv
  <1>7. ByInv'
    BY <1>u, Constants DEF AiInv, ByInv
  <1>8. VerdictInv'
    BY <1>u, Constants DEF CleanUp, VerdictInv
  <1>9. ASSUME NEW d \in Asks PROVE CallInv(d)'
    <2>1. CallInv(d) /\ OnlyItsMedia(d)' /\ InOrder(d)'
      BY <1>u, Constants DEF AiInv, CallInv, OnlyItsMedia, InOrder
    <2>2. UnsentRow(d)' /\ RepeatSafe(d)' /\ Believed(d)' /\ result'[d] # "part"
      BY <1>u, <2>1, Constants
      DEF CleanUp, AiInv, GuardInv, HelperInv, SentInv, ToldInv, ByInv, VerdictInv, Pass,
          Ledgered, Remote, Living, helperVars, worldVars, CallInv, UnsentRow, RepeatSafe,
          Believed, Ongoing, AllSent
    <2> QED BY <2>1, <2>2 DEF CallInv
  <1> QED BY <1>1, <1>2, <1>3, <1>4, <1>5, <1>6, <1>7, <1>8, <1>9 DEF AiInv

LEMMA TakeTurnInv == ASSUME AiInv, NEW c \in Asks, TakeTurn(c) PROVE AiInv'
  <1>u. UNCHANGED << code, guard, entry, result, denied, helper, done, spoken, speech, outcome,
                    taken, stopped, runtime, media, core, want, frozen>>
    BY DEF TakeTurn, helperVars, worldVars
  <1>1. AiTypes'
    <2>1. /\ ask \in [Asks -> {"idle", "waiting", "in", "ok", "failed", "canceled", "unknown", "lost"}]
          /\ turn \in Asks \cup {Nobody} /\ step \in {"none"} \cup BridgeSteps
      BY DEF AiInv, AiTypes
    <2>2. ask' \in [Asks -> {"idle", "waiting", "in", "ok", "failed", "canceled", "unknown", "lost"}]
      BY <2>1 DEF TakeTurn
    <2>3. turn' \in Asks \cup {Nobody} /\ step' \in {"none"} \cup BridgeSteps
      BY <2>1 DEF TakeTurn, BridgeSteps, BeforeHelper
    <2> QED BY <1>u, <2>2, <2>3 DEF AiInv, AiTypes
  <1>2. TurnInv'
    BY <1>u, Constants DEF TakeTurn, AiInv, AiTypes, TurnInv
  <1>3. GuardInv'
    BY <1>u, Constants DEF TakeTurn, AiInv, TurnInv, GuardInv, HelperInv, AfterHelper
  <1>4. HelperInv'
    BY <1>u, Constants
    DEF TakeTurn, AiInv, AiTypes, TurnInv, GuardInv, HelperInv, Remote, Living, BeforeHelper,
        AfterHelper
  <1>5. SentInv'
    BY <1>u, Constants DEF TakeTurn, AiInv, TurnInv, HelperInv, SentInv
  <1>6. ToldInv'
    BY <1>u, Constants DEF TakeTurn, AiInv, TurnInv, HelperInv, ToldInv
  <1>7. ByInv'
    BY <1>u, Constants DEF AiInv, ByInv
  <1>8. VerdictInv'
    BY <1>u, Constants DEF TakeTurn, AiInv, TurnInv, VerdictInv
  <1>9. ASSUME NEW d \in Asks PROVE CallInv(d)'
    <2>1. CallInv(d) /\ OnlyItsMedia(d)' /\ InOrder(d)'
      BY <1>u, Constants DEF AiInv, CallInv, OnlyItsMedia, InOrder
    <2>2. UnsentRow(d)' /\ RepeatSafe(d)' /\ Believed(d)' /\ result'[d] # "part"
      BY <1>u, <2>1, Constants
      DEF TakeTurn, AiInv, AiTypes, TurnInv, Pass, Ledgered, Remote, Living, CallInv,
          UnsentRow, RepeatSafe, Believed
    <2> QED BY <2>1, <2>2 DEF CallInv
  <1> QED BY <1>1, <1>2, <1>3, <1>4, <1>5, <1>6, <1>7, <1>8, <1>9 DEF AiInv

LEMMA AskForInv ==
    ASSUME AiInv, NEW c \in Asks, NEW op \in Operation, NEW kind \in Kind, AskFor(c, op, kind)
    PROVE  AiInv'
  <1>u. UNCHANGED << turn, step, code, guard, entry, result, denied, helper, done, spoken,
                    speech, outcome, taken, stopped, runtime, media, core, frozen>>
    BY DEF AskFor, helperVars, worldVars
  <1>1. AiTypes'
    <2>1. /\ ask \in [Asks -> {"idle", "waiting", "in", "ok", "failed", "canceled", "unknown", "lost"}]
          /\ want \in [Asks -> AskRecord] /\ media \in {"v1", "v2"}
      BY DEF AiInv, AiTypes
    <2>2. ask' \in [Asks -> {"idle", "waiting", "in", "ok", "failed", "canceled", "unknown", "lost"}]
      BY <2>1 DEF AskFor
    <2>3. want' \in [Asks -> AskRecord]
      BY <2>1 DEF AskFor, AskRecord, Digests
    <2> QED BY <1>u, <2>2, <2>3 DEF AiInv, AiTypes
  <1>2. TurnInv'
    BY <1>u, Constants DEF AskFor, AiInv, AiTypes, TurnInv, GuardInv
  <1>3. GuardInv'
    BY <1>u, Constants DEF AskFor, AiInv, TurnInv, GuardInv, Ledgered, Remote
  <1>4. HelperInv'
    BY <1>u, Constants DEF AiInv, HelperInv, Living
  <1>5. SentInv'
    <2>1. turn # Nobody => want'[turn] = want[turn]
      BY DEF AskFor, AiInv, AiTypes, TurnInv
    <2> QED BY <1>u, <2>1 DEF AiInv, SentInv, Ledgered, Remote, Batched, Ends, LastOf
  <1>6. ToldInv'
    BY <1>u, Constants DEF AskFor, AiInv, TurnInv, ToldInv, Remote, Living
  <1>7. ByInv'
    BY <1>u, Constants DEF AiInv, ByInv
  <1>8. VerdictInv'
    BY <1>u, Constants
    DEF AskFor, AiInv, TurnInv, VerdictInv, CloseWith, Pass, Ledgered, Remote
  <1>9. ASSUME NEW d \in Asks PROVE CallInv(d)'
    <2>1. CallInv(d) /\ OnlyItsMedia(d)' /\ InOrder(d)'
      BY <1>u, Constants DEF AskFor, AiInv, CallInv, OnlyItsMedia, InOrder, TurnInv
    <2>2. UnsentRow(d)' /\ RepeatSafe(d)' /\ Believed(d)' /\ result'[d] # "part"
      BY <1>u, <2>1, Constants
      DEF AskFor, AiInv, AiTypes, TurnInv, Pass, Ledgered, Remote, Living, CallInv, UnsentRow,
          RepeatSafe, Believed
    <2> QED BY <2>1, <2>2 DEF CallInv
  <1> QED BY <1>1, <1>2, <1>3, <1>4, <1>5, <1>6, <1>7, <1>8, <1>9 DEF AiInv

LEMMA StopAskInv == ASSUME AiInv, NEW c \in Asks, StopAsk(c) PROVE AiInv'
  <1>u. UNCHANGED << ask, turn, step, code, guard, entry, result, denied, helper, done, spoken,
                    speech, outcome, taken, runtime, media, core, want, frozen>>
    BY DEF StopAsk, coreVars, helperVars
  <1>1. AiTypes'
    BY <1>u, Constants DEF AiInv, AiTypes
  <1>2. TurnInv'
    BY <1>u, Constants DEF AiInv, TurnInv
  <1>3. GuardInv'
    BY <1>u, Constants DEF AiInv, GuardInv, Ledgered, Remote
  <1>4. HelperInv'
    BY <1>u, Constants DEF AiInv, HelperInv, Living
  <1>5. SentInv'
    BY <1>u, Constants
    DEF StopAsk, AiInv, SentInv, ToldInv, Pass, Ledgered, Remote, Living, BeforeHelper,
        AfterHelper, BridgeSteps, coreVars, helperVars, worldVars, LeaveError, TellMore,
        Batched, Ends, LastOf, AllSent
  <1>6. ToldInv'
    BY <1>u, Constants DEF AiInv, ToldInv, Remote, Living
  <1>7. ByInv'
    BY <1>u, Constants DEF AiInv, ByInv
  <1>8. VerdictInv'
    BY <1>u, Constants DEF AiInv, VerdictInv, Ledgered, Remote
  <1>9. ASSUME NEW d \in Asks PROVE CallInv(d)'
    <2>1. CallInv(d) /\ OnlyItsMedia(d)' /\ InOrder(d)'
      BY <1>u, Constants DEF AiInv, CallInv, OnlyItsMedia, InOrder
    <2>2. UnsentRow(d)' /\ RepeatSafe(d)' /\ Believed(d)' /\ result'[d] # "part"
      BY <1>u, <2>1, Constants
      DEF Ledgered, Remote, CallInv, UnsentRow, RepeatSafe, Believed, Ongoing
    <2> QED BY <2>1, <2>2 DEF CallInv
  <1> QED BY <1>1, <1>2, <1>3, <1>4, <1>5, <1>6, <1>7, <1>8, <1>9 DEF AiInv

LEMMA ReplaceInv == ASSUME AiInv, Replace PROVE AiInv'
  <1>u. UNCHANGED << ask, turn, step, code, guard, entry, result, denied, helper, done, spoken,
                    speech, outcome, taken, stopped, core, want, frozen>>
    BY DEF Replace, coreVars, helperVars
  <1>1. AiTypes'
    BY <1>u, Constants DEF Replace, AiInv, AiTypes
  <1>2. TurnInv'
    BY <1>u, Constants DEF AiInv, TurnInv
  <1>3. GuardInv'
    BY <1>u, Constants DEF AiInv, GuardInv, Ledgered, Remote
  <1>4. HelperInv'
    BY <1>u, Constants DEF AiInv, HelperInv, Living
  <1>5. SentInv'
    BY <1>u, Constants
    DEF Replace, AiInv, SentInv, ToldInv, Pass, Ledgered, Remote, Living, BeforeHelper,
        AfterHelper, BridgeSteps, coreVars, helperVars, worldVars, LeaveError, TellMore,
        Batched, Ends, LastOf, AllSent
  <1>6. ToldInv'
    BY <1>u, Constants DEF AiInv, ToldInv, Remote, Living
  <1>7. ByInv'
    BY <1>u, Constants DEF Replace, AiInv, ByInv
  <1>8. VerdictInv'
    BY <1>u, Constants DEF AiInv, VerdictInv, Ledgered, Remote
  <1>9. ASSUME NEW d \in Asks PROVE CallInv(d)'
    <2>1. CallInv(d) /\ OnlyItsMedia(d)' /\ InOrder(d)'
      BY <1>u, Constants DEF AiInv, CallInv, OnlyItsMedia, InOrder
    <2>2. UnsentRow(d)' /\ RepeatSafe(d)' /\ Believed(d)' /\ result'[d] # "part"
      BY <1>u, <2>1, Constants
      DEF Ledgered, Remote, CallInv, UnsentRow, RepeatSafe, Believed, Ongoing
    <2> QED BY <2>1, <2>2 DEF CallInv
  <1> QED BY <1>1, <1>2, <1>3, <1>4, <1>5, <1>6, <1>7, <1>8, <1>9 DEF AiInv

LEMMA CrashCoreInv == ASSUME AiInv, CrashCore PROVE AiInv'
  <1>u. UNCHANGED << turn, step, code, guard, entry, result, denied, done, spoken, speech,
                    outcome, taken, stopped, runtime, media, want, frozen>>
    BY DEF CrashCore
  <1>1. AiTypes'
    BY <1>u, Constants DEF CrashCore, AiInv, AiTypes, HelperSteps
  <1>2. TurnInv'
    BY <1>u, Constants DEF CrashCore, AiInv, AiTypes, TurnInv
  <1>3. GuardInv'
    BY <1>u, Constants DEF CrashCore, AiInv, GuardInv, HelperInv, SentInv, Ledgered, Remote
  <1>4. HelperInv'
    BY <1>u, Constants DEF CrashCore, AiInv, HelperInv, SentInv, Living, BeforeHelper
  <1>5. SentInv'
    BY <1>u, Constants
    DEF CrashCore, Ongoing, AiInv, AiTypes, TurnInv, GuardInv, HelperInv, SentInv, ToldInv,
        ByInv, Ledgered, Remote, Living, BeforeHelper, AfterHelper, BridgeSteps, TellMore,
        Batched, Ends, LastOf, AllSent
  <1>6. ToldInv'
    BY <1>u, Constants DEF CrashCore, AiInv, ToldInv, ByInv, Ledgered, Remote
  <1>7. ByInv'
    BY <1>u, Constants DEF AiInv, ByInv
  <1>8. VerdictInv'
    BY <1>u, Constants DEF AiInv, VerdictInv, Ledgered, Remote
  <1>9. ASSUME NEW d \in Asks PROVE CallInv(d)'
    <2>1. CallInv(d) /\ OnlyItsMedia(d)' /\ InOrder(d)'
      BY <1>u, Constants DEF AiInv, CallInv, OnlyItsMedia, InOrder
    <2>2. UnsentRow(d)' /\ RepeatSafe(d)' /\ Believed(d)' /\ result'[d] # "part"
      BY <1>u, <2>1, Constants
      DEF CrashCore, Ongoing, Ledgered, Remote, worldVars, CallInv, UnsentRow, RepeatSafe,
          Believed
    <2> QED BY <2>1, <2>2 DEF CallInv
  <1> QED BY <1>1, <1>2, <1>3, <1>4, <1>5, <1>6, <1>7, <1>8, <1>9 DEF AiInv

LEMMA RecoverEntriesInv == ASSUME AiInv, RecoverEntries PROVE AiInv'
  <1>u. UNCHANGED << ask, turn, step, code, guard, result, denied, helper, done, spoken,
                    speech, outcome, taken, stopped, runtime, media, want, frozen>>
    BY DEF RecoverEntries, helperVars
  <1>1. AiTypes'
    BY <1>u, Constants DEF RecoverEntries, AiInv, AiTypes
  <1>2. TurnInv'
    BY <1>u, Constants DEF RecoverEntries, AiInv, TurnInv
  <1>3. GuardInv'
    BY <1>u, Constants DEF RecoverEntries, AiInv, AiTypes, GuardInv, Ledgered, Remote
  <1>4. HelperInv'
    BY <1>u, Constants DEF AiInv, HelperInv, Living
  <1>5. SentInv'
    BY <1>u, Constants
    DEF RecoverEntries, AiInv, SentInv, ToldInv, Pass, Ledgered, Remote, Living, Batched, Ends,
        LastOf
  <1>6. ToldInv'
    BY <1>u, Constants DEF AiInv, ToldInv, Remote, Living
  <1>7. ByInv'
    BY <1>u, Constants DEF AiInv, ByInv
  <1>8. VerdictInv'
    BY <1>u, Constants DEF AiInv, VerdictInv, Ledgered, Remote
  <1>9. ASSUME NEW d \in Asks PROVE CallInv(d)'
    <2>1. CallInv(d) /\ OnlyItsMedia(d)' /\ InOrder(d)'
      BY <1>u, Constants DEF AiInv, CallInv, OnlyItsMedia, InOrder
    <2>2. UnsentRow(d)' /\ RepeatSafe(d)' /\ Believed(d)' /\ result'[d] # "part"
      BY <1>u, <2>1, Constants
      DEF RecoverEntries, AiInv, Pass, Ledgered, Remote, Living, CallInv, UnsentRow,
          RepeatSafe, Believed
    <2> QED BY <2>1, <2>2 DEF CallInv
  <1> QED BY <1>1, <1>2, <1>3, <1>4, <1>5, <1>6, <1>7, <1>8, <1>9 DEF AiInv

LEMMA HelperFailsInv == ASSUME AiInv, HelperFails PROVE AiInv'
  <1>u. UNCHANGED << ask, turn, step, code, guard, entry, result, denied, done, spoken, speech,
                    taken, stopped, runtime, media, core, want, frozen>>
    BY DEF HelperFails, HelperKeeps, coreVars, worldVars
  <1>1. AiTypes'
    BY <1>u, Constants DEF HelperFails, AiInv, AiTypes, HelperSteps, LeaveError, TellMore
  <1>2. TurnInv'
    BY <1>u, Constants DEF AiInv, TurnInv
  <1>3. GuardInv'
    BY <1>u, Constants DEF HelperFails, AiInv, GuardInv, HelperInv, Ledgered, Remote
  <1>4. HelperInv'
    BY <1>u, Constants DEF HelperFails, AiInv, HelperInv, LeaveError
  <1>5. SentInv'
    <2>1. helper' = "exited" /\ outcome' # "ok"
      BY DEF HelperFails, LeaveError, Nothing
    <2> QED BY <1>u, <2>1 DEF AiInv, SentInv, Ledgered, Remote, Batched
  <1>6. ToldInv'
    BY <1>u, Constants DEF HelperFails, ToldInv, LeaveError, TellMore
  <1>7. ByInv'
    BY <1>u, Constants DEF AiInv, ByInv
  <1>8. VerdictInv'
    BY <1>u, Constants DEF HelperFails, AiInv, HelperInv, VerdictInv
  <1>9. ASSUME NEW d \in Asks PROVE CallInv(d)'
    <2>1. CallInv(d) /\ OnlyItsMedia(d)' /\ InOrder(d)'
      BY <1>u, Constants DEF AiInv, CallInv, OnlyItsMedia, InOrder
    <2>2. UnsentRow(d)' /\ RepeatSafe(d)' /\ Believed(d)' /\ result'[d] # "part"
      BY <1>u, <2>1, Constants
      DEF Ledgered, Remote, CallInv, UnsentRow, RepeatSafe, Believed, Ongoing
    <2> QED BY <2>1, <2>2 DEF CallInv
  <1> QED BY <1>1, <1>2, <1>3, <1>4, <1>5, <1>6, <1>7, <1>8, <1>9 DEF AiInv

LEMMA ReceiveRequestInv == ASSUME AiInv, ReceiveRequest PROVE AiInv'
  <1>u. UNCHANGED << ask, turn, step, code, guard, entry, result, denied, done, speech,
                    outcome, taken, stopped, runtime, media, core, want, frozen>>
    BY DEF ReceiveRequest, HelperKeeps, coreVars, worldVars
  <1>1. AiTypes'
    BY <1>u, Constants DEF ReceiveRequest, AiInv, AiTypes, HelperSteps, LeaveError, TellMore
  <1>2. TurnInv'
    BY <1>u, Constants DEF AiInv, TurnInv
  <1>3. GuardInv'
    BY <1>u, Constants DEF ReceiveRequest, AiInv, GuardInv, Ledgered, Remote
  <1>4. HelperInv'
    BY <1>u, Constants DEF ReceiveRequest, AiInv, HelperInv, Living
  <1>5. SentInv'
    BY <1>u, Constants DEF ReceiveRequest, AiInv, HelperInv, SentInv
  <1>6. ToldInv'
    BY <1>u, Constants
    DEF ReceiveRequest, AiInv, HelperInv, SentInv, ToldInv, LeaveError, TellMore, Bucket
  <1>7. ByInv'
    BY <1>u, Constants DEF AiInv, ByInv
  <1>8. VerdictInv'
    BY <1>u, Constants DEF ReceiveRequest, AiInv, HelperInv, VerdictInv
  <1>9. ASSUME NEW d \in Asks PROVE CallInv(d)'
    <2>1. CallInv(d) /\ OnlyItsMedia(d)' /\ InOrder(d)'
      BY <1>u, Constants DEF AiInv, CallInv, OnlyItsMedia, InOrder
    <2>2. UnsentRow(d)' /\ RepeatSafe(d)' /\ Believed(d)' /\ result'[d] # "part"
      BY <1>u, <2>1, Constants
      DEF Ledgered, Remote, CallInv, UnsentRow, RepeatSafe, Believed, Ongoing
    <2> QED BY <2>1, <2>2 DEF CallInv
  <1> QED BY <1>1, <1>2, <1>3, <1>4, <1>5, <1>6, <1>7, <1>8, <1>9 DEF AiInv

LEMMA ComputeLocallyInv == ASSUME AiInv, ComputeLocally PROVE AiInv'
  <1>u. UNCHANGED << ask, turn, step, code, guard, entry, result, denied, done, spoken,
                    outcome, taken, stopped, runtime, media, core, want, frozen>>
    BY DEF ComputeLocally, HelperKeeps, coreVars, worldVars
  <1>1. AiTypes'
    BY <1>u, Constants DEF ComputeLocally, AiInv, AiTypes, HelperSteps
  <1>2. TurnInv'
    BY <1>u, Constants DEF AiInv, TurnInv
  <1>3. GuardInv'
    BY <1>u, Constants DEF ComputeLocally, AiInv, GuardInv, Ledgered, Remote
  <1>4. HelperInv'
    BY <1>u, Constants DEF ComputeLocally, AiInv, HelperInv, Living
  <1>5. SentInv'
    BY <1>u, Constants
    DEF ComputeLocally, AiInv, HelperInv, SentInv, ToldInv, Pass, Ledgered, Remote, Living
  <1>6. ToldInv'
    <2>1. turn \in Asks /\ helper = "calling" /\ turn # Nobody
      BY DEF ComputeLocally, AiInv, AiTypes, TurnInv, HelperInv
    <2>2. ~Remote(turn) \/ done = 0
      BY <2>1 DEF ComputeLocally, AiInv, SentInv, Batched
    <2>3. Remote(turn) => spoken <= 2
      BY <2>1, <2>2, NoBucket DEF AiInv, ToldInv, AiTypes
    <2>4. helper' \in {"writing", "ending"} /\ spoken \in Nat
      BY DEF ComputeLocally, AiInv, AiTypes
    <2> QED BY <1>u, <2>3, <2>4, Constants DEF ToldInv, Remote
  <1>7. ByInv'
    BY <1>u, Constants DEF AiInv, ByInv
  <1>8. VerdictInv'
    BY <1>u, Constants DEF ComputeLocally, AiInv, HelperInv, VerdictInv
  <1>9. ASSUME NEW d \in Asks PROVE CallInv(d)'
    <2>1. CallInv(d) /\ OnlyItsMedia(d)' /\ InOrder(d)'
      BY <1>u, Constants DEF AiInv, CallInv, OnlyItsMedia, InOrder
    <2>2. UnsentRow(d)' /\ RepeatSafe(d)' /\ Believed(d)' /\ result'[d] # "part"
      BY <1>u, <2>1, Constants
      DEF Ledgered, Remote, CallInv, UnsentRow, RepeatSafe, Believed, Ongoing
    <2> QED BY <2>1, <2>2 DEF CallInv
  <1> QED BY <1>1, <1>2, <1>3, <1>4, <1>5, <1>6, <1>7, <1>8, <1>9 DEF AiInv

LEMMA WriteSpeechInv == ASSUME AiInv, WriteSpeech PROVE AiInv'
  <1>u. UNCHANGED << ask, turn, step, code, guard, entry, result, denied, done, outcome, taken,
                    stopped, runtime, media, core, want, frozen>>
    BY DEF WriteSpeech, HelperKeeps, coreVars, worldVars
  <1>1. AiTypes'
    BY <1>u, Constants DEF WriteSpeech, AiInv, AiTypes, HelperSteps, LeaveError, TellMore
  <1>2. TurnInv'
    BY <1>u, Constants DEF AiInv, TurnInv
  <1>3. GuardInv'
    BY <1>u, Constants DEF WriteSpeech, AiInv, GuardInv, Ledgered, Remote
  <1>4. HelperInv'
    BY <1>u, Constants DEF WriteSpeech, AiInv, HelperInv, Living
  <1>5. SentInv'
    BY <1>u, Constants
    DEF WriteSpeech, AiInv, SentInv, ToldInv, Pass, Ledgered, Remote, Living, Batched, Ends
  <1>6. ToldInv'
    BY <1>u, Constants
    DEF WriteSpeech, AiInv, AiTypes, TurnInv, SentInv, ToldInv, Remote, Living, LeaveError,
        TellMore
  <1>7. ByInv'
    BY <1>u, Constants DEF AiInv, ByInv
  <1>8. VerdictInv'
    BY <1>u, Constants DEF WriteSpeech, AiInv, HelperInv, VerdictInv
  <1>9. ASSUME NEW d \in Asks PROVE CallInv(d)'
    <2>1. CallInv(d) /\ OnlyItsMedia(d)' /\ InOrder(d)'
      BY <1>u, Constants DEF AiInv, CallInv, OnlyItsMedia, InOrder
    <2>2. UnsentRow(d)' /\ RepeatSafe(d)' /\ Believed(d)' /\ result'[d] # "part"
      BY <1>u, <2>1, Constants
      DEF Ledgered, Remote, CallInv, UnsentRow, RepeatSafe, Believed, Ongoing
    <2> QED BY <2>1, <2>2 DEF CallInv
  <1> QED BY <1>1, <1>2, <1>3, <1>4, <1>5, <1>6, <1>7, <1>8, <1>9 DEF AiInv

LEMMA FinishHelperInv == ASSUME AiInv, FinishHelper PROVE AiInv'
  <1>u. UNCHANGED << ask, turn, step, code, guard, entry, result, denied, done, speech, taken,
                    stopped, runtime, media, core, want, frozen>>
    BY DEF FinishHelper, HelperKeeps, coreVars, worldVars
  <1>1. AiTypes'
    BY <1>u, Constants DEF FinishHelper, AiInv, AiTypes, HelperSteps, LeaveError, TellMore
  <1>2. TurnInv'
    BY <1>u, Constants DEF AiInv, TurnInv
  <1>3. GuardInv'
    BY <1>u, Constants DEF FinishHelper, AiInv, GuardInv, Ledgered, Remote
  <1>4. HelperInv'
    BY <1>u, Constants DEF FinishHelper, AiInv, HelperInv, Living
  <1>5. SentInv'
    BY <1>u, Constants
    DEF FinishHelper, AiInv, SentInv, ToldInv, Pass, Ledgered, Remote, Living, Batched, Ends
  <1>6. ToldInv'
    BY <1>u, Constants DEF FinishHelper, ToldInv
  <1>7. ByInv'
    BY <1>u, Constants DEF AiInv, ByInv
  <1>8. VerdictInv'
    BY <1>u, Constants DEF FinishHelper, AiInv, HelperInv, VerdictInv
  <1>9. ASSUME NEW d \in Asks PROVE CallInv(d)'
    <2>1. CallInv(d) /\ OnlyItsMedia(d)' /\ InOrder(d)'
      BY <1>u, Constants DEF AiInv, CallInv, OnlyItsMedia, InOrder
    <2>2. UnsentRow(d)' /\ RepeatSafe(d)' /\ Believed(d)' /\ result'[d] # "part"
      BY <1>u, <2>1, Constants
      DEF Ledgered, Remote, CallInv, UnsentRow, RepeatSafe, Believed, Ongoing
    <2> QED BY <2>1, <2>2 DEF CallInv
  <1> QED BY <1>1, <1>2, <1>3, <1>4, <1>5, <1>6, <1>7, <1>8, <1>9 DEF AiInv

LEMMA WholeLast ==
    ASSUME NEW c, NEW first, ~Batched(c)
    PROVE  LastOf(c, first) = NumLines
  <1>1. Ends(c, first) = {NumLines}
    BY DEF Ends
  <1>2. NumLines <= NumLines
    BY Constants
  <1> QED BY <1>1, <1>2 DEF LastOf

LEMMA SendAwayInv == ASSUME AiInv, SendAway PROVE AiInv'
  <1> DEFINE s == taken[turn]
             r == [content |-> frozen, first |-> done + 1,
                   last |-> LastOf(turn, done + 1), by |-> runtime]
  <1>u. /\ UNCHANGED <<ask, turn, step, code, guard, entry, result, denied>>
        /\ UNCHANGED << done, spoken, speech, outcome, stopped, runtime, media, core, want,
                       frozen>>
        /\ helper' = "waiting" /\ helper = "calling" /\ Remote(turn)
        /\ Ends(turn, done + 1) # {}
    BY DEF SendAway, HelperKeeps, coreVars, worldVars
  <1>a. /\ turn \in Asks /\ turn # Nobody /\ step = "running" /\ code = "none"
        /\ ask[turn] \in {"in", "lost"}
    BY <1>u DEF AiInv, AiTypes, TurnInv, HelperInv, Living
  <1>b. /\ done \in 0..NumLines /\ done < NumLines /\ frozen = want[turn].digest
        /\ s = <<>> => done = 0
        /\ s # <<>> => s[Len(s)].last = done
        /\ ~Ledgered(turn) => s = <<>>
    BY <1>u, <1>a DEF AiInv, SentInv, AiTypes
  <1>c. LastOf(turn, done + 1) \in (done + 1)..NumLines
    BY <1>a, <1>b, <1>u, LastLine, Constants
  <1>d. /\ taken \in [Asks -> Seq(Request)] /\ s \in Seq(Request)
        /\ frozen \in Digests /\ runtime \in {"approved", "changed"}
    BY <1>a DEF AiInv, AiTypes
  <1>e. r \in Request
    BY <1>b, <1>c, <1>d, Constants DEF Request
  <1>f. /\ r.content = frozen /\ r.first = done + 1 /\ r.last = LastOf(turn, done + 1)
        /\ r.by = runtime
    OBVIOUS
  <1>g. \/ taken' = taken /\ ~Ledgered(turn)
        \/ taken' = [taken EXCEPT ![turn] = Append(s, r)] /\ Ledgered(turn)
    BY <1>u DEF SendAway, Ledgered
  <1> HIDE DEF s, r
  <1>h. /\ Append(s, r) \in Seq(Request) /\ Len(Append(s, r)) = Len(s) + 1 /\ Len(s) \in Nat
        /\ Append(s, r) # <<>> /\ Append(s, r)[Len(s) + 1] = r
        /\ \A n \in 1..Len(s) : Append(s, r)[n] = s[n]
        /\ DOMAIN Append(s, r) = 1..(Len(s) + 1) /\ DOMAIN s = 1..Len(s)
    BY <1>d, <1>e
  <1>i. /\ taken' \in [Asks -> Seq(Request)]
        /\ \A c \in Asks : c # turn => taken'[c] = taken[c]
        /\ Ledgered(turn) => taken'[turn] = Append(s, r)
        /\ ~Ledgered(turn) => taken'[turn] = s
    BY <1>a, <1>d, <1>g, <1>h DEF s
  <1>1. AiTypes'
    BY <1>u, <1>i DEF AiInv, AiTypes, HelperSteps
  <1>2. TurnInv'
    BY <1>u, <1>a, <1>i DEF AiInv, TurnInv
  <1>3. GuardInv'
    BY <1>u DEF AiInv, GuardInv, Ledgered, Remote
  <1>4. HelperInv'
    BY <1>u, <1>a DEF AiInv, HelperInv
  <1>5. SentInv'
    <2>1. /\ Ledgered(turn)' = Ledgered(turn) /\ Batched(turn)' = Batched(turn)
          /\ Ends(turn, done + 1)' = Ends(turn, done + 1) /\ Remote(turn)' = Remote(turn)
          /\ LastOf(turn, done + 1)' = LastOf(turn, done + 1)
      BY <1>u DEF Ledgered, Remote, Batched, Ends, LastOf
    <2>2. Ledgered(turn) => /\ taken'[turn] # <<>>
                            /\ taken'[turn][Len(taken'[turn])].last = LastOf(turn, done + 1)
      BY <1>f, <1>h, <1>i
    <2>3. ~Ledgered(turn) => taken'[turn] = <<>>
      BY <1>b, <1>i
    <2>4. outcome # "ok" /\ (~Batched(turn) => done = 0)
      BY <1>u, <1>a DEF AiInv, HelperInv, SentInv
    <2>5. turn' = turn /\ done' = done /\ helper' = "waiting" /\ outcome' = outcome
      BY <1>u
    <2> QED BY <1>u, <1>b, <2>1, <2>2, <2>3, <2>4, <2>5 DEF SentInv
  <1>6. ToldInv'
    BY <1>u DEF AiInv, ToldInv, Remote, Bucket
  <1>7. ByInv'
    <2>1. ASSUME runtime' = "approved", NEW c \in Asks, NEW n \in DOMAIN taken'[c]
          PROVE  taken'[c][n].by = "approved"
      <3>1. \A m \in DOMAIN taken[c] : taken[c][m].by = "approved"
        BY <1>u, <2>1 DEF AiInv, ByInv
      <3>2. CASE c = turn /\ Ledgered(turn)
        <4>1. CASE n = Len(s) + 1
          BY <1>u, <1>f, <1>h, <1>i, <2>1, <3>2, <4>1
        <4>2. CASE n # Len(s) + 1
          <5>1. n \in 1..Len(s)
            BY <1>h, <1>i, <2>1, <3>2, <4>2
          <5> QED BY <1>h, <1>i, <3>1, <3>2, <5>1 DEF s
        <4> QED BY <4>1, <4>2
      <3>3. CASE ~(c = turn /\ Ledgered(turn))
        BY <1>i, <2>1, <3>1, <3>3 DEF s
      <3> QED BY <3>2, <3>3
    <2> QED BY <2>1 DEF ByInv
  <1>8. VerdictInv'
    BY <1>u, <1>a DEF VerdictInv
  <1>9. ASSUME NEW d \in Asks PROVE CallInv(d)'
    <2>0. CallInv(d)
      BY DEF AiInv
    <2>1. CASE d # turn \/ ~Ledgered(turn)
      <3>1. taken'[d] = taken[d]
        BY <1>i, <2>1 DEF s
      <3> QED BY <1>u, <2>0, <3>1
              DEF CallInv, UnsentRow, RepeatSafe, OnlyItsMedia, InOrder, Believed, Ledgered, Remote
    <2>2. CASE d = turn /\ Ledgered(turn)
      <3>0. taken'[d] = Append(s, r) /\ taken[d] = s
        BY <1>i, <2>2 DEF s
      <3>1. UnsentRow(d)'
        <4>1. entry[turn] \in {"dispatched", "responded", "unknown"}
          BY <1>a, <1>u, <2>2 DEF AiInv, GuardInv
        <4> QED BY <1>u, <2>2, <4>1 DEF UnsentRow
      <3>2. RepeatSafe(d)' /\ Believed(d)' /\ result'[d] # "part"
        BY <1>u, <1>a, <2>0, <2>2 DEF RepeatSafe, Believed, CallInv
      <3>3. OnlyItsMedia(d)'
        <4>1. \A n \in 1..Len(s) : s[n].content = want[d].digest
          BY <1>h, <2>0, <3>0 DEF CallInv, OnlyItsMedia
        <4>2. ASSUME NEW n \in 1..(Len(s) + 1)
              PROVE  Append(s, r)[n].content = want[d].digest
          <5>1. CASE n = Len(s) + 1
            BY <1>b, <1>f, <1>h, <2>2, <5>1
          <5>2. CASE n # Len(s) + 1
            BY <1>h, <4>1, <5>2
          <5> QED BY <5>1, <5>2
        <4> QED BY <1>u, <1>h, <3>0, <4>2 DEF OnlyItsMedia
      <3>4. InOrder(d)'
        <4>1. \A n \in 1..Len(s) : s[n].first = IF n = 1 THEN 1 ELSE s[n - 1].last + 1
          BY <1>h, <2>0, <3>0 DEF CallInv, InOrder
        <4>2. ASSUME NEW n \in 1..(Len(s) + 1)
              PROVE  Append(s, r)[n].first = IF n = 1 THEN 1 ELSE Append(s, r)[n - 1].last + 1
          <5>1. CASE n = Len(s) + 1
            <6>1. CASE s = <<>>
              BY <1>b, <1>f, <1>h, <5>1, <6>1
            <6>2. CASE s # <<>>
              <7>1. Len(s) \in 1..Len(s) /\ n - 1 = Len(s) /\ n # 1
                BY <1>d, <1>h, <5>1, <6>2
              <7> QED BY <1>b, <1>f, <1>h, <5>1, <6>2, <7>1
            <6> QED BY <6>1, <6>2
          <5>2. CASE n # Len(s) + 1
            <6>1. n \in 1..Len(s) /\ (n # 1 => n - 1 \in 1..Len(s))
              BY <1>h, <5>2
            <6> QED BY <1>h, <4>1, <6>1
          <5> QED BY <5>1, <5>2
        <4> QED BY <1>h, <3>0, <4>2 DEF InOrder
      <3> QED BY <3>1, <3>2, <3>3, <3>4 DEF CallInv
    <2> QED BY <2>1, <2>2
  <1> QED BY <1>1, <1>2, <1>3, <1>4, <1>5, <1>6, <1>7, <1>8, <1>9 DEF AiInv

LEMMA AnsweredInv == ASSUME AiInv, Answered PROVE AiInv'
  <1> DEFINE last == LastOf(turn, done + 1)
  <1>u. /\ UNCHANGED <<ask, turn, step, code, guard, entry, result, denied, taken>>
        /\ UNCHANGED <<stopped, runtime, media, core, want, frozen>>
        /\ helper = "waiting"
    BY DEF Answered, HelperKeeps, coreVars, worldVars
  <1>a. /\ turn \in Asks /\ turn # Nobody /\ step = "running" /\ code = "none"
        /\ ask[turn] \in {"in", "lost"}
    BY <1>u DEF AiInv, AiTypes, TurnInv, HelperInv, Living
  <1>b. /\ done \in 0..NumLines /\ done < NumLines /\ frozen = want[turn].digest
        /\ Remote(turn) /\ Ends(turn, done + 1) # {}
        /\ Ledgered(turn) => taken[turn] # <<>> /\ taken[turn][Len(taken[turn])].last = last
        /\ ~Ledgered(turn) => taken[turn] = <<>>
        /\ ~Batched(turn) => done = 0
    BY <1>u, <1>a DEF AiInv, SentInv, AiTypes
  <1>c. last \in (done + 1)..NumLines
    BY <1>a, <1>b, <1>u, LastLine, Constants
  <1>d. spoken \in 0..MaxTold /\ spoken <= 2 + Bucket(done)
    BY <1>u, <1>a, <1>b DEF AiInv, AiTypes, ToldInv
  <1>o. outcome # "ok" /\ outcome \in {Nothing, "error", "misaligned", "ok"}
        /\ speech \in {Nothing, "part", "whole"}
    BY <1>u DEF AiInv, HelperInv, AiTypes
  <1> HIDE DEF last
  <1>g. /\ helper' \in {"calling", "writing", "ending"}
        /\ done' \in 0..NumLines /\ spoken' \in 0..MaxTold
        /\ speech' \in {Nothing, "part", "whole"} /\ outcome' \in {Nothing, "error", "misaligned"}
        /\ helper' = "calling" => done' < NumLines /\ Batched(turn) /\ done' = last
        /\ helper' # "calling" /\ Ledgered(turn) => last = NumLines
        /\ ~Batched(turn) => done' = 0
        /\ helper' = "ending" => want[turn].op # "synthesize"
        /\ helper' = "calling" => spoken' <= 2 + Bucket(done')
        /\ helper' = "writing" => spoken' <= 2
        /\ helper' = "ending" => spoken' <= 2 + MaxUpdates
    <2>1. CASE Batched(turn)
      <3>3. want[turn].op = "translate"
        BY <2>1 DEF Batched
      <3>1. /\ done' = last /\ (IF Noted(last) THEN TellMore(1) ELSE UNCHANGED spoken)
            /\ helper' = (IF last = NumLines THEN "ending" ELSE "calling")
            /\ UNCHANGED <<speech, outcome>>
        <4>1. LET L == LastOf(turn, done + 1)
              IN  /\ done' = L
                  /\ IF Noted(L) THEN TellMore(1) ELSE UNCHANGED spoken
                  /\ helper' = IF L = NumLines THEN "ending" ELSE "calling"
                  /\ UNCHANGED <<speech, outcome>>
          BY <2>1, <3>3 DEF Answered
        <4> QED BY <4>1 DEF last
      <3>2. /\ spoken' \in 0..MaxTold
            /\ (spoken' = spoken \/ (spoken' = spoken + 1 /\ Noted(last)))
        <4>1. CASE Noted(last)
          BY <3>1, <4>1, <1>d, Constants DEF TellMore
        <4>2. CASE ~Noted(last)
          <5>1. spoken' = spoken
            BY <3>1, <4>2, Zenon
          <5> QED BY <5>1, <1>d
        <4> QED BY <4>1, <4>2
      <3>4. last # NumLines => spoken' <= 2 + Bucket(last)
        <4>1. last \in 0..NumLines /\ done <= last
          BY <1>b, <1>c, Constants
        <4>2. Bucket(done) \in Nat /\ Bucket(last) \in Nat /\ Bucket(done) <= Bucket(last)
          BY <1>b, <4>1, Buckets
        <4> QED BY <1>d, <3>2, <4>2, Constants DEF Noted
      <3>5. spoken' <= 2 + MaxUpdates
        <4>1. Bucket(done) \in Nat /\ Bucket(done) < MaxUpdates
          BY <1>b, Buckets
        <4> QED BY <1>d, <3>2, <4>1, Constants
      <3> QED BY <1>b, <1>c, <1>o, <2>1, <3>1, <3>2, <3>3, <3>4, <3>5, Constants
    <2>2. CASE ~Batched(turn)
      <3>1. done = 0 /\ spoken <= 2 /\ last = NumLines
        BY <1>b, <1>d, <2>2, NoBucket, WholeLast, Constants DEF last
      <3>2. CASE want[turn].op = "synthesize"
        <4>1. helper' = "writing" /\ speech' = "part" /\ UNCHANGED <<done, spoken, outcome>>
          BY <2>2, <3>2 DEF Answered
        <4> QED BY <1>b, <1>d, <1>o, <2>2, <3>1, <4>1
      <3>3. CASE want[turn].op # "synthesize"
        <4>1. /\ helper' = "ending" /\ UNCHANGED <<done, speech>>
              /\ outcome' \in {Nothing, "misaligned"}
              /\ spoken' = spoken \/ (spoken' = spoken + 1 /\ spoken + 1 <= MaxTold)
          BY <2>2, <3>3 DEF Answered, TellMore
        <4> QED BY <1>b, <1>d, <1>o, <2>2, <3>1, <3>3, <4>1, Constants
      <3> QED BY <3>2, <3>3
    <2> QED BY <2>1, <2>2
  <1>1. AiTypes'
    BY <1>u, <1>g DEF AiInv, AiTypes, HelperSteps
  <1>2. TurnInv'
    BY <1>u DEF AiInv, TurnInv
  <1>3. GuardInv'
    BY <1>u DEF AiInv, GuardInv, Ledgered, Remote
  <1>4. HelperInv'
    BY <1>u, <1>a, <1>g DEF AiInv, HelperInv, Nothing
  <1>5. SentInv'
    <2>1. /\ Ledgered(turn)' = Ledgered(turn) /\ Batched(turn)' = Batched(turn)
      BY <1>u DEF Ledgered, Remote, Batched
    <2>2. outcome' # "ok" /\ helper' # "waiting"
      BY <1>g DEF Nothing
    <2> HIDE DEF last
    <2>3. /\ turn' = turn /\ taken' = taken /\ want' = want /\ frozen' = frozen
      BY <1>u
    <2>4. Batched(turn) => Ledgered(turn)
      BY DEF Batched, Ledgered, Remote
    <2> QED BY <1>b, <1>g, <2>1, <2>2, <2>3, <2>4 DEF SentInv, AllSent
  <1>6. ToldInv'
    <2>1. Bucket(done)' = Bucket(done')
      BY DEF Bucket
    <2> QED BY <1>u, <1>g, <2>1 DEF ToldInv
  <1>7. ByInv'
    BY <1>u DEF AiInv, ByInv
  <1>8. VerdictInv'
    BY <1>u, <1>a DEF VerdictInv
  <1>9. ASSUME NEW d \in Asks PROVE CallInv(d)'
    BY <1>u
    DEF AiInv, CallInv, UnsentRow, RepeatSafe, OnlyItsMedia, InOrder, Believed, Ledgered,
        Remote
  <1> QED BY <1>1, <1>2, <1>3, <1>4, <1>5, <1>6, <1>7, <1>8, <1>9 DEF AiInv

LEMMA AiInitInv == AiInit => AiInv
  <1> SUFFICES ASSUME AiInit PROVE AiInv
    OBVIOUS
  <1>1. AiTypes
    BY Constants
    DEF AiInit, AiTypes, AskRecord, Unwanted, Operation, Kind, Digests, HelperSteps
  <1>2. TurnInv /\ GuardInv /\ HelperInv
    BY DEF AiInit, TurnInv, GuardInv, HelperInv, Living, AfterHelper, Nothing
  <1>3. SentInv /\ ToldInv /\ ByInv /\ VerdictInv
    BY DEF AiInit, SentInv, ToldInv, ByInv, VerdictInv
  <1>4. ASSUME NEW c \in Asks PROVE CallInv(c)
    BY DEF AiInit, CallInv, UnsentRow, RepeatSafe, OnlyItsMedia, InOrder, Believed, Nothing
  <1> QED BY <1>1, <1>2, <1>3, <1>4 DEF AiInv

LEMMA AiStaysInv == AiInv /\ UNCHANGED aiVars => AiInv'
  <1> SUFFICES ASSUME AiInv, UNCHANGED aiVars PROVE AiInv'
    OBVIOUS
  <1>u. UNCHANGED <<ask, turn, step, code, guard, entry, result, denied, helper, done, spoken,
                    speech, outcome, taken, stopped, runtime, media, core, want, frozen>>
    BY DEF aiVars, coreVars, helperVars, worldVars
  <1>1. AiTypes' /\ TurnInv'
    BY <1>u DEF AiInv, AiTypes, TurnInv
  <1>2. GuardInv' /\ HelperInv'
    BY <1>u DEF AiInv, GuardInv, HelperInv, Living, Ledgered, Remote
  <1>3. SentInv' /\ ToldInv'
    BY <1>u DEF AiInv, SentInv, ToldInv, Ledgered, Remote, Batched, Ends, LastOf
  <1>4. ByInv' /\ VerdictInv'
    BY <1>u DEF AiInv, ByInv, VerdictInv, Ledgered, Remote
  <1>5. ASSUME NEW c \in Asks PROVE CallInv(c)'
    BY <1>u
    DEF AiInv, CallInv, UnsentRow, RepeatSafe, OnlyItsMedia, InOrder, Believed, Ledgered,
        Remote
  <1> QED BY <1>1, <1>2, <1>3, <1>4, <1>5 DEF AiInv

LEMMA AiNextInv == AiInv /\ [AiNext]_aiVars => AiInv'
  <1> SUFFICES ASSUME AiInv, [AiNext]_aiVars PROVE AiInv'
    OBVIOUS
  <1>1. CASE \E c \in Asks, op \in Operation, kind \in Kind : AskFor(c, op, kind)
    BY <1>1, AskForInv
  <1>2. CASE CoreStep
    <2>1. CASE \E c \in Asks : TakeTurn(c)
      BY <2>1, TakeTurnInv
    <2>2. CASE FirstGate \/ Identify \/ WriteRequest \/ FinalGate \/ ReserveEntry \/ LastTest
      BY <2>2, FirstGateInv, IdentifyInv, WriteRequestInv, FinalGateInv, ReserveEntryInv,
         LastTestInv
    <2>3. CASE DispatchEntry \/ LaunchHelper \/ Interrupt \/ CheckMedia \/ Recheck \/ ReadReply
      BY <2>3, DispatchEntryInv, LaunchHelperInv, InterruptInv, CheckMediaInv, RecheckInv,
         ReadReplyInv
    <2>4. CASE PublishSpeech \/ RespondEntry \/ CloseEntry \/ CleanUp
      BY <2>4, PublishSpeechInv, RespondEntryInv, CloseEntryInv, CleanUpInv
    <2> QED BY <1>2, <2>1, <2>2, <2>3, <2>4, Zenon DEF CoreStep
  <1>3. CASE HelperStep
    BY <1>3, HelperFailsInv, ReceiveRequestInv, SendAwayInv, AnsweredInv, ComputeLocallyInv,
       WriteSpeechInv, FinishHelperInv, Zenon DEF HelperStep
  <1>4. CASE \E c \in Asks : StopAsk(c)
    BY <1>4, StopAskInv
  <1>5. CASE Replace
    BY <1>5, ReplaceInv
  <1>6. CASE CrashCore
    BY <1>6, CrashCoreInv
  <1>7. CASE RecoverEntries
    BY <1>7, RecoverEntriesInv
  <1>8. CASE AiRests \/ UNCHANGED aiVars
    BY <1>8, AiStaysInv DEF AiRests
  <1> QED
    BY <1>1, <1>2, <1>3, <1>4, <1>5, <1>6, <1>7, <1>8, Zenon DEF AiNext

\* AiInv holds in every reachable state, whenever the core is interrupted, dies
\* or comes back, the model is replaced and the helper fails.
THEOREM AiInvariance == AiSpec => []AiInv
  BY AiInitInv, AiNextInv, PTL DEF AiSpec

LEMMA AiHonest == AiInv => CallsHonest
  <1> SUFFICES ASSUME AiInv PROVE CallsHonest
    OBVIOUS
  <1>1. ProgressFits
    <2>1. ASSUME helper \in {"waiting", "writing", "ending"}, want[turn].kind # "plugin"
          PROVE  spoken < MaxTold
      <3>1. turn # Nobody /\ Remote(turn) /\ spoken \in Nat /\ done \in 0..NumLines
        BY <2>1 DEF AiInv, AiTypes, TurnInv, HelperInv, Remote
      <3>2. Bucket(done) \in Nat /\ Bucket(done) <= MaxUpdates
        <4>1. done <= NumLines /\ NumLines \in 0..NumLines
          BY <3>1, Constants
        <4> QED BY <3>1, <4>1, Buckets
      <3> QED BY <2>1, <3>1, <3>2, Constants DEF AiInv, ToldInv
    <2> QED BY <2>1 DEF ProgressFits
  <1> QED BY <1>1 DEF AiInv, CallInv, CallsHonest

\* A row of the ledger that says nothing was sent is right; a failed or canceled
\* call was not taken, or its row keeps it from being repeated; only the media
\* the call was made for leaves the machine, no cue twice; and a result that is
\* returned is complete and was computed by approved files.
THEOREM AiCallsHonest == AiSpec => []CallsHonest
  BY AiHonest, AiInvariance, PTL
=============================================================================
