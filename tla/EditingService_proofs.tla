------------------------ MODULE EditingService_proofs ------------------------
(***************************************************************************)
(* Theorems about AI tasks, render plans and the editing manager, for      *)
(* every set of managers and owners and every bound.                       *)
(*                                                                         *)
(* First the lease: who works on the root holds it (LeaseInv).  Then the   *)
(* lineages, which EditingService computes by a recursive function: what a *)
(* step may do to them.  Then owners, ledger and worker (EditInv): each    *)
(* step is shown to move every owner and every call as it may (Keeps) and  *)
(* the worker to a position that fits them (AtWork); retries, answers and  *)
(* sent calls follow from that alone (Composed).  Last the files of the    *)
(* root (FileInv), on top of EditInv.                                      *)
(***************************************************************************)
EXTENDS EditingService, FiniteSetTheorems, NaturalsInduction, WellFoundedInduction, TLAPS

WorkerType ==
    /\ DOMAIN worker = Managers
    /\ \A m \in Managers : "pc" \in DOMAIN worker[m]

\* A manager that is not down holds the lease; its worker runs, and its API
\* operations are under way, only while the root is open to it.
LeaseInv ==
    /\ phase \in [Managers -> Phase]
    /\ WorkerType
    /\ \A m \in Managers : phase[m] # "down" => lease = m
    /\ \A m \in Managers : worker[m].pc # "off" => phase[m] \in {"up", "stopping"}
    /\ \A op \in ops : op[1] \in Managers /\ phase[op[1]] \in {"up", "stopping"}

\* What most steps of a worker do: it neither starts nor ends, and nobody
\* else is concerned.
Continues(m) ==
    /\ WorkerType'
    /\ worker[m].pc # "off"
    /\ \A n \in Managers \ {m} : worker'[n] = worker[n]
    /\ UNCHANGED <<phase, lease, ops>>

LEMMA InitLease == Init => LeaseInv
  BY DEF Init, LeaseInv, WorkerType, Off, Phase

LEMMA ContinuesLease ==
  ASSUME NEW m \in Managers, LeaseInv, Continues(m)
  PROVE  LeaseInv'
  BY DEF LeaseInv, Continues, WorkerType

LEMMA ClaimContinues ==
  ASSUME NEW m \in Managers, NEW o \in Owners, LeaseInv, Claim(m, o)
  PROVE  Continues(m)
  BY DEF Claim, At, Idle, Off, LeaseInv, WorkerType, Continues

\* Steps whose next position is written out in the action.
LEMMA PlainContinues ==
  ASSUME NEW m \in Managers, LeaseInv,
         \/ Publish(m) \/ LocalFailure(m) \/ Reserve(m) \/ TestCanceled(m)
         \/ Send(m) \/ LaunchFailure(m) \/ Return(m) \/ CopyCheckpoint(m)
         \/ Render(m) \/ Complete(m) \/ JudgeFailure(m)
  PROVE  Continues(m)
  <1> USE DEF LeaseInv, WorkerType, Continues, RunKeeps, Goto, At
  <1>1. CASE Publish(m)        BY <1>1 DEF Publish
  <1>2. CASE LocalFailure(m)   BY <1>2 DEF LocalFailure
  <1>3. CASE Reserve(m)        BY <1>3 DEF Reserve
  <1>4. CASE TestCanceled(m)   BY <1>4 DEF TestCanceled, Cancelled
  <1>5. CASE Send(m)           BY <1>5 DEF Send
  <1>6. CASE LaunchFailure(m)  BY <1>6 DEF LaunchFailure
  <1>7. CASE Return(m)         BY <1>7 DEF Return
  <1>8. CASE CopyCheckpoint(m) BY <1>8 DEF CopyCheckpoint
  <1>9. CASE Render(m)         BY <1>9 DEF Render
  <1>10. CASE Complete(m)      BY <1>10 DEF Complete
  <1>11. CASE JudgeFailure(m)  BY <1>11 DEF JudgeFailure, Cancelled
  <1> QED BY <1>1, <1>2, <1>3, <1>4, <1>5, <1>6, <1>7, <1>8, <1>9, <1>10, <1>11

\* The ledger transitions, which share one shape.
LEMMA TransitionContinues ==
  ASSUME NEW m \in Managers, LeaseInv,
         Release(m) \/ Dispatch(m) \/ Respond(m) \/ MarkUnknown(m)
  PROVE  Continues(m)
  BY DEF Release, Dispatch, Respond, MarkUnknown, Transition, LeaseInv,
         WorkerType, Continues, RunKeeps, Goto, At

\* Steps that go on to the next cue.
LEMMA CueContinues ==
  ASSUME NEW m \in Managers, LeaseInv,
         CheckCanceled(m) \/ LoadCheckpoint(m) \/ RecordCheckpoint(m)
  PROVE  Continues(m)
  <1> USE DEF LeaseInv, WorkerType, Continues, RunKeeps, Goto, At
  <1>1. \A o, c : NextCall(o, c) \in {"complete", "render", "reserve", "load"}
    BY DEF NextCall, AfterCues
  <1>2. CASE CheckCanceled(m)    BY <1>1, <1>2 DEF CheckCanceled
  <1>3. CASE LoadCheckpoint(m)   BY <1>1, <1>3 DEF LoadCheckpoint
  <1>4. CASE RecordCheckpoint(m) BY <1>1, <1>4 DEF RecordCheckpoint
  <1> QED BY <1>2, <1>3, <1>4

\* Steps that may end the work on an owner.
LEMMA EndingContinues ==
  ASSUME NEW m \in Managers, LeaseInv,
         CommitTask(m) \/ CommitPlan(m) \/ Clean(m) \/ FailOwner(m) \/ CancelOwner(m)
  PROVE  Continues(m)
  <1> USE DEF LeaseInv, WorkerType, Continues, RunKeeps, Goto, At,
              Free, Idle, Off
  <1>1. CASE CommitTask(m)  BY <1>1 DEF CommitTask
  <1>2. CASE CommitPlan(m)  BY <1>2 DEF CommitPlan
  <1>3. CASE Clean(m)       BY <1>3 DEF Clean
  <1>4. CASE FailOwner(m)   BY <1>4 DEF FailOwner
  <1>5. CASE CancelOwner(m) BY <1>5 DEF CancelOwner
  <1> QED BY <1>1, <1>2, <1>3, <1>4, <1>5

LEMMA WorkerLease ==
  ASSUME NEW m \in Managers, LeaseInv, WorkerStep(m)
  PROVE  LeaseInv'
  <1>1. CASE WorkerExit(m)
    BY <1>1 DEF WorkerExit, LeaseInv, WorkerType, Off, At
  <1>2. CASE ~WorkerExit(m)
    <2>1. Continues(m)
      BY <1>2, ClaimContinues, PlainContinues, TransitionContinues, CueContinues,
         EndingContinues DEF WorkerStep
    <2> QED BY <2>1, ContinuesLease
  <1> QED BY <1>1, <1>2

\* An API operation starts only while the root is open, and leaves at most an
\* entry of its own manager.
LEMMA ApiLease ==
  ASSUME NEW m \in Managers, LeaseInv, ApiBegin(m) \/ ApiEnd(m)
  PROVE  LeaseInv'
  <1> USE DEF LeaseInv, WorkerType
  <1> DEFINE Quiet == UNCHANGED <<lease, phase, worker>>
  <1>1. ASSUME Quiet, ops' \subseteq ops PROVE LeaseInv'
    BY <1>1
  <1>2. ASSUME Quiet, Serving(m), NEW kind, NEW o, ops' = ops \cup {<<m, kind, o>>}
        PROVE LeaseInv'
    BY <1>2 DEF Serving
  <1>3. ASSUME NEW o \in Owners, NEW remote, CreateOwner(m, o, remote) PROVE LeaseInv'
    BY <1>1, <1>3 DEF CreateOwner, ApiKeeps
  <1>4. ASSUME NEW o \in Owners, ConfirmTask(m, o) PROVE LeaseInv'
    BY <1>1, <1>4 DEF ConfirmTask, ApiKeeps
  <1>5. ASSUME NEW o \in Owners, ConfirmPlanCheck(m, o) PROVE LeaseInv'
    BY <1>2, <1>5 DEF ConfirmPlanCheck, ApiKeeps
  <1>6. ASSUME NEW o \in Owners, Cancel(m, o) PROVE LeaseInv'
    BY <1>2, <1>6 DEF Cancel, ApiKeeps
  <1>7. ASSUME NEW o \in Owners, NEW new \in Owners, Retry(m, o, new) PROVE LeaseInv'
    BY <1>1, <1>7 DEF Retry, ApiKeeps
  <1>8. ASSUME NEW o \in Owners, NEW c, NEW r, ReconcileLedger(m, o, c, r) PROVE LeaseInv'
    BY <1>2, <1>8 DEF ReconcileLedger
  <1>9. ASSUME NEW t, NEW d, ReviewTimeline(m, t, d) PROVE LeaseInv'
    BY <1>1, <1>9 DEF ReviewTimeline, ApiKeeps
  <1>10. ASSUME NEW o \in Owners, ConfirmPlanQueue(m, o) PROVE LeaseInv'
    BY <1>1, <1>10 DEF ConfirmPlanQueue, ApiKeeps
  <1>11. ASSUME NEW o \in Owners, SignalCancel(m, o) PROVE LeaseInv'
    BY <1>11 DEF SignalCancel, Published
  <1>12. ASSUME NEW o \in Owners, ReconcileOwner(m, o) PROVE LeaseInv'
    BY <1>1, <1>12 DEF ReconcileOwner, ApiKeeps
  <1> QED
    BY <1>3, <1>4, <1>5, <1>6, <1>7, <1>8, <1>9, <1>10, <1>11, <1>12
    DEF ApiBegin, ApiEnd

\* Opening needs a free lease, and a free lease means that every manager is down.
LEMMA ManagerLease ==
  ASSUME NEW m \in Managers, LeaseInv,
         Recover(m) \/ Stop(m) \/ ReleaseLease(m) \/ Crash(m)
  PROVE  LeaseInv'
  <1> USE EditingAssumption DEF LeaseInv, WorkerType, Phase, Enter, dbVars, None
  <1>1. CASE Open(m)          BY <1>1 DEF Open
  <1>2. CASE RecoverLedger(m) BY <1>2 DEF RecoverLedger
  <1>3. CASE RecoverOwners(m) BY <1>3 DEF RecoverOwners
  <1>4. CASE RecoverFiles(m)  BY <1>4 DEF RecoverFiles, Idle, Off
  <1>5. CASE Stop(m)          BY <1>5 DEF Stop, Published
  <1>6. CASE ReleaseLease(m)  BY <1>6 DEF ReleaseLease, Quiescent, At
  <1>7. CASE Crash(m)         BY <1>7 DEF Crash, Off
  <1> QED BY <1>1, <1>2, <1>3, <1>4, <1>5, <1>6, <1>7 DEF Recover

\* The invariant of the editing manager: in every reachable state a manager that
\* is not down holds the lease of the root (EditingManager.get, stop,
\* _take_quiescent_lease_locked).
THEOREM LeaseInvariance == Spec => []LeaseInv
  <1>1. LeaseInv /\ [Next]_vars => LeaseInv'
    <2> SUFFICES ASSUME LeaseInv, [Next]_vars PROVE LeaseInv'
      OBVIOUS
    <2>1. CASE Next
      BY <2>1, WorkerLease, ApiLease, ManagerLease DEF Next
    <2>2. CASE UNCHANGED vars
      BY <2>2 DEF vars, runVars, LeaseInv, WorkerType
    <2> QED BY <2>1, <2>2
  <1> QED BY InitLease, <1>1, PTL DEF Spec

\* Whoever still works on the root, in a worker thread or in an API operation
\* that outlived stop's timeout, holds the lease: no other manager can
\* recover the root under it.
THEOREM WorkHoldsLease == Spec => []LeaseHeld
  <1>1. LeaseInv => LeaseHeld
    BY DEF LeaseInv, LeaseHeld, At
  <1> QED BY <1>1, LeaseInvariance, PTL

\* Two managers never have the root open or under recovery at once.
THEOREM OneManager ==
  Spec => [](\A m, n \in Managers : phase[m] # "down" /\ phase[n] # "down" => m = n)
  <1>1. LeaseInv =>
          \A m, n \in Managers : phase[m] # "down" /\ phase[n] # "down" => m = n
    BY DEF LeaseInv
  <1> QED BY <1>1, LeaseInvariance, PTL

-----------------------------------------------------------------------------
(***************************************************************************)
(* Lineages                                                                *)
(***************************************************************************)
LEMMA LeastNumber ==
  ASSUME NEW T \in SUBSET Nat, T # {}
  PROVE  \E x \in T : \A y \in T : x <= y
  <1> DEFINE R == {ss \in Nat \X Nat : ss[1] < ss[2]}
  <1>1. IsWellFoundedOn(R, Nat)
    BY NatLessThanWellFounded DEF OpToRel
  <1>2. \E x \in T : \A y \in T : <<y, x>> \notin R
    <2> HIDE DEF R
    <2> QED BY <1>1, WFMin
  <1>3. \A x, y \in T : <<y, x>> \notin R => x <= y
    OBVIOUS
  <1> QED BY <1>2, <1>3

\* Induction up to N, over a set.
LEMMA Climb ==
  ASSUME NEW N \in Nat, NEW T, 0 \in T, \A n \in 1..N : n - 1 \in T => n \in T
  PROVE  0..N \subseteq T
  <1> DEFINE R == (0..N) \ T
  <1> SUFFICES ASSUME R # {} PROVE FALSE
    OBVIOUS
  <1>1. R \in SUBSET Nat
    OBVIOUS
  <1>2. PICK m \in R : \A k \in R : m <= k
    <2> HIDE DEF R
    <2> QED BY <1>1, LeastNumber
  <1>3. m \in 1..N
    BY <1>2
  <1>4. m - 1 \in 0..N /\ m - 1 \notin R
    BY <1>2, <1>3
  <1> QED BY <1>2, <1>3, <1>4

\* Ancestry, of a table of owners.
Parents(own, S) == {own[a].retryOf : a \in S} \ {None}

Climbed(own, o, N, up) ==
    [n \in 0..N |-> IF n = 0 THEN {o}
                    ELSE up[n - 1] \cup ({own[a].retryOf : a \in up[n - 1]} \ {None})]

Levels(own, o, N) == CHOOSE up : up = Climbed(own, o, N, up)

Depth == Cardinality(Owners)

Line(own, o) == Levels(own, o, Depth)[Depth]

LEMMA AncestryIs == \A o : Ancestry(o) = Line(owner, o) /\ Ancestry(o)' = Line(owner', o)
  BY DEF Ancestry, Line, Levels, Climbed, Depth

LEMMA DepthType == Depth \in Nat
  BY EditingAssumption, FS_CardinalityType DEF Depth, Owners

LEMMA ClimbedAre ==
  ASSUME NEW own, NEW o, NEW N \in Nat, NEW up
  PROVE  Climbed(own, o, N, up) =
             [n \in 0..N |-> IF n = 0 THEN {o} ELSE up[n - 1] \cup Parents(own, up[n - 1])]
  BY DEF Climbed, Parents

\* The recursion of Ancestry has a solution.
LEMMA LevelsExist ==
  ASSUME NEW own, NEW o, NEW N \in Nat
  PROVE  \E up : up = Climbed(own, o, N, up)
  <1> DEFINE Is(up, k) == up = [n \in 0..k |-> IF n = 0 THEN {o}
                                               ELSE up[n - 1] \cup Parents(own, up[n - 1])]
             T == {k \in Nat : \E up : Is(up, k)}
  <1>1. 0 \in T
    <2>1. Is([n \in 0..0 |-> {o}], 0)
      OBVIOUS
    <2> QED BY <2>1
  <1>2. ASSUME NEW k \in 1..N, k - 1 \in T PROVE k \in T
    <2>1. PICK g : Is(g, k - 1)
      BY <1>2
    <2> DEFINE f == [n \in 0..k |-> IF n = k THEN g[k - 1] \cup Parents(own, g[k - 1]) ELSE g[n]]
    <2> HIDE DEF Parents
    <2>2. \A n \in 0..k : f[n] = IF n = 0 THEN {o} ELSE f[n - 1] \cup Parents(own, f[n - 1])
      <3> TAKE n \in 0..k
      <3>1. CASE n = k
        BY <1>2, <3>1
      <3>2. CASE n # k
        <4>1. n \in 0..(k - 1) /\ n - 1 # k
          BY <3>2
        <4>2. g[n] = IF n = 0 THEN {o} ELSE g[n - 1] \cup Parents(own, g[n - 1])
          BY <2>1, <4>1
        <4>3. n # 0 => f[n - 1] = g[n - 1]
          BY <4>1
        <4> QED BY <3>2, <4>2, <4>3
      <3> QED BY <3>1, <3>2
    <2>3. Is(f, k)
      BY <2>2
    <2> HIDE DEF f, Is
    <2>4. \E up : Is(up, k)
      BY <2>3
    <2> QED BY <2>4
  <1>3. N \in T
    <2> HIDE DEF T
    <2>1. 0..N \subseteq T
      BY <1>1, <1>2, Climb
    <2> QED BY <2>1
  <1>4. PICK up : Is(up, N)
    BY <1>3
  <1>5. up = Climbed(own, o, N, up)
    <2> DEFINE R == [n \in 0..N |-> IF n = 0 THEN {o} ELSE up[n - 1] \cup Parents(own, up[n - 1])]
    <2>1. up = R
      BY <1>4
    <2>2. Climbed(own, o, N, up) = R
      BY ClimbedAre
    <2> HIDE DEF R
    <2> QED BY <2>1, <2>2
  <1> QED BY <1>5

LEMMA LevelsAre ==
  ASSUME NEW own, NEW o, NEW N \in Nat
  PROVE  /\ Levels(own, o, N)[0] = {o}
         /\ \A n \in 1..N : Levels(own, o, N)[n] =
                Levels(own, o, N)[n - 1] \cup Parents(own, Levels(own, o, N)[n - 1])
  <1> DEFINE L == Levels(own, o, N)
             R == [n \in 0..N |-> IF n = 0 THEN {o} ELSE L[n - 1] \cup Parents(own, L[n - 1])]
  <1>1. L = Climbed(own, o, N, L)
    BY LevelsExist DEF Levels
  <1>2. Climbed(own, o, N, L) = R
    BY ClimbedAre
  <1> HIDE DEF L
  <1>3. R[0] = {o} /\ \A n \in 1..N : R[n] = L[n - 1] \cup Parents(own, L[n - 1])
    OBVIOUS
  <1>4. L = R
    BY <1>1, <1>2
  <1> HIDE DEF R
  <1>5. L[0] = {o} /\ \A n \in 1..N : L[n] = L[n - 1] \cup Parents(own, L[n - 1])
    BY <1>3, <1>4
  <1> QED BY <1>5 DEF L

Table(own) ==
    /\ DOMAIN own = Owners
    /\ \A a \in Owners : own[a].retryOf \in Owners \cup {None}

LEMMA LevelsGrow ==
  ASSUME NEW own, NEW o \in Owners, Table(own)
  PROVE  \A n \in 0..Depth :
           /\ Levels(own, o, Depth)[n] \subseteq Line(own, o)
           /\ o \in Levels(own, o, Depth)[n]
           /\ Levels(own, o, Depth)[n] \subseteq Owners
  <1> DEFINE L == Levels(own, o, Depth)
             T == {n \in Nat : o \in L[n] /\ L[n] \subseteq Owners}
             U == {n \in Nat : L[Depth - n] \subseteq L[Depth]}
  <1>1. L[0] = {o} /\ \A n \in 1..Depth : L[n] = L[n - 1] \cup Parents(own, L[n - 1])
    BY LevelsAre, DepthType
  <1> HIDE DEF L
  <1>2. 0..Depth \subseteq T
    <2>1. 0 \in T
      BY <1>1
    <2>2. ASSUME NEW n \in 1..Depth, n - 1 \in T PROVE n \in T
      BY <1>1, <2>2, DepthType DEF Parents, Table
    <2> HIDE DEF T
    <2> QED BY <2>1, <2>2, Climb, DepthType
  <1>3. 0..Depth \subseteq U
    <2>1. 0 \in U
      BY DepthType
    <2>2. ASSUME NEW n \in 1..Depth, n - 1 \in U PROVE n \in U
      <3>1. Depth - n + 1 \in 1..Depth /\ (Depth - n + 1) - 1 = Depth - n
            /\ Depth - (n - 1) = Depth - n + 1
        BY DepthType
      <3>2. L[Depth - n] \subseteq L[Depth - n + 1]
        BY <1>1, <3>1
      <3> QED BY <2>2, <3>1, <3>2
    <2> HIDE DEF U
    <2> QED BY <2>1, <2>2, Climb, DepthType
  <1>4. \A n \in 0..Depth : Depth - n \in 0..Depth /\ Depth - (Depth - n) = n
    BY DepthType
  <1>5. \A n \in 0..Depth : L[n] \subseteq L[Depth]
    BY <1>3, <1>4
  <1> QED BY <1>2, <1>5 DEF Line, L

LEMMA LineOwn ==
  ASSUME NEW own, NEW o \in Owners, Table(own)
  PROVE  o \in Line(own, o) /\ Line(own, o) \subseteq Owners
  BY LevelsGrow, DepthType DEF Line

\* Whoever is above o was retried by somebody.
LEMMA LineUp ==
  ASSUME NEW own, NEW o \in Owners, Table(own), NEW a \in Line(own, o), a # o
  PROVE  \E s \in Owners : own[s].retryOf = a
  <1> DEFINE L == Levels(own, o, Depth)
             T == {n \in Nat : \A x \in L[n] : x = o \/ \E s \in Owners : own[s].retryOf = x}
  <1>1. L[0] = {o} /\ \A n \in 1..Depth : L[n] = L[n - 1] \cup Parents(own, L[n - 1])
    BY LevelsAre, DepthType
  <1>2. \A n \in 0..Depth : L[n] \subseteq Owners
    BY LevelsGrow
  <1> HIDE DEF L
  <1>3. 0 \in T
    BY <1>1
  <1>4. ASSUME NEW n \in 1..Depth, n - 1 \in T PROVE n \in T
    BY <1>1, <1>2, <1>4, DepthType DEF Parents
  <1>5. 0..Depth \subseteq T
    <2> HIDE DEF T
    <2> QED BY <1>3, <1>4, Climb, DepthType
  <1> QED BY <1>5, DepthType DEF Line, L

\* A lineage stays what it was while nobody of it, and nobody retried, is relinked.
LEMMA LineSame ==
  ASSUME NEW own, NEW new, NEW o \in Owners, Table(own), Table(new),
         new[o].retryOf = own[o].retryOf,
         \A s \in Owners : own[s].retryOf # None =>
             new[own[s].retryOf].retryOf = own[own[s].retryOf].retryOf
  PROVE  Line(new, o) = Line(own, o)
  <1> DEFINE L == Levels(own, o, Depth)
             M == Levels(new, o, Depth)
             T == {n \in Nat : M[n] = L[n] /\ \A x \in L[n] : new[x].retryOf = own[x].retryOf}
  <1>1. L[0] = {o} /\ \A n \in 1..Depth : L[n] = L[n - 1] \cup Parents(own, L[n - 1])
    BY LevelsAre, DepthType
  <1>2. M[0] = {o} /\ \A n \in 1..Depth : M[n] = M[n - 1] \cup Parents(new, M[n - 1])
    BY LevelsAre, DepthType
  <1>3. \A n \in 0..Depth : L[n] \subseteq Owners
    BY LevelsGrow
  <1> HIDE DEF L, M
  <1>4. 0 \in T
    BY <1>1, <1>2
  <1>5. ASSUME NEW n \in 1..Depth, n - 1 \in T PROVE n \in T
    <2>1. n - 1 \in 0..Depth /\ L[n - 1] \subseteq Owners
      BY <1>3, DepthType
    <2>2. Parents(new, L[n - 1]) = Parents(own, L[n - 1])
      BY <1>5 DEF Parents
    <2>3. M[n] = L[n]
      BY <1>1, <1>2, <1>5, <2>2
    <2>4. \A x \in Parents(own, L[n - 1]) : new[x].retryOf = own[x].retryOf
      BY <2>1 DEF Parents
    <2> QED BY <1>1, <1>5, <2>3, <2>4, DepthType
  <1>6. 0..Depth \subseteq T
    <2> HIDE DEF T
    <2> QED BY <1>4, <1>5, Climb, DepthType
  <1> QED BY <1>6, DepthType DEF Line, L, M

\* Lineages that meet are one line, when nobody is retried twice.
LEMMA LineMeets ==
  ASSUME NEW own, NEW p \in Owners, NEW q \in Owners, Table(own),
         \A s, t \in Owners : own[s].retryOf # None /\ own[s].retryOf = own[t].retryOf => s = t,
         Line(own, p) \cap Line(own, q) # {}
  PROVE  p \in Line(own, q) \/ q \in Line(own, p)
  <1> DEFINE L == Levels(own, p, Depth)
             M == Levels(own, q, Depth)
             Goal == p \in Line(own, q) \/ q \in Line(own, p)
             U == {k \in Nat : \A x \in M[k] : x = q \/ \E s \in Line(own, q) :
                                                    s \in Owners /\ own[s].retryOf = x /\ x # None}
             T == {n \in Nat : \A x \in L[n] : x \in Line(own, q) => Goal}
  <1>1. L[0] = {p} /\ \A n \in 1..Depth : L[n] = L[n - 1] \cup Parents(own, L[n - 1])
    BY LevelsAre, DepthType
  <1>2. M[0] = {q} /\ \A n \in 1..Depth : M[n] = M[n - 1] \cup Parents(own, M[n - 1])
    BY LevelsAre, DepthType
  <1>3. \A n \in 0..Depth : /\ L[n] \subseteq Owners /\ L[n] \subseteq Line(own, p)
                            /\ M[n] \subseteq Owners /\ M[n] \subseteq Line(own, q)
    BY LevelsGrow
  <1>4. Line(own, p) = L[Depth] /\ Line(own, q) = M[Depth]
    BY DEF Line
  <1> HIDE DEF L, M
  <1>5. 0..Depth \subseteq U
    <2>1. 0 \in U
      BY <1>2
    <2>2. ASSUME NEW n \in 1..Depth, n - 1 \in U PROVE n \in U
      <3>1. n - 1 \in 0..Depth /\ M[n - 1] \subseteq Owners /\ M[n - 1] \subseteq Line(own, q)
        BY <1>3, DepthType
      <3> QED BY <1>2, <2>2, <3>1, DepthType DEF Parents
    <2> HIDE DEF U
    <2> QED BY <2>1, <2>2, Climb, DepthType
  <1>6. \A x \in Line(own, q) : x = q \/ \E s \in Line(own, q) :
                                      s \in Owners /\ own[s].retryOf = x /\ x # None
    BY <1>4, <1>5, DepthType
  <1>7. 0..Depth \subseteq T
    <2>1. 0 \in T
      BY <1>1
    <2>2. ASSUME NEW n \in 1..Depth, n - 1 \in T PROVE n \in T
      <3>1. /\ n - 1 \in 0..Depth /\ n \in 0..Depth
            /\ L[n - 1] \subseteq Owners /\ L[n] \subseteq Line(own, p)
        BY <1>3, DepthType
      <3>2. ASSUME NEW x \in L[n], x \in Line(own, q) PROVE Goal
        <4>1. CASE x \in L[n - 1]
          BY <2>2, <3>2, <4>1
        <4>2. CASE x = q
          BY <3>1, <4>2
        <4>3. CASE x \notin L[n - 1] /\ x # q
          <5>1. PICK s \in L[n - 1] : own[s].retryOf = x /\ x # None
            BY <1>1, <3>2, <4>3 DEF Parents
          <5>2. PICK t \in Line(own, q) : t \in Owners /\ own[t].retryOf = x
            BY <1>6, <3>2, <4>3
          <5>3. s = t
            BY <3>1, <5>1, <5>2
          <5> QED BY <2>2, <5>1, <5>2, <5>3
        <4> QED BY <4>1, <4>2, <4>3
      <3> QED BY <3>2, DepthType
    <2> HIDE DEF T
    <2> QED BY <2>1, <2>2, Climb, DepthType
  <1>8. PICK x : x \in Line(own, p) /\ x \in Line(own, q)
    OBVIOUS
  <1> QED BY <1>4, <1>7, <1>8, DepthType

-----------------------------------------------------------------------------
(***************************************************************************)
(* Owners, ledger and worker                                               *)
(***************************************************************************)
OwnerRecord ==
    [state : OwnerState, code : Code, units : 0..NumCues, retryOf : Owners \cup {None},
     token : 0..MaxStarts, confirmed : 0..MaxStarts]

WorkerRecord ==
    [pc : WorkerPC, owner : Owners \cup {None}, cue : 0..(NumCues + 1), cancel : BOOLEAN]

OwnerTable  == owner \in [Owners -> OwnerRecord]
CallTable   == inv \in [Owners -> [Ordinals -> InvState]]
WorkerTable == worker \in [Managers -> WorkerRecord]

\* The rest of TypeOK.
RunTypes ==
    /\ timeline \in [Tasks -> {"none", "review", "approved", "rejected"}]
    /\ row \subseteq Plans \X Ordinals
    /\ file \subseteq Plans \X Ordinals
    /\ output \in [Plans -> {"none", "copied", "registered"}]
    /\ lease \in Managers \cup {None}
    /\ phase \in [Managers -> Phase]
    /\ ops \subseteq Managers \X {"signal", "confirm", "reconcile"} \X Owners
    /\ epoch \in [Managers -> 0..MaxStarts]
    /\ starts \in 0..MaxStarts
    /\ faults \in 0..MaxFaults
    /\ sent \subseteq Owners \X Ordinals

\* Answered to o, or to an owner it retries.
Answered(o, c) == \E a \in Ancestry(o) : inv[a][c] = "responded"

OnCue      == {"load", "reserve", "test", "release", "dispatch", "remote", "await",
               "respond", "unknown", "copy", "record"}
AtReserved   == {"test", "release", "dispatch"}
AtDispatched == {"remote", "await", "respond", "unknown"}
AtResponded  == {"copy", "record"}

\* A worker at p on call c of o, claimed under token e: it holds its owner,
\* and the ledger says of the call what the worker's position says.
Fits(p, o, c, e) ==
    /\ p \in {"off", "idle"} \/ o \in Owners
    /\ p \in {"off", "idle", "clean"} \/ (owner[o].token = e /\ owner[o].state \in Active)
    /\ p = "clean" => o \in Plans /\ owner[o].state = "ready"
    /\ p \in {"load", "copy", "record", "render"} => o \in Plans
    /\ p = "check" => c = 1
    /\ p \in OnCue => c \in 1..owner[o].units
    /\ p \in AtReserved   => inv[o][c] = "reserved"
    /\ p \in AtDispatched => inv[o][c] = "dispatched"
    /\ p \in AtResponded  => inv[o][c] = "responded"
    /\ p \in OnCue => \A d \in 1..(c - 1) : Answered(o, d)
    /\ p \in {"render", "complete", "commit"} => \A d \in 1..owner[o].units : Answered(o, d)
    /\ p \in {"complete", "commit"} /\ o \in Tasks => Resolved(o)

AtWork(m) == Fits(worker[m].pc, worker[m].owner, worker[m].cue, epoch[m])

\* An owner makes the calls its authorization counts, only a claimed one has
\* open calls, no cancelled one has an unknown call,
\* and the code that asks for reconciliation has, or had, something to reconcile.
LedgerOf(o) ==
    /\ \A c \in Ordinals : inv[o][c] # "none" => owner[o].state # "none" /\ c \in 1..owner[o].units
    /\ \A c \in Ordinals : inv[o][c] \in {"reserved", "dispatched"} => owner[o].state \in Active
    /\ HasUnknown(o) => owner[o].state \in Active \cup {"failed"}
    /\ owner[o].code = "result_unknown" =>
           \E c \in Ordinals : inv[o][c] \in {"unknown"} \cup Resolutions
    /\ o \in Tasks => owner[o].units <= 1

\* What recovery establishes and the open root keeps, of one owner: it waits
\* or runs on a confirmation of this opening, and its code shows its calls.
Shown(m, o) ==
    /\ owner[o].state \in Active \cup {"queued"} => owner[o].confirmed = epoch[m]
    /\ owner[o].state \in {"failed", "canceled"} =>
           /\ HasUnknown(o) => owner[o].code = "result_unknown"
           /\ owner[o].code = "result_unknown" /\ <<m, "reconcile", o>> \notin ops => HasUnknown(o)

Root(m) ==
    /\ phase[m] = "owners" =>
           \A o \in Owners, c \in Ordinals : inv[o][c] \notin {"reserved", "dispatched"}
    /\ phase[m] \in {"files", "up", "stopping"} => \A o \in Owners : Shown(m, o)

\* Only what ended is retried, once, when no call of it is open or refused.
\* It stays so: an end is final, and a call that closed.
Calm == {"none", "released", "responded", "not_accepted"}

LinkOf(s) ==
    LET p == owner[s].retryOf IN
    p # None => /\ owner[s].state # "none"
                /\ owner[p].state \in {"failed", "canceled", "succeeded"}
                /\ \A c \in Ordinals : inv[p][c] \in Calm

OneRetry == \A s, t \in Owners :
    owner[s].retryOf # None /\ owner[s].retryOf = owner[t].retryOf => s = t

Links == OneRetry /\ \A s \in Owners : LinkOf(s)

EditInv ==
    /\ OwnerTable /\ CallTable /\ WorkerTable /\ RunTypes
    /\ \A m \in Managers : AtWork(m) /\ Root(m)
    /\ \A o \in Owners : LedgerOf(o)
    /\ Links
    /\ SentStaysSent
    /\ DoneIsAnswered

-----------------------------------------------------------------------------
(***************************************************************************)
(* Writing one owner, one call, one worker                                 *)
(***************************************************************************)
Wrote(o, state, code, token, confirmed) ==
    /\ owner'[o].state = state /\ owner'[o].code = code
    /\ owner'[o].token = token /\ owner'[o].confirmed = confirmed
    /\ owner'[o].units = owner[o].units /\ owner'[o].retryOf = owner[o].retryOf

Writes(o, state, code, token, confirmed) ==
    /\ OwnerTable' /\ Wrote(o, state, code, token, confirmed)
    /\ \A x \in Owners \ {o} : owner'[x] = owner[x]

LEMMA OwnerFields ==
  ASSUME NEW o \in Owners, OwnerTable
  PROVE  /\ owner[o].state \in OwnerState /\ owner[o].code \in Code
         /\ owner[o].units \in 0..NumCues /\ owner[o].retryOf \in Owners \cup {None}
         /\ owner[o].token \in 0..MaxStarts /\ owner[o].confirmed \in 0..MaxStarts
  BY DEF OwnerTable, OwnerRecord

LEMMA QueuedWrites ==
  ASSUME NEW o \in Owners, NEW m \in Managers, OwnerTable, RunTypes, owner' = Queued(o, m)
  PROVE  Writes(o, "queued", "other", owner[o].token, epoch[m])
  <1>1. "queued" \in OwnerState /\ "other" \in Code /\ epoch[m] \in 0..MaxStarts
    BY DEF OwnerState, Code, RunTypes
  <1> QED BY <1>1 DEF Queued, Writes, Wrote, OwnerTable, OwnerRecord

LEMMA CodeWrites ==
  ASSUME NEW o \in Owners, OwnerTable, NEW state \in OwnerState, NEW code \in Code,
         owner' = [owner EXCEPT ![o].state = state, ![o].code = code]
  PROVE  Writes(o, state, code, owner[o].token, owner[o].confirmed)
  BY DEF Writes, Wrote, OwnerTable, OwnerRecord

LEMMA JudgedWrites ==
  ASSUME NEW o \in Owners, OwnerTable, NEW code \in Code,
         owner' = [owner EXCEPT ![o].code = code]
  PROVE  Writes(o, owner[o].state, code, owner[o].token, owner[o].confirmed)
  BY DEF Writes, Wrote, OwnerTable, OwnerRecord

LEMMA EndedWrites ==
  ASSUME NEW o \in Owners, OwnerTable, NEW state \in OwnerState, NEW code \in Code,
         owner' = Ended(o, state, code), 0 \in 0..MaxStarts
  PROVE  Writes(o, state, code, 0, owner[o].confirmed)
  BY DEF Ended, Writes, Wrote, OwnerTable, OwnerRecord

LEMMA InsertWrites ==
  ASSUME NEW o \in Owners, OwnerTable, NEW units \in 0..NumCues, NEW parent \in Owners \cup {None},
         Insert(o, units, parent), 0 \in 0..MaxStarts
  PROVE  /\ OwnerTable'
         /\ owner'[o].state = "review" /\ owner'[o].code = "other"
         /\ owner'[o].units = units /\ owner'[o].retryOf = parent
         /\ \A x \in Owners \ {o} : owner'[x] = owner[x]
  <1> DEFINE r == [Absent EXCEPT !.state = "review", !.units = units, !.retryOf = parent]
  <1>1. r \in OwnerRecord
    BY DEF Absent, OwnerRecord, OwnerState, Code
  <1>2. r.state = "review" /\ r.code = "other" /\ r.units = units /\ r.retryOf = parent
    BY DEF Absent
  <1>3. owner' = [owner EXCEPT ![o] = r]
    BY DEF Insert
  <1> HIDE DEF r
  <1> QED BY <1>1, <1>2, <1>3 DEF OwnerTable

Steps(m, pc, o, c) ==
    /\ WorkerTable'
    /\ worker'[m].pc = pc /\ worker'[m].owner = o /\ worker'[m].cue = c
    /\ \A n \in Managers \ {m} : worker'[n] = worker[n]

LEMMA WorkerFields ==
  ASSUME NEW m \in Managers, WorkerTable
  PROVE  /\ worker[m].pc \in WorkerPC /\ worker[m].owner \in Owners \cup {None}
         /\ worker[m].cue \in 0..(NumCues + 1) /\ worker[m].cancel \in BOOLEAN
  BY DEF WorkerTable, WorkerRecord

LEMMA GotoSteps ==
  ASSUME NEW m \in Managers, WorkerTable, NEW pc \in WorkerPC, Goto(m, pc)
  PROVE  Steps(m, pc, worker[m].owner, worker[m].cue)
  BY DEF Goto, Steps, WorkerTable, WorkerRecord

LEMMA CancelSteps ==
  ASSUME NEW m \in Managers, WorkerTable, NEW pc \in WorkerPC, NEW b \in BOOLEAN,
         worker' = [worker EXCEPT ![m].pc = pc, ![m].cancel = b]
  PROVE  Steps(m, pc, worker[m].owner, worker[m].cue)
  BY DEF Steps, WorkerTable, WorkerRecord

LEMMA SignalSteps ==
  ASSUME NEW m \in Managers, WorkerTable, NEW b \in BOOLEAN,
         worker' = [worker EXCEPT ![m].cancel = b]
  PROVE  Steps(m, worker[m].pc, worker[m].owner, worker[m].cue)
  BY DEF Steps, WorkerTable, WorkerRecord

LEMMA CueSteps ==
  ASSUME NEW m \in Managers, WorkerTable, NEW pc \in WorkerPC, NEW c \in 0..(NumCues + 1),
         worker' = [worker EXCEPT ![m].pc = pc, ![m].cue = c]
  PROVE  Steps(m, pc, worker[m].owner, c)
  BY DEF Steps, WorkerTable, WorkerRecord

LEMMA PublishSteps ==
  ASSUME NEW m \in Managers, WorkerTable, NEW b \in BOOLEAN, 1 \in 0..(NumCues + 1),
         worker' = [worker EXCEPT ![m].pc = "check", ![m].cue = 1, ![m].cancel = b]
  PROVE  Steps(m, "check", worker[m].owner, 1)
  BY DEF Steps, WorkerTable, WorkerRecord, WorkerPC

LEMMA ResetSteps ==
  ASSUME NEW m \in Managers, WorkerTable, 0 \in 0..(NumCues + 1)
  PROVE  /\ worker' = [worker EXCEPT ![m] = Off]  => Steps(m, "off", None, 0)
         /\ worker' = [worker EXCEPT ![m] = Idle] => Steps(m, "idle", None, 0)
         /\ \A o \in Owners : worker' = [worker EXCEPT ![m] = [Idle EXCEPT !.pc = "claimed", !.owner = o]]
                => Steps(m, "claimed", o, 0)
  <1>1. Off \in WorkerRecord /\ Off.pc = "off" /\ Off.owner = None /\ Off.cue = 0
    BY DEF Off, WorkerRecord, WorkerPC
  <1>2. Idle \in WorkerRecord /\ Idle.pc = "idle" /\ Idle.owner = None /\ Idle.cue = 0
    BY <1>1 DEF Idle, Off, WorkerRecord, WorkerPC
  <1>3. ASSUME NEW o \in Owners
        PROVE  LET r == [Idle EXCEPT !.pc = "claimed", !.owner = o] IN
               r \in WorkerRecord /\ r.pc = "claimed" /\ r.owner = o /\ r.cue = 0
    BY <1>1 DEF Idle, Off, WorkerRecord, WorkerPC
  <1>4. ASSUME NEW r \in WorkerRecord, worker' = [worker EXCEPT ![m] = r]
        PROVE  Steps(m, r.pc, r.owner, r.cue)
    BY <1>4 DEF Steps, WorkerTable
  <1>5. worker' = [worker EXCEPT ![m] = Off] => Steps(m, "off", None, 0)
    BY <1>1, <1>4
  <1>6. worker' = [worker EXCEPT ![m] = Idle] => Steps(m, "idle", None, 0)
    BY <1>2, <1>4
  <1>7. ASSUME NEW o \in Owners,
               worker' = [worker EXCEPT ![m] = [Idle EXCEPT !.pc = "claimed", !.owner = o]]
        PROVE  Steps(m, "claimed", o, 0)
    <2> DEFINE r == [Idle EXCEPT !.pc = "claimed", !.owner = o]
    <2>1. r \in WorkerRecord /\ r.pc = "claimed" /\ r.owner = o /\ r.cue = 0
      BY <1>3
    <2>2. worker' = [worker EXCEPT ![m] = r]
      BY <1>7
    <2> HIDE DEF r
    <2> QED BY <1>4, <2>1, <2>2
  <1> QED BY <1>5, <1>6, <1>7

\* One call of o turns from one state to another.
Turns(o, c, to) ==
    /\ CallTable'
    /\ inv'[o][c] = to
    /\ \A d \in Ordinals \ {c} : inv'[o][d] = inv[o][d]
    /\ \A x \in Owners \ {o} : inv'[x] = inv[x]

LEMMA CallTurns ==
  ASSUME NEW o \in Owners, NEW c \in Ordinals, NEW to \in InvState, CallTable,
         inv' = [inv EXCEPT ![o][c] = to]
  PROVE  Turns(o, c, to)
  BY DEF Turns, CallTable

\* The open calls of an owner are closed.
Closes(o) ==
    \A c \in Ordinals : inv'[o][c] = IF inv[o][c] = "reserved" THEN "released"
                                     ELSE IF inv[o][c] = "dispatched" THEN "unknown"
                                     ELSE inv[o][c]

LEMMA ClosedCalls ==
  ASSUME NEW calls \in [Ordinals -> InvState]
  PROVE  /\ Closed(calls, "released") \in [Ordinals -> InvState]
         /\ \A c \in Ordinals : Closed(calls, "released")[c] =
                IF calls[c] = "reserved" THEN "released"
                ELSE IF calls[c] = "dispatched" THEN "unknown" ELSE calls[c]
  BY DEF Closed, InvState

LEMMA CloseWrites ==
  ASSUME NEW o \in Owners, NEW canceled \in BOOLEAN, OwnerTable, CallTable, CloseOwner(o, canceled),
         0 \in 0..MaxStarts
  PROVE  /\ CallTable' /\ Closes(o)
         /\ \A x \in Owners \ {o} : inv'[x] = inv[x]
         /\ \/ HasUnknown(o)' /\ Writes(o, "failed", "result_unknown", 0, owner[o].confirmed)
            \/ ~HasUnknown(o)' /\ \E state \in {"failed", "canceled"} :
                   Writes(o, state, "other", 0, owner[o].confirmed)
  <1> DEFINE calls == Closed(inv[o], "released")
             lost  == \E c \in Ordinals : calls[c] = "unknown"
  <1>1. inv' = [inv EXCEPT ![o] = calls]
    BY DEF CloseOwner
  <1>2. owner' = IF lost THEN Ended(o, "failed", "result_unknown")
                 ELSE Ended(o, IF canceled THEN "canceled" ELSE "failed", "other")
    BY DEF CloseOwner
  <1>3. inv[o] \in [Ordinals -> InvState]
    BY DEF CallTable
  <1>4. calls \in [Ordinals -> InvState]
        /\ \A c \in Ordinals : calls[c] = IF inv[o][c] = "reserved" THEN "released"
                          ELSE IF inv[o][c] = "dispatched" THEN "unknown" ELSE inv[o][c]
    BY <1>3, ClosedCalls
  <1> HIDE DEF calls
  <1>5. CallTable' /\ inv'[o] = calls /\ \A x \in Owners \ {o} : inv'[x] = inv[x]
    BY <1>1, <1>4 DEF CallTable
  <1>6. HasUnknown(o)' <=> lost
    BY <1>5 DEF HasUnknown
  <1>7. {"failed", "canceled"} \subseteq OwnerState /\ {"result_unknown", "other"} \subseteq Code
    BY DEF OwnerState, Terminal, Code, Evidence
  <1>8. CASE lost
    <2>1. Writes(o, "failed", "result_unknown", 0, owner[o].confirmed)
      BY <1>2, <1>7, <1>8, EndedWrites
    <2> QED BY <1>4, <1>5, <1>6, <1>8, <2>1 DEF Closes
  <1>9. CASE ~lost
    <2>1. PICK state \in {"failed", "canceled"} : owner' = Ended(o, state, "other")
      BY <1>2, <1>9
    <2>2. Writes(o, state, "other", 0, owner[o].confirmed)
      BY <1>7, <2>1, EndedWrites
    <2> QED BY <1>4, <1>5, <1>6, <1>9, <2>2 DEF Closes
  <1> QED BY <1>8, <1>9

-----------------------------------------------------------------------------
(***************************************************************************)
(* What a step may do to an owner and its calls                            *)
(***************************************************************************)
\* x is a new retry of p.
Retries(x, p) ==
    /\ p \in Owners /\ owner[p].state \in {"failed", "canceled", "succeeded"}
    /\ RetryAllowed(p) /\ ~HasSuccessor(p)
    /\ UNCHANGED inv /\ \A y \in Owners \ {x} : owner'[y] = owner[y]

OwnerMoves(x) ==
    /\ owner[x].state \in Terminal => owner'[x].state = owner[x].state
    /\ owner[x].state = "canceling" => owner'[x].state \notin Done
    /\ owner[x].state # "none" =>
           /\ owner'[x].state # "none" /\ owner'[x].units = owner[x].units
           /\ owner'[x].retryOf = owner[x].retryOf
    /\ owner[x].state = "none" =>
           \/ owner'[x] = owner[x]
           \/ /\ owner'[x].state = "review"
              /\ owner'[x].retryOf = None \/ Retries(x, owner'[x].retryOf)
    /\ owner'[x].state \in Done =>
           \/ owner[x].state \in Done
           \/ \E n \in Managers : worker[n].pc = "commit" /\ worker[n].owner = x

Final  == {"released", "responded"} \cup Resolutions
Unsent == {"none", "reserved", "released"}

CallMoves(x) == \A c \in Ordinals :
    /\ inv[x][c] \in Final => inv'[x][c] = inv[x][c]
    /\ inv[x][c] = "none" => inv'[x][c] = inv[x][c] \/ owner[x].state \in Active
    /\ inv[x][c] \notin Unsent => inv'[x][c] \notin Unsent

OpenPhases == {"files", "up", "stopping"}

Keeps(m, x) ==
    /\ OwnerMoves(x) /\ CallMoves(x) /\ LedgerOf(x)'
    /\ phase'[m] \in OpenPhases => Shown(m, x)'

\* The step opens nothing, and forgets no reconciliation under way.
QuietFor(m, x) == phase'[m] \in OpenPhases =>
    /\ phase[m] \in OpenPhases /\ epoch'[m] = epoch[m]
    /\ <<m, "reconcile", x>> \in ops => <<m, "reconcile", x>> \in ops'

QuietRun(m) == \A x \in Owners : QuietFor(m, x)

LEMMA SameKeeps ==
  ASSUME NEW m \in Managers, NEW x \in Owners, LedgerOf(x), Root(m), QuietFor(m, x),
         owner'[x] = owner[x], inv'[x] = inv[x]
  PROVE  Keeps(m, x)
  <1>1. OwnerMoves(x)
    BY DEF OwnerMoves, Done
  <1>2. CallMoves(x)
    BY DEF CallMoves
  <1>3. HasUnknown(x)' <=> HasUnknown(x)
    BY DEF HasUnknown
  <1>4. LedgerOf(x)'
    BY <1>3 DEF LedgerOf
  <1>5. phase'[m] \in OpenPhases => Shown(m, x)'
    BY <1>3 DEF QuietFor, Root, Shown, OpenPhases
  <1> QED BY <1>1, <1>2, <1>4, <1>5 DEF Keeps

\* An owner that has not ended is written, its calls are not.
LEMMA FieldsKeep ==
  ASSUME NEW m \in Managers, NEW x \in Owners, LedgerOf(x), NEW state, NEW code, NEW token, NEW confirmed,
         Wrote(x, state, code, token, confirmed), inv'[x] = inv[x],
         owner[x].state \notin Terminal \cup {"none"}, state # "none",
         owner[x].state = "canceling" => state \notin Done,
         state \in Done => \E n \in Managers : worker[n].pc = "commit" /\ worker[n].owner = x,
         state \in Active \cup {"queued"} /\ phase'[m] \in OpenPhases => confirmed = epoch'[m],
         code = "result_unknown" => owner[x].code = code /\ state \notin {"failed", "canceled"},
         state \notin Active =>
             ~HasUnknown(x) /\ \A c \in Ordinals : inv[x][c] \notin {"reserved", "dispatched"}
  PROVE  Keeps(m, x)
  <1>1. OwnerMoves(x)
    BY DEF OwnerMoves, Wrote
  <1>2. CallMoves(x)
    BY DEF CallMoves
  <1>3. HasUnknown(x)' <=> HasUnknown(x)
    BY DEF HasUnknown
  <1>4. LedgerOf(x)'
    BY <1>3 DEF LedgerOf, Wrote
  <1>5. phase'[m] \in OpenPhases => Shown(m, x)'
    BY <1>3 DEF Shown, Wrote, Active
  <1> QED BY <1>1, <1>2, <1>4, <1>5 DEF Keeps

LEMMA WroteKeeps ==
  ASSUME NEW m \in Managers, NEW x \in Owners, LedgerOf(x), NEW state, NEW code, NEW token, NEW confirmed,
         Writes(x, state, code, token, confirmed), inv'[x] = inv[x],
         owner[x].state \notin Terminal \cup {"none"}, state # "none",
         owner[x].state = "canceling" => state \notin Done,
         state \in Done => \E n \in Managers : worker[n].pc = "commit" /\ worker[n].owner = x,
         state \in Active \cup {"queued"} /\ phase'[m] \in OpenPhases => confirmed = epoch'[m],
         code # "result_unknown",
         state \notin Active =>
             ~HasUnknown(x) /\ \A c \in Ordinals : inv[x][c] \notin {"reserved", "dispatched"}
  PROVE  Keeps(m, x)
  BY FieldsKeep DEF Writes, Wrote

\* A call of a running owner turns.
LEMMA TurnKeeps ==
  ASSUME NEW m \in Managers, NEW x \in Owners, LedgerOf(x), Root(m), QuietFor(m, x),
         NEW c \in Ordinals, NEW to, Turns(x, c, to), owner'[x] = owner[x],
         owner[x].state \in Active, inv[x][c] \in {"none", "reserved", "dispatched"},
         inv[x][c] = "dispatched" => to \notin Unsent, c \in 1..owner[x].units
  PROVE  Keeps(m, x)
  <1>1. OwnerMoves(x)
    BY DEF OwnerMoves, Done
  <1>2. CallMoves(x)
    BY DEF CallMoves, Turns, Final, Unsent, Resolutions, Refused
  <1>3. LedgerOf(x)'
    <2>1. owner[x].code = "result_unknown" =>
            \E d \in Ordinals \ {c} : inv[x][d] \in {"unknown"} \cup Resolutions
      BY DEF LedgerOf, Resolutions, Refused
    <2>2. owner[x].code = "result_unknown" =>
            \E d \in Ordinals : inv'[x][d] \in {"unknown"} \cup Resolutions
      BY <2>1 DEF Turns
    <2>3. \A d \in Ordinals : inv'[x][d] # "none" =>
              owner[x].state # "none" /\ d \in 1..owner[x].units
      BY DEF LedgerOf, Turns, Active
    <2>4. x \in Tasks => owner[x].units <= 1
      BY DEF LedgerOf
    <2> QED BY <2>2, <2>3, <2>4 DEF LedgerOf
  <1>4. phase'[m] \in OpenPhases => Shown(m, x)'
    BY DEF QuietFor, Root, Shown, OpenPhases, Active
  <1> QED BY <1>1, <1>2, <1>3, <1>4 DEF Keeps

\* An operator resolves an unknown call of an ended owner.
LEMMA ResolveKeeps ==
  ASSUME NEW m \in Managers, NEW x \in Owners, LedgerOf(x), Root(m), QuietFor(m, x),
         NEW c \in Ordinals, NEW to \in Resolutions, Turns(x, c, to), owner'[x] = owner[x],
         owner[x].state \in {"failed", "canceled"}, inv[x][c] = "unknown",
         <<m, "reconcile", x>> \in ops'
  PROVE  Keeps(m, x)
  <1>1. OwnerMoves(x)
    BY DEF OwnerMoves, Done
  <1>2. CallMoves(x)
    BY DEF CallMoves, Turns, Final, Unsent, Resolutions, Refused
  <1>3. HasUnknown(x)' => HasUnknown(x)
    BY DEF HasUnknown, Turns, Resolutions, Refused
  <1>4. LedgerOf(x)'
    <2>1. \A d \in Ordinals : inv'[x][d] \in {"reserved", "dispatched"} => owner[x].state \in Active
      BY DEF LedgerOf, Turns, Resolutions, Refused
    <2> QED BY <1>3, <2>1 DEF LedgerOf, Turns
  <1>5. phase'[m] \in OpenPhases => Shown(m, x)'
    BY <1>3 DEF QuietFor, Root, Shown, OpenPhases, Active
  <1> QED BY <1>1, <1>2, <1>4, <1>5 DEF Keeps

LEMMA ClosesMoves ==
  ASSUME NEW x \in Owners, Closes(x)
  PROVE  /\ CallMoves(x)
         /\ \A c \in Ordinals : inv'[x][c] \notin {"reserved", "dispatched"}
  BY DEF Closes, CallMoves, Final, Unsent, Resolutions, Refused

\* A running owner is failed or cancelled together with its open calls.
LEMMA CloseKeeps ==
  ASSUME NEW m \in Managers, NEW x \in Owners, LedgerOf(x), NEW canceled \in BOOLEAN,
         OwnerTable, CallTable, CloseOwner(x, canceled), 0 \in 0..MaxStarts,
         owner[x].state \in Active
  PROVE  Keeps(m, x)
  <1>1. /\ Closes(x)
        /\ \/ HasUnknown(x)' /\ Writes(x, "failed", "result_unknown", 0, owner[x].confirmed)
           \/ ~HasUnknown(x)' /\ \E state \in {"failed", "canceled"} :
                  Writes(x, state, "other", 0, owner[x].confirmed)
    BY CloseWrites
  <1>2. /\ owner'[x].state \in {"failed", "canceled"}
        /\ owner'[x].units = owner[x].units /\ owner'[x].retryOf = owner[x].retryOf
        /\ HasUnknown(x)' => owner'[x].state = "failed" /\ owner'[x].code = "result_unknown"
        /\ ~HasUnknown(x)' => owner'[x].code = "other"
    BY <1>1 DEF Writes, Wrote
  <1>3. OwnerMoves(x)
    BY <1>2 DEF OwnerMoves, Done, Terminal, Active
  <1>4. LedgerOf(x)'
    <2>1. \A c \in Ordinals : inv'[x][c] # "none" => c \in 1..owner[x].units
      BY <1>1 DEF LedgerOf, Closes
    <2>2. x \in Tasks => owner[x].units <= 1
      BY DEF LedgerOf
    <2> QED BY <1>1, <1>2, <2>1, <2>2, ClosesMoves DEF LedgerOf, HasUnknown
  <1>5. phase'[m] \in OpenPhases => Shown(m, x)'
    BY <1>2 DEF Shown, Active
  <1> QED BY <1>1, <1>3, <1>4, <1>5, ClosesMoves DEF Keeps

\* The code of an ended owner is brought in line with its calls.
LEMMA JudgedKeeps ==
  ASSUME NEW m \in Managers, NEW x \in Owners, LedgerOf(x), OwnerTable, CallTable,
         owner[x].state \in {"failed", "canceled"}, inv'[x] = inv[x],
         Writes(x, owner[x].state, ReconciledCode(x), owner[x].token, owner[x].confirmed),
         ~HasUnknown(x)
  PROVE  Keeps(m, x)
  <1>1. OwnerMoves(x)
    BY DEF OwnerMoves, Writes, Wrote, Done, Terminal
  <1>2. CallMoves(x)
    BY DEF CallMoves
  <1>3. ~HasUnknown(x)'
    BY DEF HasUnknown
  <1>4. owner[x].code = "result_unknown" => \E c \in Ordinals : inv[x][c] \in Resolutions
    BY DEF LedgerOf, HasUnknown
  <1>5. ReconciledCode(x) # "result_unknown"
    <2>1. CASE owner[x].code = "result_unknown"
      BY <1>4, <2>1 DEF ReconciledCode, Resolutions, Refused
    <2>2. CASE owner[x].code # "result_unknown"
      BY <2>2 DEF ReconciledCode
    <2> QED BY <2>1, <2>2
  <1>6. LedgerOf(x)'
    BY <1>3, <1>5 DEF LedgerOf, Writes, Wrote
  <1>7. phase'[m] \in OpenPhases => Shown(m, x)'
    BY <1>3, <1>5 DEF Shown, Writes, Wrote, Active
  <1> QED BY <1>1, <1>2, <1>6, <1>7 DEF Keeps

LEMMA ReconciledType ==
  ASSUME NEW x \in Owners, OwnerTable
  PROVE  ReconciledCode(x) \in Code
  BY OwnerFields DEF ReconciledCode, Code, Evidence, Refused

LEMMA FreshKeeps ==
  ASSUME NEW m \in Managers, NEW x \in Owners, LedgerOf(x), owner[x].state = "none",
         inv'[x] = inv[x], owner'[x].state = "review", owner'[x].code = "other",
         x \in Tasks => owner'[x].units <= 1,
         owner'[x].retryOf = None \/ Retries(x, owner'[x].retryOf)
  PROVE  Keeps(m, x)
  <1>1. OwnerMoves(x)
    BY DEF OwnerMoves, Done, Terminal
  <1>2. CallMoves(x)
    BY DEF CallMoves
  <1>3. ~HasUnknown(x)' /\ \A c \in Ordinals : inv'[x][c] \notin {"reserved", "dispatched"}
    BY DEF HasUnknown, LedgerOf, Active
  <1>4. LedgerOf(x)'
    BY <1>3 DEF LedgerOf
  <1>5. phase'[m] \in OpenPhases => Shown(m, x)'
    BY DEF Shown, Active
  <1> QED BY <1>1, <1>2, <1>4, <1>5 DEF Keeps

LEMMA OthersKeep ==
  ASSUME NEW m \in Managers, \A x \in Owners : LedgerOf(x), Root(m), QuietRun(m),
         NEW o \in Owners, \A x \in Owners \ {o} : owner'[x] = owner[x] /\ inv'[x] = inv[x],
         Keeps(m, o)
  PROVE  \A x \in Owners : Keeps(m, x)
  BY SameKeeps DEF QuietRun

LEMMA AllKeep ==
  ASSUME NEW m \in Managers, \A x \in Owners : LedgerOf(x), Root(m), QuietRun(m),
         UNCHANGED <<owner, inv>>
  PROVE  \A x \in Owners : Keeps(m, x)
  BY SameKeeps DEF QuietRun

LEMMA Zero == 0 \in 0..MaxStarts /\ 0 \in 0..NumCues /\ 1 \in 0..NumCues /\ NumCues \in 0..NumCues
              /\ 0 \in 0..(NumCues + 1) /\ 1 \in 0..(NumCues + 1)
  BY EditingAssumption

Tables == OwnerTable /\ CallTable /\ WorkerTable /\ RunTypes

\* No worker moves, but to rest.
Unmoved == \A n \in Managers :
    \/ worker'[n].pc \in {"off", "idle"}
    \/ /\ worker'[n].pc = worker[n].pc /\ worker'[n].owner = worker[n].owner
       /\ worker'[n].cue = worker[n].cue /\ epoch'[n] = epoch[n]

\* An API operation.
ApiDoes(m) == Tables' /\ Unmoved /\ UNCHANGED sent /\ \A x \in Owners : Keeps(m, x)

LEMMA QueuedKeeps ==
  ASSUME NEW m \in Managers, NEW o \in Owners, OwnerTable, RunTypes, LedgerOf(o),
         owner[o].state = "review", owner' = Queued(o, m), UNCHANGED <<inv, epoch>>
  PROVE  OwnerTable' /\ Keeps(m, o) /\ \A x \in Owners \ {o} : owner'[x] = owner[x]
  <1>1. Writes(o, "queued", "other", owner[o].token, epoch[m])
    BY QueuedWrites
  <1>2. Keeps(m, o)
    BY <1>1, WroteKeeps DEF Terminal, Done, Active, LedgerOf
  <1> QED BY <1>1, <1>2 DEF Writes, Wrote

LEMMA ApiBeginDoes ==
  ASSUME NEW m \in Managers, EditInv, ApiBegin(m)
  PROVE  ApiDoes(m)
  <1>1. Tables /\ Root(m) /\ \A x \in Owners : LedgerOf(x)
    BY DEF EditInv, Tables
  <1>2. ASSUME Tables', Unmoved, UNCHANGED sent, QuietRun(m), NEW o \in Owners, Keeps(m, o),
               \A x \in Owners \ {o} : owner'[x] = owner[x] /\ inv'[x] = inv[x]
        PROVE  ApiDoes(m)
    BY <1>1, <1>2, OthersKeep DEF ApiDoes
  <1>3. ASSUME Tables', Unmoved, UNCHANGED <<sent, owner, inv>>, QuietRun(m)
        PROVE  ApiDoes(m)
    BY <1>1, <1>3, AllKeep DEF ApiDoes
  <1>4. ASSUME NEW o \in Owners, NEW remote \in BOOLEAN, CreateOwner(m, o, remote) PROVE ApiDoes(m)
    <2> DEFINE units == IF ~remote THEN 0 ELSE IF o \in Tasks THEN 1 ELSE NumCues
    <2>1. units \in 0..NumCues /\ (o \in Tasks => units <= 1)
      BY Zero
    <2>2. owner[o].state = "none" /\ Insert(o, units, None)
      BY <1>4 DEF CreateOwner
    <2>3. UNCHANGED <<inv, row, file, output, lease, phase, worker, epoch, starts, faults, sent,
                      timeline, ops>>
      BY <1>4 DEF CreateOwner, ApiKeeps
    <2> HIDE DEF units
    <2>4. /\ OwnerTable'
          /\ owner'[o].state = "review" /\ owner'[o].code = "other"
          /\ owner'[o].units = units /\ owner'[o].retryOf = None
          /\ \A x \in Owners \ {o} : owner'[x] = owner[x]
      BY <1>1, <2>1, <2>2, Zero, InsertWrites DEF Tables
    <2>5. Keeps(m, o)
      BY <1>1, <2>1, <2>2, <2>3, <2>4, FreshKeeps
    <2>6. Tables' /\ Unmoved /\ QuietRun(m)
      BY <1>1, <2>3, <2>4 DEF Tables, CallTable, WorkerTable, RunTypes, Unmoved, QuietRun, QuietFor
    <2> QED BY <1>2, <2>3, <2>4, <2>5, <2>6
  <1>5. ASSUME NEW o \in Owners, ConfirmTask(m, o) PROVE ApiDoes(m)
    <2>1. UNCHANGED <<inv, row, file, output, lease, phase, worker, epoch, starts, faults, sent,
                      timeline, ops>>
      BY <1>5 DEF ConfirmTask, ApiKeeps
    <2>2. OwnerTable' /\ Keeps(m, o) /\ \A x \in Owners \ {o} : owner'[x] = owner[x]
      BY <1>1, <1>5, <2>1, QueuedKeeps DEF ConfirmTask, Tables
    <2>3. Tables' /\ Unmoved /\ QuietRun(m)
      BY <1>1, <2>1, <2>2 DEF Tables, CallTable, WorkerTable, RunTypes, Unmoved, QuietRun, QuietFor
    <2> QED BY <1>2, <2>1, <2>2, <2>3
  <1>6. ASSUME NEW o \in Owners, ConfirmPlanCheck(m, o) PROVE ApiDoes(m)
    <2>1. UNCHANGED <<inv, row, file, output, lease, phase, worker, epoch, starts, faults, sent,
                      timeline, owner>> /\ ops' = ops \cup {<<m, "confirm", o>>}
      BY <1>6 DEF ConfirmPlanCheck, ApiKeeps
    <2>2. Tables' /\ Unmoved /\ QuietRun(m)
      BY <1>1, <2>1 DEF Tables, OwnerTable, CallTable, WorkerTable, RunTypes, Unmoved, QuietRun, QuietFor
    <2> QED BY <1>3, <2>1, <2>2
  <1>7. ASSUME NEW o \in Owners, Cancel(m, o) PROVE ApiDoes(m)
    <2>1. UNCHANGED <<inv, row, file, output, lease, phase, worker, epoch, starts, faults, sent,
                      timeline>> /\ ops' = ops \cup {<<m, "signal", o>>}
      BY <1>7 DEF Cancel, ApiKeeps
    <2>2. PICK state \in {"canceled", "canceling"} :
            /\ owner' = [owner EXCEPT ![o].state = state, ![o].code = "other"]
            /\ IF state = "canceled" THEN owner[o].state \in {"review", "queued"}
               ELSE owner[o].state = "running"
      BY <1>7 DEF Cancel
    <2>3. Writes(o, state, "other", owner[o].token, owner[o].confirmed)
      BY <1>1, <2>2, CodeWrites DEF Tables, OwnerState, Terminal, Active, Code
    <2>4. state = "canceling" => owner[o].confirmed = epoch[m]
      BY <1>1, <1>7, <2>2 DEF Root, Shown, Cancel, Serving, Active
    <2>5. /\ owner[o].state \notin Terminal \cup {"none"} /\ state # "none" /\ state \notin Done
          /\ owner[o].state # "canceling"
          /\ state \in Active \cup {"queued"} => owner[o].confirmed = epoch'[m]
          /\ state \notin Active => owner[o].state \notin Active \cup {"failed"}
      BY <2>1, <2>2, <2>4 DEF Terminal, Done, Active
    <2>6. Keeps(m, o)
      BY <1>1, <2>1, <2>3, <2>5, WroteKeeps DEF LedgerOf
    <2>7. Tables' /\ Unmoved /\ QuietRun(m)
      BY <1>1, <2>1, <2>3 DEF Writes, Wrote, Tables, CallTable, WorkerTable, RunTypes, Unmoved, QuietRun, QuietFor
    <2> QED BY <1>2, <2>1, <2>3, <2>6, <2>7 DEF Writes, Wrote
  <1>8. ASSUME NEW o \in Owners, NEW new \in Owners, Retry(m, o, new) PROVE ApiDoes(m)
    <2>1. UNCHANGED <<inv, row, file, output, lease, phase, worker, epoch, starts, faults, sent,
                      timeline, ops>>
      BY <1>8 DEF Retry, ApiKeeps
    <2>2. /\ Insert(new, owner[o].units, o) /\ owner[new].state = "none"
          /\ owner[o].state \in {"failed", "canceled", "succeeded"}
          /\ RetryAllowed(o) /\ ~HasSuccessor(o) /\ (o \in Tasks <=> new \in Tasks)
      BY <1>8 DEF Retry
    <2>3. owner[o].units \in 0..NumCues
      BY <1>1, OwnerFields DEF Tables
    <2>4. /\ OwnerTable'
          /\ owner'[new].state = "review" /\ owner'[new].code = "other"
          /\ owner'[new].units = owner[o].units /\ owner'[new].retryOf = o
          /\ \A x \in Owners \ {new} : owner'[x] = owner[x]
      BY <1>1, <2>2, <2>3, Zero, InsertWrites DEF Tables
    <2>5. Retries(new, o)
      BY <2>1, <2>2, <2>4 DEF Retries
    <2>6. Keeps(m, new)
      BY <1>1, <2>1, <2>2, <2>4, <2>5, FreshKeeps DEF LedgerOf
    <2>7. Tables' /\ Unmoved /\ QuietRun(m)
      BY <1>1, <2>1, <2>4 DEF Tables, CallTable, WorkerTable, RunTypes, Unmoved, QuietRun, QuietFor
    <2> QED BY <1>2, <2>1, <2>4, <2>6, <2>7
  <1>9. ASSUME NEW o \in Owners, NEW c \in Ordinals, NEW r \in Resolutions, ReconcileLedger(m, o, c, r)
        PROVE  ApiDoes(m)
    <2>1. UNCHANGED <<owner, row, file, output, lease, phase, worker, epoch, starts, faults, sent,
                      timeline>> /\ ops' = ops \cup {<<m, "reconcile", o>>}
      BY <1>9 DEF ReconcileLedger
    <2>2. Turns(o, c, r)
      BY <1>1, <1>9, CallTurns DEF ReconcileLedger, Tables, InvState
    <2>3. Tables' /\ Unmoved /\ QuietRun(m)
      BY <1>1, <2>1, <2>2 DEF Turns, Tables, OwnerTable, WorkerTable, RunTypes, Unmoved, QuietRun, QuietFor
    <2>4. Keeps(m, o)
      BY <1>1, <1>9, <2>1, <2>2, <2>3, ResolveKeeps DEF ReconcileLedger, QuietRun
    <2> QED BY <1>2, <2>1, <2>2, <2>3, <2>4 DEF Turns
  <1>10. ASSUME NEW t \in Tasks, NEW d \in {"approved", "rejected"}, ReviewTimeline(m, t, d)
         PROVE  ApiDoes(m)
    <2>1. UNCHANGED <<inv, row, file, output, lease, phase, worker, epoch, starts, faults, sent,
                      owner, ops>> /\ timeline' = [timeline EXCEPT ![t] = d]
      BY <1>10 DEF ReviewTimeline, ApiKeeps
    <2>2. Tables' /\ Unmoved /\ QuietRun(m)
      BY <1>1, <2>1 DEF Tables, OwnerTable, CallTable, WorkerTable, RunTypes, Unmoved, QuietRun, QuietFor
    <2> QED BY <1>3, <2>1, <2>2
  <1> QED BY <1>4, <1>5, <1>6, <1>7, <1>8, <1>9, <1>10 DEF ApiBegin

LEMMA ApiEndDoes ==
  ASSUME NEW m \in Managers, EditInv, ApiEnd(m)
  PROVE  ApiDoes(m)
  <1>1. Tables /\ Root(m) /\ \A x \in Owners : LedgerOf(x)
    BY DEF EditInv, Tables
  <1>2. ASSUME Tables', Unmoved, UNCHANGED sent, QuietRun(m), NEW o \in Owners, Keeps(m, o),
               \A x \in Owners \ {o} : owner'[x] = owner[x] /\ inv'[x] = inv[x]
        PROVE  ApiDoes(m)
    BY <1>1, <1>2, OthersKeep DEF ApiDoes
  <1>3. ASSUME Tables', Unmoved, UNCHANGED <<sent, owner, inv>>, QuietRun(m)
        PROVE  ApiDoes(m)
    BY <1>1, <1>3, AllKeep DEF ApiDoes
  <1>4. ASSUME NEW o \in Owners, ConfirmPlanQueue(m, o) PROVE ApiDoes(m)
    <2>1. UNCHANGED <<inv, row, file, output, lease, phase, worker, epoch, starts, faults, sent,
                      timeline>> /\ ops' = ops \ {<<m, "confirm", o>>}
      BY <1>4 DEF ConfirmPlanQueue, ApiKeeps
    <2>2. CASE owner[o].state = "review"
      <3>1. owner' = Queued(o, m)
        BY <1>4, <2>2 DEF ConfirmPlanQueue
      <3>2. OwnerTable' /\ Keeps(m, o) /\ \A x \in Owners \ {o} : owner'[x] = owner[x]
        BY <1>1, <2>1, <2>2, <3>1, QueuedKeeps DEF Tables
      <3>3. Tables' /\ Unmoved /\ QuietRun(m)
        BY <1>1, <2>1, <3>2 DEF Tables, CallTable, WorkerTable, RunTypes, Unmoved, QuietRun, QuietFor
      <3> QED BY <1>2, <2>1, <3>2, <3>3
    <2>3. CASE owner[o].state # "review"
      <3>1. UNCHANGED owner
        BY <1>4, <2>3 DEF ConfirmPlanQueue
      <3>2. Tables' /\ Unmoved /\ QuietRun(m)
        BY <1>1, <2>1, <3>1
        DEF Tables, OwnerTable, CallTable, WorkerTable, RunTypes, Unmoved, QuietRun, QuietFor
      <3> QED BY <1>3, <2>1, <3>1, <3>2
    <2> QED BY <2>2, <2>3
  <1>5. ASSUME NEW o \in Owners, SignalCancel(m, o) PROVE ApiDoes(m)
    <2>1. UNCHANGED <<inv, row, file, output, lease, phase, owner, epoch, starts, faults, sent,
                      timeline>> /\ ops' = ops \ {<<m, "signal", o>>}
      BY <1>5 DEF SignalCancel, dbVars
    <2>2. WorkerTable' /\ Unmoved
      <3>1. CASE worker' = worker
        BY <1>1, <2>1, <3>1 DEF Tables, WorkerTable, Unmoved
      <3>2. CASE worker' = [worker EXCEPT ![m].cancel = TRUE]
        <4>1. Steps(m, worker[m].pc, worker[m].owner, worker[m].cue)
          BY <1>1, <3>2, SignalSteps DEF Tables
        <4> QED BY <2>1, <4>1 DEF Steps, Unmoved
      <3> QED BY <1>5, <3>1, <3>2 DEF SignalCancel
    <2>3. Tables' /\ QuietRun(m)
      BY <1>1, <2>1, <2>2 DEF Tables, OwnerTable, CallTable, RunTypes, QuietRun, QuietFor
    <2> QED BY <1>3, <2>1, <2>2, <2>3
  <1>6. ASSUME NEW o \in Owners, ReconcileOwner(m, o) PROVE ApiDoes(m)
    <2>1. UNCHANGED <<inv, row, file, output, lease, phase, worker, epoch, starts, faults, sent,
                      timeline>> /\ ops' = ops \ {<<m, "reconcile", o>>}
      BY <1>6 DEF ReconcileOwner, ApiKeeps
    <2> DEFINE Due == /\ ~HasUnknown(o) /\ owner[o].state \in {"failed", "canceled"}
                      /\ owner[o].code = "result_unknown"
    <2>2. OwnerTable' /\ Keeps(m, o) /\ \A x \in Owners \ {o} : owner'[x] = owner[x]
      <3>1. CASE Due
        <4>1. Writes(o, owner[o].state, ReconciledCode(o), owner[o].token, owner[o].confirmed)
          BY <1>1, <1>6, <3>1, ReconciledType, JudgedWrites DEF ReconcileOwner, Tables
        <4>2. Keeps(m, o)
          BY <1>1, <2>1, <3>1, <4>1, JudgedKeeps DEF Tables
        <4> QED BY <4>1, <4>2 DEF Writes, Wrote
      <3>2. CASE ~Due
        <4>1. UNCHANGED owner
          BY <1>6, <3>2 DEF ReconcileOwner
        <4>2. OwnerMoves(o) /\ CallMoves(o) /\ LedgerOf(o)'
          <5>1. HasUnknown(o)' <=> HasUnknown(o)
            BY <2>1 DEF HasUnknown
          <5> QED BY <1>1, <2>1, <4>1, <5>1 DEF OwnerMoves, Done, CallMoves, LedgerOf
        <4>3. phase'[m] \in OpenPhases => Shown(m, o)'
          <5>1. HasUnknown(o)' <=> HasUnknown(o)
            BY <2>1 DEF HasUnknown
          <5> QED BY <1>1, <2>1, <3>2, <4>1, <5>1 DEF Root, OpenPhases, Shown
        <4> QED BY <1>1, <2>1, <4>1, <4>2, <4>3 DEF Keeps, OwnerTable, Tables
      <3> QED BY <3>1, <3>2
    <2>3. Tables' /\ Unmoved
      BY <1>1, <2>1, <2>2 DEF Tables, CallTable, WorkerTable, RunTypes, Unmoved
    <2>4. ASSUME NEW x \in Owners \ {o} PROVE Keeps(m, x)
      <3>1. QuietFor(m, x)
        BY <2>1 DEF QuietFor
      <3> QED BY <1>1, <2>1, <2>2, <3>1, SameKeeps
    <2> QED BY <2>1, <2>2, <2>3, <2>4 DEF ApiDoes
  <1> QED BY <1>4, <1>5, <1>6 DEF ApiEnd

LEMMA RecoveredIs ==
  ASSUME NEW m \in Managers, NEW x \in Owners, RecoverOwners(m)
  PROVE  /\ owner[x].state \in Active =>
              owner'[x] = [owner[x] EXCEPT !.state = "failed", !.token = 0,
                              !.code = IF HasUnknown(x) THEN "result_unknown" ELSE "other"]
         /\ owner[x].state = "queued" =>
              owner'[x] = [owner[x] EXCEPT !.state = "review", !.confirmed = 0, !.code = "other"]
         /\ owner[x].state \in {"failed", "canceled"} /\ HasUnknown(x) =>
              owner'[x] = [owner[x] EXCEPT !.state = "failed", !.code = "result_unknown"]
         /\ owner[x].state \in {"failed", "canceled"} /\ ~HasUnknown(x)
            /\ owner[x].code = "result_unknown" =>
              owner'[x] = [owner[x] EXCEPT !.code = ReconciledCode(x)]
         /\ owner[x].state \notin Active \cup {"queued", "failed", "canceled"} => owner'[x] = owner[x]
         /\ owner[x].state \in {"failed", "canceled"} /\ ~HasUnknown(x)
            /\ owner[x].code # "result_unknown" => owner'[x] = owner[x]
  <1> DEFINE active == owner[x].state \in Active
             queued == owner[x].state = "queued"
             ended  == owner[x].state \in {"failed", "canceled"}
             shown  == owner[x].code = "result_unknown"
             lost   == HasUnknown(x)
             a == [owner[x] EXCEPT !.state = "failed", !.token = 0,
                              !.code = IF HasUnknown(x) THEN "result_unknown" ELSE "other"]
             b == [owner[x] EXCEPT !.state = "review", !.confirmed = 0, !.code = "other"]
             d == [owner[x] EXCEPT !.state = "failed", !.code = "result_unknown"]
             e == [owner[x] EXCEPT !.code = ReconciledCode(x)]
  <1>1. owner'[x] = CASE active -> a [] queued -> b [] ended /\ lost -> d
                      [] ended /\ shown /\ ~lost -> e [] OTHER -> owner[x]
    BY DEF RecoverOwners
  <1>2. (active => ~queued /\ ~ended) /\ (queued => ~ended)
    BY DEF Active
  <1> HIDE DEF active, queued, ended, shown, lost, a, b, d, e
  <1>3. /\ active => owner'[x] = a
        /\ queued => owner'[x] = b
        /\ ended /\ lost => owner'[x] = d
        /\ ended /\ ~lost /\ shown => owner'[x] = e
        /\ ~active /\ ~queued /\ ~ended => owner'[x] = owner[x]
        /\ ended /\ ~lost /\ ~shown => owner'[x] = owner[x]
    BY <1>1, <1>2
  <1> QED BY <1>3 DEF active, queued, ended, shown, lost, a, b, d, e

LEMMA RecoverKeeps ==
  ASSUME NEW m \in Managers, NEW x \in Owners, Tables, LedgerOf(x), Root(m), RecoverOwners(m)
  PROVE  owner'[x] \in OwnerRecord /\ Keeps(m, x)
  <1> DEFINE r == owner[x]
  <1>1. r \in OwnerRecord
    BY DEF Tables, OwnerTable
  <1>2. inv'[x] = inv[x] /\ CallMoves(x) /\ (HasUnknown(x)' <=> HasUnknown(x))
    BY DEF RecoverOwners, CallMoves, HasUnknown
  <1>3. \A c \in Ordinals : inv[x][c] \notin {"reserved", "dispatched"}
    BY DEF Root, RecoverOwners
  <1>4. /\ r.code = "result_unknown" => \E c \in Ordinals : inv[x][c] \in {"unknown"} \cup Resolutions
        /\ x \in Tasks => r.units <= 1
        /\ HasUnknown(x) => r.state \in Active \cup {"failed"}
    BY DEF LedgerOf
  <1>5. HasUnknown(x) => \E c \in Ordinals : inv[x][c] \in {"unknown"} \cup Resolutions
    BY DEF HasUnknown
  <1>6. ASSUME owner'[x].units = r.units, owner'[x].retryOf = r.retryOf,
               owner'[x].state \in OwnerState,
               owner'[x].state = r.state \/ (r.state \in Active /\ owner'[x].state = "failed")
                                         \/ (r.state = "queued" /\ owner'[x].state = "review"),
               owner'[x].state = "none" => owner'[x] = r,
               owner'[x].state \notin Active \cup {"queued"},
               owner'[x].state \in {"failed", "canceled"} =>
                   (owner'[x].code = "result_unknown" <=> HasUnknown(x)),
               HasUnknown(x) => owner'[x].state = "failed",
               owner'[x].code = "result_unknown" => HasUnknown(x) \/ owner'[x].code = r.code
        PROVE  Keeps(m, x)
    <2>1. OwnerMoves(x)
      BY <1>6 DEF OwnerMoves, Terminal, Done, Active
    <2>2. LedgerOf(x)'
      BY <1>2, <1>3, <1>4, <1>5, <1>6 DEF LedgerOf
    <2>3. Shown(m, x)'
      BY <1>2, <1>6 DEF Shown
    <2> QED BY <1>2, <2>1, <2>2, <2>3 DEF Keeps
  <1>7. CASE r.state \in Active
    <2>1. owner'[x] = [r EXCEPT !.state = "failed", !.token = 0,
                              !.code = IF HasUnknown(x) THEN "result_unknown" ELSE "other"]
      BY <1>7, RecoveredIs
    <2> DEFINE k == IF HasUnknown(x) THEN "result_unknown" ELSE "other"
    <2>2. k \in Code /\ (k = "result_unknown" <=> HasUnknown(x))
      BY DEF Code, Evidence
    <2>3. owner'[x] = [r EXCEPT !.state = "failed", !.token = 0, !.code = k]
      BY <2>1
    <2> HIDE DEF k, r
    <2>4. /\ owner'[x] \in OwnerRecord /\ owner'[x].units = r.units /\ owner'[x].retryOf = r.retryOf
          /\ owner'[x].state = "failed" /\ owner'[x].code = k
      BY <1>1, <2>2, <2>3, Zero DEF OwnerRecord, OwnerState, Terminal
    <2> QED BY <1>6, <1>7, <2>2, <2>4 DEF OwnerState, Terminal, Active
  <1>8. CASE r.state = "queued"
    <2>1. owner'[x] = [r EXCEPT !.state = "review", !.confirmed = 0, !.code = "other"]
      BY <1>8, RecoveredIs
    <2> HIDE DEF r
    <2>2. /\ owner'[x] \in OwnerRecord /\ owner'[x].units = r.units /\ owner'[x].retryOf = r.retryOf
          /\ owner'[x].state = "review" /\ owner'[x].code = "other"
      BY <1>1, <2>1, Zero DEF OwnerRecord, OwnerState, Code
    <2> QED BY <1>4, <1>6, <1>8, <2>2 DEF OwnerState, Active
  <1>9. CASE r.state \in {"failed", "canceled"} /\ HasUnknown(x)
    <2>1. owner'[x] = [r EXCEPT !.state = "failed", !.code = "result_unknown"]
      BY <1>9, RecoveredIs
    <2>2. r.state = "failed"
      BY <1>4, <1>9 DEF Active
    <2> HIDE DEF r
    <2>3. /\ owner'[x] \in OwnerRecord /\ owner'[x].units = r.units /\ owner'[x].retryOf = r.retryOf
          /\ owner'[x].state = "failed" /\ owner'[x].code = "result_unknown"
      BY <1>1, <2>1, Zero DEF OwnerRecord, OwnerState, Terminal, Code, Evidence
    <2> QED BY <1>6, <1>9, <2>2, <2>3 DEF OwnerState, Terminal, Active
  <1>10. CASE r.state \in {"failed", "canceled"} /\ ~HasUnknown(x) /\ r.code = "result_unknown"
    <2>1. owner'[x] = [r EXCEPT !.code = ReconciledCode(x)]
      BY <1>10, RecoveredIs
    <2>2. ReconciledCode(x) \in Code
      BY ReconciledType DEF Tables
    <2>3. ReconciledCode(x) # "result_unknown"
      <3>1. \E c \in Ordinals : inv[x][c] \in Resolutions
        BY <1>4, <1>10 DEF HasUnknown
      <3> QED BY <3>1 DEF ReconciledCode, Resolutions, Refused
    <2> DEFINE k == ReconciledCode(x)
    <2> HIDE DEF k, r
    <2>4. /\ owner'[x] \in OwnerRecord /\ owner'[x].units = r.units /\ owner'[x].retryOf = r.retryOf
          /\ owner'[x].state = r.state /\ owner'[x].code = k
      BY <1>1, <2>1, <2>2 DEF OwnerRecord, k
    <2> QED BY <1>6, <1>10, <2>3, <2>4 DEF OwnerState, Terminal, Active, k
  <1>11. CASE \/ r.state \notin Active \cup {"queued", "failed", "canceled"}
              \/ r.state \in {"failed", "canceled"} /\ ~HasUnknown(x) /\ r.code # "result_unknown"
    <2>1. owner'[x] = r
      BY <1>11, RecoveredIs
    <2>2. r.state \in OwnerState
      BY OwnerFields DEF Tables
    <2> HIDE DEF r
    <2>3. HasUnknown(x) => r.state = "failed"
      BY <1>4, <1>11 DEF Active
    <2>4. r.state \in {"failed", "canceled"} => (r.code = "result_unknown" <=> HasUnknown(x))
      BY <1>11, <2>3
    <2>5. r.state \notin Active \cup {"queued"}
      BY <1>11 DEF Active
    <2>6. Keeps(m, x)
      BY <1>6, <2>1, <2>2, <2>3, <2>4, <2>5
    <2> QED BY <1>1, <2>1, <2>6
  <1> QED BY <1>7, <1>8, <1>9, <1>10, <1>11

ManagerDoes(m) ==
    /\ ApiDoes(m)
    /\ phase'[m] = "owners" =>
           \A x \in Owners, c \in Ordinals : inv'[x][c] \notin {"reserved", "dispatched"}

LEMMA ManagerStepDoes ==
  ASSUME NEW m \in Managers, EditInv, LeaseInv,
         Recover(m) \/ Stop(m) \/ ReleaseLease(m) \/ Crash(m)
  PROVE  ManagerDoes(m)
  <1>1. Tables /\ Root(m) /\ \A x \in Owners : LedgerOf(x)
    BY DEF EditInv, Tables
  <1> USE DEF Enter
  <1>2. ASSUME UNCHANGED <<sent, owner, inv>>, RunTypes', WorkerTable', Unmoved,
               phase'[m] \in OpenPhases => phase[m] \in OpenPhases /\ epoch'[m] = epoch[m] /\ ops' = ops,
               phase'[m] # "owners"
        PROVE  ManagerDoes(m)
    <2>1. QuietRun(m)
      BY <1>2 DEF QuietRun, QuietFor
    <2>2. Tables'
      BY <1>1, <1>2 DEF Tables, OwnerTable, CallTable
    <2> QED BY <1>1, <1>2, <2>1, <2>2, AllKeep DEF ApiDoes, ManagerDoes
  <1>3. \A p \in Phase : phase' = [phase EXCEPT ![m] = p] => phase' \in [Managers -> Phase] /\ phase'[m] = p
    BY <1>1 DEF Tables, RunTypes
  <1>4. /\ Phase = {"down", "ledger", "owners", "files", "up", "stopping"}
        /\ OpenPhases = {"files", "up", "stopping"}
    BY DEF Phase, OpenPhases
  <1>5. CASE Open(m)
    <2>1. starts + 1 \in 0..MaxStarts
      BY <1>1, <1>5, EditingAssumption DEF Open, Tables, RunTypes
    <2>2. /\ phase' = [phase EXCEPT ![m] = "ledger"] /\ starts' = starts + 1 /\ lease' = m
          /\ epoch' = [epoch EXCEPT ![m] = starts + 1]
          /\ UNCHANGED <<owner, inv, timeline, row, file, output, worker, ops, faults, sent>>
          /\ phase[m] = "down"
      BY <1>5 DEF Open, dbVars
    <2>3. RunTypes' /\ WorkerTable' /\ phase'[m] = "ledger"
      BY <1>1, <1>3, <1>4, <2>1, <2>2 DEF Tables, RunTypes, WorkerTable
    <2>4. worker[m].pc = "off"
      BY <2>2 DEF LeaseInv
    <2>5. Unmoved
      BY <1>1, <2>2, <2>4 DEF Unmoved, Tables, RunTypes
    <2> QED BY <1>2, <1>4, <2>2, <2>3, <2>5
  <1>6. CASE RecoverLedger(m)
    <2>1. /\ phase' = [phase EXCEPT ![m] = "owners"]
          /\ inv' = [o \in Owners |-> Closed(inv[o], "released")]
          /\ UNCHANGED <<owner, timeline, row, file, output, lease, worker, ops, epoch, starts,
                         faults, sent>>
      BY <1>6 DEF RecoverLedger
    <2>2. CallTable' /\ \A x \in Owners : Closes(x)
      BY <1>1, <2>1, ClosedCalls DEF Tables, CallTable, Closes
    <2>3. RunTypes' /\ phase'[m] = "owners"
      BY <1>1, <1>3, <1>4, <2>1 DEF Tables, RunTypes
    <2>4. Unmoved /\ Tables'
      BY <1>1, <2>1, <2>2, <2>3 DEF Unmoved, Tables, OwnerTable, WorkerTable
    <2>5. ASSUME NEW x \in Owners PROVE Keeps(m, x)
      <3>1. Closes(x) /\ LedgerOf(x) /\ owner'[x] = owner[x]
        BY <1>1, <2>1, <2>2
      <3>2. OwnerMoves(x)
        BY <3>1 DEF OwnerMoves, Done
      <3>3. LedgerOf(x)'
        <4>1. HasUnknown(x)' => owner[x].state \in Active \cup {"failed"}
          BY <3>1 DEF HasUnknown, Closes, LedgerOf
        <4>2. owner[x].code = "result_unknown" =>
                \E c \in Ordinals : inv'[x][c] \in {"unknown"} \cup Resolutions
          BY <3>1 DEF Closes, LedgerOf, Resolutions, Refused
        <4>3. \A c \in Ordinals : inv'[x][c] # "none" => inv[x][c] # "none"
          BY <3>1 DEF Closes
        <4> QED BY <3>1, <4>1, <4>2, <4>3, ClosesMoves DEF LedgerOf
      <3> QED BY <1>4, <2>3, <3>1, <3>2, <3>3, ClosesMoves DEF Keeps
    <2> QED BY <2>1, <2>2, <2>4, <2>5, ClosesMoves DEF ApiDoes, ManagerDoes
  <1>7. CASE RecoverOwners(m)
    <2>0. owner' = [o \in Owners |-> owner'[o]]
      <3> DEFINE Then(o) ==
            CASE owner[o].state \in Active ->
                    [owner[o] EXCEPT !.state = "failed", !.token = 0,
                        !.code = IF HasUnknown(o) THEN "result_unknown" ELSE "other"]
              [] owner[o].state = "queued" ->
                    [owner[o] EXCEPT !.state = "review", !.confirmed = 0, !.code = "other"]
              [] owner[o].state \in {"failed", "canceled"} /\ HasUnknown(o) ->
                    [owner[o] EXCEPT !.state = "failed", !.code = "result_unknown"]
              [] /\ owner[o].state \in {"failed", "canceled"}
                 /\ owner[o].code = "result_unknown" /\ ~HasUnknown(o) ->
                    [owner[o] EXCEPT !.code = ReconciledCode(o)]
              [] OTHER -> owner[o]
      <3>1. owner' = [o \in Owners |-> Then(o)]
        BY <1>7, Zenon DEF RecoverOwners
      <3> HIDE DEF Then
      <3> QED BY <3>1
    <2>1. /\ phase' = [phase EXCEPT ![m] = "files"]
          /\ UNCHANGED <<inv, timeline, row, file, output, lease, worker, ops, epoch, starts,
                         faults, sent>>
      BY <1>7 DEF RecoverOwners
    <2>2. \A x \in Owners : owner'[x] \in OwnerRecord /\ Keeps(m, x)
      BY <1>1, <1>7, RecoverKeeps
    <2>3. OwnerTable'
      BY <2>0, <2>2 DEF OwnerTable
    <2>4. RunTypes' /\ phase'[m] = "files"
      BY <1>1, <1>3, <1>4, <2>1 DEF Tables, RunTypes
    <2>5. Unmoved /\ Tables'
      BY <1>1, <2>1, <2>3, <2>4 DEF Unmoved, Tables, CallTable, WorkerTable
    <2> QED BY <2>1, <2>2, <2>4, <2>5 DEF ApiDoes, ManagerDoes
  <1>8. CASE RecoverFiles(m)
    <2>1. /\ phase' = [phase EXCEPT ![m] = "up"] /\ worker' = [worker EXCEPT ![m] = Idle]
          /\ output' = [p \in Plans |-> IF output[p] = "copied" THEN "none" ELSE output[p]]
          /\ file' \subseteq file /\ phase[m] = "files"
          /\ UNCHANGED <<owner, inv, timeline, row, lease, ops, epoch, starts, faults, sent>>
      BY <1>8 DEF RecoverFiles
    <2>2. Steps(m, "idle", None, 0)
      BY <1>1, <2>1, Zero, ResetSteps DEF Tables
    <2>3. output' \in [Plans -> {"none", "copied", "registered"}]
      BY <1>1, <2>1 DEF Tables, RunTypes
    <2>4. RunTypes' /\ phase'[m] = "up"
      BY <1>1, <1>3, <1>4, <2>1, <2>3 DEF Tables, RunTypes
    <2>5. WorkerTable' /\ Unmoved
      BY <2>1, <2>2 DEF Steps, Unmoved
    <2> QED BY <1>2, <1>4, <2>1, <2>4, <2>5
  <1>9. CASE Stop(m)
    <2>1. /\ phase' = [phase EXCEPT ![m] = "stopping"] /\ phase[m] = "up"
          /\ worker' = worker \/ worker' = [worker EXCEPT ![m].cancel = TRUE]
          /\ UNCHANGED <<owner, inv, timeline, row, file, output, lease, ops, epoch, starts, faults, sent>>
      BY <1>9 DEF Stop, dbVars
    <2>2. WorkerTable' /\ Unmoved
      <3>1. CASE worker' = worker
        BY <1>1, <2>1, <3>1 DEF Tables, WorkerTable, Unmoved
      <3>2. CASE worker' = [worker EXCEPT ![m].cancel = TRUE]
        <4>1. Steps(m, worker[m].pc, worker[m].owner, worker[m].cue)
          BY <1>1, <3>2, SignalSteps DEF Tables
        <4> QED BY <2>1, <4>1 DEF Steps, Unmoved
      <3> QED BY <2>1, <3>1, <3>2
    <2>3. RunTypes' /\ phase'[m] = "stopping"
      BY <1>1, <1>3, <1>4, <2>1 DEF Tables, RunTypes
    <2> QED BY <1>2, <1>4, <2>1, <2>2, <2>3
  <1>10. CASE ReleaseLease(m)
    <2>1. /\ phase' = [phase EXCEPT ![m] = "down"] /\ lease' = None
          /\ UNCHANGED <<owner, inv, timeline, row, file, output, worker, ops, epoch, starts, faults, sent>>
      BY <1>10 DEF ReleaseLease, dbVars
    <2>2. RunTypes' /\ phase'[m] = "down" /\ WorkerTable' /\ Unmoved
      BY <1>1, <1>3, <1>4, <2>1 DEF Tables, RunTypes, WorkerTable, Unmoved
    <2> QED BY <1>2, <1>4, <2>1, <2>2
  <1>11. CASE Crash(m)
    <2>1. /\ phase' = [phase EXCEPT ![m] = "down"] /\ lease' \in {None, lease} /\ ops' \subseteq ops
          /\ worker' = [worker EXCEPT ![m] = Off]
          /\ UNCHANGED <<owner, inv, timeline, row, file, output, epoch, starts, faults, sent>>
      BY <1>11 DEF Crash, dbVars
    <2>2. Steps(m, "off", None, 0)
      BY <1>1, <2>1, Zero, ResetSteps DEF Tables
    <2>3. RunTypes' /\ phase'[m] = "down"
      BY <1>1, <1>3, <1>4, <2>1 DEF Tables, RunTypes
    <2>4. WorkerTable' /\ Unmoved
      BY <2>1, <2>2 DEF Steps, Unmoved
    <2> QED BY <1>2, <1>4, <2>1, <2>3, <2>4
  <1> QED BY <1>5, <1>6, <1>7, <1>8, <1>9, <1>10, <1>11 DEF Recover

-----------------------------------------------------------------------------
(***************************************************************************)
(* Retries and lineages across a step                                      *)
(***************************************************************************)
LEMMA OwnersTable == OwnerTable => Table(owner)
  BY DEF OwnerTable, OwnerRecord, Table

LEMMA NextTable == OwnerTable' => Table(owner')
  BY DEF OwnerTable, OwnerRecord, Table

LEMMA NoneIsNobody == None \notin Owners /\ None \notin Managers
  BY EditingAssumption DEF None, Owners

LEMMA LinksStay ==
  ASSUME OwnerTable, OwnerTable', CallTable, Links, \A x \in Owners : OwnerMoves(x) /\ CallMoves(x)
  PROVE  Links'
  <1>1. ASSUME NEW s \in Owners, owner[s].state # "none" PROVE owner'[s].retryOf = owner[s].retryOf
    BY <1>1 DEF OwnerMoves
  <1>2. ASSUME NEW s \in Owners, owner[s].state = "none", owner'[s].retryOf # None
        PROVE  owner'[s].state = "review" /\ Retries(s, owner'[s].retryOf)
    BY <1>2 DEF OwnerMoves, Links, LinkOf
  <1>3. ASSUME NEW s \in Owners PROVE LinkOf(s)'
    <2> DEFINE p == owner'[s].retryOf
    <2> SUFFICES ASSUME p # None
                 PROVE  /\ owner'[s].state # "none"
                        /\ owner'[p].state \in {"failed", "canceled", "succeeded"}
                        /\ \A c \in Ordinals : inv'[p][c] \in Calm
      BY DEF LinkOf
    <2>1. p \in Owners
      BY NextTable DEF Table
    <2>2. OwnerMoves(s) /\ OwnerMoves(p) /\ CallMoves(p)
      BY <2>1
    <2>3. CASE owner[s].state # "none"
      <3>1. p = owner[s].retryOf
        BY <1>1, <2>3
      <3>2. /\ owner[p].state \in {"failed", "canceled", "succeeded"}
            /\ \A c \in Ordinals : inv[p][c] \in Calm
        BY <3>1 DEF Links, LinkOf
      <3> HIDE DEF p
      <3>3. owner'[s].state # "none" /\ owner'[p].state = owner[p].state
        BY <2>2, <2>3, <3>2 DEF OwnerMoves, Terminal, Done
      <3>4. \A c \in Ordinals : inv'[p][c] = inv[p][c]
        BY <2>2, <3>2 DEF CallMoves, Calm, Final, Resolutions, Active
      <3> QED BY <3>2, <3>3, <3>4
    <2>4. CASE owner[s].state = "none"
      <3>1. owner'[s].state = "review" /\ Retries(s, p)
        BY <1>2, <2>4
      <3> HIDE DEF p
      <3>2. p # s /\ owner'[p] = owner[p] /\ inv' = inv
        BY <2>1, <2>4, <3>1 DEF Retries
      <3>3. \A c \in Ordinals : inv[p][c] \in Calm
        <4>1. p \in Ancestry(p)
          BY <2>1, OwnersTable, AncestryIs, LineOwn
        <4>2. \A c \in Ordinals : inv[p][c] \in InvState
          BY <2>1 DEF CallTable
        <4> QED BY <3>1, <4>1, <4>2
            DEF Retries, RetryAllowed, Calm, InvState, Resolutions, Refused
      <3> QED BY <3>1, <3>2, <3>3 DEF Retries
    <2> QED BY <2>3, <2>4
  <1>4. OneRetry'
    <2> SUFFICES ASSUME NEW s \in Owners, NEW t \in Owners, owner'[s].retryOf # None,
                        owner'[s].retryOf = owner'[t].retryOf, s # t
                 PROVE  FALSE
      BY DEF OneRetry
    <2>1. CASE owner[s].state # "none" /\ owner[t].state # "none"
      BY <1>1, <2>1 DEF Links, OneRetry
    <2>2. CASE owner[s].state = "none"
      BY <1>2, <2>2 DEF Retries, HasSuccessor
    <2>3. CASE owner[t].state = "none"
      BY <1>2, <2>3 DEF Retries, HasSuccessor
    <2> QED BY <2>1, <2>2, <2>3
  <1> QED BY <1>3, <1>4 DEF Links

LEMMA AncestryStays ==
  ASSUME OwnerTable, OwnerTable', Links, \A x \in Owners : OwnerMoves(x),
         NEW x \in Owners, owner[x].state # "none"
  PROVE  Ancestry(x)' = Ancestry(x)
  <1>1. ASSUME NEW s \in Owners, owner[s].state # "none" PROVE owner'[s].retryOf = owner[s].retryOf
    BY <1>1 DEF OwnerMoves
  <1>2. ASSUME NEW s \in Owners, owner[s].retryOf # None
        PROVE  owner'[owner[s].retryOf].retryOf = owner[owner[s].retryOf].retryOf
    <2>1. owner[s].retryOf \in Owners
      BY <1>2, OwnersTable DEF Table
    <2>2. owner[owner[s].retryOf].state # "none"
      BY <1>2 DEF Links, LinkOf
    <2> QED BY <1>1, <2>1, <2>2
  <1> QED BY <1>1, <1>2, OwnersTable, NextTable, AncestryIs, LineSame

\* What was answered stays answered.
LEMMA AnswersStay ==
  ASSUME OwnerTable, OwnerTable', Links, \A x \in Owners : OwnerMoves(x) /\ CallMoves(x),
         NEW x \in Owners, owner[x].state # "none", NEW c \in Ordinals, Answered(x, c)
  PROVE  Answered(x, c)'
  <1>1. Ancestry(x)' = Ancestry(x)
    BY AncestryStays
  <1>2. PICK a \in Ancestry(x) : inv[a][c] = "responded"
    BY DEF Answered
  <1>3. a \in Owners
    BY OwnersTable, AncestryIs, LineOwn
  <1>4. inv'[a][c] = "responded"
    BY <1>2, <1>3 DEF CallMoves, Final
  <1> QED BY <1>1, <1>2, <1>4 DEF Answered

-----------------------------------------------------------------------------
(***************************************************************************)
(* The steps of the worker                                                 *)
(***************************************************************************)
WorkerDoes(m) ==
    /\ Tables' /\ UNCHANGED <<phase, epoch, lease, ops>>
    /\ \A n \in Managers \ {m} : worker'[n] = worker[n]
    /\ \A x \in Owners : Keeps(m, x)
    /\ AtWork(m)'
    /\ sent \subseteq sent'
    /\ \A call \in sent' \ sent : inv'[call[1]][call[2]] \notin Unsent

LEMMA QuietWorker ==
  ASSUME NEW m \in Managers, UNCHANGED <<phase, epoch, ops>>
  PROVE  QuietRun(m)
  BY DEF QuietRun, QuietFor

\* The position changes, owners and ledger do not.
LEMMA StayDoes ==
  ASSUME NEW m \in Managers, EditInv, RunTypes', UNCHANGED <<owner, inv, phase, epoch, lease, ops>>,
         NEW p, NEW o, NEW c, Steps(m, p, o, c), Fits(p, o, c, epoch[m]),
         sent \subseteq sent', \A call \in sent' \ sent : inv[call[1]][call[2]] \notin Unsent
  PROVE  WorkerDoes(m)
  <1>1. Tables /\ Root(m) /\ \A x \in Owners : LedgerOf(x)
    BY DEF EditInv, Tables
  <1>2. Tables' /\ \A n \in Managers \ {m} : worker'[n] = worker[n]
    BY <1>1 DEF Tables, OwnerTable, CallTable, Steps
  <1>3. \A x \in Owners : Keeps(m, x)
    BY <1>1, QuietWorker, AllKeep
  <1>4. \A x, d : Answered(x, d)' <=> Answered(x, d)
    BY AncestryIs DEF Answered
  <1>5. AtWork(m)'
    <2>1. worker'[m].pc = p /\ worker'[m].owner = o /\ worker'[m].cue = c /\ epoch'[m] = epoch[m]
      BY DEF Steps
    <2>2. Resolved(o)' <=> Resolved(o)
      BY DEF Resolved
    <2> QED BY <1>4, <2>1, <2>2 DEF AtWork, Fits
  <1> QED BY <1>2, <1>3, <1>5 DEF WorkerDoes

LEMMA FitsRest == \A o, c, e : Fits("off", o, c, e) /\ Fits("idle", o, c, e)
  BY DEF Fits, OnCue, AtReserved, AtDispatched, AtResponded

\* Where the worker is, its owner is, and its call.
LEMMA Position ==
  ASSUME NEW m \in Managers, EditInv
  PROVE  /\ Tables /\ AtWork(m) /\ Root(m) /\ \A x \in Owners : LedgerOf(x)
         /\ worker[m].pc \notin {"off", "idle"} => Mine(m) \in Owners
         /\ worker[m].pc \in OnCue =>
                /\ worker[m].cue \in Ordinals /\ worker[m].cue \in 1..owner[Mine(m)].units
                /\ worker[m].cue + 1 \in 0..(NumCues + 1)
  <1>1. Tables /\ AtWork(m) /\ Root(m) /\ \A x \in Owners : LedgerOf(x)
    BY DEF EditInv, Tables
  <1>2. worker[m].pc \notin {"off", "idle"} => Mine(m) \in Owners
    BY <1>1 DEF AtWork, Fits, Mine
  <1>3. ASSUME worker[m].pc \in OnCue
        PROVE  /\ worker[m].cue \in Ordinals /\ worker[m].cue \in 1..owner[Mine(m)].units
               /\ worker[m].cue + 1 \in 0..(NumCues + 1)
    <2>1. Mine(m) \in Owners /\ worker[m].cue \in 1..owner[Mine(m)].units
      BY <1>1, <1>2, <1>3 DEF AtWork, Fits, Mine, OnCue
    <2>2. owner[Mine(m)].units \in 0..NumCues
      BY <1>1, <2>1, OwnerFields DEF Tables
    <2> QED BY <2>1, <2>2, EditingAssumption DEF Ordinals
  <1> QED BY <1>1, <1>2, <1>3

\* A worker that holds its owner may fail at any position.
LEMMA FailFits ==
  ASSUME NEW m \in Managers, AtWork(m), worker[m].pc \notin {"off", "idle", "clean"},
         NEW p \in {"fail", "failing", "canceled"}
  PROVE  Fits(p, Mine(m), worker[m].cue, epoch[m])
  BY DEF AtWork, Fits, Mine, OnCue, AtReserved, AtDispatched, AtResponded

LEMMA NextFits ==
  ASSUME NEW o \in Owners, NEW e, owner[o].token = e, owner[o].state \in Active,
         owner[o].units \in Nat, NEW c \in Nat, c \in 1..(owner[o].units + 1),
         \A d \in 1..(c - 1) : Answered(o, d), LedgerOf(o), o \in Tasks => c = 1
  PROVE  NextCall(o, c) \in WorkerPC /\ Fits(NextCall(o, c), o, c, e)
  <1>1. CASE c > owner[o].units
    <2>1. \A d \in 1..owner[o].units : Answered(o, d)
      BY <1>1
    <2>2. CASE o \in Tasks
      <3>1. NextCall(o, c) = "complete"
        BY <1>1, <2>2 DEF NextCall, AfterCues
      <3>2. \A d \in Ordinals : inv[o][d] = "none"
        BY <1>1, <2>2 DEF LedgerOf
      <3>3. Resolved(o)
        BY <3>2 DEF Resolved
      <3> QED BY <2>1, <3>1, <3>3 DEF WorkerPC, Fits, OnCue, AtReserved, AtDispatched, AtResponded
    <2>3. CASE o \notin Tasks
      <3>1. NextCall(o, c) = "render" /\ o \in Plans
        BY <1>1, <2>3 DEF NextCall, AfterCues, Owners
      <3> QED BY <2>1, <3>1 DEF WorkerPC, Fits, OnCue, AtReserved, AtDispatched, AtResponded
    <2> QED BY <2>2, <2>3
  <1>2. CASE ~(c > owner[o].units)
    <2>1. c \in 1..owner[o].units
      BY <1>2
    <2>2. CASE o \in Tasks
      <3>1. NextCall(o, c) = "reserve"
        BY <1>2, <2>2 DEF NextCall
      <3> QED BY <2>1, <3>1 DEF WorkerPC, Fits, OnCue, AtReserved, AtDispatched, AtResponded
    <2>3. CASE o \notin Tasks
      <3>1. NextCall(o, c) = "load" /\ o \in Plans
        BY <1>2, <2>3 DEF NextCall, Owners
      <3> QED BY <2>1, <3>1 DEF WorkerPC, Fits, OnCue, AtReserved, AtDispatched, AtResponded
    <2> QED BY <2>2, <2>3
  <1> QED BY <1>1, <1>2

LEMMA OwnLine ==
  ASSUME OwnerTable, NEW o \in Owners
  PROVE  o \in Ancestry(o) /\ Ancestry(o) \subseteq Owners
  BY OwnersTable, AncestryIs, LineOwn

\* Steps that change nothing but the position.
LEMMA PlainDoes ==
  ASSUME NEW m \in Managers, EditInv,
         \/ Publish(m) \/ CheckCanceled(m) \/ LocalFailure(m) \/ TestCanceled(m) \/ LaunchFailure(m)
         \/ Return(m) \/ Render(m) \/ JudgeFailure(m) \/ WorkerExit(m)
  PROVE  WorkerDoes(m)
  <1> USE DEF At
  <1>1. Tables /\ AtWork(m) /\ WorkerTable /\ RunTypes
    BY Position DEF Tables
  <1> DEFINE Still == UNCHANGED <<owner, inv, timeline, row, file, output, lease, phase, ops, epoch,
                                  starts, faults, sent>>
  <1>2. ASSUME Still, NEW p, NEW o, NEW c, Steps(m, p, o, c), Fits(p, o, c, epoch[m])
        PROVE  WorkerDoes(m)
    <2>1. RunTypes'
      BY <1>1, <1>2 DEF RunTypes
    <2> QED BY <1>2, <2>1, StayDoes
  <1>3. ASSUME Still, NEW p \in WorkerPC, Goto(m, p), Fits(p, Mine(m), worker[m].cue, epoch[m])
        PROVE  WorkerDoes(m)
    BY <1>1, <1>2, <1>3, GotoSteps DEF Mine
  <1>4. ASSUME Still, NEW p \in WorkerPC, NEW b \in BOOLEAN,
               worker' = [worker EXCEPT ![m].pc = p, ![m].cancel = b],
               Fits(p, Mine(m), worker[m].cue, epoch[m])
        PROVE  WorkerDoes(m)
    BY <1>1, <1>2, <1>4, CancelSteps DEF Mine
  <1>c. worker[m].cancel \in BOOLEAN /\ Cancelled(m) \in BOOLEAN
    BY <1>1, WorkerFields DEF Cancelled
  <1>5. CASE Publish(m)
    <2>1. Fits("check", Mine(m), 1, epoch[m])
      BY <1>1, <1>5 DEF Publish, AtWork, Fits, Mine, OnCue, AtReserved, AtDispatched, AtResponded
    <2>2. Steps(m, "check", Mine(m), 1)
      BY <1>1, <1>5, Zero, PublishSteps DEF Publish, Mine
    <2> QED BY <1>2, <1>5, <2>1, <2>2 DEF Publish, RunKeeps
  <1>6. CASE CheckCanceled(m)
    <2> DEFINE stop == worker[m].cancel \/ owner[Mine(m)].state = "canceling"
    <2>1. PICK p \in {"fail", NextCall(Mine(m), 1)} :
            worker' = [worker EXCEPT ![m].pc = p, ![m].cancel = stop]
      BY <1>6 DEF CheckCanceled
    <2>2. stop \in BOOLEAN
      BY <1>c
    <2> HIDE DEF stop
    <2>3. /\ Mine(m) \in Owners /\ owner[Mine(m)].token = epoch[m] /\ owner[Mine(m)].state \in Active
          /\ worker[m].cue = 1 /\ Still
      BY <1>1, <1>6 DEF CheckCanceled, RunKeeps, AtWork, Fits, Mine
    <2>4. owner[Mine(m)].units \in Nat /\ 1 \in 1..(owner[Mine(m)].units + 1)
          /\ \A d \in 1..(1 - 1) : Answered(Mine(m), d)
      BY <1>1, <2>3, OwnerFields DEF Tables
    <2>5. NextCall(Mine(m), 1) \in WorkerPC /\ Fits(NextCall(Mine(m), 1), Mine(m), 1, epoch[m])
      BY <2>3, <2>4, Position, NextFits
    <2>6. Fits("fail", Mine(m), worker[m].cue, epoch[m])
      BY <1>1, <1>6, FailFits DEF CheckCanceled
    <2> QED BY <1>4, <2>1, <2>2, <2>3, <2>5, <2>6 DEF WorkerPC
  <1>7. CASE LocalFailure(m)
    <2>1. Fits("fail", Mine(m), worker[m].cue, epoch[m])
      BY <1>1, <1>7, FailFits DEF LocalFailure
    <2> QED BY <1>3, <1>7, <2>1 DEF LocalFailure, RunKeeps, WorkerPC
  <1>8. CASE TestCanceled(m)
    <2>1. PICK p \in {"release", "dispatch"} :
            worker' = [worker EXCEPT ![m].pc = p, ![m].cancel = Cancelled(m)]
      BY <1>8 DEF TestCanceled
    <2>2. Fits(p, Mine(m), worker[m].cue, epoch[m])
      BY <1>1, <1>8, <2>1 DEF TestCanceled, AtWork, Fits, Mine, OnCue, AtReserved, AtDispatched, AtResponded
    <2> QED BY <1>4, <1>8, <1>c, <2>1, <2>2 DEF TestCanceled, RunKeeps, WorkerPC
  <1>9. CASE LaunchFailure(m)
    <2>1. Fits("unknown", Mine(m), worker[m].cue, epoch[m])
      BY <1>1, <1>9 DEF LaunchFailure, AtWork, Fits, Mine, OnCue, AtReserved, AtDispatched, AtResponded
    <2> QED BY <1>3, <1>9, <2>1 DEF LaunchFailure, RunKeeps, WorkerPC
  <1>10. CASE Return(m)
    <2>1. PICK p \in {"respond", "unknown"} : Goto(m, p)
      BY <1>10 DEF Return
    <2>2. Fits(p, Mine(m), worker[m].cue, epoch[m])
      BY <1>1, <1>10, <2>1 DEF Return, AtWork, Fits, Mine, OnCue, AtReserved, AtDispatched, AtResponded
    <2> QED BY <1>3, <1>10, <2>1, <2>2 DEF Return, RunKeeps, WorkerPC
  <1>11. CASE Render(m)
    <2>1. Fits("complete", Mine(m), worker[m].cue, epoch[m])
      BY <1>1, <1>11, EditingAssumption DEF Render, AtWork, Fits, Mine, OnCue, AtReserved, AtDispatched, AtResponded
    <2> QED BY <1>3, <1>11, <2>1 DEF Render, RunKeeps, WorkerPC
  <1>12. CASE JudgeFailure(m)
    <2>1. Fits("failing", Mine(m), worker[m].cue, epoch[m])
      BY <1>1, <1>12, FailFits DEF JudgeFailure
    <2> QED BY <1>4, <1>12, <1>c, <2>1 DEF JudgeFailure, RunKeeps, WorkerPC
  <1>13. CASE WorkerExit(m)
    <2>1. Steps(m, "off", None, 0)
      BY <1>1, <1>13, Zero, ResetSteps DEF WorkerExit
    <2> QED BY <1>2, <1>13, <2>1, FitsRest DEF WorkerExit, dbVars
  <1> QED BY <1>5, <1>6, <1>7, <1>8, <1>9, <1>10, <1>11, <1>12, <1>13

\* Steps that write files, checkpoint rows or the copied output.
LEMMA StorageDoes ==
  ASSUME NEW m \in Managers, EditInv,
         LoadCheckpoint(m) \/ CopyCheckpoint(m) \/ RecordCheckpoint(m) \/ Complete(m) \/ Clean(m)
  PROVE  WorkerDoes(m)
  <1> USE DEF At
  <1>1. Tables /\ AtWork(m) /\ WorkerTable /\ RunTypes /\ OwnerTable
    BY Position DEF Tables
  <1> DEFINE Still == UNCHANGED <<owner, inv, timeline, lease, phase, ops, epoch, starts, sent>>
             o == Mine(m)
             c == worker[m].cue
  <1>2. ASSUME Still, RunTypes', NEW p, NEW x, NEW d, Steps(m, p, x, d), Fits(p, x, d, epoch[m])
        PROVE  WorkerDoes(m)
    BY <1>2, StayDoes
  <1>3. ASSUME Still, RunTypes', NEW p \in WorkerPC, Goto(m, p), Fits(p, o, c, epoch[m])
        PROVE  WorkerDoes(m)
    BY <1>1, <1>2, <1>3, GotoSteps DEF Mine
  <1>4. ASSUME worker[m].pc \in {"load", "record"}
        PROVE  /\ o \in Plans /\ o \in Owners /\ owner[o].token = epoch[m] /\ owner[o].state \in Active
               /\ c \in Nat /\ c + 1 \in Nat /\ c + 1 \in 1..(owner[o].units + 1) /\ owner[o].units \in Nat
               /\ \A d \in 1..(c - 1) : Answered(o, d)
               /\ c + 1 \in 0..(NumCues + 1)
    <2>1. /\ o \in Plans /\ o \in Owners /\ owner[o].token = epoch[m] /\ owner[o].state \in Active
          /\ \A d \in 1..(c - 1) : Answered(o, d)
      BY <1>1, <1>4 DEF AtWork, Fits, Mine, OnCue
    <2>2. c \in 1..owner[o].units /\ c + 1 \in 0..(NumCues + 1)
      BY <1>4, Position DEF OnCue
    <2>3. owner[o].units \in Nat
      BY <1>1, <2>1, OwnerFields
    <2> QED BY <2>1, <2>2, <2>3
  \* On to the next cue, when this one is answered.
  <1>5. ASSUME Still, RunTypes', worker[m].pc \in {"load", "record"}, Answered(o, c),
               worker' = [worker EXCEPT ![m].pc = NextCall(o, c + 1), ![m].cue = c + 1]
        PROVE  WorkerDoes(m)
    <2>1. \A d \in 1..((c + 1) - 1) : Answered(o, d)
      BY <1>4, <1>5
    <2>2. NextCall(o, c + 1) \in WorkerPC /\ Fits(NextCall(o, c + 1), o, c + 1, epoch[m])
      <3>1. LedgerOf(o) /\ o \notin Tasks
        BY <1>4, <1>5, Position, EditingAssumption
      <3> QED BY <1>4, <1>5, <2>1, <3>1, NextFits
    <2>3. Steps(m, NextCall(o, c + 1), o, c + 1)
      BY <1>1, <1>4, <1>5, <2>2, CueSteps DEF Mine
    <2> QED BY <1>2, <1>5, <2>2, <2>3
  <1>6. CASE LoadCheckpoint(m)
    <2>1. PICK reuse \in SUBSET Vouched(o, c) :
            /\ file' = (file \ CueFiles(o, c)) \cup reuse
            /\ worker' = IF reuse = {} THEN [worker EXCEPT ![m].pc = "reserve"]
                         ELSE [worker EXCEPT ![m].pc = NextCall(o, c + 1), ![m].cue = c + 1]
      BY <1>6 DEF LoadCheckpoint
    <2>2. Still /\ UNCHANGED <<row, output, faults>>
      BY <1>6 DEF LoadCheckpoint
    <2>3. Vouched(o, c) \subseteq file
      BY DEF Vouched, CueFiles
    <2>4. RunTypes'
      BY <1>1, <2>1, <2>2, <2>3 DEF RunTypes
    <2>5. CASE reuse = {}
      <3>1. Goto(m, "reserve")
        BY <2>1, <2>5 DEF Goto
      <3>2. Fits("reserve", o, c, epoch[m])
        BY <1>1, <1>6 DEF LoadCheckpoint, AtWork, Fits, Mine, OnCue, AtReserved, AtDispatched, AtResponded
      <3> QED BY <1>3, <2>2, <2>4, <3>1, <3>2 DEF WorkerPC
    <2>6. CASE reuse # {}
      <3>1. Answered(o, c)
        BY <2>1, <2>6 DEF Vouched, Answered
      <3> QED BY <1>5, <1>6, <2>1, <2>2, <2>4, <2>6, <3>1 DEF LoadCheckpoint
    <2> QED BY <2>5, <2>6
  <1>7. CASE CopyCheckpoint(m)
    <2>1. Fits("record", o, c, epoch[m]) /\ o \in Plans /\ c \in Ordinals
      BY <1>1, <1>7, Position
      DEF CopyCheckpoint, AtWork, Fits, Mine, OnCue, AtReserved, AtDispatched, AtResponded
    <2>2. file' \subseteq file \cup {<<o, c>>}
      BY <1>7 DEF CopyCheckpoint, Vouched, CueFiles
    <2>3. Still /\ UNCHANGED <<row, output, faults>>
      BY <1>7 DEF CopyCheckpoint
    <2>4. RunTypes'
      BY <1>1, <2>1, <2>2, <2>3 DEF RunTypes
    <2> QED BY <1>3, <1>7, <2>1, <2>3, <2>4 DEF CopyCheckpoint, WorkerPC
  <1>8. CASE RecordCheckpoint(m)
    <2>1. o \in Plans /\ o \in Owners /\ c \in Ordinals
      BY <1>1, <1>4, <1>8, Position DEF RecordCheckpoint, OnCue
    <2>2. Still /\ UNCHANGED output /\ row' \subseteq row \cup {<<o, c>>} /\ file' \subseteq file
          /\ faults' \in 0..MaxFaults
      <3>1. faults + 1 \in 0..MaxFaults \/ ~(faults < MaxFaults)
        BY <1>1, EditingAssumption DEF RunTypes
      <3> QED BY <1>1, <1>8, <3>1 DEF RecordCheckpoint, RunTypes, Fault
    <2>3. RunTypes'
      BY <1>1, <2>1, <2>2 DEF RunTypes
    <2>4. CASE Cue(m) = "responded"
               /\ worker' = [worker EXCEPT ![m].pc = NextCall(o, c + 1), ![m].cue = @ + 1]
      <3>1. worker' = [worker EXCEPT ![m].pc = NextCall(o, c + 1), ![m].cue = c + 1]
        BY <2>4
      <3>2. Answered(o, c)
        BY <1>1, <2>1, <2>4, OwnLine DEF Answered, Cue
      <3> QED BY <1>5, <1>8, <2>2, <2>3, <3>1, <3>2 DEF RecordCheckpoint
    <2>5. CASE Goto(m, "fail")
      <3>1. Fits("fail", o, c, epoch[m])
        BY <1>1, <1>8, FailFits DEF RecordCheckpoint
      <3> QED BY <1>3, <2>2, <2>3, <2>5, <3>1 DEF WorkerPC
    <2> QED BY <1>8, <2>4, <2>5 DEF RecordCheckpoint
  <1>9. CASE Complete(m)
    <2>1. PICK p \in {"fail", "canceled", "commit"} : Goto(m, p)
      BY <1>9 DEF Complete
    <2>2. Fits(p, o, c, epoch[m])
      <3>1. Fits("commit", o, c, epoch[m])
        BY <1>1, <1>9 DEF Complete, AtWork, Fits, Mine, OnCue, AtReserved, AtDispatched, AtResponded
      <3>2. p # "commit" => Fits(p, o, c, epoch[m])
        BY <1>1, <1>9, FailFits DEF Complete
      <3> QED BY <3>1, <3>2
    <2>3. Still /\ UNCHANGED <<row, file>> /\ faults' \in 0..MaxFaults
      <3>1. faults + 1 \in 0..MaxFaults \/ ~(faults < MaxFaults)
        BY <1>1, EditingAssumption DEF RunTypes
      <3> QED BY <1>1, <1>9, <3>1 DEF Complete, RunTypes, Fault
    <2>4. output' = output \/ (o \in Plans /\ output' = [output EXCEPT ![o] = "copied"])
      BY <1>9 DEF Complete
    <2>5. RunTypes'
      BY <1>1, <2>3, <2>4 DEF RunTypes
    <2> QED BY <1>3, <2>1, <2>2, <2>3, <2>5 DEF WorkerPC
  <1>10. CASE Clean(m)
    <2>1. file' \subseteq file /\ Still /\ UNCHANGED <<row, output, faults>>
      BY <1>10 DEF Clean
    <2>2. RunTypes'
      BY <1>1, <2>1 DEF RunTypes
    <2>3. Steps(m, "idle", None, 0)
      BY <1>1, <1>10, Zero, ResetSteps DEF Clean, Free
    <2> QED BY <1>2, <2>1, <2>2, <2>3, FitsRest
  <1> QED BY <1>6, <1>7, <1>8, <1>9, <1>10

\* A call turns, and the worker moves with it.
LEMMA TurnDoes ==
  ASSUME NEW m \in Managers, EditInv, RunTypes', UNCHANGED <<owner, phase, epoch, lease, ops, sent>>,
         worker[m].pc \in OnCue, NEW to \in InvState,
         inv' = [inv EXCEPT ![Mine(m)][worker[m].cue] = to],
         Cue(m) \in {"none", "reserved", "dispatched"}, Cue(m) = "dispatched" => to \notin Unsent,
         NEW p \in WorkerPC, Goto(m, p),
         \/ p = "fail"
         \/ p \in AtReserved /\ to = "reserved"
         \/ p \in AtDispatched /\ to = "dispatched"
         \/ p = "copy" /\ to = "responded" /\ Mine(m) \in Plans
         \/ p = "complete" /\ to = "responded" /\ Mine(m) \in Tasks
  PROVE  WorkerDoes(m)
  <1>a. PICK o \in Owners : o = Mine(m)
    BY Position DEF OnCue
  <1>b. PICK c \in Ordinals : c = worker[m].cue
    BY Position
  <1>1. /\ Tables /\ Root(m) /\ (\A x \in Owners : LedgerOf(x))
        /\ c \in 1..owner[o].units
    BY <1>a, <1>b, Position
  <1>2. /\ owner[o].token = epoch[m] /\ owner[o].state \in Active
        /\ \A d \in 1..(c - 1) : Answered(o, d)
    BY <1>a, <1>b, Position DEF AtWork, Fits, Mine, OnCue
  <1>3. Turns(o, c, to)
    BY <1>a, <1>b, <1>1, CallTurns DEF Tables
  <1>4. Keeps(m, o)
    BY <1>a, <1>b, <1>1, <1>2, <1>3, QuietWorker, TurnKeeps DEF QuietRun, Cue
  <1>5. \A x \in Owners : Keeps(m, x)
    BY <1>1, <1>3, <1>4, QuietWorker, OthersKeep DEF Turns
  <1>6. Steps(m, p, o, c)
    BY <1>a, <1>b, <1>1, GotoSteps DEF Tables, Mine
  <1>7. Tables'
    BY <1>1, <1>3, <1>6 DEF Tables, OwnerTable, Turns, Steps
  <1>8. Links
    BY DEF EditInv
  <1>9. owner[o].units \in 0..NumCues /\ owner[o].state # "none"
    BY <1>1, <1>2, OwnerFields DEF Tables, Active
  <1>10. ASSUME NEW d \in Ordinals, Answered(o, d) PROVE Answered(o, d)'
    BY <1>1, <1>5, <1>7, <1>8, <1>9, <1>10, AnswersStay DEF Tables, Keeps
  <1>11. \A d \in 1..(c - 1) : Answered(o, d)'
    <2>1. \A d \in 1..(c - 1) : d \in Ordinals
      BY <1>1, <1>9, EditingAssumption DEF Ordinals
    <2> QED BY <1>2, <1>10, <2>1
  <1>12. to = "responded" => Answered(o, c)'
    <2>1. OwnerTable' => o \in Ancestry(o)'
      BY <1>1, NextTable, AncestryIs, LineOwn
    <2> QED BY <1>3, <1>7, <2>1 DEF Turns, Answered, Tables
  <1>13. p = "complete" => \A d \in 1..owner[o].units : Answered(o, d)'
    <2>1. o \in Tasks => owner[o].units <= 1
      BY <1>1 DEF LedgerOf
    <2>2. p = "complete" => \A d \in 1..owner[o].units : d = c
      BY <1>a, <1>1, <1>9, <2>1 DEF WorkerPC, AtReserved, AtDispatched
    <2> QED BY <1>12, <2>2 DEF AtReserved, AtDispatched
  <1>14. AtWork(m)'
    <2>1. /\ worker'[m].pc = p /\ worker'[m].owner = o /\ worker'[m].cue = c /\ epoch'[m] = epoch[m]
          /\ inv'[o][c] = to /\ owner' = owner
      BY <1>3, <1>6 DEF Steps, Turns
    <2>2. CASE p = "fail"
      BY <1>1, <1>2, <2>1, <2>2 DEF AtWork, Fits, OnCue, AtReserved, AtDispatched, AtResponded
    <2>3. CASE p \in AtReserved /\ to = "reserved"
      BY <1>1, <1>2, <1>11, <2>1, <2>3 DEF AtWork, Fits, OnCue, AtReserved, AtDispatched, AtResponded
    <2>4. CASE p \in AtDispatched /\ to = "dispatched"
      BY <1>1, <1>2, <1>11, <2>1, <2>4 DEF AtWork, Fits, OnCue, AtReserved, AtDispatched, AtResponded
    <2>5. CASE p = "copy" /\ to = "responded" /\ o \in Plans
      BY <1>1, <1>2, <1>11, <2>1, <2>5 DEF AtWork, Fits, OnCue, AtReserved, AtDispatched, AtResponded
    <2>6. CASE p = "complete"
      <3>1. to = "responded" /\ o \in Tasks
        BY <1>a, <2>6 DEF AtReserved, AtDispatched
      <3>2. \A d \in Ordinals \ {c} : inv[o][d] = "none"
        BY <1>1, <1>9, <3>1 DEF LedgerOf
      <3>3. Resolved(o)'
        BY <1>3, <3>1, <3>2 DEF Turns, Resolved
      <3> QED BY <1>1, <1>2, <1>13, <2>1, <2>6, <3>3 DEF AtWork, Fits, OnCue, AtReserved, AtDispatched, AtResponded
    <2> QED BY <2>2, <2>3, <2>4, <2>5, <2>6, <1>a
  <1> QED BY <1>5, <1>6, <1>7, <1>14 DEF WorkerDoes, Steps

\* The ledger transitions, the reservation, and the call that is handed over.
LEMMA LedgerDoes ==
  ASSUME NEW m \in Managers, EditInv,
         Reserve(m) \/ Release(m) \/ Dispatch(m) \/ Respond(m) \/ MarkUnknown(m) \/ Send(m)
  PROVE  WorkerDoes(m)
  <1> USE DEF At
  <1>1. Tables /\ AtWork(m) /\ WorkerTable /\ RunTypes
    BY Position DEF Tables
  <1> DEFINE Still == UNCHANGED <<owner, timeline, row, file, output, lease, phase, ops, epoch, starts>>
             o == Mine(m)
             c == worker[m].cue
  <1>2. ASSUME Still, faults' \in 0..MaxFaults, UNCHANGED <<inv, sent>>, NEW p \in WorkerPC,
               Goto(m, p), Fits(p, o, c, epoch[m])
        PROVE  WorkerDoes(m)
    <2>1. RunTypes'
      BY <1>1, <1>2 DEF RunTypes
    <2>2. Steps(m, p, o, c)
      BY <1>1, <1>2, GotoSteps DEF Mine
    <2> QED BY <1>2, <2>1, <2>2, StayDoes
  <1>f. faults' = faults + 1 /\ faults < MaxFaults => faults' \in 0..MaxFaults
    BY <1>1, EditingAssumption DEF RunTypes
  <1>g. UNCHANGED faults => faults' \in 0..MaxFaults
    BY <1>1 DEF RunTypes
  <1>3. ASSUME NEW pc, NEW from, NEW guard, NEW to \in InvState, NEW then \in WorkerPC,
               NEW else \in WorkerPC, Transition(m, pc, from, guard, to, then, else),
               pc \in OnCue, from \in {"reserved", "dispatched"}, from = "dispatched" => to \notin Unsent,
               \/ then = "fail"
               \/ then \in AtReserved /\ to = "reserved"
               \/ then \in AtDispatched /\ to = "dispatched"
               \/ then = "copy" /\ to = "responded" /\ Mine(m) \in Plans
               \/ then = "complete" /\ to = "responded" /\ Mine(m) \in Tasks,
               Fits(else, o, c, epoch[m])
        PROVE  WorkerDoes(m)
    <2>1. worker[m].pc = pc /\ Still /\ UNCHANGED sent
      BY <1>3 DEF Transition, RunKeeps
    <2>2. CASE /\ Cue(m) = from /\ inv' = [inv EXCEPT ![Mine(m)][worker[m].cue] = to]
               /\ Goto(m, then) /\ UNCHANGED faults
      <3>1. RunTypes'
        BY <1>1, <1>g, <2>1, <2>2 DEF RunTypes
      <3>2. worker[m].pc \in OnCue /\ Cue(m) \in {"none", "reserved", "dispatched"}
            /\ (Cue(m) = "dispatched" => to \notin Unsent)
        BY <1>3, <2>1, <2>2
      <3>3. UNCHANGED <<owner, phase, epoch, lease, ops, sent>>
        BY <2>1
      <3> QED BY <1>3, <2>2, <3>1, <3>2, <3>3, TurnDoes
    <2>3. CASE Goto(m, else) /\ UNCHANGED inv /\ (UNCHANGED faults \/ Fault)
      BY <1>2, <1>3, <1>f, <1>g, <2>1, <2>3 DEF Fault
    <2> QED BY <1>3, <2>2, <2>3 DEF Transition
  <1>4. worker[m].pc \notin {"off", "idle", "clean"} => Fits("fail", o, c, epoch[m])
    BY <1>1, FailFits
  <1>5. CASE Reserve(m)
    <2>1. worker[m].pc = "reserve" /\ Still /\ UNCHANGED <<faults, sent>>
      BY <1>5 DEF Reserve, RunKeeps
    <2>2. CASE /\ Cue(m) = "none" /\ inv' = [inv EXCEPT ![o][c] = "reserved"]
               /\ Goto(m, "test")
      <3>1. RunTypes'
        BY <1>1, <2>1 DEF RunTypes
      <3>2. "reserved" \in InvState /\ "test" \in WorkerPC /\ "test" \in AtReserved
            /\ worker[m].pc \in OnCue
        BY <2>1 DEF InvState, WorkerPC, AtReserved, OnCue
      <3>3. UNCHANGED <<owner, phase, epoch, lease, ops, sent>>
        BY <2>1
      <3> QED BY <2>2, <3>1, <3>2, <3>3, TurnDoes
    <2>3. CASE UNCHANGED inv /\ Goto(m, "fail")
      BY <1>2, <1>4, <1>g, <2>1, <2>3 DEF WorkerPC
    <2> QED BY <1>5, <2>2, <2>3 DEF Reserve
  <1>6. CASE Release(m)
    <2>1. worker[m].pc = "release"
      BY <1>6 DEF Release, Transition
    <2> QED BY <1>3, <1>4, <1>6, <2>1 DEF Release, InvState, WorkerPC, OnCue
  <1>7. CASE Dispatch(m)
    <2>1. worker[m].pc = "dispatch"
      BY <1>7 DEF Dispatch, Transition
    <2>2. Fits("release", o, c, epoch[m])
      BY <1>1, <2>1 DEF AtWork, Fits, Mine, OnCue, AtReserved, AtDispatched, AtResponded
    <2> QED BY <1>3, <1>7, <2>1, <2>2 DEF Dispatch, InvState, WorkerPC, OnCue, AtDispatched
  <1>8. CASE Respond(m)
    <2> DEFINE then == IF Mine(m) \in Tasks THEN "complete" ELSE "copy"
    <2>1. worker[m].pc = "respond"
      BY <1>8 DEF Respond, Transition
    <2>2. Fits("unknown", o, c, epoch[m])
      BY <1>1, <2>1 DEF AtWork, Fits, Mine, OnCue, AtReserved, AtDispatched, AtResponded
    <2>3. \/ then = "copy" /\ Mine(m) \in Plans
          \/ then = "complete" /\ Mine(m) \in Tasks
      BY <2>1, Position DEF Owners
    <2>4. Transition(m, "respond", "dispatched", TRUE, "responded", then, "unknown")
      BY <1>8 DEF Respond
    <2>5. /\ then \in WorkerPC /\ "unknown" \in WorkerPC /\ "responded" \in InvState
          /\ "respond" \in OnCue /\ "responded" \notin Unsent
      BY DEF WorkerPC, InvState, OnCue, Unsent
    <2> HIDE DEF then
    <2> QED BY <1>3, <2>2, <2>3, <2>4, <2>5
  <1>9. CASE MarkUnknown(m)
    <2>1. worker[m].pc = "unknown"
      BY <1>9 DEF MarkUnknown, Transition
    <2> QED BY <1>3, <1>4, <1>9, <2>1 DEF MarkUnknown, InvState, WorkerPC, OnCue, Unsent
  <1>10. CASE Send(m)
    <2>1. /\ worker[m].pc = "remote" /\ Still /\ UNCHANGED <<inv, faults>> /\ Goto(m, "await")
          /\ sent' = sent \cup {<<o, c>>}
      BY <1>10 DEF Send, RunKeeps
    <2>2. Fits("await", o, c, epoch[m]) /\ inv[o][c] = "dispatched"
      BY <1>1, <2>1 DEF AtWork, Fits, Mine, OnCue, AtReserved, AtDispatched, AtResponded
    <2>3. o \in Owners /\ c \in Ordinals
      BY <2>1, Position DEF OnCue
    <2>4. RunTypes'
      BY <1>1, <2>1, <2>3 DEF RunTypes
    <2>5. Steps(m, "await", o, c)
      BY <1>1, <2>1, GotoSteps DEF Mine, WorkerPC
    <2>6. sent \subseteq sent' /\ \A call \in sent' \ sent : inv[call[1]][call[2]] \notin Unsent
      BY <2>1, <2>2 DEF Unsent
    <2> HIDE DEF o, c
    <2> QED BY <2>1, <2>2, <2>4, <2>5, <2>6, StayDoes
  <1> QED BY <1>5, <1>6, <1>7, <1>8, <1>9, <1>10

\* The worker is done with its owner, but for the clean-up of a ready plan.
LEMMA RestDoes ==
  ASSUME NEW m \in Managers, EditInv, RunTypes', UNCHANGED <<phase, epoch, lease, ops, sent>>,
         OwnerTable', CallTable', NEW o \in Owners, Keeps(m, o),
         \A x \in Owners \ {o} : owner'[x] = owner[x] /\ inv'[x] = inv[x],
         NEW p \in {"idle", "clean"}, NEW w, NEW c, Steps(m, p, w, c),
         p = "clean" => w \in Plans /\ owner'[w].state = "ready"
  PROVE  WorkerDoes(m)
  <1>1. Root(m) /\ \A x \in Owners : LedgerOf(x)
    BY DEF EditInv
  <1>2. \A x \in Owners : Keeps(m, x)
    BY <1>1, QuietWorker, OthersKeep
  <1>3. AtWork(m)'
    <2>1. worker'[m].pc = p /\ worker'[m].owner = w
      BY DEF Steps
    <2> QED BY <2>1 DEF AtWork, Fits, OnCue, AtReserved, AtDispatched, AtResponded, Owners
  <1> QED BY <1>2, <1>3 DEF WorkerDoes, Tables, Steps

\* An owner ends, in one transaction with nothing of the ledger.
LEMMA EndDoes ==
  ASSUME NEW m \in Managers, EditInv, RunTypes', UNCHANGED <<inv, phase, epoch, lease, ops, sent>>,
         worker[m].pc = "commit", Resolved(Mine(m)),
         NEW state \in Terminal, owner[Mine(m)].state = "canceling" => state \notin Done,
         owner' = Ended(Mine(m), state, "other"),
         NEW p \in {"idle", "clean"}, NEW w, NEW c, Steps(m, p, w, c),
         p = "clean" => w \in Plans /\ w = Mine(m) /\ state = "ready"
  PROVE  WorkerDoes(m)
  <1>a. PICK o \in Owners : o = Mine(m)
    BY Position
  <1>1. Tables /\ LedgerOf(o) /\ owner[o].state \in Active
    BY <1>a, Position DEF AtWork, Fits, Mine
  <1>2. Writes(o, state, "other", 0, owner[o].confirmed)
    BY <1>a, <1>1, Zero, EndedWrites DEF Tables, OwnerState, Code
  <1>3. Keeps(m, o)
    <2>1. ~HasUnknown(o) /\ \A d \in Ordinals : inv[o][d] \notin {"reserved", "dispatched"}
      BY <1>a DEF Resolved, HasUnknown
    <2>2. \E n \in Managers : worker[n].pc = "commit" /\ worker[n].owner = o
      BY <1>a DEF Mine
    <2>3. state \notin Active \cup {"queued"} /\ state # "none" /\ owner[o].state \notin Terminal \cup {"none"}
      BY <1>1 DEF Terminal, Done, Active
    <2> QED BY <1>a, <1>1, <1>2, <2>1, <2>2, <2>3, WroteKeeps
  <1>4. CallTable' /\ OwnerTable' /\ \A x \in Owners \ {o} : owner'[x] = owner[x] /\ inv'[x] = inv[x]
    BY <1>1, <1>2 DEF Tables, CallTable, Writes, Wrote
  <1>5. p = "clean" => owner'[w].state = "ready"
    BY <1>a, <1>2 DEF Writes, Wrote
  <1> QED BY <1>3, <1>4, <1>5, RestDoes

\* An owner ends together with its open calls.
LEMMA CloseDoes ==
  ASSUME NEW m \in Managers, EditInv, RunTypes', UNCHANGED <<phase, epoch, lease, ops, sent>>,
         worker[m].pc \in {"failing", "canceled"}, NEW canceled \in BOOLEAN,
         CloseOwner(Mine(m), canceled), Free(m)
  PROVE  WorkerDoes(m)
  <1>a. PICK o \in Owners : o = Mine(m)
    BY Position
  <1>1. Tables /\ LedgerOf(o) /\ owner[o].state \in Active
    BY <1>a, Position DEF AtWork, Fits, Mine
  <1>2. CloseOwner(o, canceled)
    BY <1>a
  <1>3. Keeps(m, o)
    BY <1>1, <1>2, Zero, CloseKeeps DEF Tables
  <1>4. CallTable' /\ OwnerTable' /\ \A x \in Owners \ {o} : owner'[x] = owner[x] /\ inv'[x] = inv[x]
    BY <1>1, <1>2, Zero, CloseWrites DEF Tables, Writes
  <1>5. Steps(m, "idle", None, 0)
    BY <1>1, Zero, ResetSteps DEF Free, Tables
  <1> QED BY <1>3, <1>4, <1>5, RestDoes

LEMMA EndingDoes ==
  ASSUME NEW m \in Managers, EditInv,
         CommitTask(m) \/ CommitPlan(m) \/ FailOwner(m) \/ CancelOwner(m)
  PROVE  WorkerDoes(m)
  <1> USE DEF At
  <1>1. Tables /\ AtWork(m) /\ WorkerTable /\ RunTypes
    BY Position DEF Tables
  <1>2. faults' = faults \/ Fault => faults' \in 0..MaxFaults
    BY <1>1, EditingAssumption DEF RunTypes, Fault
  <1> DEFINE Still == UNCHANGED <<row, file, lease, phase, ops, epoch, starts, sent>>
                      /\ faults' \in 0..MaxFaults
  \* Without a word in the database the worker goes on to its failure handler.
  <1>3. ASSUME Still, RunTypes', UNCHANGED <<owner, inv>>, Goto(m, "fail"),
               worker[m].pc \in {"commit", "canceled"}
        PROVE  WorkerDoes(m)
    <2>1. Steps(m, "fail", Mine(m), worker[m].cue)
      BY <1>1, <1>3, GotoSteps DEF WorkerPC, Mine
    <2>2. Fits("fail", Mine(m), worker[m].cue, epoch[m])
      BY <1>1, <1>3, FailFits
    <2> QED BY <1>3, <2>1, <2>2, StayDoes
  <1>4. Free(m) => Steps(m, "idle", None, 0)
    BY <1>1, Zero, ResetSteps DEF Free
  <1>5. CASE CommitTask(m)
    <2> DEFINE t == Mine(m)
               registered == owner[t].state = "running" /\ Resolved(t)
               state == IF registered THEN "succeeded" ELSE "canceled"
    <2>1. worker[m].pc = "commit" /\ t \in Tasks /\ Still /\ UNCHANGED <<inv, output>>
      BY <1>2, <1>5 DEF CommitTask
    <2>2. RunTypes'
      <3>1. timeline' = timeline \/ timeline' = [timeline EXCEPT ![t] = "review"]
        BY <1>5 DEF CommitTask
      <3> QED BY <1>1, <2>1, <3>1 DEF RunTypes
    <2>3. CASE Free(m) /\ owner' = Ended(t, state, "other")
      <3>1. Resolved(t)
        BY <1>1, <2>1 DEF AtWork, Fits, Mine
      <3>2. state \in Terminal /\ (owner[t].state = "canceling" => state \notin Done)
        BY DEF Terminal, Done
      <3> HIDE DEF state
      <3> QED BY <1>4, <2>1, <2>2, <2>3, <3>1, <3>2, EndDoes
    <2>4. CASE Goto(m, "fail") /\ UNCHANGED owner
      BY <1>3, <2>1, <2>2, <2>4
    <2> QED BY <1>5, <2>3, <2>4 DEF CommitTask
  <1>6. CASE CommitPlan(m)
    <2>1. worker[m].pc = "commit" /\ Mine(m) \in Plans /\ Still /\ UNCHANGED <<inv, timeline>>
      BY <1>2, <1>6 DEF CommitPlan
    <2>2. RunTypes'
      <3>1. output' = [output EXCEPT ![Mine(m)] = "registered"] \/ output' = [output EXCEPT ![Mine(m)] = "none"]
        BY <1>6 DEF CommitPlan
      <3> QED BY <1>1, <2>1, <3>1 DEF RunTypes
    <2>3. CASE /\ owner[Mine(m)].state = "running" /\ Resolved(Mine(m))
               /\ owner' = Ended(Mine(m), "ready", "other") /\ Goto(m, "clean")
      <3>1. Steps(m, "clean", Mine(m), worker[m].cue)
        BY <1>1, <2>3, GotoSteps DEF WorkerPC, Mine
      <3>2. "ready" \in Terminal /\ owner[Mine(m)].state # "canceling"
        BY <2>3 DEF Terminal, Done
      <3> QED BY <2>1, <2>2, <2>3, <3>1, <3>2, EndDoes
    <2>4. CASE Goto(m, "fail") /\ UNCHANGED owner
      BY <1>3, <2>1, <2>2, <2>4
    <2> QED BY <1>6, <2>3, <2>4 DEF CommitPlan
  <1>7. CASE FailOwner(m)
    <2>1. worker[m].pc = "failing" /\ Still /\ UNCHANGED <<timeline, output>> /\ Free(m)
      BY <1>2, <1>7 DEF FailOwner, RunKeeps
    <2>2. RunTypes'
      BY <1>1, <2>1 DEF RunTypes
    <2>3. CASE CloseOwner(Mine(m), worker[m].cancel)
      <3>1. worker[m].cancel \in BOOLEAN
        BY <1>1, WorkerFields
      <3> QED BY <2>1, <2>2, <2>3, <3>1, CloseDoes
    <2>4. CASE UNCHANGED <<owner, inv>>
      BY <1>4, <2>1, <2>2, <2>4, FitsRest, StayDoes
    <2> QED BY <1>7, <2>3, <2>4 DEF FailOwner
  <1>8. CASE CancelOwner(m)
    <2>1. worker[m].pc = "canceled" /\ Still /\ UNCHANGED <<timeline, output>>
      BY <1>2, <1>8 DEF CancelOwner, RunKeeps
    <2>2. RunTypes'
      BY <1>1, <2>1 DEF RunTypes
    <2>3. CASE CloseOwner(Mine(m), TRUE) /\ Free(m)
      BY <2>1, <2>2, <2>3, CloseDoes
    <2>4. CASE UNCHANGED <<owner, inv>> /\ Goto(m, "fail")
      BY <1>3, <2>1, <2>2, <2>4
    <2> QED BY <1>8, <2>3, <2>4 DEF CancelOwner
  <1> QED BY <1>5, <1>6, <1>7, <1>8

\* A claim takes the first owner it may, and reviews those it passed anew.
LEMMA ClaimDoes ==
  ASSUME NEW m \in Managers, EditInv, NEW o \in Owners, Claim(m, o)
  PROVE  WorkerDoes(m)
  <1>1. /\ Tables /\ OwnerTable /\ WorkerTable /\ RunTypes
        /\ Root(m) /\ \A x \in Owners : LedgerOf(x)
    BY DEF EditInv, Tables
  <1>2. PICK passed \in SUBSET {x \in Owners : owner[x].state = "queued" /\ ~RetryAllowed(x)} :
          owner' = [a \in Owners |->
               IF a \in passed
               THEN [owner[a] EXCEPT !.state = "review", !.code = "retry_blocked",
                                     !.confirmed = 0]
               ELSE IF a = o
               THEN [owner[a] EXCEPT !.state = "running", !.token = epoch[m]]
               ELSE owner[a]]
    <2>1. \A kind \in {Tasks, Plans} :
            Blocked(kind) \subseteq {x \in Owners : owner[x].state = "queued" /\ ~RetryAllowed(x)}
      BY DEF Blocked, Owners
    <2> QED BY <2>1 DEF Claim
  <1>3. /\ owner[o].state = "queued" /\ o \notin passed
        /\ phase[m] = "up" /\ worker' = [worker EXCEPT ![m] = [Idle EXCEPT !.pc = "claimed", !.owner = o]]
        /\ UNCHANGED <<inv, timeline, row, file, output, lease, phase, ops, epoch, starts, faults, sent>>
    BY <1>2 DEF Claim, Claimable
  <1>4. epoch[m] \in 0..MaxStarts /\ QuietRun(m)
    BY <1>1, <1>3, QuietWorker DEF RunTypes
  <1>5. ASSUME NEW x \in passed
        PROVE  owner'[x] \in OwnerRecord /\ Keeps(m, x)
    <2>1. x \in Owners /\ owner[x].state = "queued"
      BY <1>2
    <2>2. owner'[x] = [owner[x] EXCEPT !.state = "review", !.code = "retry_blocked", !.confirmed = 0]
      BY <1>2, <2>1
    <2>3. owner'[x] \in OwnerRecord /\ Wrote(x, "review", "retry_blocked", owner[x].token, 0)
      <3> DEFINE r == owner[x]
      <3>1. r \in OwnerRecord
        BY <1>1, <2>1 DEF OwnerTable
      <3>2. "review" \in OwnerState /\ "retry_blocked" \in Code
        BY DEF OwnerState, Code, Evidence
      <3>3. owner'[x] = [r EXCEPT !.state = "review", !.code = "retry_blocked", !.confirmed = 0]
        BY <2>2
      <3> SUFFICES owner'[x] \in OwnerRecord /\ /\ owner'[x].state = "review"
                   /\ owner'[x].code = "retry_blocked" /\ owner'[x].token = r.token
                   /\ owner'[x].confirmed = 0
                   /\ owner'[x].units = r.units /\ owner'[x].retryOf = r.retryOf
        BY DEF Wrote
      <3> HIDE DEF r
      <3> QED BY <3>1, <3>2, <3>3, Zero DEF OwnerRecord
    <2>4. ~HasUnknown(x) /\ \A c \in Ordinals : inv[x][c] \notin {"reserved", "dispatched"}
      BY <1>1, <2>1 DEF LedgerOf, Active
    <2>5. owner[x].state \notin Terminal \cup {"none"} /\ "review" \notin Active \cup {"queued", "none"} \cup Done
          /\ inv'[x] = inv[x] /\ LedgerOf(x)
      BY <1>1, <1>3, <2>1 DEF Terminal, Done, Active
    <2> QED BY <2>1, <2>3, <2>4, <2>5, FieldsKeep
  <1>6. /\ owner'[o] \in OwnerRecord /\ Keeps(m, o)
        /\ owner'[o].state = "running" /\ owner'[o].token = epoch[m]
    <2>2. owner'[o] = [owner[o] EXCEPT !.state = "running", !.token = epoch[m]]
      BY <1>2, <1>3
    <2>3. owner'[o] \in OwnerRecord /\ Wrote(o, "running", owner[o].code, epoch[m], owner[o].confirmed)
      BY <1>1, <1>4, <2>2 DEF Wrote, OwnerTable, OwnerRecord, OwnerState, Active
    <2>4. owner[o].confirmed = epoch'[m]
      BY <1>1, <1>3 DEF Root, Shown
    <2>5. owner[o].state \notin Terminal \cup {"none"} /\ "running" \in Active /\ "running" \notin Done \cup {"none"}
          /\ inv'[o] = inv[o] /\ LedgerOf(o)
      BY <1>1, <1>3 DEF Terminal, Done, Active
    <2>6. Keeps(m, o)
      BY <1>3, <2>3, <2>4, <2>5, FieldsKeep
    <2> QED BY <2>3, <2>6 DEF Wrote
  <1>7. ASSUME NEW x \in Owners \ (passed \cup {o})
        PROVE  owner'[x] \in OwnerRecord /\ Keeps(m, x)
    <2>1. owner'[x] = owner[x] /\ inv'[x] = inv[x]
      BY <1>2, <1>3
    <2>2. Keeps(m, x)
      BY <1>1, <1>4, <2>1, SameKeeps DEF QuietRun
    <2> QED BY <1>1, <2>1, <2>2 DEF OwnerTable
  <1>8. \A x \in Owners : owner'[x] \in OwnerRecord /\ Keeps(m, x)
    BY <1>5, <1>6, <1>7
  <1>9. OwnerTable'
    BY <1>2, <1>8 DEF OwnerTable
  <1>10. Steps(m, "claimed", o, 0)
    BY <1>1, <1>3, Zero, ResetSteps
  <1>11. Tables'
    BY <1>1, <1>3, <1>9, <1>10 DEF Tables, CallTable, RunTypes, Steps
  <1>12. AtWork(m)'
    <2>1. worker'[m].pc = "claimed" /\ worker'[m].owner = o /\ epoch'[m] = epoch[m]
      BY <1>3, <1>10 DEF Steps
    <2> QED BY <1>6, <2>1 DEF AtWork, Fits, OnCue, AtReserved, AtDispatched, AtResponded, Active
  <1> QED BY <1>3, <1>8, <1>10, <1>11, <1>12 DEF WorkerDoes, Steps

LEMMA WorkerStepDoes ==
  ASSUME NEW m \in Managers, EditInv, WorkerStep(m)
  PROVE  WorkerDoes(m)
  BY ClaimDoes, PlainDoes, StorageDoes, LedgerDoes, EndingDoes DEF WorkerStep

-----------------------------------------------------------------------------
(***************************************************************************)
(* The invariant is kept                                                   *)
(***************************************************************************)
\* Only the holder of the lease takes a step, or who takes the lease.
LEMMA WorkingPhases ==
  ASSUME NEW m \in Managers, LeaseInv, WorkerStep(m) \/ ApiBegin(m) \/ ApiEnd(m)
  PROVE  UNCHANGED phase /\ phase[m] \in {"up", "stopping"} /\ lease = m
  <1>1. CASE WorkerStep(m)
    <2>1. worker[m].pc # "off" /\ UNCHANGED phase
      <3>1. CASE WorkerExit(m)
        BY <3>1 DEF WorkerExit, At
      <3>2. CASE ~WorkerExit(m)
        BY <1>1, <3>2, ClaimContinues, PlainContinues, TransitionContinues, CueContinues,
           EndingContinues DEF WorkerStep, Continues
      <3> QED BY <3>1, <3>2
    <2> QED BY <2>1 DEF LeaseInv
  <1>2. CASE ApiBegin(m)
    <2>1. phase[m] = "up" /\ UNCHANGED phase
      BY <1>2 DEF ApiBegin, CreateOwner, ConfirmTask, ConfirmPlanCheck, Cancel, Retry, ReconcileLedger,
                  ReviewTimeline, ApiKeeps, Serving
    <2> QED BY <2>1 DEF LeaseInv
  <1>3. CASE ApiEnd(m)
    <2>1. PICK o \in Owners, kind \in {"signal", "confirm", "reconcile"} : <<m, kind, o>> \in ops /\ UNCHANGED phase
      BY <1>3 DEF ApiEnd, ConfirmPlanQueue, SignalCancel, ReconcileOwner, ApiKeeps
    <2>2. <<m, kind, o>>[1] = m
      OBVIOUS
    <2> QED BY <2>1, <2>2 DEF LeaseInv
  <1> QED BY <1>1, <1>2, <1>3

LEMMA OthersDown ==
  ASSUME NEW m \in Managers, LeaseInv, LeaseInv', NEW n \in Managers \ {m},
         \/ WorkerStep(m) \/ ApiBegin(m) \/ ApiEnd(m)
         \/ Recover(m) \/ Stop(m) \/ ReleaseLease(m) \/ Crash(m)
  PROVE  /\ AtWork(n)' /\ Root(n)'
         /\ phase'[n] = "down" /\ worker[n].pc = "off" /\ worker'[n].pc = "off"
  <1>1. phase[n] = "down" /\ phase'[n] = phase[n]
    <2>1. CASE WorkerStep(m) \/ ApiBegin(m) \/ ApiEnd(m)
      BY <2>1, WorkingPhases DEF LeaseInv
    <2>2. CASE Open(m)
      BY <2>2, NoneIsNobody DEF LeaseInv, Open, Enter
    <2>3. CASE RecoverLedger(m) \/ RecoverOwners(m) \/ RecoverFiles(m) \/ Stop(m) \/ ReleaseLease(m) \/ Crash(m)
      <3>1. phase[m] # "down" /\ \E p : phase' = [phase EXCEPT ![m] = p]
        BY <2>3 DEF RecoverLedger, RecoverOwners, RecoverFiles, Stop, ReleaseLease, Crash, Quiescent, Enter
      <3> QED BY <3>1 DEF LeaseInv
    <2> QED BY <2>1, <2>2, <2>3 DEF Recover
  <1>2. worker[n].pc = "off" /\ worker'[n].pc = "off"
    BY <1>1 DEF LeaseInv
  <1> QED BY <1>1, <1>2 DEF Root, AtWork, Fits, OnCue, AtReserved, AtDispatched, AtResponded

\* Who runs goes on running under the same claim, with the same calls.
Undisturbed(x) == owner[x].state \in Active =>
    owner'[x].state \in Active /\ owner'[x].token = owner[x].token /\ inv'[x] = inv[x]

LEMMA ApiDisturbsNobody ==
  ASSUME NEW m \in Managers, OwnerTable, CallTable, RunTypes, ApiBegin(m) \/ ApiEnd(m),
         NEW x \in Owners
  PROVE  Undisturbed(x)
  <1>1. ASSUME NEW o \in Owners, owner[o].state \notin Active,
               inv'[x] = inv[x], x # o => owner'[x] = owner[x]
        PROVE  Undisturbed(x)
    BY <1>1 DEF Undisturbed
  <1>2. ASSUME UNCHANGED owner, inv'[x] = inv[x]
        PROVE  Undisturbed(x)
    BY <1>2 DEF Undisturbed
  <1>3. ASSUME NEW o \in Owners, NEW remote \in BOOLEAN, CreateOwner(m, o, remote) PROVE Undisturbed(x)
    BY <1>1, <1>3 DEF CreateOwner, Insert, ApiKeeps, OwnerTable, Active
  <1>4. ASSUME NEW o \in Owners, ConfirmTask(m, o) \/ ConfirmPlanQueue(m, o) \/ ConfirmPlanCheck(m, o)
        PROVE  Undisturbed(x)
    <2>1. UNCHANGED owner \/ (owner[o].state = "review" /\ owner' = Queued(o, m))
      <3>1. CASE ConfirmTask(m, o)
        BY <3>1 DEF ConfirmTask
      <3>2. CASE ConfirmPlanQueue(m, o)
        BY <3>2 DEF ConfirmPlanQueue
      <3>3. CASE ConfirmPlanCheck(m, o)
        BY <3>3 DEF ConfirmPlanCheck
      <3> QED BY <1>4, <3>1, <3>2, <3>3
    <2>2. UNCHANGED inv
      BY <1>4 DEF ConfirmTask, ConfirmPlanQueue, ConfirmPlanCheck, ApiKeeps
    <2>3. CASE owner[o].state = "review" /\ owner' = Queued(o, m)
      BY <1>1, <2>2, <2>3, QueuedWrites DEF Writes, Active
    <2> QED BY <1>2, <2>1, <2>2, <2>3
  <1>5. ASSUME NEW o \in Owners, Cancel(m, o) PROVE Undisturbed(x)
    <2>1. UNCHANGED inv
      BY <1>5 DEF Cancel, ApiKeeps
    <2>2. CASE /\ owner[o].state \in {"review", "queued"}
               /\ owner' = [owner EXCEPT ![o].state = "canceled", ![o].code = "other"]
      BY <1>1, <2>1, <2>2, CodeWrites DEF Writes, OwnerState, Terminal, Code, Active
    <2>3. CASE owner' = [owner EXCEPT ![o].state = "canceling", ![o].code = "other"]
      <3>1. "canceling" \in OwnerState /\ "other" \in Code
        BY DEF OwnerState, Active, Code
      <3>2. Writes(o, "canceling", "other", owner[o].token, owner[o].confirmed)
        BY <2>3, <3>1, CodeWrites
      <3> QED BY <2>1, <3>2 DEF Writes, Wrote, Active, Undisturbed
    <2> QED BY <1>5, <2>2, <2>3 DEF Cancel
  <1>6. ASSUME NEW o \in Owners, NEW new \in Owners, Retry(m, o, new) PROVE Undisturbed(x)
    BY <1>1, <1>6 DEF Retry, Insert, ApiKeeps, OwnerTable, Active
  <1>7. ASSUME NEW o \in Owners, NEW c \in Ordinals, NEW r \in Resolutions, ReconcileLedger(m, o, c, r)
        PROVE  Undisturbed(x)
    <2>1. owner[o].state \notin Active /\ UNCHANGED owner /\ inv' = [inv EXCEPT ![o][c] = r]
      BY <1>7 DEF ReconcileLedger, Active
    <2> QED BY <2>1 DEF Undisturbed, CallTable
  <1>8. ASSUME NEW o \in Owners, SignalCancel(m, o) PROVE Undisturbed(x)
    BY <1>2, <1>8 DEF SignalCancel, dbVars
  <1>9. ASSUME NEW o \in Owners, ReconcileOwner(m, o) PROVE Undisturbed(x)
    <2>1. UNCHANGED inv
      BY <1>9 DEF ReconcileOwner, ApiKeeps
    <2>2. CASE UNCHANGED owner
      BY <1>2, <2>1, <2>2
    <2>3. CASE owner[o].state \in {"failed", "canceled"} /\ owner' = [owner EXCEPT ![o].code = ReconciledCode(o)]
      BY <1>1, <2>1, <2>3, ReconciledType, JudgedWrites DEF Writes, Active
    <2> QED BY <1>9, <2>2, <2>3 DEF ReconcileOwner
  <1>10. ASSUME NEW t \in Tasks, NEW d \in {"approved", "rejected"}, ReviewTimeline(m, t, d)
         PROVE  Undisturbed(x)
    BY <1>2, <1>10 DEF ReviewTimeline, ApiKeeps
  <1> QED BY <1>3, <1>4, <1>5, <1>6, <1>7, <1>8, <1>9, <1>10 DEF ApiBegin, ApiEnd

LEMMA ManagerDisturbsNobody ==
  ASSUME NEW m \in Managers, LeaseInv, WorkerTable,
         Recover(m) \/ Stop(m) \/ ReleaseLease(m) \/ Crash(m)
  PROVE  worker'[m].pc \in {"off", "idle"} \/ \A x \in Owners : Undisturbed(x)
  <1>1. UNCHANGED <<owner, inv>> => \A x \in Owners : Undisturbed(x)
    BY DEF Undisturbed
  <1>2. CASE Open(m) \/ Stop(m) \/ ReleaseLease(m) \/ Crash(m)
    BY <1>1, <1>2 DEF Open, Stop, ReleaseLease, Crash, dbVars
  <1>3. CASE RecoverLedger(m) \/ RecoverOwners(m)
    BY <1>3 DEF RecoverLedger, RecoverOwners, LeaseInv
  <1>4. CASE RecoverFiles(m)
    BY <1>1, <1>4 DEF RecoverFiles
  <1> QED BY <1>2, <1>3, <1>4 DEF Recover

\* Where the worker is, it still is where it was.
LEMMA PositionStays ==
  ASSUME NEW m \in Managers, EditInv, Tables', Unmoved,
         \A x \in Owners : OwnerMoves(x) /\ CallMoves(x),
         worker'[m].pc \in {"off", "idle"} \/ \A x \in Owners : Undisturbed(x)
  PROVE  AtWork(m)'
  <1>1. CASE worker'[m].pc \in {"off", "idle"}
    BY <1>1 DEF AtWork, Fits, OnCue, AtReserved, AtDispatched, AtResponded
  <1>2. CASE worker'[m].pc \notin {"off", "idle"}
    <2>1. /\ worker'[m].pc = worker[m].pc /\ worker'[m].owner = worker[m].owner
          /\ worker'[m].cue = worker[m].cue /\ epoch'[m] = epoch[m]
      BY <1>2 DEF Unmoved
    <2>2. PICK p, c, e : p = worker[m].pc /\ c = worker[m].cue /\ e = epoch[m]
      OBVIOUS
    <2>3. PICK o \in Owners : o = worker[m].owner
      BY <1>2, <2>1, Position DEF Mine
    <2>4. Fits(p, o, c, e) /\ Tables /\ Links
      BY <2>2, <2>3, Position DEF AtWork, EditInv
    <2>5. OwnerMoves(o) /\ Undisturbed(o)
      BY <1>2
    <2>6. owner[o].state # "none" /\ owner[o].units \in 0..NumCues
      BY <1>2, <2>1, <2>2, <2>4, OwnerFields DEF Fits, Active, Tables
    <2>7. owner'[o].units = owner[o].units
      BY <2>5, <2>6 DEF OwnerMoves
    <2>8. ASSUME NEW d \in Ordinals, Answered(o, d) PROVE Answered(o, d)'
      BY <2>4, <2>6, <2>8, AnswersStay DEF Tables
    <2>9. \A d \in 1..owner[o].units : d \in Ordinals
      BY <2>6, EditingAssumption DEF Ordinals
    <2>10. Fits(p, o, c, e)'
      <3>1. CASE p = "clean"
        <4>1. o \in Plans /\ owner'[o].state = "ready"
          BY <2>4, <2>5, <3>1 DEF Fits, OwnerMoves, Terminal, Done
        <4> QED BY <3>1, <4>1 DEF Fits, OnCue, AtReserved, AtDispatched, AtResponded
      <3>2. CASE p # "clean"
        <4>1. /\ owner[o].token = e /\ owner'[o].token = e /\ owner'[o].state \in Active
              /\ inv'[o] = inv[o]
          BY <1>2, <2>1, <2>2, <2>4, <2>5, <3>2 DEF Fits, Undisturbed
        <4>2. Resolved(o)' <=> Resolved(o)
          BY <4>1 DEF Resolved
        <4>3. p \in OnCue => \A d \in 1..(c - 1) : Answered(o, d)'
          <5>1. p \in OnCue => c \in 1..owner[o].units /\ \A d \in 1..(c - 1) : Answered(o, d)
            BY <2>4 DEF Fits
          <5>2. p \in OnCue => \A d \in 1..(c - 1) : d \in 1..owner[o].units
            BY <2>6, <5>1
          <5> QED BY <2>8, <2>9, <5>1, <5>2
        <4>4. p \in {"render", "complete", "commit"} => \A d \in 1..owner[o].units : Answered(o, d)'
          BY <2>4, <2>8, <2>9 DEF Fits
        <4> QED BY <2>4, <2>7, <3>2, <4>1, <4>2, <4>3, <4>4 DEF Fits
      <3> QED BY <3>1, <3>2
    <2> QED BY <2>1, <2>2, <2>3, <2>10 DEF AtWork
  <1> QED BY <1>1, <1>2

\* Retries, calls and results are right after a step that does to each owner
\* and each worker what it may.
LEMMA Composed ==
  ASSUME EditInv, Tables', \A x \in Owners : OwnerMoves(x) /\ CallMoves(x) /\ LedgerOf(x)',
         \A n \in Managers : AtWork(n)' /\ Root(n)',
         sent \subseteq sent', \A call \in sent' \ sent : inv'[call[1]][call[2]] \notin Unsent
  PROVE  EditInv'
  <1>1. Tables /\ Links /\ SentStaysSent /\ DoneIsAnswered /\ \A n \in Managers : AtWork(n)
    BY DEF EditInv, Tables
  <1>2. Links'
    BY <1>1, LinksStay DEF Tables
  <1>3. SentStaysSent'
    <2> SUFFICES ASSUME NEW call \in sent' PROVE inv'[call[1]][call[2]] \notin Unsent
      BY DEF SentStaysSent, Unsent
    <2>1. CASE call \in sent
      <3>1. call[1] \in Owners /\ call[2] \in Ordinals
        BY <1>1, <2>1 DEF Tables, RunTypes
      <3>2. inv[call[1]][call[2]] \notin Unsent
        BY <1>1, <2>1 DEF SentStaysSent, Unsent
      <3> QED BY <3>1, <3>2 DEF CallMoves
    <2> QED BY <2>1
  <1>4. DoneIsAnswered'
    <2> SUFFICES ASSUME NEW o \in Owners, owner'[o].state \in Done,
                        NEW c \in 1..owner'[o].units
                 PROVE  Answered(o, c)'
      BY DEF DoneIsAnswered, Answered
    <2>1. owner[o].state # "none" /\ \A d \in 1..owner[o].units : Answered(o, d)
      <3>1. CASE owner[o].state \in Done
        BY <1>1, <3>1 DEF DoneIsAnswered, Answered, Done
      <3>2. CASE \E n \in Managers : worker[n].pc = "commit" /\ worker[n].owner = o
        <4>1. PICK n \in Managers : worker[n].pc = "commit" /\ worker[n].owner = o
          BY <3>2
        <4> QED BY <1>1, <4>1 DEF AtWork, Fits, Active
      <3> QED BY <3>1, <3>2 DEF OwnerMoves
    <2>2. owner'[o].units = owner[o].units /\ owner[o].units \in 0..NumCues
      BY <1>1, <2>1, OwnerFields DEF OwnerMoves, Tables
    <2>3. c \in Ordinals /\ Answered(o, c)
      BY <2>1, <2>2, EditingAssumption DEF Ordinals
    <2> QED BY <1>1, <2>1, <2>3, AnswersStay DEF Tables
  <1> QED BY <1>2, <1>3, <1>4 DEF EditInv, Tables

\* Every step of a manager keeps it.
LEMMA StepInv ==
  ASSUME EditInv, LeaseInv, LeaseInv', Next
  PROVE  EditInv'
  <1>1. PICK m \in Managers :
          \/ WorkerStep(m) \/ ApiBegin(m) \/ ApiEnd(m)
          \/ Recover(m) \/ Stop(m) \/ ReleaseLease(m) \/ Crash(m)
    BY DEF Next
  <1>2. \A n \in Managers \ {m} : AtWork(n)' /\ Root(n)'
    BY <1>1, OthersDown
  <1>3. ASSUME Tables', \A x \in Owners : Keeps(m, x), AtWork(m)',
               phase'[m] = "owners" =>
                   \A x \in Owners, c \in Ordinals : inv'[x][c] \notin {"reserved", "dispatched"},
               sent \subseteq sent', \A call \in sent' \ sent : inv'[call[1]][call[2]] \notin Unsent
        PROVE  EditInv'
    <2>1. Root(m)'
      BY <1>3 DEF Keeps, Root, OpenPhases
    <2>2. \A n \in Managers : AtWork(n)' /\ Root(n)'
      BY <1>2, <1>3, <2>1
    <2> QED BY <1>3, <2>2, Composed DEF Keeps
  <1>4. CASE WorkerStep(m)
    <2>1. WorkerDoes(m)
      BY <1>4, WorkerStepDoes
    <2>2. phase'[m] # "owners"
      BY <1>4, WorkingPhases
    <2> QED BY <1>3, <2>1, <2>2 DEF WorkerDoes
  <1>5. ASSUME ApiDoes(m), worker'[m].pc \in {"off", "idle"} \/ \A x \in Owners : Undisturbed(x)
        PROVE  AtWork(m)'
    BY <1>5, PositionStays DEF ApiDoes, Keeps
  <1>6. CASE ApiBegin(m) \/ ApiEnd(m)
    <2>1. ApiDoes(m) /\ \A x \in Owners : Undisturbed(x)
      BY <1>6, ApiBeginDoes, ApiEndDoes, ApiDisturbsNobody DEF EditInv
    <2>2. phase'[m] # "owners"
      BY <1>6, WorkingPhases
    <2> QED BY <1>3, <1>5, <2>1, <2>2 DEF ApiDoes
  <1>7. CASE Recover(m) \/ Stop(m) \/ ReleaseLease(m) \/ Crash(m)
    <2>1. ManagerDoes(m)
      BY <1>7, ManagerStepDoes
    <2>2. worker'[m].pc \in {"off", "idle"} \/ \A x \in Owners : Undisturbed(x)
      BY <1>7, ManagerDisturbsNobody DEF EditInv
    <2> QED BY <1>3, <1>5, <2>1, <2>2 DEF ManagerDoes, ApiDoes
  <1> QED BY <1>1, <1>4, <1>6, <1>7

LEMMA StutterInv ==
  ASSUME EditInv, UNCHANGED vars
  PROVE  EditInv'
  <1> USE DEF vars, dbVars, runVars
  <1>1. \A x, d : Answered(x, d)' <=> Answered(x, d)
    BY AncestryIs DEF Answered
  <1>2. \A x : Resolved(x)' <=> Resolved(x)
    BY DEF Resolved
  <1>3. Tables'
    BY DEF EditInv, Tables, OwnerTable, CallTable, WorkerTable, RunTypes
  <1>4. ASSUME NEW x \in Owners PROVE OwnerMoves(x) /\ CallMoves(x) /\ LedgerOf(x)'
    <2>1. OwnerMoves(x) /\ CallMoves(x)
      BY DEF OwnerMoves, CallMoves, Done
    <2> QED BY <2>1 DEF EditInv, LedgerOf, HasUnknown
  <1>5. ASSUME NEW n \in Managers PROVE AtWork(n)' /\ Root(n)'
    <2>1. AtWork(n)'
      BY <1>1, <1>2 DEF EditInv, AtWork, Fits
    <2>2. Root(n)'
      BY DEF EditInv, Root, Shown, HasUnknown
    <2> QED BY <2>1, <2>2
  <1> QED BY <1>3, <1>4, <1>5, Composed

LEMMA InitInv == Init => EditInv
  <1> SUFFICES ASSUME Init PROVE EditInv
    OBVIOUS
  <1>1. OwnerTable /\ CallTable /\ WorkerTable
    <2>1. Absent \in OwnerRecord
      BY Zero DEF Absent, OwnerRecord, OwnerState, Code
    <2>2. Off \in WorkerRecord
      BY Zero DEF Off, WorkerRecord, WorkerPC
    <2> QED BY <2>1, <2>2 DEF Init, OwnerTable, CallTable, WorkerTable, InvState
  <1>2. RunTypes
    BY Zero, EditingAssumption DEF Init, RunTypes, Phase
  <1>3. ASSUME NEW m \in Managers PROVE AtWork(m) /\ Root(m)
    <2>1. worker[m].pc = "off" /\ phase[m] = "down"
      BY DEF Init, Off
    <2> QED BY <2>1 DEF AtWork, Root, Fits, OnCue, AtReserved, AtDispatched, AtResponded
  <1>4. \A o \in Owners : owner[o].state = "none" /\ owner[o].code = "other" /\ owner[o].retryOf = None
                          /\ owner[o].units = 0 /\ \A c \in Ordinals : inv[o][c] = "none"
    BY DEF Init, Absent
  <1>5. \A o \in Owners : LedgerOf(o)
    BY <1>4 DEF LedgerOf, HasUnknown
  <1>6. Links
    BY <1>4 DEF Links, OneRetry, LinkOf
  <1>7. SentStaysSent /\ DoneIsAnswered
    BY <1>4 DEF Init, SentStaysSent, DoneIsAnswered, Done
  <1> QED BY <1>1, <1>2, <1>3, <1>5, <1>6, <1>7 DEF EditInv

\* Owners, ledger and worker agree in every state, through every crash,
\* failed write, cancellation and recovery (service.py, ai_ledger.py,
\* ai_bridge.py, manager.py).
THEOREM EditInvariance == Spec => []EditInv
  <1>1. Init => EditInv
    BY InitInv
  <1>2. EditInv /\ LeaseInv /\ LeaseInv' /\ [Next]_vars => EditInv'
    BY StepInv, StutterInv
  <1> QED BY <1>1, <1>2, LeaseInvariance, PTL DEF Spec

LEMMA StepMoves ==
  ASSUME EditInv, LeaseInv, Next
  PROVE  \A x \in Owners : OwnerMoves(x)
  BY WorkerStepDoes, ApiBeginDoes, ApiEndDoes, ManagerStepDoes
  DEF Next, WorkerDoes, ApiDoes, ManagerDoes, Keeps

\* Nothing is queued or runs on a confirmation of an earlier opening: what
\* recover_interrupted sends back to review needs to be confirmed anew.
THEOREM ConfirmedInOpening == Spec => []ConfirmedNow
  <1>1. EditInv => ConfirmedNow
    BY DEF EditInv, Root, Shown, ConfirmedNow, Opened
  <1> QED BY <1>1, EditInvariance, PTL

\* An end is final, and a cancellation that reached the row is never answered
\* with success (cancel, complete_ai_task, complete_plan, fail, recover_interrupted).
THEOREM EndsStay == Spec => EndIsFinal
  <1>1. EditInv /\ LeaseInv /\ [Next]_vars =>
          [\A o \in Owners :
              /\ owner[o].state \in Terminal => owner'[o].state = owner[o].state
              /\ owner[o].state = "canceling" => owner'[o].state \notin Done]_vars
    BY StepMoves DEF OwnerMoves
  <1> QED BY <1>1, EditInvariance, LeaseInvariance, PTL DEF Spec, EndIsFinal

\* No remote call of a lineage is repeated, by a retry, after an earlier call
\* that may have reached the provider and was not declared refused
\* (retry_ancestry, asked by retry, confirm and claim).
THEOREM NeverRepaid == Spec => []NoBlindRepay
  <1>1. EditInv => NoBlindRepay
    <2> SUFFICES ASSUME EditInv, NEW call \in sent, NEW earlier \in sent,
                        earlier[1] \in Ancestry(call[1]) \ {call[1]}
                 PROVE  inv[earlier[1]][earlier[2]] \in {"responded", "not_accepted"}
      BY DEF NoBlindRepay
    <2>1. call[1] \in Owners /\ earlier[1] \in Owners /\ earlier[2] \in Ordinals
      BY DEF EditInv, RunTypes
    <2>2. PICK s \in Owners : owner[s].retryOf = earlier[1]
      BY <2>1, OwnersTable, AncestryIs, LineUp DEF EditInv
    <2>3. inv[earlier[1]][earlier[2]] \in Calm
      BY <2>1, <2>2, NoneIsNobody DEF EditInv, Links, LinkOf
    <2>4. inv[earlier[1]][earlier[2]] \notin {"none", "released"}
      BY DEF EditInv, SentStaysSent
    <2> QED BY <2>3, <2>4 DEF Calm
  <1> QED BY <1>1, EditInvariance, PTL

-----------------------------------------------------------------------------
(***************************************************************************)
(* The files of the root                                                   *)
(***************************************************************************)
BeforeSending == {"reserve", "test", "dispatch", "remote"}

\* A plan on its way to a call has no checkpoint of the cue, vouched or not.
Unpaid == \A m \in Managers :
    worker[m].pc \in BeforeSending /\ Mine(m) \in Plans =>
        CueFiles(Mine(m), worker[m].cue) = {}

\* Also while the root is closed: what is stored has an owner, and rendered
\* media are registered for ready plans alone.
Stored ==
    /\ \A f \in file : owner[f[1]].state # "none"
    /\ \A p \in Plans : output[p] = "registered" <=> owner[p].state = "ready"

FileInv == Unpaid /\ Stored /\ StorageClean

\* What a step may do to the lines of owners, and who may take it.
Moved(m) ==
    /\ EditInv /\ Tables' /\ FileInv
    /\ \A x \in Owners : OwnerMoves(x)
    /\ \A n \in Managers \ {m} :
           phase'[n] = "down" /\ worker[n].pc = "off" /\ worker'[n].pc = "off"

LEMMA LineageStays ==
  ASSUME NEW m \in Managers, Moved(m), NEW p \in Owners, NEW q \in Owners,
         owner[p].state # "none", owner[q].state # "none"
  PROVE  SameLineage(p, q)' <=> SameLineage(p, q)
  <1>1. Ancestry(p)' = Ancestry(p) /\ Ancestry(q)' = Ancestry(q)
    BY AncestryStays DEF Moved, EditInv, Tables
  <1> QED BY <1>1 DEF SameLineage

\* No plan runs in the lineage of a ready one.
LEMMA LineageRests ==
  ASSUME EditInv, NEW p \in Owners, NEW q \in Owners,
         owner[p].state = "ready", owner[q].state \in Active
  PROVE  ~SameLineage(p, q)
  <1>1. ASSUME NEW a \in Owners, NEW o \in Owners, a \in Ancestry(o), a # o
        PROVE  owner[a].state \in {"failed", "canceled", "succeeded"}
    <2>1. PICK s \in Owners : owner[s].retryOf = a
      BY <1>1, OwnersTable, AncestryIs, LineUp DEF EditInv
    <2> QED BY <2>1, NoneIsNobody DEF EditInv, Links, LinkOf
  <1>2. SUFFICES ASSUME SameLineage(p, q) PROVE FALSE
    OBVIOUS
  <1>3. p \in Ancestry(q) \/ q \in Ancestry(p)
    BY <1>2, OwnersTable, AncestryIs, LineMeets DEF SameLineage, EditInv, Links, OneRetry
  <1> QED BY <1>1, <1>3 DEF Active

LEMMA FileOwners ==
  ASSUME EditInv, Stored
  PROVE  \A f \in file : f[1] \in Owners /\ owner[f[1]].state # "none"
  BY DEF EditInv, RunTypes, Owners, Stored

\* The files of a cue, and of a lineage, do not grow but by what is written.
LEMMA CueFilesStay ==
  ASSUME NEW m \in Managers, Moved(m), NEW p \in Owners, owner[p].state # "none", NEW c,
         file' \subseteq file
  PROVE  CueFiles(p, c)' \subseteq CueFiles(p, c)
  <1>1. \A f \in file : f[1] \in Owners /\ owner[f[1]].state # "none"
    BY FileOwners DEF Moved, FileInv
  <1>2. \A f \in file : SameLineage(p, f[1])' <=> SameLineage(p, f[1])
    BY <1>1, LineageStays
  <1> QED BY <1>2 DEF CueFiles

LEMMA LineageFilesStay ==
  ASSUME NEW m \in Managers, Moved(m), NEW p \in Owners, owner[p].state = "ready",
         \A f \in file' \ file : f[1] \in Owners /\ owner[f[1]].state \in Active
  PROVE  LineageFiles(p)' \subseteq LineageFiles(p)
  <1>1. \A f \in file : f[1] \in Owners /\ owner[f[1]].state # "none"
    BY FileOwners DEF Moved, FileInv
  <1>2. \A f \in file' : f[1] \in Owners /\ owner[f[1]].state # "none"
    BY <1>1 DEF Active
  <1>3. \A f \in file' : SameLineage(p, f[1])' <=> SameLineage(p, f[1])
    BY <1>2, LineageStays
  <1>4. \A f \in file' \ file : ~SameLineage(p, f[1])
    BY LineageRests DEF Moved
  <1> QED BY <1>3, <1>4 DEF LineageFiles

\* Where the files and media of the root are right after a step of m.
LEMMA FilesKept ==
  ASSUME NEW m \in Managers, Moved(m),
         \A f \in file' \ file : f[1] \in Owners /\ owner[f[1]].state \in Active,
         \A p \in Plans : output'[p] = "registered" <=> owner'[p].state = "ready",
         worker'[m].pc \in BeforeSending /\ worker'[m].owner \in Plans =>
             CueFiles(worker[m].owner, worker[m].cue)' = {},
         Opened(m)' => \A p \in Plans :
             /\ output'[p] = "copied" => worker'[m].owner = p /\ worker'[m].pc = "commit"
             /\ owner'[p].state = "ready" =>
                    \/ LineageFiles(p)' = {}
                    \/ worker'[m].owner = p /\ worker'[m].pc = "clean"
                    \/ /\ Opened(m) /\ owner[p].state = "ready"
                       /\ ~(worker[m].owner = p /\ worker[m].pc = "clean")
  PROVE  FileInv'
  <1>1. Stored'
    <2>1. \A f \in file' : f[1] \in Owners /\ owner[f[1]].state # "none"
      BY FileOwners DEF Moved, FileInv, Active
    <2>2. \A f \in file' : owner'[f[1]].state # "none"
      BY <2>1 DEF Moved, OwnerMoves
    <2> QED BY <2>2 DEF Stored
  <1>2. Unpaid'
    <2> SUFFICES ASSUME NEW n \in Managers, worker'[n].pc \in BeforeSending, Mine(n)' \in Plans
                 PROVE  CueFiles(Mine(n), worker[n].cue)' = {}
      BY DEF Unpaid
    <2>1. n = m
      BY DEF Moved, BeforeSending
    <2> QED BY <2>1 DEF Mine
  <1>3. StorageClean'
    <2> SUFFICES ASSUME NEW n \in Managers, NEW p \in Plans, Opened(n)'
                 PROVE  /\ output'[p] = "copied" => worker'[n].owner = p /\ At(n, "commit")'
                        /\ output'[p] = "registered" <=> owner'[p].state = "ready"
                        /\ owner'[p].state = "ready" /\ LineageFiles(p)' # {} =>
                               worker'[n].owner = p /\ At(n, "clean")'
      BY DEF StorageClean
    <2>1. n = m
      BY DEF Moved, Opened
    <2>2. ASSUME Opened(m), owner[p].state = "ready",
                 ~(worker[m].owner = p /\ worker[m].pc = "clean")
          PROVE  LineageFiles(p)' = {}
      <3>1. LineageFiles(p) = {}
        BY <2>2 DEF Moved, FileInv, StorageClean, At
      <3>2. p \in Owners
        BY DEF Owners
      <3> QED BY <2>2, <3>1, <3>2, LineageFilesStay
    <2>3. owner'[p].state = "ready" /\ LineageFiles(p)' # {} => worker'[m].owner = p /\ worker'[m].pc = "clean"
      BY <2>1, <2>2
    <2> QED BY <2>1, <2>3 DEF At
  <1> QED BY <1>1, <1>2, <1>3 DEF FileInv

LEMMA MovedBy ==
  ASSUME NEW m \in Managers, EditInv, EditInv', LeaseInv, LeaseInv', FileInv,
         \/ WorkerStep(m) \/ ApiBegin(m) \/ ApiEnd(m)
         \/ Recover(m) \/ Stop(m) \/ ReleaseLease(m) \/ Crash(m)
  PROVE  Moved(m)
  <1>1. \A x \in Owners : OwnerMoves(x)
    BY StepMoves DEF Next
  <1>2. Tables'
    BY DEF EditInv, Tables
  <1> QED BY <1>1, <1>2, OthersDown DEF Moved

\* A plan becomes ready in the commit of the worker that ran it.
LEMMA ReadyMoves ==
  ASSUME NEW m \in Managers, Moved(m), NEW p \in Plans
  PROVE  /\ owner[p].state = "ready" => owner'[p].state = "ready"
         /\ owner'[p].state = "ready" =>
                owner[p].state = "ready" \/ (worker[m].pc = "commit" /\ worker[m].owner = p)
  <1>1. p \in Owners /\ OwnerMoves(p)
    BY DEF Moved, Owners
  <1>2. \A n \in Managers : worker[n].pc = "commit" => n = m
    BY DEF Moved
  <1> QED BY <1>1, <1>2 DEF OwnerMoves, Terminal, Done

\* Steps that leave files and media alone.
LEMMA QuietKeepsFiles ==
  ASSUME NEW m \in Managers, Moved(m), UNCHANGED <<file, output>>,
         \A p \in Plans : owner'[p].state = "ready" => owner[p].state = "ready",
         Opened(m)' => /\ Opened(m)
                       /\ worker[m].pc \in {"commit", "clean"} /\ worker[m].owner \in Plans =>
                              worker'[m].pc = worker[m].pc /\ worker'[m].owner = worker[m].owner,
         worker'[m].pc \in BeforeSending /\ worker'[m].owner \in Plans =>
             /\ worker[m].pc \in BeforeSending /\ worker'[m].owner = worker[m].owner
             /\ worker'[m].cue = worker[m].cue
  PROVE  FileInv'
  <1>1. \A p \in Plans : owner'[p].state = "ready" <=> owner[p].state = "ready"
    BY ReadyMoves
  <1>2. \A p \in Plans : output'[p] = "registered" <=> owner'[p].state = "ready"
    BY <1>1 DEF Moved, FileInv, Stored
  <1>3. ASSUME worker'[m].pc \in BeforeSending, worker'[m].owner \in Plans
        PROVE  CueFiles(worker[m].owner, worker[m].cue)' = {}
    <2>1. PICK o, c : o \in Plans /\ o = worker[m].owner /\ c = worker[m].cue
      BY <1>3
    <2>2. worker'[m].owner = o /\ worker'[m].cue = c /\ worker[m].pc \in BeforeSending
      BY <1>3, <2>1
    <2>3. CueFiles(o, c) = {}
      BY <2>1, <2>2 DEF Moved, FileInv, Unpaid, Mine
    <2>4. o \in Owners /\ owner[o].state # "none"
      BY <2>1, <2>2 DEF Moved, EditInv, AtWork, Fits, BeforeSending, Owners, Active
    <2>5. CueFiles(o, c)' = {}
      BY <2>3, <2>4, CueFilesStay
    <2> QED BY <2>2, <2>5
  <1>4. ASSUME Opened(m)', NEW p \in Plans
        PROVE  /\ output'[p] = "copied" => worker'[m].owner = p /\ worker'[m].pc = "commit"
               /\ owner'[p].state = "ready" =>
                    \/ LineageFiles(p)' = {}
                    \/ worker'[m].owner = p /\ worker'[m].pc = "clean"
                    \/ /\ Opened(m) /\ owner[p].state = "ready"
                       /\ ~(worker[m].owner = p /\ worker[m].pc = "clean")
    <2>1. output[p] = "copied" => worker[m].owner = p /\ worker[m].pc = "commit"
      BY <1>4 DEF Moved, FileInv, StorageClean, At
    <2> QED BY <1>1, <1>4, <2>1
  <1> QED BY <1>2, <1>3, <1>4, FilesKept

LEMMA AsideFiles ==
  ASSUME NEW m \in Managers, Moved(m), LeaseInv,
         \/ ApiBegin(m) \/ ApiEnd(m) \/ Stop(m)
         \/ Open(m) \/ RecoverLedger(m) \/ RecoverOwners(m) \/ ReleaseLease(m) \/ Crash(m)
  PROVE  FileInv'
  <1>1. OwnerTable /\ CallTable /\ RunTypes /\ WorkerTable /\ AtWork(m)
    BY DEF Moved, EditInv
  <1>2. \A p \in Plans : owner'[p].state = "ready" =>
            owner[p].state = "ready" \/ (worker[m].pc = "commit" /\ worker[m].owner = p)
    BY ReadyMoves
  <1>3. CASE ApiBegin(m) \/ ApiEnd(m) \/ Stop(m)
    <2>1. Opened(m) /\ UNCHANGED <<file, output>> /\ \A x \in Owners : Undisturbed(x)
      <3>1. CASE ApiBegin(m) \/ ApiEnd(m)
        <4>1. Opened(m) /\ \A x \in Owners : Undisturbed(x)
          BY <1>1, <3>1, WorkingPhases, ApiDisturbsNobody DEF Opened
        <4>2. UNCHANGED <<file, output>>
          BY <3>1 DEF ApiBegin, ApiEnd, CreateOwner, ConfirmTask, ConfirmPlanCheck, Cancel, Retry, ReconcileLedger,
             ReviewTimeline, ConfirmPlanQueue, SignalCancel, ReconcileOwner, ApiKeeps, dbVars
        <4> QED BY <4>1, <4>2
      <3>2. CASE Stop(m)
        BY <3>2 DEF Stop, dbVars, Opened, Undisturbed
      <3> QED BY <1>3, <3>1, <3>2
    <2>2. /\ worker'[m].pc = worker[m].pc /\ worker'[m].owner = worker[m].owner
          /\ worker'[m].cue = worker[m].cue
      <3>1. worker' = worker \/ worker' = [worker EXCEPT ![m].cancel = TRUE]
                             \/ \E n \in Managers \ {m} : worker' = [worker EXCEPT ![n].cancel = TRUE]
        BY <1>3 DEF ApiBegin, ApiEnd, CreateOwner, ConfirmTask, ConfirmPlanCheck, Cancel, Retry, ReconcileLedger,
           ReviewTimeline, ConfirmPlanQueue, SignalCancel, ReconcileOwner, ApiKeeps, Stop
      <3>2. CASE worker' = [worker EXCEPT ![m].cancel = TRUE]
        BY <1>1, <3>2, SignalSteps DEF Steps
      <3> QED BY <1>1, <3>1, <3>2 DEF WorkerTable
    <2>3. \A p \in Plans : owner'[p].state = "ready" => owner[p].state = "ready"
      <3>1. ASSUME NEW p \in Plans, worker[m].pc = "commit", worker[m].owner = p
            PROVE  owner'[p].state # "ready"
        <4>1. owner[p].state \in Active /\ p \in Owners
          BY <1>1, <3>1 DEF AtWork, Fits, Owners
        <4> QED BY <2>1, <4>1 DEF Undisturbed, Active
      <3> QED BY <1>2, <3>1
    <2> QED BY <2>1, <2>2, <2>3, QuietKeepsFiles
  <1>4. CASE Open(m) \/ RecoverLedger(m) \/ RecoverOwners(m) \/ ReleaseLease(m) \/ Crash(m)
    <2>1. UNCHANGED <<file, output>>
      BY <1>4 DEF Open, RecoverLedger, RecoverOwners, ReleaseLease, Crash, dbVars
    <2>2. worker'[m].pc = "off"
      <3>1. CASE Open(m) \/ RecoverLedger(m) \/ RecoverOwners(m) \/ ReleaseLease(m)
        BY <3>1 DEF Open, RecoverLedger, RecoverOwners, ReleaseLease, Quiescent, At, LeaseInv
      <3>2. CASE Crash(m)
        BY <1>1, <3>2, Zero, ResetSteps DEF Crash, Steps
      <3> QED BY <1>4, <3>1, <3>2
    <2>3. ~Opened(m)'
      <3>1. \E p \in {"ledger", "owners", "files", "down"} : phase' = [phase EXCEPT ![m] = p]
        BY <1>4 DEF Open, RecoverLedger, RecoverOwners, ReleaseLease, Crash, Enter
      <3> QED BY <1>1, <3>1 DEF RunTypes, Opened
    <2>4. \A p \in Plans : owner'[p].state = "ready" => owner[p].state = "ready"
      <3>1. worker[m].pc # "commit" \/ UNCHANGED owner
        BY <1>4 DEF Open, RecoverLedger, RecoverOwners, ReleaseLease, Crash, dbVars, LeaseInv
      <3> QED BY <1>2, <3>1
    <2> QED BY <2>1, <2>2, <2>3, <2>4, QuietKeepsFiles DEF BeforeSending
  <1> QED BY <1>3, <1>4

LEMMA WorkerFiles ==
  ASSUME NEW m \in Managers, Moved(m), LeaseInv,
         \/ \E o \in Owners : Claim(m, o)
         \/ Publish(m) \/ CheckCanceled(m) \/ LocalFailure(m) \/ Reserve(m) \/ TestCanceled(m)
         \/ Release(m) \/ Dispatch(m) \/ Send(m) \/ LaunchFailure(m) \/ Return(m) \/ Respond(m)
         \/ MarkUnknown(m) \/ Render(m) \/ JudgeFailure(m) \/ FailOwner(m) \/ CancelOwner(m)
         \/ WorkerExit(m)
  PROVE  FileInv'
  <1> USE DEF At
  <1>1. WorkerTable /\ OwnerTable /\ AtWork(m)
    BY DEF Moved, EditInv
  <1>2. Opened(m) /\ WorkerStep(m)
    BY WorkingPhases DEF WorkerStep, Opened
  <1>3. ASSUME NEW p, NEW o, NEW c, Steps(m, p, o, c), worker[m].pc \notin {"commit", "clean"},
               p \in BeforeSending /\ o \in Plans =>
                   worker[m].pc \in BeforeSending /\ o = worker[m].owner /\ c = worker[m].cue,
               UNCHANGED <<file, output>>
        PROVE  FileInv'
    <2>1. \A x \in Plans : owner'[x].state = "ready" => owner[x].state = "ready"
      BY <1>3, ReadyMoves
    <2> QED BY <1>2, <1>3, <2>1, QuietKeepsFiles DEF Steps
  <1>4. ASSUME NEW p \in WorkerPC, Goto(m, p) \/ \E b \in BOOLEAN : worker' = [worker EXCEPT ![m].pc = p, ![m].cancel = b],
               worker[m].pc \notin {"commit", "clean"},
               p \in BeforeSending => worker[m].pc \in BeforeSending \/ worker[m].owner \notin Plans,
               UNCHANGED <<file, output>>
        PROVE  FileInv'
    <2>1. Steps(m, p, worker[m].owner, worker[m].cue)
      BY <1>1, <1>4, GotoSteps, CancelSteps
    <2> QED BY <1>3, <1>4, <2>1
  <1>5. worker[m].cancel \in BOOLEAN /\ Cancelled(m) \in BOOLEAN
    BY <1>1, WorkerFields DEF Cancelled
  <1>6. ASSUME NEW o \in Owners, Claim(m, o) PROVE FileInv'
    <2>1. Steps(m, "claimed", o, 0) /\ worker[m].pc = "idle" /\ UNCHANGED <<file, output>>
      BY <1>1, <1>6, Zero, ResetSteps DEF Claim
    <2> QED BY <1>3, <2>1 DEF BeforeSending
  <1>7. CASE Publish(m)
    <2>1. Steps(m, "check", worker[m].owner, 1)
      BY <1>1, <1>7, Zero, PublishSteps DEF Publish
    <2> QED BY <1>3, <1>7, <2>1 DEF Publish, RunKeeps, BeforeSending
  <1>8. CASE CheckCanceled(m)
    <2>1. PICK p \in {"fail", NextCall(Mine(m), 1)} : \E b \in BOOLEAN :
            worker' = [worker EXCEPT ![m].pc = p, ![m].cancel = b]
      BY <1>5, <1>8 DEF CheckCanceled
    <2>2. p \in WorkerPC /\ (p \in BeforeSending => worker[m].owner \notin Plans)
      BY <2>1, EditingAssumption DEF WorkerPC, NextCall, AfterCues, BeforeSending, Mine
    <2> QED BY <1>4, <1>8, <2>1, <2>2 DEF CheckCanceled, RunKeeps
  <1>9. CASE LocalFailure(m)
    BY <1>4, <1>9 DEF LocalFailure, RunKeeps, WorkerPC, BeforeSending
  <1>10. CASE Reserve(m)
    <2>1. PICK p \in {"test", "fail"} : Goto(m, p)
      BY <1>10 DEF Reserve
    <2> QED BY <1>4, <1>10, <2>1 DEF Reserve, RunKeeps, WorkerPC, BeforeSending
  <1>11. CASE TestCanceled(m)
    <2>1. PICK p \in {"release", "dispatch"} : \E b \in BOOLEAN :
            worker' = [worker EXCEPT ![m].pc = p, ![m].cancel = b]
      BY <1>5, <1>11 DEF TestCanceled
    <2> QED BY <1>4, <1>11, <2>1 DEF TestCanceled, RunKeeps, WorkerPC, BeforeSending
  <1>12. CASE Release(m) \/ Dispatch(m) \/ Respond(m) \/ MarkUnknown(m)
    <2>1. PICK p \in {"remote", "release", "fail", "complete", "copy", "unknown"} :
            Goto(m, p) /\ (p = "remote" => worker[m].pc = "dispatch")
      BY <1>12 DEF Release, Dispatch, Respond, MarkUnknown, Transition
    <2>2. worker[m].pc \in {"release", "dispatch", "respond", "unknown"} /\ UNCHANGED <<file, output>>
      BY <1>12 DEF Release, Dispatch, Respond, MarkUnknown, Transition, RunKeeps
    <2> QED BY <1>4, <2>1, <2>2 DEF WorkerPC, BeforeSending
  <1>13. CASE Send(m)
    BY <1>4, <1>13 DEF Send, RunKeeps, WorkerPC, BeforeSending
  <1>14. CASE LaunchFailure(m)
    BY <1>4, <1>14 DEF LaunchFailure, RunKeeps, WorkerPC, BeforeSending
  <1>15. CASE Return(m)
    BY <1>4, <1>15 DEF Return, RunKeeps, WorkerPC, BeforeSending
  <1>16. CASE Render(m)
    BY <1>4, <1>16 DEF Render, RunKeeps, WorkerPC, BeforeSending
  <1>17. CASE JudgeFailure(m)
    BY <1>4, <1>5, <1>17 DEF JudgeFailure, RunKeeps, WorkerPC, BeforeSending
  <1>18. CASE FailOwner(m) \/ CancelOwner(m)
    <2>1. worker[m].pc \in {"failing", "canceled"} /\ (Free(m) \/ Goto(m, "fail")) /\ UNCHANGED <<file, output>>
      BY <1>18 DEF FailOwner, CancelOwner, RunKeeps
    <2>2. Free(m) => Steps(m, "idle", None, 0)
      BY <1>1, Zero, ResetSteps DEF Free
    <2> QED BY <1>3, <1>4, <2>1, <2>2 DEF WorkerPC, BeforeSending
  <1>19. CASE WorkerExit(m)
    <2>1. Steps(m, "off", None, 0) /\ worker[m].pc = "idle" /\ UNCHANGED <<file, output>>
      BY <1>1, <1>19, Zero, ResetSteps DEF WorkerExit, dbVars
    <2> QED BY <1>3, <2>1 DEF BeforeSending
  <1> QED BY <1>6, <1>7, <1>8, <1>9, <1>10, <1>11, <1>12, <1>13, <1>14, <1>15, <1>16, <1>17, <1>18, <1>19

LEMMA RecoveredFiles ==
  ASSUME NEW m \in Managers, Moved(m), RecoverFiles(m)
  PROVE  FileInv'
  <1>1. /\ UNCHANGED owner /\ worker' = [worker EXCEPT ![m] = Idle]
        /\ output' = [p \in Plans |-> IF output[p] = "copied" THEN "none" ELSE output[p]]
        /\ file' = file \ UNION {LineageFiles(p) : p \in {q \in Plans : owner[q].state = "ready"}}
    BY DEF RecoverFiles
  <1>2. worker'[m].pc = "idle"
    <2>1. WorkerTable
      BY DEF Moved, EditInv
    <2> QED BY <1>1, <2>1, Zero, ResetSteps DEF Steps
  <1>3. \A p \in Plans : output'[p] # "copied" /\ (output'[p] = "registered" <=> owner'[p].state = "ready")
    BY <1>1 DEF Moved, FileInv, Stored
  <1>4. ASSUME NEW p \in Plans, owner'[p].state = "ready"
        PROVE  LineageFiles(p)' = {}
    <2>1. \A f : SameLineage(p, f[1])' <=> SameLineage(p, f[1])
      BY <1>1, AncestryIs DEF SameLineage
    <2>2. \A f \in file' : f \in file /\ f \notin LineageFiles(p)
      BY <1>1, <1>4
    <2> QED BY <2>1, <2>2 DEF LineageFiles
  <1> QED BY <1>1, <1>2, <1>3, <1>4, FilesKept DEF BeforeSending

\* Steps of a worker that is neither committing nor cleaning up.
LEMMA RunningKeepsFiles ==
  ASSUME NEW m \in Managers, Moved(m), Opened(m), worker[m].pc \notin {"commit", "clean"},
         NEW o \in Plans, owner[o].state \in Active,
         UNCHANGED owner, \A f \in file' \ file : f[1] = o,
         \A p \in Plans : output'[p] = output[p] \/
             (p = o /\ output'[p] = "copied" /\ worker'[m].pc = "commit" /\ worker'[m].owner = o),
         worker'[m].pc \in BeforeSending /\ worker'[m].owner \in Plans =>
             CueFiles(worker[m].owner, worker[m].cue)' = {}
  PROVE  FileInv'
  <1>1. \A p \in Plans : output[p] # "copied"
    BY DEF Moved, FileInv, StorageClean, At
  <1>2. \A p \in Plans : output'[p] = "registered" <=> owner'[p].state = "ready"
    BY DEF Moved, FileInv, Stored, Active
  <1>3. \A f \in file' \ file : f[1] \in Owners /\ owner[f[1]].state \in Active
    BY DEF Owners
  <1> QED BY <1>1, <1>2, <1>3, FilesKept

LEMMA CheckpointFiles ==
  ASSUME NEW m \in Managers, Moved(m), LeaseInv,
         LoadCheckpoint(m) \/ CopyCheckpoint(m) \/ RecordCheckpoint(m) \/ Complete(m)
  PROVE  FileInv'
  <1> USE DEF At
  <1>c. PICK c : c = worker[m].cue
    OBVIOUS
  <1>1. WorkerTable /\ OwnerTable /\ AtWork(m) /\ RunTypes
    BY DEF Moved, EditInv
  <1>2. Opened(m) /\ UNCHANGED owner
    <2>1. WorkerStep(m)
      BY DEF WorkerStep
    <2> QED BY <2>1, WorkingPhases
        DEF Opened, LoadCheckpoint, CopyCheckpoint, RecordCheckpoint, Complete
  <1>3. PICK o \in Owners : o = Mine(m) /\ owner[o].state \in Active
    BY <1>1 DEF AtWork, Fits, Mine, LoadCheckpoint, CopyCheckpoint, RecordCheckpoint, Complete
  <1>4. \A d : o \in Plans => NextCall(o, d) \in WorkerPC \ BeforeSending
    BY EditingAssumption DEF NextCall, AfterCues, WorkerPC, BeforeSending
  <1>5. CASE LoadCheckpoint(m)
    <2>1. o \in Plans /\ worker[m].pc = "load" /\ c + 1 \in 0..(NumCues + 1)
      <3>1. worker[m].pc = "load"
        BY <1>5 DEF LoadCheckpoint
      <3> QED BY <1>1, <1>3, <1>c, <3>1, Position DEF AtWork, Fits, Mine, OnCue, Moved
    <2>2. PICK reuse \in SUBSET Vouched(o, c) :
            /\ file' = (file \ CueFiles(o, c)) \cup reuse
            /\ worker' = IF reuse = {} THEN [worker EXCEPT ![m].pc = "reserve"]
                         ELSE [worker EXCEPT ![m].pc = NextCall(o, c + 1), ![m].cue = c + 1]
      BY <1>3, <1>5, <1>c DEF LoadCheckpoint
    <2>3. file' \subseteq file /\ UNCHANGED output
      BY <1>5, <2>2 DEF LoadCheckpoint, Vouched, CueFiles
    <2>4. CASE reuse = {}
      <3>1. Steps(m, "reserve", o, c)
        BY <1>1, <1>3, <1>c, <2>2, <2>4, GotoSteps DEF Goto, Mine, WorkerPC
      <3>2. CueFiles(o, c)' = {}
        <4>1. \A f : SameLineage(o, f[1])' <=> SameLineage(o, f[1])
          BY <1>2, AncestryIs DEF SameLineage
        <4> QED BY <2>2, <2>4, <4>1 DEF CueFiles
      <3>3. worker'[m].owner = o /\ worker'[m].cue = c
        BY <3>1 DEF Steps
      <3>4. CueFiles(worker[m].owner, worker[m].cue)' = {}
        BY <3>2, <3>3 DEF CueFiles
      <3> QED BY <1>2, <1>3, <2>1, <2>3, <3>4, RunningKeepsFiles
    <2>5. CASE reuse # {}
      <3>1. worker'[m].pc \notin BeforeSending
        <4>1. PICK p \in WorkerPC \ BeforeSending : p = NextCall(o, c + 1)
          BY <1>4, <2>1
        <4>2. Steps(m, p, worker[m].owner, c + 1)
          BY <1>1, <2>1, <2>2, <2>5, <4>1, CueSteps
        <4> QED BY <4>1, <4>2 DEF Steps
      <3> QED BY <1>2, <1>3, <2>1, <2>3, <3>1, RunningKeepsFiles
    <2> QED BY <2>4, <2>5
  <1>6. CASE CopyCheckpoint(m)
    <2>1. o \in Plans /\ worker[m].pc = "copy" /\ worker'[m].pc = "record"
      BY <1>1, <1>3, <1>6, GotoSteps DEF CopyCheckpoint, AtWork, Fits, Mine, Steps, WorkerPC
    <2>2. file' \subseteq file \cup {<<o, c>>} /\ UNCHANGED output
      BY <1>3, <1>6, <1>c DEF CopyCheckpoint, Vouched, CueFiles
    <2>3. \A f \in file' \ file : f[1] = o
      BY <2>2
    <2> QED BY <1>2, <1>3, <2>1, <2>2, <2>3, RunningKeepsFiles DEF BeforeSending
  <1>7. CASE RecordCheckpoint(m)
    <2>1. o \in Plans /\ worker[m].pc = "record" /\ c + 1 \in 0..(NumCues + 1)
      <3>1. worker[m].pc = "record"
        BY <1>7 DEF RecordCheckpoint
      <3> QED BY <1>1, <1>3, <1>c, <3>1, Position DEF AtWork, Fits, Mine, OnCue, Moved
    <2>2. file' \subseteq file /\ UNCHANGED output
      BY <1>7 DEF RecordCheckpoint
    <2>3. worker'[m].pc \notin BeforeSending
      <3>1. CASE worker' = [worker EXCEPT ![m].pc = NextCall(o, c + 1), ![m].cue = c + 1]
        <4>1. PICK p \in WorkerPC \ BeforeSending : p = NextCall(o, c + 1)
          BY <1>4, <2>1
        <4>2. Steps(m, p, worker[m].owner, c + 1)
          BY <1>1, <2>1, <3>1, <4>1, CueSteps
        <4> QED BY <4>1, <4>2 DEF Steps
      <3>2. CASE Goto(m, "fail")
        BY <1>1, <3>2, GotoSteps DEF Steps, WorkerPC, BeforeSending
      <3>3. \/ worker' = [worker EXCEPT ![m].pc = NextCall(o, c + 1), ![m].cue = c + 1]
            \/ Goto(m, "fail")
        BY <1>3, <1>7, <1>c DEF RecordCheckpoint
      <3> QED BY <3>1, <3>2, <3>3
    <2> QED BY <1>2, <1>3, <2>1, <2>2, <2>3, RunningKeepsFiles
  <1>8. CASE Complete(m)
    <2>1. PICK p \in {"fail", "canceled", "commit"} : Goto(m, p) /\
            (output' = output \/ (o \in Plans /\ p = "commit" /\ output' = [output EXCEPT ![o] = "copied"]))
      BY <1>3, <1>8 DEF Complete
    <2>2. worker[m].pc = "complete" /\ UNCHANGED file
      BY <1>8 DEF Complete
    <2>3. Steps(m, p, o, c)
      BY <1>1, <1>3, <1>c, <2>1, GotoSteps DEF WorkerPC, Mine
    <2>4. CASE o \in Plans
      <3>1. \A q \in Plans : output'[q] = output[q] \/
              (q = o /\ output'[q] = "copied" /\ worker'[m].pc = "commit" /\ worker'[m].owner = o)
        BY <1>1, <2>1, <2>3 DEF RunTypes, Steps
      <3>2. worker'[m].pc \notin BeforeSending
        BY <2>1, <2>3 DEF Steps, BeforeSending
      <3> QED BY <1>2, <1>3, <2>2, <2>4, <3>1, <3>2, RunningKeepsFiles
    <2>5. CASE o \notin Plans
      <3>1. worker'[m].pc \notin BeforeSending /\ UNCHANGED output
        BY <2>1, <2>3, <2>5 DEF Steps, BeforeSending
      <3> QED BY <1>2, <2>2, <3>1, QuietKeepsFiles
    <2> QED BY <2>4, <2>5
  <1> QED BY <1>5, <1>6, <1>7, <1>8

\* The commit of a result, and the clean-up that follows a plan's.
LEMMA CommitFiles ==
  ASSUME NEW m \in Managers, Moved(m), LeaseInv, CommitTask(m) \/ CommitPlan(m) \/ Clean(m)
  PROVE  FileInv'
  <1> USE DEF At
  <1>1. WorkerTable /\ OwnerTable /\ AtWork(m) /\ RunTypes
    BY DEF Moved, EditInv
  <1>2. Opened(m)
    <2>1. WorkerStep(m)
      BY DEF WorkerStep
    <2> QED BY <2>1, WorkingPhases DEF Opened
  <1>3. Free(m) => Steps(m, "idle", None, 0)
    BY <1>1, Zero, ResetSteps DEF Free
  <1>4. \A p \in Plans : owner'[p].state = "ready" =>
            owner[p].state = "ready" \/ (worker[m].pc = "commit" /\ worker[m].owner = p)
    BY ReadyMoves
  <1>5. \A p \in Plans : output[p] = "copied" => worker[m].owner = p /\ worker[m].pc = "commit"
    BY <1>2 DEF Moved, FileInv, StorageClean
  <1>6. CASE CommitTask(m)
    <2>1. worker[m].pc = "commit" /\ worker[m].owner \notin Plans /\ UNCHANGED <<file, output>>
      BY <1>6, EditingAssumption DEF CommitTask, Mine
    <2>2. worker'[m].pc \in {"idle", "fail"}
      BY <1>1, <1>3, <1>6, GotoSteps DEF CommitTask, Steps, WorkerPC
    <2> QED BY <1>2, <1>4, <2>1, <2>2, QuietKeepsFiles DEF BeforeSending
  <1>7. CASE CommitPlan(m)
    <2>1. PICK o \in Plans : o = Mine(m)
      BY <1>7 DEF CommitPlan
    <2>2. worker[m].pc = "commit" /\ UNCHANGED file /\ owner[o].state \in Active /\ o \in Owners
      BY <1>1, <1>7, <2>1 DEF CommitPlan, AtWork, Fits, Mine, Owners
    <2>3. CASE owner' = Ended(o, "ready", "other") /\ output' = [output EXCEPT ![o] = "registered"] /\ Goto(m, "clean")
      <3>1. Steps(m, "clean", o, worker[m].cue)
        BY <1>1, <2>1, <2>3, GotoSteps DEF WorkerPC, Mine
      <3>2. Writes(o, "ready", "other", 0, owner[o].confirmed)
        BY <1>1, <2>2, <2>3, Zero, EndedWrites DEF OwnerState, Terminal, Done, Code
      <3>3. /\ owner'[o].state = "ready" /\ output'[o] = "registered"
            /\ \A p \in Plans \ {o} : owner'[p] = owner[p] /\ output'[p] = output[p]
        BY <1>1, <2>3, <3>2 DEF Writes, Wrote, RunTypes, Owners
      <3>4. worker'[m].pc = "clean" /\ worker'[m].owner = o
        BY <3>1 DEF Steps
      <3>5. \A p \in Plans : output'[p] = "registered" <=> owner'[p].state = "ready"
        BY <3>3 DEF Moved, FileInv, Stored
      <3>6. \A p \in Plans : output'[p] # "copied"
        BY <1>5, <2>1, <3>3 DEF Mine
      <3> QED BY <1>2, <2>1, <2>2, <3>3, <3>4, <3>5, <3>6, FilesKept DEF BeforeSending, Mine
    <2>4. CASE UNCHANGED owner /\ output' = [output EXCEPT ![o] = "none"] /\ Goto(m, "fail")
      <3>1. worker'[m].pc = "fail"
        BY <1>1, <2>4, GotoSteps DEF WorkerPC, Steps
      <3>2. output'[o] = "none" /\ \A p \in Plans \ {o} : output'[p] = output[p]
        BY <1>1, <2>4 DEF RunTypes
      <3>3. \A p \in Plans : output'[p] = "registered" <=> owner'[p].state = "ready"
        BY <2>2, <2>4, <3>2 DEF Moved, FileInv, Stored, Active
      <3>4. \A p \in Plans : output'[p] # "copied"
        BY <1>5, <2>1, <3>2 DEF Mine
      <3> QED BY <1>2, <2>2, <2>4, <3>1, <3>3, <3>4, FilesKept DEF BeforeSending
    <2> QED BY <1>7, <2>1, <2>3, <2>4 DEF CommitPlan
  <1>8. CASE Clean(m)
    <2>1. PICK o \in Plans : o = Mine(m)
      BY <1>1, <1>8 DEF Clean, AtWork, Fits, Mine
    <2>2. /\ worker[m].pc = "clean" /\ UNCHANGED <<owner, output>>
          /\ file' = file \ LineageFiles(o) /\ worker'[m].pc = "idle"
      BY <1>3, <1>8, <2>1 DEF Clean, Steps
    <2>3. LineageFiles(o)' = {}
      <3>1. \A f : SameLineage(o, f[1])' <=> SameLineage(o, f[1])
        BY <2>2, AncestryIs DEF SameLineage
      <3> QED BY <2>2, <3>1 DEF LineageFiles
    <2>4. \A p \in Plans : output'[p] = "registered" <=> owner'[p].state = "ready"
      BY <2>2 DEF Moved, FileInv, Stored
    <2>5. \A p \in Plans : p = o => LineageFiles(p)' = {}
      BY <2>3
    <2>6. \A p \in Plans : owner'[p].state = "ready" =>
            LineageFiles(p)' = {} \/ (owner[p].state = "ready" /\ worker[m].owner # p)
      BY <2>1, <2>2, <2>5 DEF Mine
    <2> QED BY <1>2, <1>5, <2>2, <2>4, <2>6, FilesKept DEF BeforeSending
  <1> QED BY <1>6, <1>7, <1>8

LEMMA InitFiles == Init => FileInv
  <1> SUFFICES ASSUME Init PROVE FileInv
    OBVIOUS
  <1>1. \A m \in Managers : worker[m].pc = "off" /\ ~Opened(m)
    BY DEF Init, Off, Opened
  <1>2. \A p \in Plans : owner[p].state = "none" /\ output[p] = "none"
    BY DEF Init, Absent, Owners
  <1> QED BY <1>1, <1>2 DEF Init, FileInv, Unpaid, BeforeSending, Stored, StorageClean

LEMMA StepFiles ==
  ASSUME EditInv, EditInv', LeaseInv, LeaseInv', FileInv, Next
  PROVE  FileInv'
  <1>1. PICK m \in Managers :
          \/ WorkerStep(m) \/ ApiBegin(m) \/ ApiEnd(m)
          \/ Recover(m) \/ Stop(m) \/ ReleaseLease(m) \/ Crash(m)
    BY DEF Next
  <1>2. Moved(m)
    BY <1>1, MovedBy
  <1>3. CASE WorkerStep(m)
    BY <1>2, <1>3, WorkerFiles, CheckpointFiles, CommitFiles DEF WorkerStep
  <1>4. CASE ApiBegin(m) \/ ApiEnd(m) \/ Recover(m) \/ Stop(m) \/ ReleaseLease(m) \/ Crash(m)
    BY <1>2, <1>4, AsideFiles, RecoveredFiles DEF Recover
  <1> QED BY <1>1, <1>3, <1>4

LEMMA StutterFiles ==
  ASSUME FileInv, UNCHANGED vars
  PROVE  FileInv'
  <1> USE DEF vars, dbVars, runVars
  <1>1. \A p, q : SameLineage(p, q)' <=> SameLineage(p, q)
    BY AncestryIs DEF SameLineage
  <1>3. \A p : LineageFiles(p)' = LineageFiles(p)
    BY <1>1 DEF LineageFiles
  <1>4. Unpaid'
    <2>1. \A m \in Managers : CueFiles(Mine(m), worker[m].cue)' = CueFiles(Mine(m), worker[m].cue)
      BY <1>1 DEF CueFiles, Mine
    <2> QED BY <2>1 DEF FileInv, Unpaid, Mine
  <1>5. Stored' /\ StorageClean'
    BY <1>3 DEF FileInv, Stored, StorageClean, Opened, At
  <1> QED BY <1>4, <1>5 DEF FileInv

LEMMA FileInvariance == Spec => []FileInv
  <1>1. Init => FileInv
    BY InitFiles
  <1>2. EditInv /\ EditInv' /\ LeaseInv /\ LeaseInv' /\ FileInv /\ [Next]_vars => FileInv'
    BY StepFiles, StutterFiles
  <1> QED BY <1>1, <1>2, EditInvariance, LeaseInvariance, PTL DEF Spec

\* The ledger never says less than what happened, nor does an owner say more
\* than the ledger and the files of the root: what was sent, what was answered,
\* what is unknown, what is stored (ai_ledger.py, ai_bridge.py, complete_plan,
\* reconcile_ai_invocation, recover_interrupted, _cleanup_orphan_media).
THEOREM LedgerSound == Spec => []LedgerTruthful
  <1>1. EditInv /\ FileInv => LedgerTruthful
    <2> SUFFICES ASSUME EditInv, FileInv PROVE LedgerTruthful
      OBVIOUS
    <2>1. TypeOK
      BY DEF EditInv, TypeOK, OwnerTable, OwnerRecord, CallTable, WorkerTable, WorkerRecord, RunTypes
    <2>2. UnknownShown
      BY DEF EditInv, Root, Shown, UnknownShown, Opened
    <2> QED BY <2>1, <2>2 DEF EditInv, FileInv, LedgerTruthful
  <1> QED BY <1>1, EditInvariance, FileInvariance, PTL

\* A retry never pays again for a cue whose audio some plan of its lineage
\* still holds, recorded and answered: what load does not reuse it discards
\* before the call is reserved (_SpeechCheckpointCache.load, persist).
THEOREM CuesPaidOnce == Spec => PaidOnce
  <1> DEFINE Step == \A call \in sent' \ sent :
                         call[1] \in Plans => Vouched(call[1], call[2]) = {}
  <1>1. EditInv /\ FileInv /\ LeaseInv /\ [Next]_vars => [Step]_vars
    <2> SUFFICES ASSUME EditInv, FileInv, LeaseInv, Next, NEW call \in sent' \ sent, call[1] \in Plans
                 PROVE  Vouched(call[1], call[2]) = {}
      BY DEF Step
    <2>1. PICK m \in Managers :
            \/ WorkerStep(m) \/ ApiBegin(m) \/ ApiEnd(m)
            \/ Recover(m) \/ Stop(m) \/ ReleaseLease(m) \/ Crash(m)
      BY DEF Next
    <2>2. Send(m)
      <3>1. WorkerStep(m)
        BY <2>1, ApiBeginDoes, ApiEndDoes, ManagerStepDoes DEF ApiDoes, ManagerDoes
      <3> QED BY <3>1 DEF WorkerStep, Claim, Publish, CheckCanceled, LocalFailure, LoadCheckpoint,
            Reserve, TestCanceled, Release, Dispatch, LaunchFailure, Return, Respond, MarkUnknown,
            Transition, CopyCheckpoint, RecordCheckpoint, Render, Complete, CommitTask, CommitPlan,
            Clean, JudgeFailure, FailOwner, CancelOwner, WorkerExit, RunKeeps, dbVars
    <2>3. call[1] = Mine(m) /\ call[2] = worker[m].cue /\ worker[m].pc = "remote"
      BY <2>2 DEF Send, At
    <2>4. CueFiles(call[1], call[2]) = {}
      BY <2>3 DEF FileInv, Unpaid, BeforeSending
    <2> QED BY <2>4 DEF Vouched
  <1> QED BY <1>1, EditInvariance, FileInvariance, LeaseInvariance, PTL DEF Spec, PaidOnce
=============================================================================
