------------------------ MODULE DownloadQueue_proofs ------------------------
(***************************************************************************)
(* Theorems about the download queue, for every set of jobs, platforms,    *)
(* Workers and slots and every bound: jobs, attempts, file intents and     *)
(* slots agree, and a cancellation that was requested wins.                *)
(***************************************************************************)
EXTENDS DownloadQueue, FiniteSetTheorems, TLAPS

AttemptRow == [AttemptNos -> AttemptStatus \cup {"none"}]

\* What ties a job r to its attempts a and to the attempts q that own intents:
\* LeaseMatchesAttempt and IntentsFenceClaims, and that the attempts so far fit
\* the generations so far, so that the next number is one of AttemptNos.
RowSound(r, a, q) ==
    /\ r \in JobRecord /\ a \in AttemptRow /\ q \in SUBSET AttemptNos
    /\ Active(r) <=> r.token # 0
    /\ \A n \in AttemptNos : /\ a[n] = "running" <=> Active(r) /\ r.token = n
                             /\ a[n] = "none" <=> n > r.total
    /\ \A m, n \in q : m = n
    /\ \A n \in q : /\ a[n] \in {"running", "failed", "canceled", "abandoned"}
                    /\ Active(r) => n = r.token /\ r.status = "verifying"
    /\ r.total <= (r.gen - 1) * MAX_ATTEMPTS + r.used

RowsSound == \A j \in Jobs : RowSound(job[j], attempt[j], pending[j])

IInv == TypeOK /\ RowsSound /\ SlotsDisjoint

\* CancelWins for one row
CancelKept(r, f) ==
    Active(r) /\ r.cancel => \/ Active(f) /\ f.cancel /\ f.token = r.token
                             \/ f.status = "canceled"

\* What a step may do to the rows of one job
RowStep(r, a, q, f, b, p) == RowSound(f, b, p) /\ CancelKept(r, f)

RowsStep == \A j \in Jobs : RowStep(job[j], attempt[j], pending[j],
                                    job'[j], attempt'[j], pending'[j])

LEMMA Bounds ==
  /\ MAX_ATTEMPTS \in Nat /\ MAX_ATTEMPTS >= 1
  /\ MaxGeneration \in Nat /\ MaxGeneration >= 1
  /\ MaxGeneration * MAX_ATTEMPTS \in Nat
  BY MaxAttemptsAssumption, QueueAssumption

LEMMA NumberType == /\ AttemptNos \subseteq Nat \ {0}
                    /\ \A n \in Nat \ {0} : n <= MaxGeneration * MAX_ATTEMPTS
                                            <=> n \in AttemptNos
  BY Bounds DEF AttemptNos

\* A generation's attempts fit the numbers of the generations so far.
LEMMA NextNumber ==
  ASSUME NEW g \in 1..MaxGeneration, NEW u \in 0..MAX_ATTEMPTS, u < MAX_ATTEMPTS,
         NEW t \in Nat, t <= (g - 1) * MAX_ATTEMPTS + u
  PROVE  t + 1 \in AttemptNos /\ t + 1 <= (g - 1) * MAX_ATTEMPTS + (u + 1)
  <1> DEFINE M == MAX_ATTEMPTS
  <1>1. (g - 1) * M + M = g * M
    BY Bounds
  <1>2. g * M <= MaxGeneration * M
    BY Bounds
  <1>3. (g - 1) * M \in Int /\ g * M \in Int /\ M \in Nat
    BY Bounds
  <1>4. t + 1 <= MaxGeneration * M
    <2>1. MaxGeneration * M \in Int
      BY Bounds
    <2> DEFINE x == (g - 1) * M
               y == g * M
               z == MaxGeneration * M
    <2>2. x \in Int /\ y \in Int /\ z \in Int /\ x + M = y /\ y <= z /\ t <= x + u
      BY <1>1, <1>2, <1>3, <2>1
    <2> HIDE DEF x, y, z
    <2>3. t + 1 <= z
      BY <1>3, <2>2
    <2> QED BY <2>3 DEF z
  <1>5. t + 1 \in AttemptNos
    BY <1>4, NumberType
  <1>6. t + 1 <= (g - 1) * M + (u + 1)
    BY <1>3
  <1> QED BY <1>5, <1>6

-----------------------------------------------------------------------------
(***************************************************************************)
(* What the statements of the repository do to the rows of one job         *)
(***************************************************************************)
LEMMA StatusType ==
  /\ ACTIVE_STATUSES \subseteq JobStatus
  /\ {"queued", "ready", "failed", "canceled"} \subseteq JobStatus
  /\ \A st \in {"queued", "ready", "failed", "canceled"} : st \notin ACTIVE_STATUSES
  /\ {"probing", "verifying"} \subseteq ACTIVE_STATUSES
  BY DEF JobStatus, ACTIVE_STATUSES

LEMMA ReleasedType ==
  ASSUME NEW r \in JobRecord, NEW st \in {"queued", "ready", "failed", "canceled"},
         NEW d \in BOOLEAN
  PROVE  LET f == [Released(r, st) EXCEPT !.due = d]
         IN  /\ f \in JobRecord /\ f.status = st /\ f.token = 0 /\ f.total = r.total
             /\ f.gen = r.gen /\ f.used = r.used
  <1> DEFINE t == 0
             l == FALSE
             c == r.cancel /\ st = "canceled"
             u == TRUE
             e == [r EXCEPT !.status = st, !.token = t, !.live = l, !.cancel = c, !.due = u]
  <1>1. /\ t \in AttemptNos \cup {0} /\ l \in BOOLEAN /\ c \in BOOLEAN /\ u \in BOOLEAN
        /\ st \in JobStatus
    BY StatusType
  <1>2. Released(r, st) = e
    BY DEF Released
  <1> HIDE DEF t, l, c, u
  <1>3. /\ e \in JobRecord /\ e.status = st /\ e.token = t /\ e.total = r.total
        /\ e.gen = r.gen /\ e.used = r.used
    BY <1>1 DEF JobRecord
  <1> HIDE DEF e
  <1>4. LET f == [e EXCEPT !.due = d]
        IN  /\ f \in JobRecord /\ f.status = st /\ f.token = t /\ f.total = r.total
            /\ f.gen = r.gen /\ f.used = r.used
    BY <1>3 DEF JobRecord
  <1> QED BY <1>2, <1>4 DEF t

LEMMA SameDue ==
  ASSUME NEW r \in JobRecord, NEW st
  PROVE  [Released(r, st) EXCEPT !.due = TRUE] = Released(r, st)
  <1> DEFINE l == FALSE
             c == r.cancel /\ st = "canceled"
             u == TRUE
             e == [r EXCEPT !.status = st, !.token = 0, !.live = l, !.cancel = c, !.due = u]
  <1>1. Released(r, st) = e
    BY DEF Released
  <1>2. e.due = u
    BY DEF JobRecord
  <1> QED BY <1>1, <1>2 DEF JobRecord, Released

\* A lease ends: the attempt gets its outcome, and some intents may stay.
LEMMA LeaseEnds ==
  ASSUME NEW r, NEW a, NEW q, RowSound(r, a, q), Active(r),
         NEW st \in {"queued", "ready", "failed", "canceled"},
         r.cancel => st = "canceled", NEW d \in BOOLEAN,
         NEW o \in {"succeeded", "failed", "canceled", "abandoned"},
         NEW p \in SUBSET q, o = "succeeded" => r.token \notin p
  PROVE  RowStep(r, a, q, [Released(r, st) EXCEPT !.due = d],
                 [a EXCEPT ![r.token] = o], p)
  <1> DEFINE f == [Released(r, st) EXCEPT !.due = d]
             b == [a EXCEPT ![r.token] = o]
  <1>1. /\ r \in JobRecord /\ a \in AttemptRow /\ q \in SUBSET AttemptNos
        /\ r.token # 0 /\ r.token \in AttemptNos /\ r.total \in Nat
    BY DEF RowSound, JobRecord
  <1>2. /\ f \in JobRecord /\ f.status = st /\ f.token = 0 /\ f.total = r.total
        /\ f.gen = r.gen /\ f.used = r.used
    BY <1>1, ReleasedType
  <1>3. /\ b \in AttemptRow /\ b[r.token] = o
        /\ \A n \in AttemptNos \ {r.token} : b[n] = a[n]
    BY <1>1 DEF AttemptRow, AttemptStatus
  <1> HIDE DEF f, b
  <1>4. ~Active(f)
    BY <1>2, StatusType DEF Active
  <1>5. \A n \in AttemptNos : b[n] # "running" /\ (b[n] = "none" <=> n > r.total)
    BY <1>1, <1>3 DEF RowSound
  <1>6. \A n \in p : b[n] \in {"running", "failed", "canceled", "abandoned"}
    BY <1>1, <1>3 DEF RowSound
  <1>7. RowSound(f, b, p)
    BY <1>1, <1>2, <1>3, <1>4, <1>5, <1>6, NumberType DEF RowSound
  <1>8. CancelKept(r, f)
    BY <1>2 DEF CancelKept
  <1> QED BY <1>7, <1>8 DEF RowStep, f, b

\* A job that is not active changes its status, its generation or its marks.
LEMMA IdleRow ==
  ASSUME NEW r, NEW a, NEW q, RowSound(r, a, q), ~Active(r),
         NEW f \in JobRecord, f.status \notin ACTIVE_STATUSES, f.token = 0,
         f.total = r.total,
         f.total <= (f.gen - 1) * MAX_ATTEMPTS + f.used
  PROVE  RowStep(r, a, q, f, a, q)
  BY NumberType DEF RowSound, RowStep, CancelKept, Active

\* An active job stays so, with its token.
LEMMA BusyRow ==
  ASSUME NEW r, NEW a, NEW q, RowSound(r, a, q), NEW f \in JobRecord,
         Active(f) <=> Active(r), f.token = r.token, f.total = r.total, f.gen = r.gen,
         f.used = r.used, r.cancel => f.cancel,
         f.status = r.status \/ q = {}
  PROVE  RowStep(r, a, q, f, a, q)
  BY DEF RowSound, RowStep, CancelKept

LEMMA IntentsGo ==
  ASSUME NEW r, NEW a, NEW q, RowSound(r, a, q), NEW p \in SUBSET q
  PROVE  RowStep(r, a, q, r, a, p)
  BY DEF RowSound, RowStep, CancelKept

LEMMA IntentComes ==
  ASSUME NEW r, NEW a, NEW q, RowSound(r, a, q), Active(r), r.status = "verifying",
         NEW n \in AttemptNos, r.token = n
  PROVE  RowStep(r, a, q, r, a, q \cup {n})
  BY DEF RowSound, RowStep, CancelKept

\* The next attempt takes the next number.
LEMMA ClaimRow ==
  ASSUME NEW r, NEW a, RowSound(r, a, {}), r.status = "queued", r.used < MAX_ATTEMPTS
  PROVE  /\ r.total + 1 \in AttemptNos
         /\ RowStep(r, a, {}, Claimed(r), [a EXCEPT ![r.total + 1] = "running"], {})
  <1> DEFINE n == r.total + 1
             v == r.used + 1
             x == "probing"
             l == TRUE
             f == [r EXCEPT !.status = x, !.token = n, !.live = l, !.used = v, !.total = n]
             b == [a EXCEPT ![n] = "running"]
  <1>1. /\ r \in JobRecord /\ a \in AttemptRow /\ r.total \in Nat
        /\ r.gen \in 1..MaxGeneration /\ r.used \in 0..MAX_ATTEMPTS
        /\ ~Active(r)
    BY StatusType DEF RowSound, JobRecord, Active
  <1>2. n \in AttemptNos /\ n <= (r.gen - 1) * MAX_ATTEMPTS + v
    BY <1>1, NextNumber DEF RowSound
  <1>3. Claimed(r) = f
    BY DEF Claimed
  <1>4. n \in Nat /\ v \in 0..MAX_ATTEMPTS /\ x \in JobStatus /\ l \in BOOLEAN
    BY <1>1, Bounds, StatusType
  <1>5. x \in ACTIVE_STATUSES
    BY StatusType
  <1>6. b \in AttemptRow /\ b[n] = "running" /\ \A m \in AttemptNos \ {n} : b[m] = a[m]
    BY <1>1, <1>2 DEF AttemptRow, AttemptStatus
  <1>7. \A m \in AttemptNos : m \in Nat /\ (m > n <=> m > r.total /\ m # n)
    BY <1>1, NumberType
  <1> HIDE DEF v, x, l
  <1>8. /\ f \in JobRecord /\ f.status = x /\ f.token = n /\ f.total = n
        /\ f.gen = r.gen /\ f.used = v
    <2> HIDE DEF n
    <2> QED BY <1>1, <1>2, <1>4 DEF JobRecord
  <1> HIDE DEF f, b
  <1>9. Active(f) /\ n # 0
    BY <1>2, <1>5, <1>8, NumberType DEF Active
  <1>10. RowSound(f, b, {})
    <2>1. \A m \in AttemptNos : /\ b[m] = "running" <=> m = n
                                /\ b[m] = "none" <=> m > n
      <3>1. \A m \in AttemptNos : a[m] # "running" /\ (a[m] = "none" <=> m > r.total)
        BY <1>1 DEF RowSound
      <3> HIDE DEF n
      <3> QED BY <1>2, <1>6, <1>7, <3>1
    <2> HIDE DEF n
    <2> QED BY <1>2, <1>6, <1>8, <1>9, <2>1 DEF RowSound
  <1> QED BY <1>1, <1>2, <1>3, <1>10 DEF RowStep, CancelKept, b, n

-----------------------------------------------------------------------------
(***************************************************************************)
(* From rows to the invariant                                              *)
(***************************************************************************)
TablesStep ==
    /\ RowsStep
    /\ job' \in [Jobs -> JobRecord] /\ attempt' \in [Jobs -> AttemptRow]
    /\ pending' \in [Jobs -> SUBSET AttemptNos]

LEMMA SameRow == \A r, a, q : RowSound(r, a, q) => RowStep(r, a, q, r, a, q)
  BY DEF RowStep, CancelKept

LEMMA SameTables ==
  ASSUME IInv, UNCHANGED <<job, attempt, pending>>
  PROVE  TablesStep
  BY SameRow DEF TablesStep, RowsStep, IInv, RowsSound, TypeOK, AttemptRow

LEMMA OneRow ==
  ASSUME IInv, NEW j \in Jobs, NEW f, NEW b, NEW p,
         job' = [job EXCEPT ![j] = f], attempt' = [attempt EXCEPT ![j] = b],
         pending' = [pending EXCEPT ![j] = p],
         RowStep(job[j], attempt[j], pending[j], f, b, p)
  PROVE  TablesStep
  <1>1. f \in JobRecord /\ b \in AttemptRow /\ p \in SUBSET AttemptNos
    BY DEF RowStep, RowSound
  <1>2. /\ job \in [Jobs -> JobRecord] /\ attempt \in [Jobs -> AttemptRow]
        /\ pending \in [Jobs -> SUBSET AttemptNos]
    BY DEF IInv, TypeOK, AttemptRow
  <1>3. /\ job' \in [Jobs -> JobRecord] /\ attempt' \in [Jobs -> AttemptRow]
        /\ pending' \in [Jobs -> SUBSET AttemptNos]
    BY <1>1, <1>2
  <1>4. /\ job'[j] = f /\ attempt'[j] = b /\ pending'[j] = p
        /\ \A i \in Jobs \ {j} : /\ job'[i] = job[i] /\ attempt'[i] = attempt[i]
                                 /\ pending'[i] = pending[i]
    BY <1>2
  <1>5. \A i \in Jobs : RowSound(job[i], attempt[i], pending[i])
    BY DEF IInv, RowsSound
  <1>6. RowsStep
    BY <1>4, <1>5, SameRow DEF RowsStep
  <1> QED BY <1>3, <1>6 DEF TablesStep

Shapes ==
    /\ circuit \in [Platforms -> CircuitRecord] /\ paused \in BOOLEAN
    /\ orphaned \subseteq Jobs \X AttemptNos
    /\ latched \subseteq Workers /\ stopping \subseteq Workers /\ scanned \subseteq Workers
    /\ cleaning \in [Workers -> SUBSET (Jobs \X AttemptNos)]
    /\ lease \in [Slots -> Leases] /\ phase \in [Slots -> Phases]

LEMMA StepIInv ==
  ASSUME IInv, TablesStep, Shapes', SlotsDisjoint'
  PROVE  IInv' /\ RowsStep
  <1>1. TypeOK'
    BY DEF TablesStep, Shapes, TypeOK, AttemptRow
  <1>2. RowsSound'
    BY DEF TablesStep, RowsStep, RowStep, RowsSound
  <1> QED BY <1>1, <1>2 DEF IInv, TablesStep

LEMMA InitIInv == Init => IInv
  <1> SUFFICES ASSUME Init PROVE IInv
    OBVIOUS
  <1> DEFINE r == [status |-> "queued", token |-> 0, live |-> FALSE, cancel |-> FALSE,
                   due |-> TRUE, gen |-> 1, used |-> 0, total |-> 0]
             a == [n \in AttemptNos |-> "none"]
  <1>1. r \in JobRecord
    BY Bounds, StatusType DEF JobRecord
  <1>2. a \in AttemptRow /\ \A n \in AttemptNos : a[n] = "none" /\ n > 0
    BY NumberType DEF AttemptRow
  <1>3. r.status = "queued" /\ r.token = 0 /\ r.total = 0 /\ r.gen = 1 /\ r.used = 0
    OBVIOUS
  <1>4. /\ job = [j \in Jobs |-> r] /\ attempt = [j \in Jobs |-> a]
        /\ pending = [j \in Jobs |-> {}]
    BY DEF Init
  <1> HIDE DEF r, a
  <1>5. RowSound(r, a, {})
    BY <1>1, <1>2, <1>3, Bounds, StatusType DEF RowSound, Active
  <1>6. RowsSound
    BY <1>4, <1>5 DEF RowsSound
  <1>7. ClosedCircuit \in CircuitRecord
    BY DEF ClosedCircuit, CircuitRecord, Leases
  <1>8. TypeOK
    BY <1>1, <1>2, <1>4, <1>7 DEF Init, TypeOK, AttemptRow, Leases, Phases
  <1>9. SlotsDisjoint
    BY DEF Init, SlotsDisjoint
  <1> QED BY <1>6, <1>8, <1>9 DEF IInv

-----------------------------------------------------------------------------
(***************************************************************************)
(* Circuits                                                                *)
(***************************************************************************)
LEMMA ClosedType == ClosedCircuit \in CircuitRecord /\ NoLease \in Leases
  BY DEF ClosedCircuit, CircuitRecord, Leases

LEMMA ReleaseType ==
  ASSUME NEW c \in CircuitRecord, NEW j, NEW n
  PROVE  ReleaseHalfOpen(c, j, n) \in CircuitRecord
  <1> DEFINE x == "open"
             u == TRUE
             m == FALSE
             e == [c EXCEPT !.state = x, !.cooled = u, !.manual = m, !.probe = NoLease]
  <1>1. ReleaseHalfOpen(c, j, n) \in {c, e}
    BY DEF ReleaseHalfOpen
  <1>2. x \in {"closed", "open", "half_open"} /\ u \in BOOLEAN /\ m \in BOOLEAN
    OBVIOUS
  <1> HIDE DEF x, u, m
  <1>3. e \in CircuitRecord
    BY <1>2, ClosedType DEF CircuitRecord
  <1> QED BY <1>1, <1>3

LEMMA FailureType ==
  ASSUME NEW c \in CircuitRecord, NEW j, NEW n, NEW code
  PROVE  RecordPlatformFailure(c, j, n, code) \in CircuitRecord
  <1> DEFINE isProbe  == c.state = "half_open" /\ c.probe = <<j, n>>
             failures == 1 + (IF c.last = code THEN c.failures ELSE 0)
             broken   == isProbe \/ ThresholdReached(failures, BrokenThreshold)
             limited  == code = "rate_limited"
             x == IF limited \/ broken THEN "open" ELSE "closed"
             m == IF limited THEN ThresholdReached(failures, RateLimitThreshold) ELSE broken
             u == FALSE
             e == [state |-> x, failures |-> failures, last |-> code, cooled |-> u,
                   manual |-> m, probe |-> NoLease]
  <1>1. CASE code \notin TrackedErrors
    BY <1>1, ReleaseType DEF RecordPlatformFailure
  <1>2. CASE code \in TrackedErrors
    <2>1. RecordPlatformFailure(c, j, n, code) = e
      BY <1>2 DEF RecordPlatformFailure
    <2>2. failures \in Nat
      BY DEF CircuitRecord
    <2>3. x \in {"closed", "open", "half_open"} /\ u \in BOOLEAN
      OBVIOUS
    <2>4. m \in BOOLEAN
      <3>1. broken \in BOOLEAN /\ ThresholdReached(failures, RateLimitThreshold) \in BOOLEAN
        BY DEF ThresholdReached
      <3> HIDE DEF broken, failures
      <3> QED BY <3>1
    <2> HIDE DEF x, m, failures, u
    <2>5. e \in CircuitRecord
      BY <1>2, <2>2, <2>3, <2>4, ClosedType DEF CircuitRecord
    <2> QED BY <2>1, <2>5
  <1> QED BY <1>1, <1>2

-----------------------------------------------------------------------------
(***************************************************************************)
(* Recovery                                                                *)
(***************************************************************************)
\* Jobs whose worker is gone leave their leases; their intents stay.
LEMMA LostRows ==
  ASSUME IInv, NEW lost \in SUBSET ActiveJobs(job)
  PROVE  /\ \A j \in Jobs : RowStep(job[j], attempt[j], pending[j],
                                    JobsWithout(lost)[j], AttemptsWithout(lost)[j], pending[j])
         /\ JobsWithout(lost) \in [Jobs -> JobRecord]
         /\ AttemptsWithout(lost) \in [Jobs -> AttemptRow]
         /\ \A j \in Jobs \ lost : JobsWithout(lost)[j] = job[j]
  <1>1. \A j \in Jobs : RowSound(job[j], attempt[j], pending[j])
    BY DEF IInv, RowsSound
  <1>2. ASSUME NEW j \in lost
        PROVE  RowStep(job[j], attempt[j], pending[j],
                       JobsWithout(lost)[j], AttemptsWithout(lost)[j], pending[j])
    <2> DEFINE r  == job[j]
               st == LostStatus(r)
               o  == LostAttempt(r)
               a  == attempt[j]
               b  == [n \in AttemptNos |-> IF n = r.token /\ a[n] = "running" THEN o ELSE a[n]]
    <2>1. j \in Jobs /\ Active(r) /\ RowSound(r, a, pending[j])
      BY <1>1, <1>2 DEF ActiveJobs
    <2>2. /\ st \in {"queued", "ready", "failed", "canceled"} /\ (r.cancel => st = "canceled")
          /\ o \in {"succeeded", "failed", "canceled", "abandoned"} /\ o # "succeeded"
      BY DEF LostStatus, LostAttempt
    <2>3. JobsWithout(lost)[j] = Released(r, st) /\ AttemptsWithout(lost)[j] = b
      BY <1>2, <2>1 DEF JobsWithout, AttemptsWithout
    <2>4. b = [a EXCEPT ![r.token] = o]
      <3>1. a \in AttemptRow /\ r.token \in AttemptNos /\ a[r.token] = "running"
        BY <2>1 DEF RowSound, JobRecord
      <3> HIDE DEF o, a, r
      <3> QED BY <3>1 DEF AttemptRow
    <2>5. r \in JobRecord
      BY <2>1 DEF RowSound
    <2>6. [Released(r, st) EXCEPT !.due = TRUE] = Released(r, st)
      BY <2>5, SameDue
    <2> HIDE DEF r, st, o, a, b
    <2>7. RowStep(r, a, pending[j], [Released(r, st) EXCEPT !.due = TRUE],
                  [a EXCEPT ![r.token] = o], pending[j])
      BY <2>1, <2>2, LeaseEnds
    <2> QED BY <2>3, <2>4, <2>6, <2>7 DEF r, a
  <1>3. ASSUME NEW j \in Jobs \ lost
        PROVE  /\ JobsWithout(lost)[j] = job[j] /\ AttemptsWithout(lost)[j] = attempt[j]
    <2>1. attempt[j] \in AttemptRow
      BY <1>1 DEF RowSound
    <2> QED BY <2>1 DEF JobsWithout, AttemptsWithout, AttemptRow
  <1>4. \A j \in Jobs : RowStep(job[j], attempt[j], pending[j],
                                JobsWithout(lost)[j], AttemptsWithout(lost)[j], pending[j])
    BY <1>1, <1>2, <1>3, SameRow
  <1>5. \A j \in Jobs : /\ JobsWithout(lost)[j] \in JobRecord
                        /\ AttemptsWithout(lost)[j] \in AttemptRow
    BY <1>4 DEF RowStep, RowSound
  <1>6. /\ JobsWithout(lost) = [j \in Jobs |-> JobsWithout(lost)[j]]
        /\ AttemptsWithout(lost) = [j \in Jobs |-> AttemptsWithout(lost)[j]]
    BY DEF JobsWithout, AttemptsWithout
  <1>7. /\ JobsWithout(lost) \in [Jobs -> JobRecord]
        /\ AttemptsWithout(lost) \in [Jobs -> AttemptRow]
    BY <1>5, <1>6
  <1> QED BY <1>3, <1>4, <1>7

LEMMA CircuitsType ==
  ASSUME IInv, NEW lost
  PROVE  CircuitsWithout(lost) \in [Platforms -> CircuitRecord]
  <1>1. \A q \in Platforms : circuit[q] \in CircuitRecord
    BY DEF IInv, TypeOK
  <1>2. \A q \in Platforms :
          ReleaseHalfOpen(circuit[q], circuit[q].probe[1], circuit[q].probe[2]) \in CircuitRecord
    BY <1>1, ReleaseType
  <1> QED BY <1>1, <1>2 DEF CircuitsWithout

LEMMA FenceStep ==
  ASSUME IInv, NEW w \in Workers, FenceIntents(w)
  PROVE  IInv' /\ RowsStep
  <1>1. PICK fresh \in SUBSET {v \in Workers \ {w} : cleaning[v] # {}} :
          LET held  == orphaned \cup UNION {cleaning[v] : v \in fresh}
              stale == {i \in Jobs \X AttemptNos :
                          /\ i[2] \in pending[i[1]] /\ i \notin held
                          /\ ~ExactActive(i[1], i[2])}
              lost  == {j \in Jobs : Active(job[j]) /\ <<j, job[j].token>> \in stale}
          IN  /\ job' = JobsWithout(lost)
              /\ attempt' = AttemptsWithout(lost)
              /\ circuit' = CircuitsWithout(lost)
              /\ cleaning' = [v \in Workers |->
                                IF v = w THEN stale
                                ELSE IF v \in fresh THEN cleaning[v] ELSE {}]
              /\ stopping' = stopping \cup
                     {v \in Workers \ (fresh \cup {w}) : cleaning[v] # {}}
    BY DEF FenceIntents
  <1> DEFINE held  == orphaned \cup UNION {cleaning[v] : v \in fresh}
             stale == {i \in Jobs \X AttemptNos :
                         /\ i[2] \in pending[i[1]] /\ i \notin held
                         /\ ~ExactActive(i[1], i[2])}
             lost  == {j \in Jobs : Active(job[j]) /\ <<j, job[j].token>> \in stale}
  <1>2. /\ job' = JobsWithout(lost) /\ attempt' = AttemptsWithout(lost)
        /\ circuit' = CircuitsWithout(lost)
        /\ cleaning' = [v \in Workers |-> IF v = w THEN stale
                                          ELSE IF v \in fresh THEN cleaning[v] ELSE {}]
        /\ stopping' = stopping \cup {v \in Workers \ (fresh \cup {w}) : cleaning[v] # {}}
        /\ scanned' = scanned \cup {w}
        /\ UNCHANGED <<pending, paused, orphaned, latched, lease, phase>>
    BY <1>1 DEF FenceIntents, slotVars
  <1>3. lost \in SUBSET ActiveJobs(job)
    BY DEF ActiveJobs
  <1>4. stale \in SUBSET (Jobs \X AttemptNos)
    OBVIOUS
  <1> HIDE DEF lost, stale
  <1>5. TablesStep
    BY <1>2, <1>3, LostRows DEF TablesStep, RowsStep, IInv, TypeOK
  <1>6. Shapes'
    BY <1>2, <1>4, CircuitsType DEF IInv, TypeOK, Shapes
  <1>7. SlotsDisjoint'
    BY <1>2 DEF IInv, SlotsDisjoint
  <1> QED BY <1>5, <1>6, <1>7, StepIInv

\* A step that leaves the rows alone.
LEMMA StillStep ==
  ASSUME IInv, UNCHANGED <<job, attempt, pending>>, Shapes', SlotsDisjoint'
  PROVE  IInv' /\ RowsStep
  BY SameTables, StepIInv

LEMMA PauseType ==
  ASSUME IInv, NEW w \in Workers, Pause(w)
  PROVE  paused' \in BOOLEAN /\ latched' \subseteq Workers
  BY DEF Pause, IInv, TypeOK

LEMMA RecoveryFailsStep ==
  ASSUME IInv, NEW w \in Workers, RecoveryFails(w)
  PROVE  IInv' /\ RowsStep
  <1>1. /\ UNCHANGED <<job, attempt, pending, circuit, orphaned, lease, phase>>
        /\ cleaning' = [cleaning EXCEPT ![w] = {}] /\ scanned' = scanned \ {w}
        /\ paused' \in BOOLEAN /\ latched' \subseteq Workers /\ stopping' \subseteq Workers
    BY PauseType DEF RecoveryFails, slotVars, IInv, TypeOK
  <1>2. Shapes'
    BY <1>1 DEF IInv, TypeOK, Shapes
  <1> QED BY <1>1, <1>2, StillStep DEF IInv, SlotsDisjoint

LEMMA RestartStep ==
  ASSUME IInv, NEW w \in Workers, Restart(w)
  PROVE  IInv' /\ RowsStep
  <1>1. /\ UNCHANGED <<job, attempt, pending, circuit, paused>>
        /\ orphaned' = orphaned \cup cleaning[w]
        /\ latched' = latched \ {w} /\ stopping' = stopping \ {w}
        /\ scanned' = scanned \ {w} /\ cleaning' = [cleaning EXCEPT ![w] = {}]
        /\ lease' = [s \in Slots |-> IF WorkerOf[s] = w THEN NoLease ELSE lease[s]]
        /\ phase' = [s \in Slots |-> IF WorkerOf[s] = w THEN "idle" ELSE phase[s]]
    BY DEF Restart
  <1>2. Shapes'
    BY <1>1, ClosedType DEF IInv, TypeOK, Shapes, Phases
  <1>3. SlotsDisjoint'
    BY <1>1 DEF IInv, SlotsDisjoint
  <1> QED BY <1>1, <1>2, <1>3, StillStep

LEMMA CompleteIntentStep ==
  ASSUME IInv, NEW w \in Workers, NEW j \in Jobs, NEW n \in AttemptNos,
         CompleteIntent(w, j, n)
  PROVE  IInv' /\ RowsStep
  <1>1. /\ pending' = [pending EXCEPT ![j] = pending[j] \ {n}]
        /\ cleaning' = [cleaning EXCEPT ![w] = cleaning[w] \ {<<j, n>>}]
        /\ UNCHANGED <<job, attempt, circuit, paused, orphaned, latched, stopping,
                       scanned, lease, phase>>
    BY DEF CompleteIntent, slotVars
  <1>2. RowSound(job[j], attempt[j], pending[j])
    BY DEF IInv, RowsSound
  <1>3. RowStep(job[j], attempt[j], pending[j], job[j], attempt[j], pending[j] \ {n})
    BY <1>2, IntentsGo
  <1>4. /\ job' = [job EXCEPT ![j] = job[j]]
        /\ attempt' = [attempt EXCEPT ![j] = attempt[j]]
    BY <1>1 DEF IInv, TypeOK
  <1>5. TablesStep
    BY <1>1, <1>3, <1>4, OneRow
  <1>6. Shapes'
    BY <1>1 DEF IInv, TypeOK, Shapes
  <1> QED BY <1>1, <1>5, <1>6, StepIInv DEF IInv, SlotsDisjoint

-----------------------------------------------------------------------------
(***************************************************************************)
(* What a slot does with its attempt                                       *)
(***************************************************************************)
LEMMA SettleSlots ==
  ASSUME IInv, NEW s \in Slots, phase[s] # "idle", Settle(s)
  PROVE  /\ lease' \in [Slots -> Leases] /\ phase' \in [Slots -> Phases]
         /\ SlotsDisjoint'
  BY DEF Settle, IInv, TypeOK, Phases, SlotsDisjoint

LEMMA EndStep ==
  ASSUME IInv, NEW s \in Slots, phase[s] # "idle", Settle(s),
         NEW j \in Jobs, NEW n \in AttemptNos, Holds(j, n),
         NEW st \in {"queued", "ready", "failed", "canceled"},
         job[j].cancel => st = "canceled", NEW d \in BOOLEAN,
         NEW o \in {"succeeded", "failed", "canceled", "abandoned"},
         NEW p \in SUBSET pending[j], o = "succeeded" => n \notin p,
         job' = [job EXCEPT ![j] = [Released(job[j], st) EXCEPT !.due = d]],
         attempt' = [attempt EXCEPT ![j] = [attempt[j] EXCEPT ![n] = o]],
         pending' = [pending EXCEPT ![j] = p],
         circuit' \in [Platforms -> CircuitRecord],
         UNCHANGED <<paused, orphaned, workerVars>>
  PROVE  IInv' /\ RowsStep
  <1>1. /\ RowSound(job[j], attempt[j], pending[j])
        /\ Active(job[j]) /\ job[j].token = n
    BY DEF IInv, RowsSound, Holds
  <1>2. RowStep(job[j], attempt[j], pending[j], [Released(job[j], st) EXCEPT !.due = d],
                [attempt[j] EXCEPT ![n] = o], p)
    BY <1>1, LeaseEnds
  <1>3. TablesStep
    BY <1>2, OneRow
  <1>4. Shapes'
    BY SettleSlots DEF IInv, TypeOK, Shapes, workerVars
  <1> QED BY <1>3, <1>4, SettleSlots, StepIInv

LEMMA CancelStep ==
  ASSUME IInv, NEW s \in Slots, phase[s] # "idle", Settle(s),
         NEW j \in Jobs, NEW n \in AttemptNos, Holds(j, n), CancelAttempt(j, n),
         UNCHANGED <<paused, orphaned, workerVars>>
  PROVE  IInv' /\ RowsStep
  <1>1. job[j] \in JobRecord
    BY DEF IInv, TypeOK
  <1>2. /\ job' = [job EXCEPT ![j] = [Released(job[j], "canceled") EXCEPT !.due = TRUE]]
        /\ attempt' = [attempt EXCEPT ![j] = [attempt[j] EXCEPT ![n] = "canceled"]]
        /\ pending' = [pending EXCEPT ![j] = pending[j] \ {n}]
    BY <1>1, SameDue DEF CancelAttempt
  <1>3. circuit' \in [Platforms -> CircuitRecord]
    BY ReleaseType DEF CancelAttempt, IInv, TypeOK
  <1> DEFINE p == pending[j] \ {n}
             o == "canceled"
             d == TRUE
  <1>4. /\ p \in SUBSET pending[j] /\ d \in BOOLEAN
        /\ o \in {"succeeded", "failed", "canceled", "abandoned"}
        /\ o \in {"queued", "ready", "failed", "canceled"} /\ n \notin p
    OBVIOUS
  <1>5. /\ job' = [job EXCEPT ![j] = [Released(job[j], o) EXCEPT !.due = d]]
        /\ attempt' = [attempt EXCEPT ![j] = [attempt[j] EXCEPT ![n] = o]]
        /\ pending' = [pending EXCEPT ![j] = p]
        /\ job[j].cancel => o = "canceled"
    BY <1>2
  <1> HIDE DEF p, o, d
  <1> QED BY <1>3, <1>4, <1>5, EndStep

LEMMA FailureStep ==
  ASSUME IInv, NEW s \in Slots, phase[s] # "idle", Settle(s),
         NEW j \in Jobs, NEW n \in AttemptNos, Holds(j, n),
         NEW code, FinishFailure(j, n, code),
         UNCHANGED <<paused, orphaned, workerVars>>
  PROVE  IInv' /\ RowsStep
  <1> DEFINE d     == Decision(j, code)
             retry == d.action = "retry" /\ job[j].used < MAX_ATTEMPTS
             st    == IF retry THEN "queued" ELSE "failed"
             due   == ~retry \/ d.delay = 0
             o     == "failed"
             p     == pending[j]
  <1>1. CASE job[j].cancel /\ CancelAttempt(j, n)
    BY <1>1, CancelStep
  <1>2. CASE /\ ~job[j].cancel
             /\ circuit' = [circuit EXCEPT ![PlatformOf[j]] =
                              RecordPlatformFailure(circuit[PlatformOf[j]], j, n, code)]
             /\ job' = [job EXCEPT ![j] = [Released(job[j], st) EXCEPT !.due = due]]
             /\ attempt' = [attempt EXCEPT ![j] = [attempt[j] EXCEPT ![n] = o]]
             /\ UNCHANGED pending
    <2>1. /\ st \in {"queued", "ready", "failed", "canceled"} /\ due \in BOOLEAN
          /\ o \in {"succeeded", "failed", "canceled", "abandoned"} /\ o # "succeeded"
          /\ p \in SUBSET pending[j]
      OBVIOUS
    <2>2. circuit' \in [Platforms -> CircuitRecord]
      <3>1. circuit \in [Platforms -> CircuitRecord] /\ PlatformOf[j] \in Platforms
        BY QueueAssumption DEF IInv, TypeOK
      <3>2. RecordPlatformFailure(circuit[PlatformOf[j]], j, n, code) \in CircuitRecord
        BY <3>1, FailureType
      <3> QED BY <1>2, <3>1, <3>2
    <2>3. pending' = [pending EXCEPT ![j] = p]
      BY <1>2 DEF IInv, TypeOK
    <2> HIDE DEF st, due, o, p
    <2> QED BY <1>2, <2>1, <2>2, <2>3, EndStep
  <1>3. FinishFailure(j, n, code) =>
          \/ job[j].cancel /\ CancelAttempt(j, n)
          \/ /\ ~job[j].cancel
             /\ circuit' = [circuit EXCEPT ![PlatformOf[j]] =
                              RecordPlatformFailure(circuit[PlatformOf[j]], j, n, code)]
             /\ job' = [job EXCEPT ![j] = [Released(job[j], st) EXCEPT !.due = due]]
             /\ attempt' = [attempt EXCEPT ![j] = [attempt[j] EXCEPT ![n] = o]]
             /\ UNCHANGED pending
    BY DEF FinishFailure
  <1> QED BY <1>1, <1>2, <1>3

LEMMA FinalizeStep ==
  ASSUME IInv, NEW s \in Slots, NEW j \in Jobs, NEW n \in AttemptNos, Finalize(s, j, n)
  PROVE  IInv' /\ RowsStep
  <1>1. /\ phase[s] # "idle" /\ Settle(s) /\ Holds(j, n)
        /\ UNCHANGED <<paused, orphaned, workerVars>>
    BY DEF Finalize, Runs
  <1>2. CASE job[j].cancel /\ CancelAttempt(j, n)
    BY <1>1, <1>2, CancelStep
  <1> DEFINE st == "ready"
             o  == "succeeded"
             d  == TRUE
             p  == pending[j] \ {n}
  <1>3. CASE /\ ~job[j].cancel
             /\ circuit' = [circuit EXCEPT ![PlatformOf[j]] = ClosedCircuit]
             /\ job' = [job EXCEPT ![j] = Released(job[j], st)]
             /\ attempt' = [attempt EXCEPT ![j] = [attempt[j] EXCEPT ![n] = o]]
             /\ pending' = [pending EXCEPT ![j] = p]
    <2>1. /\ st \in {"queued", "ready", "failed", "canceled"} /\ d \in BOOLEAN
          /\ o \in {"succeeded", "failed", "canceled", "abandoned"}
          /\ p \in SUBSET pending[j] /\ n \notin p
      OBVIOUS
    <2>2. circuit' \in [Platforms -> CircuitRecord]
      BY <1>3, ClosedType DEF IInv, TypeOK
    <2>3. job' = [job EXCEPT ![j] = [Released(job[j], st) EXCEPT !.due = d]]
      <3>1. job[j] \in JobRecord
        BY DEF IInv, TypeOK
      <3> QED BY <1>3, <3>1, SameDue
    <2> HIDE DEF st, o, d, p
    <2> QED BY <1>1, <1>3, <2>1, <2>2, <2>3, EndStep
  <1> QED BY <1>2, <1>3 DEF Finalize

LEMMA TransitionStep ==
  ASSUME IInv, NEW s \in Slots, NEW j \in Jobs, NEW n \in AttemptNos, Transition(s, j, n)
  PROVE  IInv' /\ RowsStep
  <1>1. PICK st \in NextStatus[job[j].status] : job' = [job EXCEPT ![j].status = st]
    BY DEF Transition
  <1> DEFINE f == [job[j] EXCEPT !.status = st]
  <1>2. /\ RowSound(job[j], attempt[j], pending[j]) /\ Active(job[j])
        /\ job[j] \in JobRecord
        /\ UNCHANGED <<attempt, pending, circuit, paused, orphaned, workerVars, slotVars>>
    BY DEF IInv, RowsSound, Transition, Holds, TypeOK
  <1>3. st \in ACTIVE_STATUSES /\ job[j].status # "verifying"
    BY <1>1, <1>2 DEF NextStatus, Active, ACTIVE_STATUSES
  <1>4. pending[j] = {}
    BY <1>2, <1>3 DEF RowSound
  <1>5. /\ f \in JobRecord /\ f.status = st /\ f.token = job[j].token
        /\ f.total = job[j].total /\ f.gen = job[j].gen /\ f.used = job[j].used
        /\ f.cancel = job[j].cancel
    <2>1. st \in JobStatus
      BY <1>3, StatusType
    <2> QED BY <1>2, <2>1 DEF JobRecord
  <1>6. /\ job' = [job EXCEPT ![j] = f] /\ attempt' = [attempt EXCEPT ![j] = attempt[j]]
        /\ pending' = [pending EXCEPT ![j] = pending[j]]
    BY <1>1, <1>2 DEF IInv, TypeOK
  <1> HIDE DEF f
  <1>7. RowStep(job[j], attempt[j], pending[j], f, attempt[j], pending[j])
    BY <1>2, <1>3, <1>4, <1>5, BusyRow DEF Active
  <1>8. TablesStep
    BY <1>6, <1>7, OneRow
  <1> QED BY <1>2, <1>8, StepIInv
          DEF IInv, TypeOK, Shapes, SlotsDisjoint, workerVars, slotVars

LEMMA RecordIntentStep ==
  ASSUME IInv, NEW s \in Slots, NEW j \in Jobs, NEW n \in AttemptNos, RecordIntent(s, j, n)
  PROVE  IInv' /\ RowsStep
  <1>1. /\ Active(job[j]) /\ job[j].token = n /\ job[j].status = "verifying"
        /\ pending' = [pending EXCEPT ![j] = pending[j] \cup {n}]
        /\ UNCHANGED <<job, attempt, circuit, paused, orphaned, workerVars, slotVars>>
    BY DEF RecordIntent, Holds
  <1>2. RowSound(job[j], attempt[j], pending[j])
    BY DEF IInv, RowsSound
  <1>3. RowStep(job[j], attempt[j], pending[j], job[j], attempt[j], pending[j] \cup {n})
    BY <1>1, <1>2, IntentComes
  <1>4. job' = [job EXCEPT ![j] = job[j]] /\ attempt' = [attempt EXCEPT ![j] = attempt[j]]
    BY <1>1 DEF IInv, TypeOK
  <1>5. TablesStep
    BY <1>1, <1>3, <1>4, OneRow
  <1> QED BY <1>1, <1>5, StepIInv
          DEF IInv, TypeOK, Shapes, SlotsDisjoint, workerVars, slotVars

\* The attempt goes on, is lost or leaves with an exception: no row changes.
LEMMA QuietStep ==
  ASSUME IInv, NEW s \in Slots, NEW j \in Jobs, NEW n \in AttemptNos,
         StorageError(s, j, n) \/ NoticeLostLease(s, j, n) \/ RaiseFromHandler(s, j, n)
  PROVE  IInv' /\ RowsStep
  <1>1. CASE StorageError(s, j, n)
    <2>1. WorkerOf[s] \in Workers
      BY QueueAssumption
    <2>2. /\ UNCHANGED <<job, attempt, pending, circuit, orphaned, stopping, scanned,
                         cleaning, lease>>
          /\ paused' \in BOOLEAN /\ latched' \subseteq Workers
          /\ phase[s] # "idle" /\ phase' = [phase EXCEPT ![s] = "storage"]
      BY <1>1, <2>1, PauseType DEF StorageError, Runs
    <2>3. Shapes' /\ SlotsDisjoint'
      BY <2>2 DEF IInv, TypeOK, Shapes, Phases, SlotsDisjoint
    <2> QED BY <2>2, <2>3, StillStep
  <1>2. CASE NoticeLostLease(s, j, n)
    <2>1. /\ UNCHANGED <<dbVars, workerVars>> /\ Settle(s) /\ phase[s] # "idle"
      BY <1>2 DEF NoticeLostLease, Runs
    <2>2. Shapes' /\ SlotsDisjoint'
      BY <2>1, SettleSlots DEF IInv, TypeOK, Shapes, dbVars, workerVars
    <2> QED BY <2>1, <2>2, StillStep DEF dbVars
  <1>3. CASE RaiseFromHandler(s, j, n)
    <2>1. /\ UNCHANGED <<dbVars, workerVars, lease>> /\ phase[s] # "idle"
          /\ phase' = [phase EXCEPT ![s] = "raised"]
      BY <1>3 DEF RaiseFromHandler
    <2>2. Shapes' /\ SlotsDisjoint'
      BY <2>1 DEF IInv, TypeOK, Shapes, Phases, SlotsDisjoint, dbVars, workerVars
    <2> QED BY <2>1, <2>2, StillStep DEF dbVars
  <1> QED BY <1>1, <1>2, <1>3

LEMMA CleanupStep ==
  ASSUME IInv, NEW s \in Slots, Cleanup(s)
  PROVE  IInv' /\ RowsStep
  <1>1. WorkerOf[s] \in Workers
    BY QueueAssumption
  <1>2. /\ UNCHANGED <<job, attempt, pending, circuit, orphaned, scanned, cleaning>>
        /\ paused' \in BOOLEAN /\ latched' \subseteq Workers /\ stopping' \subseteq Workers
        /\ phase' = [phase EXCEPT ![s] = "idle"] /\ lease' = [lease EXCEPT ![s] = NoLease]
    BY <1>1, PauseType DEF Cleanup, IInv, TypeOK
  <1>3. Shapes'
    BY <1>2, ClosedType DEF IInv, TypeOK, Shapes, Phases
  <1>4. SlotsDisjoint'
    BY <1>2 DEF IInv, TypeOK, SlotsDisjoint
  <1> QED BY <1>2, <1>3, <1>4, StillStep

LEMMA SlotStepIInv ==
  ASSUME IInv, NEW s \in Slots, NEW j \in Jobs, NEW n \in AttemptNos, SlotStep(s, j, n)
  PROVE  IInv' /\ RowsStep
  <1>1. CASE FinishCanceled(s, j, n)
    BY <1>1, CancelStep DEF FinishCanceled, Runs
  <1>2. CASE FailAttempt(s, j, n)
    <2>1. PICK code : FinishFailure(j, n, code)
      BY <1>2 DEF FailAttempt
    <2> QED BY <1>2, <2>1, FailureStep DEF FailAttempt, Runs
  <1>3. CASE FailStorage(s, j, n)
    BY <1>3, FailureStep DEF FailStorage
  <1> QED BY <1>1, <1>2, <1>3, TransitionStep, RecordIntentStep, FinalizeStep, QuietStep
          DEF SlotStep

-----------------------------------------------------------------------------
(***************************************************************************)
(* Claiming                                                                *)
(***************************************************************************)
\* What recovery put back into the queue may be taken on at once.
LEMMA ThenRow ==
  ASSUME NEW r, NEW a, NEW q, NEW f, NEW b, RowStep(r, a, q, f, b, q),
         f.status = "queued", NEW g, NEW c, RowSound(g, c, q)
  PROVE  RowStep(r, a, q, g, c, q)
  BY StatusType DEF RowStep, CancelKept, Active

LEMMA ClaimStep ==
  ASSUME IInv, NEW s \in Slots, ClaimNext(s)
  PROVE  IInv' /\ RowsStep
  <1> DEFINE w        == WorkerOf[s]
             lost     == IF Quiescent(w) THEN Expired ELSE {}
             jb       == JobsWithout(lost)
             ab       == AttemptsWithout(lost)
             cb       == CircuitsWithout(lost)
             eligible == Eligible(jb, cb, Excluded(w))
  <1>1. PICK invalid \in SUBSET eligible :
          LET valid    == eligible \ invalid
              rejected == {j \in invalid : \A k \in valid : j < k}
              jr       == [j \in Jobs |-> IF j \in rejected
                                          THEN Released(jb[j], "failed")
                                          ELSE jb[j]]
          IN  \/ /\ valid = {}
                 /\ job' = jr /\ attempt' = ab /\ circuit' = cb
                 /\ UNCHANGED <<lease, phase>>
              \/ \E j \in valid :
                  LET n == jb[j].total + 1
                      p == PlatformOf[j]
                  IN  /\ \A k \in valid : j <= k
                      /\ job' = [jr EXCEPT ![j] = Claimed(@)]
                      /\ attempt' = [ab EXCEPT ![j][n] = "running"]
                      /\ circuit' = IF cb[p].state = "open"
                                    THEN [cb EXCEPT ![p].state = "half_open",
                                                    ![p].probe = <<j, n>>]
                                    ELSE cb
                      /\ lease' = [lease EXCEPT ![s] = <<j, n>>]
                      /\ phase' = [phase EXCEPT ![s] = "run"]
    BY DEF ClaimNext
  <1>2. /\ w \in Workers /\ phase[s] = "idle"
        /\ scanned' = scanned \ {w}
        /\ UNCHANGED <<pending, paused, orphaned, latched, stopping, cleaning>>
    BY QueueAssumption DEF ClaimNext
  <1>3. lost \in SUBSET ActiveJobs(job)
    BY DEF Expired, ActiveJobs
  <1>4. eligible \subseteq Jobs /\ \A j \in eligible :
          /\ j \notin Excluded(w) /\ jb[j].status = "queued"
          /\ pending[j] = {} /\ jb[j].used < MAX_ATTEMPTS
    BY DEF Eligible
  <1>5. cb \in [Platforms -> CircuitRecord]
    BY CircuitsType
  <1> HIDE DEF lost
  <1>6. /\ \A j \in Jobs : RowStep(job[j], attempt[j], pending[j], jb[j], ab[j], pending[j])
        /\ jb \in [Jobs -> JobRecord] /\ ab \in [Jobs -> AttemptRow]
    BY <1>3, LostRows
  <1> HIDE DEF jb, ab, cb, eligible
  <1> DEFINE valid    == eligible \ invalid
             rejected == {j \in invalid : \A k \in valid : j < k}
             jr       == [j \in Jobs |-> IF j \in rejected
                                         THEN Released(jb[j], "failed") ELSE jb[j]]
  <1>7. rejected \subseteq eligible
    OBVIOUS
  <1> HIDE DEF rejected
  <1>8. \A j \in Jobs : RowSound(jb[j], ab[j], pending[j])
    BY <1>6 DEF RowStep
  <1>9. /\ \A j \in Jobs : RowStep(job[j], attempt[j], pending[j], jr[j], ab[j], pending[j])
        /\ \A j \in Jobs \ rejected : jr[j] = jb[j]
    <2>1. ASSUME NEW j \in rejected
          PROVE  RowStep(job[j], attempt[j], pending[j], jr[j], ab[j], pending[j])
      <3> DEFINE r == jb[j]
                 f == Released(r, "failed")
      <3>1. /\ j \in Jobs /\ r.status = "queued" /\ RowSound(r, ab[j], pending[j])
            /\ r \in JobRecord
        BY <1>4, <1>6, <1>7, <1>8
      <3>2. ~Active(r)
        BY <3>1, StatusType DEF Active
      <3>3. /\ f \in JobRecord /\ f.status = "failed" /\ f.token = 0 /\ f.total = r.total
            /\ f.gen = r.gen /\ f.used = r.used
        <4> HIDE DEF r, f
        <4> DEFINE st == "failed"
                   d == TRUE
                   g == [Released(r, st) EXCEPT !.due = d]
        <4>1. st \in {"queued", "ready", "failed", "canceled"} /\ d \in BOOLEAN
          OBVIOUS
        <4>2. g = f
          BY <3>1, SameDue DEF f
        <4> HIDE DEF st, d
        <4>3. /\ g \in JobRecord /\ g.status = st /\ g.token = 0 /\ g.total = r.total
              /\ g.gen = r.gen /\ g.used = r.used
          BY <3>1, <4>1, ReleasedType
        <4> QED BY <4>2, <4>3 DEF st
      <3>4. jr[j] = f
        BY <3>1
      <3> HIDE DEF f, r
      <3>5. r.total <= (r.gen - 1) * MAX_ATTEMPTS + r.used
        BY <3>1 DEF RowSound
      <3>6. f.total <= (f.gen - 1) * MAX_ATTEMPTS + f.used
        BY <3>3, <3>5
      <3>7. RowStep(r, ab[j], pending[j], f, ab[j], pending[j])
        BY <3>1, <3>2, <3>3, <3>6, IdleRow, StatusType
      <3>8. RowSound(f, ab[j], pending[j])
        BY <3>7 DEF RowStep
      <3>9. RowStep(job[j], attempt[j], pending[j], r, ab[j], pending[j])
        BY <1>6, <3>1 DEF r
      <3> QED BY <3>1, <3>4, <3>8, <3>9, ThenRow
    <2> QED BY <1>6, <2>1
  <1>10. jr \in [Jobs -> JobRecord]
    <2>1. \A j \in Jobs : jr[j] \in JobRecord
      BY <1>9 DEF RowStep, RowSound
    <2> QED BY <2>1
  <1>11. CASE job' = jr /\ attempt' = ab /\ circuit' = cb /\ UNCHANGED <<lease, phase>>
    <2> HIDE DEF jr
    <2>1. TablesStep
      BY <1>2, <1>6, <1>9, <1>10, <1>11 DEF TablesStep, RowsStep, IInv, TypeOK
    <2>2. Shapes' /\ SlotsDisjoint'
      BY <1>2, <1>5, <1>11 DEF IInv, TypeOK, Shapes, SlotsDisjoint
    <2> QED BY <2>1, <2>2, StepIInv
  <1>12. ASSUME NEW j \in valid,
                \A k \in valid : j <= k,
                job' = [jr EXCEPT ![j] = Claimed(@)],
                attempt' = [ab EXCEPT ![j][jb[j].total + 1] = "running"],
                circuit' = IF cb[PlatformOf[j]].state = "open"
                           THEN [cb EXCEPT ![PlatformOf[j]].state = "half_open",
                                           ![PlatformOf[j]].probe = <<j, jb[j].total + 1>>]
                           ELSE cb,
                lease' = [lease EXCEPT ![s] = <<j, jb[j].total + 1>>],
                phase' = [phase EXCEPT ![s] = "run"]
         PROVE  IInv' /\ RowsStep
    <2> DEFINE r == jb[j]
               n == r.total + 1
               q == PlatformOf[j]
               b == [ab[j] EXCEPT ![n] = "running"]
    <2>1. /\ j \in Jobs /\ j \notin Excluded(w) /\ r.status = "queued"
          /\ pending[j] = {} /\ r.used < MAX_ATTEMPTS /\ j \notin rejected
      <3>1. j \in eligible /\ j \notin invalid
        OBVIOUS
      <3>2. j \notin rejected
        BY <3>1 DEF rejected
      <3> QED BY <1>4, <3>1, <3>2
    <2>2. jr[j] = r
      BY <1>9, <2>1
    <2>3. n \in AttemptNos /\ RowStep(r, ab[j], {}, Claimed(r), b, {})
      BY <1>8, <2>1, ClaimRow
    <2>4. RowStep(job[j], attempt[j], pending[j], Claimed(r), b, pending[j])
      <3>1. RowSound(Claimed(r), b, pending[j])
        BY <2>1, <2>3 DEF RowStep
      <3> QED BY <1>6, <2>1, <3>1, ThenRow
    <2> HIDE DEF jr, b, r, n
    <2>5. job' = [jr EXCEPT ![j] = Claimed(r)] /\ attempt' = [ab EXCEPT ![j] = b]
      BY <1>6, <1>12, <2>1, <2>2 DEF b, n, r
    <2>6. Claimed(r) \in JobRecord /\ b \in AttemptRow
      BY <2>4 DEF RowStep, RowSound
    <2>7. TablesStep
      <3>1. /\ job'[j] = Claimed(r) /\ attempt'[j] = b
            /\ \A i \in Jobs \ {j} : job'[i] = jr[i] /\ attempt'[i] = ab[i]
        BY <1>6, <1>10, <2>1, <2>5
      <3>2. RowsStep
        BY <1>2, <1>9, <2>4, <3>1 DEF RowsStep
      <3>3. job' \in [Jobs -> JobRecord] /\ attempt' \in [Jobs -> AttemptRow]
        BY <1>6, <1>10, <2>5, <2>6
      <3> QED BY <1>2, <3>2, <3>3 DEF TablesStep, IInv, TypeOK
    <2>8. <<j, n>> \in Leases
      BY <2>1, <2>3 DEF Leases
    <2>9. circuit' \in [Platforms -> CircuitRecord]
      <3> DEFINE x == "half_open"
                 l == <<j, n>>
                 e == [cb[q] EXCEPT !.state = x, !.probe = l]
      <3>1. q \in Platforms
        BY <2>1, QueueAssumption
      <3>2. circuit' = cb \/ circuit' = [cb EXCEPT ![q] = e]
        <4>1. [cb EXCEPT ![q].state = x, ![q].probe = l] = [cb EXCEPT ![q] = e]
          BY <1>5, <3>1
        <4> QED BY <1>12, <4>1 DEF n, r
      <3>3. x \in {"closed", "open", "half_open"} /\ l \in Leases
        BY <2>8
      <3>4. cb[q] \in CircuitRecord
        BY <1>5, <3>1
      <3> HIDE DEF x, l, q
      <3>5. e \in CircuitRecord
        BY <3>3, <3>4 DEF CircuitRecord
      <3> HIDE DEF e
      <3> QED BY <1>5, <3>1, <3>2, <3>5
    <2>10. lease' = [lease EXCEPT ![s] = <<j, n>>]
      BY <1>12 DEF n, r
    <2>11. Shapes'
      BY <1>2, <1>12, <2>8, <2>9, <2>10 DEF IInv, TypeOK, Shapes, Phases
    <2>12. SlotsDisjoint'
      <3>1. /\ lease'[s] = <<j, n>>
            /\ \A t \in Slots \ {s} : lease'[t] = lease[t] /\ phase'[t] = phase[t]
        BY <1>12, <2>10 DEF IInv, TypeOK
      <3>2. \A t \in Slots : WorkerOf[t] = w => lease[t][1] # j
        BY <2>1 DEF Excluded, WorkerSlots
      <3>3. lease'[s][1] = j
        BY <3>1
      <3> QED BY <3>1, <3>2, <3>3 DEF IInv, SlotsDisjoint
    <2> QED BY <2>7, <2>11, <2>12, StepIInv
  <1>13. \/ job' = jr /\ attempt' = ab /\ circuit' = cb /\ UNCHANGED <<lease, phase>>
         \/ \E j \in valid :
              /\ \A k \in valid : j <= k
              /\ job' = [jr EXCEPT ![j] = Claimed(@)]
              /\ attempt' = [ab EXCEPT ![j][jb[j].total + 1] = "running"]
              /\ circuit' = IF cb[PlatformOf[j]].state = "open"
                            THEN [cb EXCEPT ![PlatformOf[j]].state = "half_open",
                                            ![PlatformOf[j]].probe = <<j, jb[j].total + 1>>]
                            ELSE cb
              /\ lease' = [lease EXCEPT ![s] = <<j, jb[j].total + 1>>]
              /\ phase' = [phase EXCEPT ![s] = "run"]
    BY <1>1, Zenon DEF rejected
  <1> HIDE DEF jr, valid
  <1> QED BY <1>11, <1>12, <1>13

-----------------------------------------------------------------------------
(***************************************************************************)
(* Time and the API                                                        *)
(***************************************************************************)
\* One row of download_jobs is edited, and nothing else.
LEMMA EditStep ==
  ASSUME IInv, NEW j \in Jobs, NEW f, job' = [job EXCEPT ![j] = f],
         UNCHANGED <<attempt, pending, circuit, paused, orphaned, workerVars, slotVars>>,
         RowStep(job[j], attempt[j], pending[j], f, attempt[j], pending[j])
  PROVE  IInv' /\ RowsStep
  <1>1. f \in JobRecord
    BY DEF RowStep, RowSound
  <1>2. /\ job \in [Jobs -> JobRecord] /\ attempt \in [Jobs -> AttemptRow]
        /\ pending \in [Jobs -> SUBSET AttemptNos]
    BY DEF IInv, TypeOK, AttemptRow
  <1>3. /\ job' \in [Jobs -> JobRecord] /\ job'[j] = f
        /\ \A i \in Jobs \ {j} : job'[i] = job[i]
    BY <1>1, <1>2
  <1>4. \A i \in Jobs : RowSound(job[i], attempt[i], pending[i])
    BY DEF IInv, RowsSound
  <1>5. RowsStep
    BY <1>3, <1>4, SameRow DEF RowsStep
  <1>6. TablesStep
    BY <1>2, <1>3, <1>5 DEF TablesStep
  <1> QED BY <1>6, StepIInv
          DEF IInv, TypeOK, Shapes, SlotsDisjoint, workerVars, slotVars

LEMMA ClockStep ==
  ASSUME IInv, NEW j \in Jobs, Lapse(j) \/ BecomeDue(j)
  PROVE  IInv' /\ RowsStep
  <1> DEFINE r == job[j]
  <1>1. RowSound(r, attempt[j], pending[j]) /\ r \in JobRecord
    BY DEF IInv, RowsSound, TypeOK
  <1>2. UNCHANGED <<attempt, pending, circuit, paused, orphaned, workerVars, slotVars>>
    BY DEF Lapse, BecomeDue
  <1>3. CASE Lapse(j)
    <2> DEFINE l == FALSE
               f == [r EXCEPT !.live = l]
    <2>1. job' = [job EXCEPT ![j] = f]
      BY <1>3 DEF Lapse, IInv, TypeOK
    <2>2. l \in BOOLEAN
      OBVIOUS
    <2> HIDE DEF l, r
    <2>3. /\ f \in JobRecord /\ f.status = r.status /\ f.token = r.token
          /\ f.total = r.total /\ f.gen = r.gen /\ f.used = r.used /\ f.cancel = r.cancel
      BY <1>1, <2>2 DEF JobRecord
    <2> HIDE DEF f
    <2>4. RowStep(r, attempt[j], pending[j], f, attempt[j], pending[j])
      BY <1>1, <2>3, BusyRow DEF Active
    <2> QED BY <1>2, <2>1, <2>4, EditStep DEF r
  <1>4. CASE BecomeDue(j)
    <2> DEFINE d == TRUE
               f == [r EXCEPT !.due = d]
    <2>1. job' = [job EXCEPT ![j] = f]
      BY <1>4 DEF BecomeDue, IInv, TypeOK
    <2>2. d \in BOOLEAN
      OBVIOUS
    <2> HIDE DEF d, r
    <2>3. /\ f \in JobRecord /\ f.status = r.status /\ f.token = r.token
          /\ f.total = r.total /\ f.gen = r.gen /\ f.used = r.used /\ f.cancel = r.cancel
      BY <1>1, <2>2 DEF JobRecord
    <2> HIDE DEF f
    <2>4. RowStep(r, attempt[j], pending[j], f, attempt[j], pending[j])
      BY <1>1, <2>3, BusyRow DEF Active
    <2> QED BY <1>2, <2>1, <2>4, EditStep DEF r
  <1> QED BY <1>3, <1>4

LEMMA RequestCancelStep ==
  ASSUME IInv, NEW j \in Jobs, RequestCancel(j)
  PROVE  IInv' /\ RowsStep
  <1> DEFINE r == job[j]
             c == TRUE
  <1>1. RowSound(r, attempt[j], pending[j]) /\ r \in JobRecord /\ c \in BOOLEAN
    BY DEF IInv, RowsSound, TypeOK
  <1>2. UNCHANGED <<attempt, pending, circuit, paused, orphaned, workerVars, slotVars>>
    BY DEF RequestCancel
  <1>3. CASE /\ r.status = "queued"
             /\ job' = [job EXCEPT ![j].status = "canceled", ![j].cancel = c, ![j].due = c]
    <2> DEFINE st == "canceled"
               f  == [r EXCEPT !.status = st, !.cancel = c, !.due = c]
    <2>1. job' = [job EXCEPT ![j] = f]
      BY <1>3 DEF IInv, TypeOK
    <2>2. st \in JobStatus /\ st \notin ACTIVE_STATUSES /\ ~Active(r)
      BY <1>3, StatusType DEF Active
    <2> HIDE DEF st, c, r
    <2>3. /\ f \in JobRecord /\ f.status = st /\ f.token = r.token
          /\ f.total = r.total /\ f.gen = r.gen /\ f.used = r.used
      BY <1>1, <2>2 DEF JobRecord
    <2> HIDE DEF f
    <2>4. r.token = 0 /\ r.total <= (r.gen - 1) * MAX_ATTEMPTS + r.used
      BY <1>1, <2>2 DEF RowSound
    <2>5. RowStep(r, attempt[j], pending[j], f, attempt[j], pending[j])
      BY <1>1, <2>2, <2>3, <2>4, IdleRow
    <2> QED BY <1>2, <2>1, <2>5, EditStep DEF r
  <1>4. CASE Active(r) /\ job' = [job EXCEPT ![j].cancel = c]
    <2> DEFINE f == [r EXCEPT !.cancel = c]
    <2>1. job' = [job EXCEPT ![j] = f]
      BY <1>4 DEF IInv, TypeOK
    <2> HIDE DEF r
    <2>2. f.cancel
      BY <1>1 DEF JobRecord
    <2> HIDE DEF c
    <2>3. /\ f \in JobRecord /\ f.status = r.status /\ f.token = r.token
          /\ f.total = r.total /\ f.gen = r.gen /\ f.used = r.used
      BY <1>1 DEF JobRecord
    <2> HIDE DEF f
    <2>4. RowStep(r, attempt[j], pending[j], f, attempt[j], pending[j])
      BY <1>1, <2>2, <2>3, BusyRow DEF Active
    <2> QED BY <1>2, <2>1, <2>4, EditStep DEF r
  <1> QED BY <1>3, <1>4 DEF RequestCancel

\* A manual retry opens a generation with room for MAX_ATTEMPTS more numbers.
LEMMA RequestRetryStep ==
  ASSUME IInv, NEW j \in Jobs, RequestRetry(j)
  PROVE  IInv' /\ RowsStep
  <1> DEFINE r  == job[j]
             st == "queued"
             c  == FALSE
             d  == TRUE
             g  == r.gen + 1
             u  == 0
             f  == [r EXCEPT !.status = st, !.cancel = c, !.due = d, !.gen = g, !.used = u]
  <1>1. /\ RowSound(r, attempt[j], pending[j]) /\ r \in JobRecord
        /\ r.gen \in 1..MaxGeneration /\ r.used \in 0..MAX_ATTEMPTS /\ r.total \in Nat
    BY DEF IInv, RowsSound, TypeOK, JobRecord
  <1>2. UNCHANGED <<attempt, pending, circuit, paused, orphaned, workerVars, slotVars>>
    BY DEF RequestRetry
  <1>3. job' = [job EXCEPT ![j] = f]
    BY DEF RequestRetry, IInv, TypeOK
  <1>4. r.status = "failed" /\ r.gen < MaxGeneration
    BY DEF RequestRetry
  <1>5. ~Active(r) /\ st \in JobStatus /\ st \notin ACTIVE_STATUSES
    BY <1>4, StatusType DEF Active
  <1>6. c \in BOOLEAN /\ d \in BOOLEAN /\ g \in 1..MaxGeneration /\ u \in 0..MAX_ATTEMPTS
    BY <1>1, <1>4, Bounds
  <1> HIDE DEF r
  <1>7. r.token = 0 /\ r.total <= (r.gen - 1) * MAX_ATTEMPTS + r.used
    BY <1>1, <1>5 DEF RowSound
  <1>8. r.total <= (g - 1) * MAX_ATTEMPTS + u
    <2> DEFINE M == MAX_ATTEMPTS
               x == r.gen - 1
    <2>1. x \in Int /\ M \in Int /\ g - 1 = x + 1
      BY <1>1, Bounds
    <2>2. (x + 1) * M = x * M + M /\ x * M \in Int
      BY <2>1
    <2>3. r.total <= (x + 1) * M
      BY <1>1, <1>7, <2>1, <2>2
    <2> QED BY <2>1, <2>2, <2>3
  <1> HIDE DEF st, c, d, g, u
  <1>9. /\ f \in JobRecord /\ f.status = st /\ f.token = r.token
        /\ f.total = r.total /\ f.gen = g /\ f.used = u
    BY <1>1, <1>5, <1>6 DEF JobRecord
  <1> HIDE DEF f
  <1>10. RowStep(r, attempt[j], pending[j], f, attempt[j], pending[j])
    BY <1>1, <1>5, <1>7, <1>8, <1>9, IdleRow
  <1> QED BY <1>2, <1>3, <1>10, EditStep DEF r

\* Circuits, recovery claims and the pause are nobody's lease.
LEMMA ControlStep ==
  ASSUME IInv,
         ExpireClaims \/ ResumeQueue \/ \E p \in Platforms : CoolDown(p) \/ ResetCircuit(p)
  PROVE  IInv' /\ RowsStep
  <1>1. /\ UNCHANGED <<job, attempt, pending, workerVars, slotVars>>
        /\ paused' \in BOOLEAN /\ orphaned' \subseteq orphaned
    BY DEF ExpireClaims, ResumeQueue, CoolDown, ResetCircuit, IInv, TypeOK
  <1>2. circuit' \in [Platforms -> CircuitRecord]
    <2>1. circuit \in [Platforms -> CircuitRecord]
      BY DEF IInv, TypeOK
    <2>2. ASSUME NEW p \in Platforms, CoolDown(p)
          PROVE  circuit' \in [Platforms -> CircuitRecord]
      <3> DEFINE c == TRUE
                 e == [circuit[p] EXCEPT !.cooled = c]
      <3>1. circuit' = [circuit EXCEPT ![p] = e] /\ c \in BOOLEAN
        BY <2>1, <2>2 DEF CoolDown
      <3> HIDE DEF c
      <3>2. e \in CircuitRecord
        BY <2>1, <3>1 DEF CircuitRecord
      <3> HIDE DEF e
      <3> QED BY <2>1, <3>1, <3>2
    <2>3. ASSUME NEW p \in Platforms, ResetCircuit(p)
          PROVE  circuit' \in [Platforms -> CircuitRecord]
      BY <2>1, <2>3, ClosedType DEF ResetCircuit
    <2>4. ASSUME ExpireClaims \/ ResumeQueue
          PROVE  circuit' = circuit
      BY <2>4 DEF ExpireClaims, ResumeQueue
    <2> QED BY <2>1, <2>2, <2>3, <2>4
  <1>3. Shapes' /\ SlotsDisjoint'
    BY <1>1, <1>2 DEF IInv, TypeOK, Shapes, SlotsDisjoint, workerVars, slotVars
  <1> QED BY <1>1, <1>3, StillStep

-----------------------------------------------------------------------------
LEMMA NextStep ==
  ASSUME IInv, [Next]_vars
  PROVE  IInv' /\ RowsStep
  <1>1. CASE UNCHANGED vars
    BY <1>1, StillStep DEF vars, dbVars, workerVars, slotVars, IInv, TypeOK, Shapes, SlotsDisjoint
  <1>2. CASE Next
    <2>1. ASSUME NEW w \in Workers, FenceIntents(w) \/ RecoveryFails(w) \/ Restart(w)
          PROVE  IInv' /\ RowsStep
      BY <2>1, FenceStep, RecoveryFailsStep, RestartStep
    <2>2. ASSUME NEW s \in Slots, ClaimNext(s) \/ Cleanup(s)
          PROVE  IInv' /\ RowsStep
      BY <2>2, ClaimStep, CleanupStep
    <2>3. ASSUME NEW j \in Jobs,
                 Lapse(j) \/ BecomeDue(j) \/ RequestCancel(j) \/ RequestRetry(j)
          PROVE  IInv' /\ RowsStep
      BY <2>3, ClockStep, RequestCancelStep, RequestRetryStep
    <2> QED BY <1>2, <2>1, <2>2, <2>3, CompleteIntentStep, SlotStepIInv, ControlStep DEF Next
  <1> QED BY <1>1, <1>2

\* In every reachable state each job, its attempts and its intents agree, the
\* numbers of the attempts fit the generations, and no two slots of a Worker
\* act for one job (worker_repository.py: every statement that writes them).
THEOREM QueueInvariance == Spec => []IInv
  <1>1. Init => IInv
    BY InitIInv
  <1>2. IInv /\ [Next]_vars => IInv'
    BY NextStep
  <1> QED BY <1>1, <1>2, PTL DEF Spec

\* Jobs, attempts, slots and intents agree on who executes what, and whose
\* files recovery may remove: whatever claims, fences, recoveries, finishes,
\* manual retries and restarts happen in whatever order.
THEOREM QueueSound == Spec => []LeasesSound
  <1>1. IInv => LeasesSound
    BY DEF IInv, RowsSound, RowSound, LeasesSound, LeaseMatchesAttempt, IntentsFenceClaims
  <1> QED BY <1>1, QueueInvariance, PTL

\* A recorded cancellation wins over every result, failure, retry and recovery
\* of the attempt that was running when it was requested.
THEOREM CancellationWins == Spec => CancelWins
  <1>1. IInv /\ [Next]_vars =>
          [\A j \in Jobs : Active(job[j]) /\ job[j].cancel =>
              \/ Active(job'[j]) /\ job'[j].cancel /\ job'[j].token = job[j].token
              \/ job'[j].status = "canceled"]_vars
    BY NextStep DEF RowsStep, RowStep, CancelKept
  <1> QED BY <1>1, QueueInvariance, PTL DEF Spec, CancelWins

-----------------------------------------------------------------------------
(***************************************************************************)
(* Circuits and the leases of their platform                               *)
(***************************************************************************)
\* The leases of the active jobs of platform p in the table jb
LeasesOf(jb, p) ==
    {l \in Jobs \X AttemptNos :
        PlatformOf[l[1]] = p /\ Active(jb[l[1]]) /\ jb[l[1]].token = l[2]}

Limit(c) == IF c.last = "rate_limited" THEN RateLimitThreshold ELSE BrokenThreshold

\* CircuitGuardsPlatform for the circuit c of a platform with the leases b
GuardSound(c, b) ==
    /\ c.state = "open" => b = {}
    /\ c.state = "half_open" => c.probe \in b
    /\ c.state # "half_open" => c.probe = NoLease
    /\ c.manual => c.state = "open"
    /\ \A l, m \in b : l = m
    /\ c.failures <= Limit(c)
    /\ c.failures = Limit(c) => c.manual

CircuitsGuard == \A p \in Platforms : GuardSound(circuit[p], LeasesOf(job, p))

LEMMA ClosedGuard == GuardSound(ClosedCircuit, {})
  BY QueueAssumption DEF GuardSound, ClosedCircuit, Limit

LEMMA ClosedGuardOne ==
  ASSUME NEW c \in CircuitRecord, NEW b, GuardSound(c, b), c.manual
  PROVE  GuardSound(ClosedCircuit, b)
  BY ClosedGuard DEF GuardSound

\* The end of the platform's only lease releases the probe.
LEMMA ReleaseGuard ==
  ASSUME NEW c \in CircuitRecord, NEW j, NEW n, GuardSound(c, {<<j, n>>})
  PROVE  GuardSound(ReleaseHalfOpen(c, j, n), {})
  <1> DEFINE x == "open"
             u == TRUE
             m == FALSE
             e == [c EXCEPT !.state = x, !.cooled = u, !.manual = m, !.probe = NoLease]
  <1>1. CASE c.state = "half_open"
    <2>1. ReleaseHalfOpen(c, j, n) = e
      BY <1>1 DEF ReleaseHalfOpen, GuardSound
    <2>2. ~c.manual
      BY <1>1 DEF GuardSound
    <2>3. x = "open" /\ m = FALSE
      OBVIOUS
    <2> HIDE DEF x, u, m
    <2>4. /\ e.state = x /\ e.probe = NoLease /\ e.manual = m
          /\ e.failures = c.failures /\ e.last = c.last
      BY DEF CircuitRecord
    <2> HIDE DEF e
    <2>5. GuardSound(e, {})
      BY <2>2, <2>3, <2>4 DEF GuardSound, Limit
    <2> QED BY <2>1, <2>5
  <1>2. CASE c.state # "half_open"
    BY <1>2 DEF ReleaseHalfOpen, GuardSound
  <1> QED BY <1>1, <1>2

\* The count of consecutive failures stops at its limit, because a circuit at
\* the limit is open and an open circuit has no lease that could fail.
LEMMA FailureGuard ==
  ASSUME NEW c \in CircuitRecord, NEW j, NEW n, NEW code, GuardSound(c, {<<j, n>>})
  PROVE  GuardSound(RecordPlatformFailure(c, j, n, code), {})
  <1> DEFINE isProbe  == c.state = "half_open" /\ c.probe = <<j, n>>
             failures == 1 + (IF c.last = code THEN c.failures ELSE 0)
             broken   == isProbe \/ ThresholdReached(failures, BrokenThreshold)
             limited  == code = "rate_limited"
             x == IF limited \/ broken THEN "open" ELSE "closed"
             m == IF limited THEN ThresholdReached(failures, RateLimitThreshold) ELSE broken
             u == FALSE
             e == [state |-> x, failures |-> failures, last |-> code, cooled |-> u,
                   manual |-> m, probe |-> NoLease]
  <1>1. CASE code \notin TrackedErrors
    BY <1>1, ReleaseGuard DEF RecordPlatformFailure
  <1>2. CASE code \in TrackedErrors
    <2>1. RecordPlatformFailure(c, j, n, code) = e
      BY <1>2 DEF RecordPlatformFailure
    <2> DEFINE k == IF limited THEN RateLimitThreshold ELSE BrokenThreshold
    <2>2. k \in Nat \ {0}
      BY QueueAssumption
    <2>3. failures \in Nat /\ failures <= k
      <3>1. c.failures \in Nat /\ c.state # "open" /\ ~c.manual
        BY DEF GuardSound, CircuitRecord
      <3>2. CASE c.last = code
        <4>1. k = Limit(c)
          BY <3>2 DEF Limit
        <4>2. c.failures <= k /\ c.failures # k
          BY <3>1, <4>1 DEF GuardSound
        <4> HIDE DEF k
        <4> QED BY <2>2, <3>1, <3>2, <4>2
      <3>3. CASE c.last # code
        BY <2>2, <3>3
      <3> QED BY <3>2, <3>3
    <2>4. failures = k => m
      BY <2>2, <2>3 DEF ThresholdReached
    <2>5. (m => x = "open") /\ x # "half_open"
      OBVIOUS
    <2> HIDE DEF x, m, failures, u, k
    <2>6. /\ e.state = x /\ e.failures = failures /\ e.last = code /\ e.manual = m
          /\ e.probe = NoLease
      OBVIOUS
    <2> HIDE DEF e
    <2>7. Limit(e) = k
      BY <2>6 DEF Limit, k
    <2>8. GuardSound(e, {})
      BY <2>3, <2>4, <2>5, <2>6, <2>7 DEF GuardSound
    <2> QED BY <2>1, <2>8
  <1> QED BY <1>1, <1>2

\* A circuit that admits a claim is closed, or open and becomes that claim's
\* half-open one.
LEMMA AdmitGuard ==
  ASSUME NEW c \in CircuitRecord, GuardSound(c, {}), Admits(c), NEW l
  PROVE  LET d == [c EXCEPT !.state = "half_open", !.probe = l]
         IN  GuardSound(IF c.state = "open" THEN d ELSE c, {l})
  <1> DEFINE x == "half_open"
             d == [c EXCEPT !.state = x, !.probe = l]
  <1>1. CASE c.state = "open"
    <2>1. ~c.manual
      BY <1>1 DEF Admits
    <2>2. x = "half_open"
      OBVIOUS
    <2> HIDE DEF x
    <2>3. /\ d.state = x /\ d.probe = l /\ d.manual = c.manual
          /\ d.failures = c.failures /\ d.last = c.last
      BY DEF CircuitRecord
    <2> HIDE DEF d
    <2>4. GuardSound(d, {l})
      BY <2>1, <2>2, <2>3 DEF GuardSound, Limit
    <2> QED BY <1>1, <2>4 DEF d, x
  <1>2. CASE c.state # "open"
    BY <1>2 DEF Admits, GuardSound
  <1> QED BY <1>1, <1>2

LEMMA CoolGuard ==
  ASSUME NEW c \in CircuitRecord, NEW b, GuardSound(c, b), NEW u \in BOOLEAN
  PROVE  GuardSound([c EXCEPT !.cooled = u], b)
  <1> DEFINE e == [c EXCEPT !.cooled = u]
  <1>1. /\ e.state = c.state /\ e.failures = c.failures /\ e.last = c.last
        /\ e.manual = c.manual /\ e.probe = c.probe
    BY DEF CircuitRecord
  <1> HIDE DEF e
  <1>2. GuardSound(e, b)
    BY <1>1 DEF GuardSound, Limit
  <1> QED BY <1>2 DEF e

LEMMA SameLeases ==
  ASSUME NEW f, NEW g,
         \A j \in Jobs : /\ Active(f[j]) <=> Active(g[j])
                         /\ Active(f[j]) => f[j].token = g[j].token
  PROVE  \A p : LeasesOf(g, p) = LeasesOf(f, p)
  BY DEF LeasesOf

LEMMA EndedLeases ==
  ASSUME NEW f, NEW g, NEW lost \in SUBSET Jobs, \A j \in lost : ~Active(g[j]),
         \A j \in Jobs \ lost : g[j] = f[j]
  PROVE  \A p : LeasesOf(g, p) = {l \in LeasesOf(f, p) : l[1] \notin lost}
  BY DEF LeasesOf

\* An active job has the only lease of its platform.
LEMMA OwnLease ==
  ASSUME IInv, CircuitsGuard, NEW j \in Jobs, Active(job[j])
  PROVE  LeasesOf(job, PlatformOf[j]) = {<<j, job[j].token>>}
  <1>1. job[j].token \in AttemptNos
    BY DEF IInv, RowsSound, RowSound, JobRecord
  <1>2. <<j, job[j].token>> \in LeasesOf(job, PlatformOf[j])
    BY <1>1 DEF LeasesOf
  <1>3. PlatformOf[j] \in Platforms
    BY QueueAssumption
  <1> QED BY <1>2, <1>3 DEF CircuitsGuard, GuardSound

\* A half-open circuit belongs to a lease of its own platform.
LEMMA ProbeOwner ==
  ASSUME IInv, CircuitsGuard, NEW p \in Platforms, NEW j \in Jobs, NEW n \in AttemptNos,
         circuit[p].probe = <<j, n>>
  PROVE  circuit[p].state = "half_open" /\ PlatformOf[j] = p
  <1>1. circuit[p].probe # NoLease
    BY QueueAssumption DEF NoLease
  <1> QED BY <1>1 DEF CircuitsGuard, GuardSound, LeasesOf

LEMMA QuietGuard ==
  ASSUME IInv, CircuitsGuard, UNCHANGED circuit,
         \A j \in Jobs : /\ Active(job[j]) <=> Active(job'[j])
                         /\ Active(job[j]) => job[j].token = job'[j].token
  PROVE  CircuitsGuard'
  <1>1. \A p : LeasesOf(job', p) = LeasesOf(job, p)
    BY SameLeases
  <1> QED BY <1>1 DEF CircuitsGuard

LEMMA EndGuard ==
  ASSUME IInv, CircuitsGuard, NEW j \in Jobs, NEW n \in AttemptNos, Holds(j, n),
         ~Active(job'[j]), \A i \in Jobs \ {j} : job'[i] = job[i],
         \A p \in Platforms \ {PlatformOf[j]} : circuit'[p] = circuit[p],
         \/ circuit'[PlatformOf[j]] = ClosedCircuit
         \/ circuit'[PlatformOf[j]] = ReleaseHalfOpen(circuit[PlatformOf[j]], j, n)
         \/ \E code : circuit'[PlatformOf[j]] =
                        RecordPlatformFailure(circuit[PlatformOf[j]], j, n, code)
  PROVE  CircuitsGuard'
  <1> DEFINE q == PlatformOf[j]
  <1>1. q \in Platforms /\ Active(job[j]) /\ job[j].token = n
    BY QueueAssumption DEF Holds
  <1>2. LeasesOf(job, q) = {<<j, n>>}
    BY <1>1, OwnLease
  <1>3. \A p : LeasesOf(job', p) = {l \in LeasesOf(job, p) : l[1] # j}
    BY EndedLeases DEF LeasesOf
  <1>4. LeasesOf(job', q) = {}
    BY <1>2, <1>3
  <1>5. circuit[q] \in CircuitRecord /\ GuardSound(circuit[q], {<<j, n>>})
    BY <1>1, <1>2 DEF IInv, TypeOK, CircuitsGuard
  <1>6. GuardSound(circuit'[q], {})
    BY <1>5, ClosedGuard, ReleaseGuard, FailureGuard
  <1>7. ASSUME NEW p \in Platforms \ {q}
        PROVE  GuardSound(circuit'[p], LeasesOf(job', p))
    <2>1. LeasesOf(job', p) = LeasesOf(job, p)
      BY <1>3, <1>7 DEF LeasesOf
    <2> QED BY <1>7, <2>1 DEF CircuitsGuard
  <1> QED BY <1>4, <1>6, <1>7 DEF CircuitsGuard

LEMMA CancelGuard ==
  ASSUME IInv, CircuitsGuard, NEW j \in Jobs, NEW n \in AttemptNos, Holds(j, n),
         CancelAttempt(j, n)
  PROVE  CircuitsGuard'
  <1>1. circuit' = [p \in Platforms |-> ReleaseHalfOpen(circuit[p], j, n)]
    BY DEF CancelAttempt
  <1>2. \A p \in Platforms \ {PlatformOf[j]} : circuit'[p] = circuit[p]
    BY <1>1, ProbeOwner DEF ReleaseHalfOpen
  <1>3. PlatformOf[j] \in Platforms
    BY QueueAssumption
  <1>4. job' = [job EXCEPT ![j] = Released(job[j], "canceled")]
    BY DEF CancelAttempt
  <1>5. job \in [Jobs -> JobRecord]
    BY DEF IInv, TypeOK
  <1>6. ~Active(job'[j])
    <2> DEFINE st == "canceled"
               d  == TRUE
    <2>1. [Released(job[j], st) EXCEPT !.due = d] = job'[j]
      <3>1. job[j] \in JobRecord /\ job'[j] = Released(job[j], st)
        BY <1>4, <1>5
      <3> HIDE DEF st
      <3> QED BY <3>1, SameDue
    <2>2. st \in {"queued", "ready", "failed", "canceled"} /\ d \in BOOLEAN
      OBVIOUS
    <2> HIDE DEF st, d
    <2>3. job'[j].status = st
      <3> DEFINE r == job[j]
                 g == [Released(r, st) EXCEPT !.due = d]
      <3>1. r \in JobRecord /\ job'[j] = g
        BY <1>5, <2>1
      <3> HIDE DEF r
      <3>2. g.status = st
        BY <2>2, <3>1, ReleasedType
      <3> QED BY <3>1, <3>2
    <2> QED BY <2>2, <2>3, StatusType DEF Active
  <1>7. \A i \in Jobs \ {j} : job'[i] = job[i]
    BY <1>4, <1>5
  <1> QED BY <1>1, <1>2, <1>3, <1>6, <1>7, EndGuard

LEMMA ReleasedIdle ==
  ASSUME NEW r \in JobRecord, NEW st \in {"queued", "ready", "failed", "canceled"},
         NEW d \in BOOLEAN
  PROVE  ~Active([Released(r, st) EXCEPT !.due = d]) /\ ~Active(Released(r, st))
  <1>1. st \in {"queued", "ready", "failed", "canceled"} /\ st \notin ACTIVE_STATUSES
    BY StatusType
  <1>2. ASSUME NEW u, u \in BOOLEAN
        PROVE  ~Active([Released(r, st) EXCEPT !.due = u])
    <2> DEFINE g == [Released(r, st) EXCEPT !.due = u]
    <2>1. g \in JobRecord /\ g.status = st
      BY <1>1, <1>2, ReleasedType
    <2> HIDE DEF g
    <2> QED BY <1>1, <2>1 DEF Active, g
  <1>3. [Released(r, st) EXCEPT !.due = TRUE] = Released(r, st)
    BY SameDue
  <1> DEFINE u == TRUE
  <1>4. u \in BOOLEAN
    OBVIOUS
  <1> HIDE DEF u
  <1>5. ~Active([Released(r, st) EXCEPT !.due = u])
    BY <1>2, <1>4
  <1> QED BY <1>2, <1>3, <1>5 DEF u

\* Recovery leaves circuits and leases in agreement.
LEMMA LostGuard ==
  ASSUME IInv, CircuitsGuard, NEW lost \in SUBSET ActiveJobs(job), NEW p \in Platforms
  PROVE  GuardSound(CircuitsWithout(lost)[p], LeasesOf(JobsWithout(lost), p))
  <1> DEFINE jb == JobsWithout(lost)
             c  == circuit[p]
  <1> SUFFICES GuardSound(CircuitsWithout(lost)[p], LeasesOf(jb, p))
    OBVIOUS
  <1>1. lost \in SUBSET Jobs /\ \A j \in lost : Active(job[j]) /\ job[j].token \in AttemptNos
    BY DEF ActiveJobs, IInv, RowsSound, RowSound, JobRecord
  <1>2. \A j \in lost : ~Active(jb[j])
    <2> SUFFICES ASSUME NEW j \in lost PROVE ~Active(jb[j])
      OBVIOUS
    <2> DEFINE r == job[j]
               st == LostStatus(r)
    <2>1. r \in JobRecord /\ jb[j] = Released(r, st)
      BY <1>1 DEF JobsWithout, IInv, TypeOK
    <2>2. st \in {"queued", "ready", "failed", "canceled"}
      BY DEF LostStatus
    <2> HIDE DEF r, st, jb
    <2> QED BY <2>1, <2>2, ReleasedIdle
  <1>3. \A j \in Jobs \ lost : jb[j] = job[j]
    BY DEF JobsWithout
  <1> HIDE DEF jb
  <1>4. LeasesOf(jb, p) = {l \in LeasesOf(job, p) : l[1] \notin lost}
    BY <1>1, <1>2, <1>3 DEF LeasesOf
  <1>5. c \in CircuitRecord /\ c.probe \in Leases /\ GuardSound(c, LeasesOf(job, p))
    BY DEF IInv, TypeOK, CircuitRecord, CircuitsGuard
  <1>6. CASE \E j \in lost : PlatformOf[j] = p
    <2>1. PICK j \in lost : PlatformOf[j] = p
      BY <1>6
    <2> DEFINE n == job[j].token
    <2>2. j \in Jobs /\ Active(job[j]) /\ n \in AttemptNos
      BY <1>1
    <2>3. LeasesOf(job, p) = {<<j, n>>}
      BY <2>1, <2>2, OwnLease
    <2>4. LeasesOf(jb, p) = {}
      BY <1>4, <2>3
    <2>5. GuardSound(ReleaseHalfOpen(c, j, n), {})
      BY <1>5, <2>3, ReleaseGuard
    <2>6. CASE c.state = "half_open"
      <3>1. c.probe = <<j, n>>
        BY <1>5, <2>3, <2>6 DEF GuardSound
      <3>2. CircuitsWithout(lost)[p] = ReleaseHalfOpen(c, j, n)
        BY <2>1, <3>1 DEF CircuitsWithout
      <3> QED BY <2>4, <2>5, <3>2
    <2>7. CASE c.state # "half_open"
      <3>1. \A i, m : ReleaseHalfOpen(c, i, m) = c
        BY <2>7 DEF ReleaseHalfOpen
      <3>2. CircuitsWithout(lost)[p] = c
        BY <3>1 DEF CircuitsWithout
      <3> QED BY <2>4, <2>5, <3>1, <3>2
    <2> QED BY <2>6, <2>7
  <1>7. CASE \A j \in lost : PlatformOf[j] # p
    <2>1. \A j \in lost : c.probe # <<j, job[j].token>>
      BY <1>1, <1>7, ProbeOwner
    <2>2. CircuitsWithout(lost)[p] = c
      BY <2>1 DEF CircuitsWithout
    <2>3. LeasesOf(jb, p) = LeasesOf(job, p)
      BY <1>4, <1>7 DEF LeasesOf
    <2> QED BY <1>5, <2>2, <2>3
  <1> QED BY <1>6, <1>7

LEMMA FenceGuard ==
  ASSUME IInv, CircuitsGuard, NEW w \in Workers, FenceIntents(w)
  PROVE  CircuitsGuard'
  <1>1. PICK fresh \in SUBSET {v \in Workers \ {w} : cleaning[v] # {}} :
          LET held  == orphaned \cup UNION {cleaning[v] : v \in fresh}
              stale == {i \in Jobs \X AttemptNos :
                          /\ i[2] \in pending[i[1]] /\ i \notin held
                          /\ ~ExactActive(i[1], i[2])}
              lost  == {j \in Jobs : Active(job[j]) /\ <<j, job[j].token>> \in stale}
          IN  /\ job' = JobsWithout(lost)
              /\ circuit' = CircuitsWithout(lost)
    BY DEF FenceIntents
  <1>2. PICK lost \in SUBSET ActiveJobs(job) :
          job' = JobsWithout(lost) /\ circuit' = CircuitsWithout(lost)
    BY <1>1 DEF ActiveJobs
  <1> QED BY <1>2, LostGuard DEF CircuitsGuard

LEMMA FinalizeGuard ==
  ASSUME IInv, CircuitsGuard, NEW s \in Slots, NEW j \in Jobs, NEW n \in AttemptNos,
         Finalize(s, j, n)
  PROVE  CircuitsGuard'
  <1>1. Holds(j, n)
    BY DEF Finalize
  <1>2. CASE CancelAttempt(j, n)
    BY <1>1, <1>2, CancelGuard
  <1> DEFINE st == "ready"
  <1>3. CASE /\ circuit' = [circuit EXCEPT ![PlatformOf[j]] = ClosedCircuit]
             /\ job' = [job EXCEPT ![j] = Released(job[j], st)]
    <2>1. /\ circuit'[PlatformOf[j]] = ClosedCircuit
          /\ \A p \in Platforms \ {PlatformOf[j]} : circuit'[p] = circuit[p]
      BY <1>3, QueueAssumption DEF IInv, TypeOK
    <2>2. /\ job'[j] = Released(job[j], st) /\ job[j] \in JobRecord
          /\ \A i \in Jobs \ {j} : job'[i] = job[i]
      BY <1>3 DEF IInv, TypeOK
    <2>3. st \in {"queued", "ready", "failed", "canceled"}
      OBVIOUS
    <2> HIDE DEF st
    <2>4. ~Active(job'[j])
      BY <2>2, <2>3, ReleasedIdle
    <2> QED BY <1>1, <2>1, <2>2, <2>4, EndGuard
  <1> QED BY <1>2, <1>3 DEF Finalize

LEMMA FailureEndsGuard ==
  ASSUME IInv, CircuitsGuard, NEW j \in Jobs, NEW n \in AttemptNos, Holds(j, n),
         NEW code, FinishFailure(j, n, code)
  PROVE  CircuitsGuard'
  <1> DEFINE d     == Decision(j, code)
             retry == d.action = "retry" /\ job[j].used < MAX_ATTEMPTS
             st    == IF retry THEN "queued" ELSE "failed"
             due   == ~retry \/ d.delay = 0
  <1>1. CASE CancelAttempt(j, n)
    BY <1>1, CancelGuard
  <1>2. CASE /\ circuit' = [circuit EXCEPT ![PlatformOf[j]] =
                              RecordPlatformFailure(circuit[PlatformOf[j]], j, n, code)]
             /\ job' = [job EXCEPT ![j] = [Released(job[j], st) EXCEPT !.due = due]]
    <2>1. /\ circuit'[PlatformOf[j]] =
               RecordPlatformFailure(circuit[PlatformOf[j]], j, n, code)
          /\ \A p \in Platforms \ {PlatformOf[j]} : circuit'[p] = circuit[p]
      BY <1>2, QueueAssumption DEF IInv, TypeOK
    <2>2. st \in {"queued", "ready", "failed", "canceled"} /\ due \in BOOLEAN
      OBVIOUS
    <2> HIDE DEF st, due
    <2>3. /\ job'[j] = [Released(job[j], st) EXCEPT !.due = due] /\ job[j] \in JobRecord
          /\ \A i \in Jobs \ {j} : job'[i] = job[i]
      BY <1>2 DEF IInv, TypeOK
    <2>4. ~Active(job'[j])
      BY <2>2, <2>3, ReleasedIdle
    <2> QED BY <2>1, <2>3, <2>4, EndGuard
  <1>3. FinishFailure(j, n, code) =>
          \/ CancelAttempt(j, n)
          \/ /\ circuit' = [circuit EXCEPT ![PlatformOf[j]] =
                              RecordPlatformFailure(circuit[PlatformOf[j]], j, n, code)]
             /\ job' = [job EXCEPT ![j] = [Released(job[j], st) EXCEPT !.due = due]]
    BY DEF FinishFailure
  <1> QED BY <1>1, <1>2, <1>3

LEMMA ClaimGuard ==
  ASSUME IInv, CircuitsGuard, NEW s \in Slots, ClaimNext(s)
  PROVE  CircuitsGuard'
  <1> DEFINE w        == WorkerOf[s]
             lost     == IF Quiescent(w) THEN Expired ELSE {}
             jb       == JobsWithout(lost)
             ab       == AttemptsWithout(lost)
             cb       == CircuitsWithout(lost)
             eligible == Eligible(jb, cb, Excluded(w))
  <1>1. PICK invalid \in SUBSET eligible :
          LET valid    == eligible \ invalid
              rejected == {j \in invalid : \A k \in valid : j < k}
              jr       == [j \in Jobs |-> IF j \in rejected
                                          THEN Released(jb[j], "failed")
                                          ELSE jb[j]]
          IN  \/ /\ valid = {}
                 /\ job' = jr /\ attempt' = ab /\ circuit' = cb
                 /\ UNCHANGED <<lease, phase>>
              \/ \E j \in valid :
                  LET n == jb[j].total + 1
                      p == PlatformOf[j]
                  IN  /\ \A k \in valid : j <= k
                      /\ job' = [jr EXCEPT ![j] = Claimed(@)]
                      /\ attempt' = [ab EXCEPT ![j][n] = "running"]
                      /\ circuit' = IF cb[p].state = "open"
                                    THEN [cb EXCEPT ![p].state = "half_open",
                                                    ![p].probe = <<j, n>>]
                                    ELSE cb
                      /\ lease' = [lease EXCEPT ![s] = <<j, n>>]
                      /\ phase' = [phase EXCEPT ![s] = "run"]
    BY DEF ClaimNext
  <1>2. lost \in SUBSET ActiveJobs(job)
    BY DEF Expired, ActiveJobs
  <1>3. eligible \subseteq Jobs /\ \A j \in eligible :
          /\ jb[j].status = "queued" /\ pending[j] = {} /\ jb[j].used < MAX_ATTEMPTS
          /\ Admits(cb[PlatformOf[j]])
          /\ \A k \in Jobs : Active(jb[k]) => PlatformOf[k] # PlatformOf[j]
    BY DEF Eligible, ActiveJobs
  <1>4. cb \in [Platforms -> CircuitRecord]
    BY CircuitsType
  <1> HIDE DEF lost
  <1>5. \A p \in Platforms : GuardSound(cb[p], LeasesOf(jb, p))
    BY <1>2, LostGuard
  <1>6. /\ \A j \in Jobs : RowSound(jb[j], ab[j], pending[j])
        /\ jb \in [Jobs -> JobRecord]
    BY <1>2, LostRows DEF RowStep
  <1> HIDE DEF jb, ab, cb, eligible
  <1> DEFINE valid    == eligible \ invalid
             rejected == {j \in invalid : \A k \in valid : j < k}
             jr       == [j \in Jobs |-> IF j \in rejected
                                         THEN Released(jb[j], "failed") ELSE jb[j]]
  <1>7. rejected \subseteq eligible
    OBVIOUS
  <1>8. \A j \in eligible : ~Active(jb[j])
    BY <1>3, StatusType DEF Active
  <1> HIDE DEF rejected
  <1>9. \A j \in rejected : ~Active(jr[j])
    <2> SUFFICES ASSUME NEW j \in rejected PROVE ~Active(jr[j])
      OBVIOUS
    <2> DEFINE st == "failed"
               d  == TRUE
               r  == jb[j]
    <2>1. r \in JobRecord /\ jr[j] = Released(r, st)
      BY <1>3, <1>6, <1>7
    <2>2. st \in {"queued", "ready", "failed", "canceled"} /\ d \in BOOLEAN
      OBVIOUS
    <2> HIDE DEF st, d, r, jr
    <2>3. ~Active(Released(r, st))
      BY <2>1, <2>2, ReleasedIdle
    <2> QED BY <2>1, <2>3
  <1>10. \A j \in Jobs \ rejected : jr[j] = jb[j]
    OBVIOUS
  <1>11. \A p : LeasesOf(jr, p) = LeasesOf(jb, p)
    <2> HIDE DEF jr
    <2>1. \A j \in Jobs : /\ Active(jb[j]) <=> Active(jr[j])
                          /\ Active(jb[j]) => jb[j].token = jr[j].token
      BY <1>7, <1>8, <1>9, <1>10
    <2> QED BY <2>1 DEF LeasesOf
  <1>12. CASE job' = jr /\ circuit' = cb
    BY <1>5, <1>11, <1>12 DEF CircuitsGuard
  <1>13. ASSUME NEW j \in valid,
                job' = [jr EXCEPT ![j] = Claimed(@)],
                circuit' = IF cb[PlatformOf[j]].state = "open"
                           THEN [cb EXCEPT ![PlatformOf[j]].state = "half_open",
                                           ![PlatformOf[j]].probe = <<j, jb[j].total + 1>>]
                           ELSE cb
         PROVE  CircuitsGuard'
    <2> DEFINE r == jb[j]
               n == r.total + 1
               q == PlatformOf[j]
               l == <<j, n>>
               d == [cb[q] EXCEPT !.state = "half_open", !.probe = l]
    <2>1. j \in Jobs /\ j \in eligible /\ j \notin rejected
      <3>1. j \in eligible /\ j \notin invalid
        OBVIOUS
      <3> QED BY <1>3, <3>1 DEF rejected
    <2>2. jr[j] = r /\ RowSound(r, ab[j], {}) /\ r.status = "queued" /\ r.used < MAX_ATTEMPTS
      BY <1>3, <1>6, <1>10, <2>1
    <2>3. n \in AttemptNos /\ RowSound(Claimed(r), [ab[j] EXCEPT ![n] = "running"], {})
      BY <2>2, ClaimRow DEF RowStep
    <2>4. Active(Claimed(r)) /\ Claimed(r).token = n
      <3>1. r \in JobRecord
        BY <2>2 DEF RowSound
      <3> HIDE DEF r
      <3> QED BY <3>1, StatusType DEF Claimed, JobRecord, Active, n
    <2>5. /\ job'[j] = Claimed(r) /\ \A i \in Jobs \ {j} : job'[i] = jr[i]
      BY <1>13, <2>1, <2>2
    <2>6. q \in Platforms
      BY <2>1, QueueAssumption
    <2>7. LeasesOf(jr, q) = {}
      <3>1. LeasesOf(jb, q) = {}
        BY <1>3, <2>1 DEF LeasesOf
      <3> QED BY <1>11, <3>1
    <2> HIDE DEF n, r, jr
    <2>8. LeasesOf(job', q) = {l}
      BY <2>1, <2>3, <2>4, <2>5, <2>7 DEF LeasesOf
    <2>9. \A p \in Platforms \ {q} : LeasesOf(job', p) = LeasesOf(jr, p)
      BY <2>1, <2>5 DEF LeasesOf
    <2>10. /\ circuit'[q] = IF cb[q].state = "open" THEN d ELSE cb[q]
           /\ \A p \in Platforms \ {q} : circuit'[p] = cb[p]
      BY <1>4, <1>13, <2>6 DEF n, r
    <2>11. GuardSound(circuit'[q], {l})
      <3>1. GuardSound(cb[q], {}) /\ cb[q] \in CircuitRecord /\ Admits(cb[q])
        BY <1>3, <1>4, <1>5, <1>11, <2>1, <2>6, <2>7
      <3>2. GuardSound(IF cb[q].state = "open" THEN d ELSE cb[q], {l})
        BY <3>1, AdmitGuard
      <3> QED BY <2>10, <3>2
    <2>12. \A p \in Platforms \ {q} : GuardSound(circuit'[p], LeasesOf(job', p))
      BY <1>5, <1>11, <2>9, <2>10
    <2> QED BY <2>8, <2>11, <2>12 DEF CircuitsGuard
  <1>14. \/ job' = jr /\ circuit' = cb
         \/ \E j \in valid :
              /\ job' = [jr EXCEPT ![j] = Claimed(@)]
              /\ circuit' = IF cb[PlatformOf[j]].state = "open"
                            THEN [cb EXCEPT ![PlatformOf[j]].state = "half_open",
                                            ![PlatformOf[j]].probe = <<j, jb[j].total + 1>>]
                            ELSE cb
    BY <1>1, Zenon DEF rejected
  <1> HIDE DEF jr, valid
  <1> QED BY <1>12, <1>13, <1>14

\* Steps that end no lease and begin none, and leave the circuits alone.
LEMMA OtherGuard ==
  ASSUME IInv, CircuitsGuard,
         \/ \E w \in Workers : RecoveryFails(w) \/ Restart(w)
         \/ \E w \in Workers, j \in Jobs, n \in AttemptNos : CompleteIntent(w, j, n)
         \/ \E s \in Slots : Cleanup(s)
         \/ \E s \in Slots, j \in Jobs, n \in AttemptNos :
              \/ RecordIntent(s, j, n)    \/ StorageError(s, j, n)
              \/ NoticeLostLease(s, j, n) \/ RaiseFromHandler(s, j, n)
         \/ ExpireClaims \/ ResumeQueue
  PROVE  CircuitsGuard'
  <1>1. UNCHANGED <<job, circuit>>
    BY DEF RecoveryFails, Restart, CompleteIntent, Cleanup, RecordIntent, StorageError,
           NoticeLostLease, RaiseFromHandler, ExpireClaims, ResumeQueue, dbVars
  <1> QED BY <1>1, QuietGuard

LEMMA EditGuard ==
  ASSUME IInv, CircuitsGuard, NEW j \in Jobs,
         \/ Lapse(j) \/ BecomeDue(j) \/ RequestCancel(j) \/ RequestRetry(j)
         \/ \E s \in Slots, n \in AttemptNos : Transition(s, j, n)
  PROVE  CircuitsGuard'
  <1> DEFINE r == job[j]
  <1>1. r \in JobRecord /\ job \in [Jobs -> JobRecord]
    BY DEF IInv, TypeOK
  <1>2. UNCHANGED circuit
    BY DEF Lapse, BecomeDue, RequestCancel, RequestRetry, Transition
  <1>3. \/ job' = [job EXCEPT ![j].live = FALSE]
        \/ job' = [job EXCEPT ![j].due = TRUE]
        \/ job' = [job EXCEPT ![j].cancel = TRUE]
        \/ /\ ~Active(r)
           /\ \/ job' = [job EXCEPT ![j].status = "canceled", ![j].cancel = TRUE,
                                    ![j].due = TRUE]
              \/ job' = [job EXCEPT ![j].status = "queued", ![j].cancel = FALSE,
                                    ![j].due = TRUE, ![j].gen = @ + 1, ![j].used = 0]
        \/ /\ Active(r)
           /\ \E st \in ACTIVE_STATUSES : job' = [job EXCEPT ![j].status = st]
    BY StatusType DEF Lapse, BecomeDue, RequestCancel, RequestRetry, Transition, Active,
                      Holds, NextStatus, ACTIVE_STATUSES
  <1>4. /\ Active(r) <=> Active(job'[j])
        /\ Active(r) => r.token = job'[j].token
    <2> HIDE DEF r
    <2>1. ASSUME NEW st, job' = [job EXCEPT ![j].status = st], Active(r), st \in ACTIVE_STATUSES
          PROVE  Active(job'[j]) /\ r.token = job'[j].token
      BY <1>1, <2>1 DEF Active, JobRecord, r
    <2>2. ASSUME ~Active(r),
                 \/ job' = [job EXCEPT ![j].status = "canceled", ![j].cancel = TRUE,
                                       ![j].due = TRUE]
                 \/ job' = [job EXCEPT ![j].status = "queued", ![j].cancel = FALSE,
                                       ![j].due = TRUE, ![j].gen = @ + 1, ![j].used = 0]
          PROVE  ~Active(job'[j])
      BY <1>1, <2>2, StatusType DEF Active, JobRecord, r
    <2>3. ASSUME \/ job' = [job EXCEPT ![j].live = FALSE]
                 \/ job' = [job EXCEPT ![j].due = TRUE]
                 \/ job' = [job EXCEPT ![j].cancel = TRUE]
          PROVE  job'[j].status = r.status /\ job'[j].token = r.token
      BY <1>1, <2>3 DEF JobRecord, r
    <2> QED BY <1>3, <2>1, <2>2, <2>3 DEF Active
  <1>5. \A i \in Jobs \ {j} : job'[i] = job[i]
    BY <1>1, <1>3
  <1> QED BY <1>2, <1>4, <1>5, QuietGuard

LEMMA PlatformGuard ==
  ASSUME IInv, CircuitsGuard, NEW p \in Platforms, CoolDown(p) \/ ResetCircuit(p)
  PROVE  CircuitsGuard'
  <1>1. circuit \in [Platforms -> CircuitRecord] /\ GuardSound(circuit[p], LeasesOf(job, p))
    BY DEF IInv, TypeOK, CircuitsGuard
  <1>2. /\ UNCHANGED job
        /\ \A q \in Platforms \ {p} : circuit'[q] = circuit[q]
    BY <1>1 DEF CoolDown, ResetCircuit
  <1>3. GuardSound(circuit'[p], LeasesOf(job, p))
    <2>1. CASE CoolDown(p)
      <3> DEFINE u == TRUE
                 e == [circuit[p] EXCEPT !.cooled = u]
      <3>1. circuit'[p] = e /\ u \in BOOLEAN
        BY <1>1, <2>1 DEF CoolDown
      <3> HIDE DEF u
      <3>2. GuardSound(e, LeasesOf(job, p))
        BY <1>1, <3>1, CoolGuard
      <3> QED BY <3>1, <3>2
    <2>2. CASE ResetCircuit(p)
      BY <1>1, <2>2, ClosedGuardOne DEF ResetCircuit
    <2> QED BY <2>1, <2>2
  <1> QED BY <1>2, <1>3 DEF CircuitsGuard

LEMMA NextGuard ==
  ASSUME IInv, CircuitsGuard, [Next]_vars
  PROVE  CircuitsGuard'
  <1>1. CASE UNCHANGED vars
    BY <1>1, QuietGuard DEF vars, dbVars
  <1>2. CASE Next
    <2>1. ASSUME NEW s \in Slots, NEW j \in Jobs, NEW n \in AttemptNos, SlotStep(s, j, n)
          PROVE  CircuitsGuard'
      <3>1. CASE FinishCanceled(s, j, n)
        BY <3>1, CancelGuard DEF FinishCanceled
      <3>2. CASE FailAttempt(s, j, n)
        BY <3>2, FailureEndsGuard DEF FailAttempt
      <3>3. CASE FailStorage(s, j, n)
        BY <3>3, FailureEndsGuard DEF FailStorage
      <3>4. CASE Transition(s, j, n)
        BY <3>4, EditGuard
      <3>5. CASE Finalize(s, j, n)
        BY <3>5, FinalizeGuard
      <3> QED BY <2>1, <3>1, <3>2, <3>3, <3>4, <3>5, OtherGuard DEF SlotStep
    <2>2. ASSUME NEW j \in Jobs,
                 Lapse(j) \/ BecomeDue(j) \/ RequestCancel(j) \/ RequestRetry(j)
          PROVE  CircuitsGuard'
      BY <2>2, EditGuard
    <2> QED BY <1>2, <2>1, <2>2, FenceGuard, ClaimGuard, PlatformGuard, OtherGuard DEF Next
  <1> QED BY <1>1, <1>2

LEMMA InitGuard == Init => CircuitsGuard
  <1> SUFFICES ASSUME Init PROVE CircuitsGuard
    OBVIOUS
  <1>1. \A j \in Jobs : job[j].status = "queued"
    BY DEF Init
  <1>2. \A p : LeasesOf(job, p) = {}
    BY <1>1, StatusType DEF LeasesOf, Active
  <1>3. \A p \in Platforms : circuit[p] = ClosedCircuit
    BY DEF Init
  <1> QED BY <1>2, <1>3, ClosedGuard DEF CircuitsGuard

\* An open circuit admits nothing, a half-open one belongs to the platform's
\* only lease, and the count of failures stops at its limit, where only the
\* operator's reset goes on (worker_repository.py: every end of a lease).
THEOREM CircuitsSound == Spec => []CircuitGuardsPlatform
  <1>1. Init => CircuitsGuard
    BY InitGuard
  <1>2. IInv /\ CircuitsGuard /\ [Next]_vars => CircuitsGuard'
    BY NextGuard
  <1>3. IInv /\ CircuitsGuard => CircuitGuardsPlatform
    <2> SUFFICES ASSUME IInv, CircuitsGuard, NEW p \in Platforms
                 PROVE  LET busy  == {j \in ActiveJobs(job) : PlatformOf[j] = p}
                            limit == IF circuit[p].last = "rate_limited"
                                     THEN RateLimitThreshold ELSE BrokenThreshold
                        IN  /\ circuit[p].state = "open" => busy = {}
                            /\ circuit[p].state = "half_open" =>
                                   \E j \in busy : circuit[p].probe = <<j, job[j].token>>
                            /\ circuit[p].state # "half_open" => circuit[p].probe = NoLease
                            /\ circuit[p].manual => circuit[p].state = "open"
                            /\ Cardinality(busy) <= 1
                            /\ circuit[p].failures <= limit
                            /\ circuit[p].failures = limit => circuit[p].manual
      BY DEF CircuitGuardsPlatform
    <2> DEFINE busy == {j \in ActiveJobs(job) : PlatformOf[j] = p}
               b    == LeasesOf(job, p)
    <2>1. GuardSound(circuit[p], b)
      BY DEF CircuitsGuard
    <2>2. \A j \in busy : <<j, job[j].token>> \in b
      BY DEF ActiveJobs, LeasesOf, IInv, RowsSound, RowSound, JobRecord
    <2>3. \A l \in b : l[1] \in busy /\ l = <<l[1], job[l[1]].token>>
      BY DEF ActiveJobs, LeasesOf
    <2>4. Cardinality(busy) <= 1
      <3>1. \A i, j \in busy : i = j
        BY <2>1, <2>2 DEF GuardSound
      <3> HIDE DEF busy
      <3>2. CASE busy = {}
        BY <3>2, FS_EmptySet
      <3>3. ASSUME NEW j \in busy PROVE Cardinality(busy) = 1
        <4>1. busy = {j}
          BY <3>1
        <4> QED BY <4>1, FS_Singleton
      <3> QED BY <3>2, <3>3
    <2> HIDE DEF busy, b
    <2>5. circuit[p].state = "open" => busy = {}
      BY <2>1, <2>2 DEF GuardSound
    <2>6. circuit[p].state = "half_open" =>
            \E j \in busy : circuit[p].probe = <<j, job[j].token>>
      BY <2>1, <2>3 DEF GuardSound
    <2> QED BY <2>1, <2>4, <2>5, <2>6 DEF GuardSound, Limit, busy
  <1> QED BY <1>1, <1>2, <1>3, QueueInvariance, PTL DEF Spec
=============================================================================
