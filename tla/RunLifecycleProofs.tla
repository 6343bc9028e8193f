------------------------- MODULE RunLifecycleProofs -------------------------
(***************************************************************************)
(* AutomationRuns implements RunLifecycle, and what the runs of one        *)
(* automation promise to each other as long as nobody cancels.             *)
(***************************************************************************)
EXTENDS AutomationRunsProofs

(* A queued row has no lease, so a row with one is being worked on.         *)

QueuedUnleased == \A r \in Runs : run[r].status = "queued" => run[r].lease = NULL

LifecycleInvariant == RetryInvariant /\ QueuedUnleased

LEMMA LifecycleInit == Init => LifecycleInvariant
BY RetryInit DEF Init, LifecycleInvariant, QueuedUnleased, AbsentRow

LEMMA LifecycleNext == LifecycleInvariant /\ [Next]_vars => LifecycleInvariant'
<1> SUFFICES ASSUME LifecycleInvariant, [Next]_vars PROVE LifecycleInvariant'
  OBVIOUS
<1>1. RetryInvariant /\ run \in [Runs -> Row]
  BY DEF LifecycleInvariant, RetryInvariant, TypeOK
<1>2. ASSUME NEW r \in Runs, run'[r].status = "queued" PROVE run'[r].lease = NULL
  <2>1. CASE KeptRow(r)
    BY <1>2, <2>1 DEF KeptRow, LifecycleInvariant, QueuedUnleased
  <2>2. ASSUME NEW w \in Runners, NEW t \in Stamps, ClaimDesktop(w, r, t) PROVE FALSE
    <3>1. run'[r] = ClaimedRow(run[r], w, t)
      BY <1>1, <2>2 DEF ClaimDesktop
    <3>2. now \in Nat
      BY <1>1 DEF RetryInvariant, TypeOK
    <3> QED BY <1>1, <1>2, <3>1, <3>2, RowFields, StampsAreTimes
  <2>3. ASSUME NEW w \in Runners, NEW a \in 1 .. MaxAttempts, NEW s \in 1 .. MaxSequence,
               NEW t \in Stamps, AppendDesktopEvent(w, r, a, s, t)
        PROVE  FALSE
    BY <1>1, <1>2, <2>3 DEF AppendDesktopEvent, Fenced, Row
  <2> QED BY <1>1, <2>1, <2>2, <2>3, RowStep
<1> QED BY <1>1, <1>2, RetryNext DEF LifecycleInvariant, QueuedUnleased

(* A statement writes at most one row.                                      *)

LEMMA OneRow ==
    ASSUME RetryInvariant, [Next]_vars
    PROVE  run' = run \/ \E r \in Runs : \A q \in Runs : q # r => run'[q] = run[q]
<1>a. run \in [Runs -> Row]
  BY DEF RetryInvariant, TypeOK
<1> DEFINE Goal == run' = run \/ \E r \in Runs : \A q \in Runs : q # r => run'[q] = run[q]
<1>1. ASSUME NEW r \in Runs, NEW t \in Stamps, NEW window \in ClaimWindows, Dispatch(r, t, window)
      PROVE  Goal
  BY <1>a, <1>1 DEF Dispatch
<1>2. ASSUME NEW r \in Runs, SkipDenied(r) \/ LoseDenied(r) PROVE Goal
  BY <1>a, <1>2 DEF SkipDenied, LoseDenied
<1>3. ASSUME NEW w \in Runners, NEW r \in Runs,
             (\E t \in Stamps : ClaimDesktop(w, r, t)) \/ ReclaimDesktop(w, r)
      PROVE  Goal
  BY <1>a, <1>3 DEF ClaimDesktop, ReclaimDesktop
<1>4. ASSUME NEW w \in Runners, NEW r \in Runs, NEW a \in 1 .. MaxAttempts, NEW t \in Stamps,
             \/ HeartbeatDesktop(w, r, a, t)
             \/ \E s \in 1 .. MaxSequence : AppendDesktopEvent(w, r, a, s, t)
             \/ \E status \in {"succeeded", "failed", "cancelled"} : Complete(w, r, a, status, t)
      PROVE  Goal
  BY <1>a, <1>4 DEF HeartbeatDesktop, AppendDesktopEvent, Complete
<1>5. ASSUME NEW g \in gate, PassGate(g) \/ FailGate(g) \/ LoseGate(g) PROVE Goal
  <2>1. g[2] \in Runs
    BY DEF RetryInvariant, TypeOK
  <2> QED BY <1>a, <1>5, <2>1 DEF PassGate, FailGate, LoseGate
<1>6. ASSUME NEW c \in Cancellations, NEW r \in Runs, CancelSelect(c, r) PROVE Goal
  BY <1>6 DEF CancelSelect
<1>7. ASSUME NEW x \in cancelling, CancelUpdate(x) PROVE Goal
  <2>1. x.run \in Runs
    BY DEF RetryInvariant, TypeOK
  <2> QED BY <1>a, <1>7, <2>1 DEF CancelUpdate
<1>8. ASSUME NEW p \in Replicas, RecoverUpdate(p) PROVE Goal
  <2>1. PICK x \in tick[p].rows :
          run' = IF x.owner # NoOwner /\ StillExpired(run[x.run], x, tick[p].at)
                 THEN [run EXCEPT ![x.run] = RecoveredRow(run[x.run], x)]
                 ELSE run
    BY <1>8 DEF RecoverUpdate, Earliest
  <2>2. x.run \in Runs
    BY <2>1 DEF RetryInvariant, TypeOK, Snapshot
  <2> QED BY <1>a, <2>1, <2>2
<1>9. ASSUME NEW p \in Replicas, ExpireUpdate(p) PROVE Goal
  <2>1. PICK x \in tick[p].rows :
          run' = IF StillQueued(run[x.run])
                 THEN [run EXCEPT ![x.run] = ExpiredRow(run[x.run])]
                 ELSE run
    BY <1>9 DEF ExpireUpdate, Earliest
  <2>2. x.run \in Runs
    BY <2>1 DEF RetryInvariant, TypeOK, Snapshot
  <2> QED BY <1>a, <2>1, <2>2
<1>10. ASSUME NEW p \in Replicas,
              (\E t \in Stamps : RecoverSelect(p, t)) \/ ExpireSelect(p) \/ TickEnd(p) \/ TickAbort(p)
       PROVE  Goal
  BY <1>10 DEF RecoverSelect, ExpireSelect, TickEnd, TickAbort
<1>11. ASSUME Clock \/ UNCHANGED vars PROVE Goal
  BY <1>11 DEF Clock, vars
<1> HIDE DEF Goal
<1>12. Goal
  BY <1>1, <1>2, <1>3, <1>4, <1>5, <1>6, <1>7, <1>8, <1>9, <1>10, <1>11
     DEF Next, RunnerStep, TickStep
<1> QED BY <1>12 DEF Goal
-----------------------------------------------------------------------------
(* The refinement.  phases, attempts and holders are the abstract state.    *)

phases == [r \in Runs |-> PhaseOf(run[r])]
attempts == [r \in Runs |-> run[r].attempt]
holders == [r \in Runs |-> IF PhaseOf(run[r]) = "working" THEN run[r].owner ELSE NoOwner]

\* What a step does to the abstract state of one run.
KeepsPhase(r) ==
    /\ phases'[r] = phases[r] /\ attempts'[r] = attempts[r] /\ holders'[r] = holders[r]
MovesPhase(r) ==
    \/ /\ phases[r] = "absent" /\ phases'[r] \in {"waiting", "over"}
       /\ attempts'[r] = attempts[r] /\ holders'[r] = holders[r]
    \/ /\ phases[r] = "waiting" /\ attempts[r] < MaxAttempts /\ phases'[r] = "working"
       /\ attempts'[r] = attempts[r] + 1 /\ holders'[r] \in Runners
    \/ /\ phases[r] = "working" /\ attempts[r] < MaxAttempts /\ phases'[r] = "waiting"
       /\ attempts'[r] = attempts[r] /\ holders'[r] = NoOwner
    \/ /\ phases[r] \in {"waiting", "working"} /\ phases'[r] = "over"
       /\ attempts'[r] = attempts[r] /\ holders'[r] = NoOwner

LEMMA PhaseStep ==
    ASSUME LifecycleInvariant, LifecycleInvariant', [Next]_vars, NEW r \in Runs
    PROVE  KeepsPhase(r) \/ MovesPhase(r)
<1>a. /\ run \in [Runs -> Row] /\ run' \in [Runs -> Row] /\ now \in Nat
      /\ RetryInvariant /\ RetryInvariant'
  BY DEF LifecycleInvariant, RetryInvariant, TypeOK
<1>b. /\ phases[r] = PhaseOf(run[r]) /\ phases'[r] = PhaseOf(run'[r])
      /\ attempts[r] = run[r].attempt /\ attempts'[r] = run'[r].attempt
      /\ holders[r] = IF PhaseOf(run[r]) = "working" THEN run[r].owner ELSE NoOwner
      /\ holders'[r] = IF PhaseOf(run'[r]) = "working" THEN run'[r].owner ELSE NoOwner
  BY DEF phases, attempts, holders, PhaseOf
<1>1. ASSUME NEW w \in Runners, NEW t \in Stamps, ClaimDesktop(w, r, t)
      PROVE  MovesPhase(r)
  <2>1. run[r].status = "queued" /\ run'[r] = ClaimedRow(run[r], w, t)
    BY <1>a, <1>1 DEF ClaimDesktop
  <2>2. /\ run'[r].status = "running" /\ run'[r].lease = t + LeaseMs
        /\ run'[r].owner = w /\ run'[r].attempt = run[r].attempt + 1
    BY <2>1, <1>a, RowFields, StampsAreTimes
  <2>3. run'[r].lease # NULL
    BY <2>2, <1>a, StampsAreTimes, SkewAssumption DEF NULL
  <2>4. run[r].attempt < MaxAttempts
    BY <2>1, <1>a DEF RetryInvariant, QueuedIsFresh
  <2> QED BY <1>b, <2>1, <2>2, <2>3, <2>4 DEF MovesPhase, PhaseOf
<1>2. ASSUME NEW w \in Runners, NEW a \in 1 .. MaxAttempts, NEW s \in 1 .. MaxSequence,
             NEW t \in Stamps, AppendDesktopEvent(w, r, a, s, t)
      PROVE  KeepsPhase(r)
  <2>1. /\ run'[r].status = run[r].status /\ run'[r].lease = run[r].lease
        /\ run'[r].owner = run[r].owner /\ run'[r].attempt = run[r].attempt
    BY <1>a, <1>2 DEF AppendDesktopEvent, Row
  <2> QED BY <1>b, <2>1 DEF KeepsPhase, PhaseOf
<1>3. ASSUME KeptRow(r)
      PROVE  KeepsPhase(r) \/ MovesPhase(r)
  <2>1. CASE run[r].status = "absent"
    <3>1. run[r].lease = NULL
      BY <1>a, <2>1 DEF RetryInvariant, AbsentIsFresh, AbsentRow
    <3> QED BY <1>3, <1>b, <2>1, <3>1 DEF KeptRow, PhaseOf, KeepsPhase, MovesPhase
  <2>2. CASE run[r].status = "queued"
    <3>1. run[r].lease = NULL
      BY <2>2 DEF LifecycleInvariant, QueuedUnleased
    <3> QED BY <1>3, <1>b, <2>2, <3>1 DEF KeptRow, PhaseOf, KeepsPhase, MovesPhase
  <2>3. CASE run[r].status \notin {"absent", "queued"} /\ run[r].lease # NULL
    <3>1. run'[r].status = "queued" => run'[r].attempt < MaxAttempts
      BY <1>a DEF RetryInvariant, QueuedIsFresh
    <3>2. run'[r].status # "absent"
      BY <1>3, <2>3 DEF KeptRow
    <3>3. CASE run'[r].status = "queued"
      BY <1>3, <1>b, <2>3, <3>1, <3>3 DEF KeptRow, PhaseOf, MovesPhase
    <3>4. CASE run'[r].status # "queued" /\ run'[r].lease # NULL
      BY <1>3, <1>b, <2>3, <3>2, <3>4 DEF KeptRow, PhaseOf, KeepsPhase
    <3>5. CASE run'[r].status # "queued" /\ run'[r].lease = NULL
      BY <1>3, <1>b, <2>3, <3>2, <3>5 DEF KeptRow, PhaseOf, MovesPhase
    <3> QED BY <3>3, <3>4, <3>5
  <2>4. CASE run[r].status \notin {"absent", "queued"} /\ run[r].lease = NULL
    <3>1. Inert(r)' /\ run'[r].attempt = run[r].attempt
      BY <1>a, <2>4, InertStep DEF Inert
    <3>2. run'[r].status \notin {"absent", "queued"} /\ run'[r].lease = NULL
      BY <3>1 DEF Inert
    <3> QED BY <1>b, <2>4, <3>1, <3>2 DEF PhaseOf, KeepsPhase
  <2> QED BY <2>1, <2>2, <2>3, <2>4
<1> QED BY <1>a, <1>1, <1>2, <1>3, RowStep

LEMMA LifecycleStep ==
    ASSUME LifecycleInvariant, LifecycleInvariant', [Next]_vars
    PROVE  [Lifecycle!Next]_(Lifecycle!vars)
<1>a. /\ phases = [r \in Runs |-> phases[r]] /\ phases' = [r \in Runs |-> phases'[r]]
      /\ attempts = [r \in Runs |-> attempts[r]] /\ attempts' = [r \in Runs |-> attempts'[r]]
      /\ holders = [r \in Runs |-> holders[r]] /\ holders' = [r \in Runs |-> holders'[r]]
  BY DEF phases, attempts, holders
<1>b. Lifecycle!vars = <<phases, attempts, holders>>
  BY DEF Lifecycle!vars, phases, attempts, holders
<1>1. CASE \A r \in Runs : KeepsPhase(r)
  <2>1. phases' = phases /\ attempts' = attempts /\ holders' = holders
    BY <1>a, <1>1 DEF KeepsPhase
  <2> QED BY <2>1 DEF Lifecycle!vars, phases, attempts, holders
<1>2. ASSUME NEW r \in Runs, MovesPhase(r), \A q \in Runs : q # r => KeepsPhase(q)
      PROVE  Lifecycle!Next
  <2>1. /\ phases' = [phases EXCEPT ![r] = phases'[r]]
        /\ attempts' = [attempts EXCEPT ![r] = attempts'[r]]
        /\ holders' = [holders EXCEPT ![r] = holders'[r]]
    BY <1>a, <1>2 DEF KeepsPhase
  <2>2. CASE /\ phases[r] = "absent" /\ phases'[r] \in {"waiting", "over"}
             /\ attempts'[r] = attempts[r] /\ holders'[r] = holders[r]
    <3>1. attempts' = attempts /\ holders' = holders
      BY <1>a, <2>1, <2>2
    <3>2. Lifecycle!Dispatch(r)
      BY <2>1, <2>2, <3>1 DEF Lifecycle!Dispatch, phases, attempts, holders
    <3> QED BY <3>2 DEF Lifecycle!Next
  <2>3. CASE /\ phases[r] = "waiting" /\ attempts[r] < MaxAttempts /\ phases'[r] = "working"
             /\ attempts'[r] = attempts[r] + 1 /\ holders'[r] \in Runners
    <3>1. /\ phases' = [phases EXCEPT ![r] = "working"]
          /\ attempts' = [attempts EXCEPT ![r] = attempts[r] + 1]
      BY <2>1, <2>3
    <3>2. PICK w \in Runners : holders'[r] = w
      BY <2>3
    <3>3. Lifecycle!Attempt(r, w)
      BY <2>1, <2>3, <3>1, <3>2 DEF Lifecycle!Attempt, phases, attempts, holders
    <3> QED BY <3>3 DEF Lifecycle!Next
  <2>4. CASE /\ phases[r] = "working" /\ attempts[r] < MaxAttempts /\ phases'[r] = "waiting"
             /\ attempts'[r] = attempts[r] /\ holders'[r] = NoOwner
    <3>1. attempts' = attempts
      BY <1>a, <2>1, <2>4
    <3>2. Lifecycle!Return(r)
      BY <2>1, <2>4, <3>1 DEF Lifecycle!Return, phases, attempts, holders
    <3> QED BY <3>2 DEF Lifecycle!Next
  <2>5. CASE /\ phases[r] \in {"waiting", "working"} /\ phases'[r] = "over"
             /\ attempts'[r] = attempts[r] /\ holders'[r] = NoOwner
    <3>1. attempts' = attempts
      BY <1>a, <2>1, <2>5
    <3>2. Lifecycle!Finish(r)
      BY <2>1, <2>5, <3>1 DEF Lifecycle!Finish, phases, attempts, holders
    <3> QED BY <3>2 DEF Lifecycle!Next
  <2> QED BY <1>2, <2>2, <2>3, <2>4, <2>5 DEF MovesPhase
<1>3. ASSUME NEW r \in Runs, run'[r] = run[r] PROVE KeepsPhase(r)
  BY <1>3 DEF KeepsPhase, phases, attempts, holders, PhaseOf
<1>4. RetryInvariant
  BY DEF LifecycleInvariant
<1>5. CASE run' = run
  BY <1>1, <1>3, <1>5
<1>6. ASSUME NEW r \in Runs, \A q \in Runs : q # r => run'[q] = run[q]
      PROVE  [Lifecycle!Next]_(Lifecycle!vars)
  <2>1. \A q \in Runs : q # r => KeepsPhase(q)
    BY <1>3, <1>6
  <2>2. CASE KeepsPhase(r)
    BY <1>1, <2>1, <2>2
  <2>3. CASE MovesPhase(r)
    BY <1>2, <2>1, <2>3
  <2> QED BY <2>2, <2>3, PhaseStep
<1> QED BY <1>4, <1>5, <1>6, OneRow

\* Whatever the handlers and sweeps read before they write, a run waits, is
\* attempted by one desktop at a time and at most MaxAttempts times, and
\* once it is over stays over.
THEOREM RunsImplementLifecycle == Spec => ImplementsLifecycle
<1>1. Init => Lifecycle!Init
  BY DEF Init, Lifecycle!Init, PhaseOf, AbsentRow
<1>2. Init => LifecycleInvariant
  BY LifecycleInit
<1>3. LifecycleInvariant /\ [Next]_vars => LifecycleInvariant'
  BY LifecycleNext
<1>4. LifecycleInvariant /\ LifecycleInvariant' /\ [Next]_vars => [Lifecycle!Next]_(Lifecycle!vars)
  BY LifecycleStep
<1> QED BY <1>1, <1>2, <1>3, <1>4, PTL DEF Spec, ImplementsLifecycle, Lifecycle!Spec

-----------------------------------------------------------------------------
(* Without cancellations, which write a status by id alone.                 *)

NobodyCancels == Cancellations = {}

\* Only running rows have a lease, so a sweep cannot requeue another row.
QuietInvariant ==
    /\ LifecycleInvariant
    /\ cancelling = {}
    /\ \A r \in Runs : run[r].lease # NULL => run[r].status = "running"

\* Only an active row changes its status, or a row that is dispatched.
StatusStep(r) ==
    /\ run'[r].status # run[r].status => run[r].status \in Active
    /\ run'[r].lease # NULL => run'[r].status = "running"

LEMMA QuietStep ==
    ASSUME NobodyCancels, QuietInvariant, [Next]_vars, NEW r \in Runs
    PROVE  \/ \E t \in Stamps, window \in ClaimWindows : Dispatch(r, t, window)
           \/ StatusStep(r)
<1>a. /\ run \in [Runs -> Row] /\ now \in Nat /\ RetryInvariant
      /\ run[r].lease # NULL => run[r].status = "running"
  BY DEF QuietInvariant, LifecycleInvariant, RetryInvariant, TypeOK
<1>0. ASSUME run'[r] = run[r] PROVE StatusStep(r)
  BY <1>0, <1>a DEF StatusStep
<1>1. ASSUME NEW q \in Runs, NEW t \in Stamps, NEW window \in ClaimWindows,
             Dispatch(q, t, window), q # r
      PROVE  StatusStep(r)
  BY <1>0, <1>1, <1>a DEF Dispatch
<1>2. ASSUME NEW q \in Runs, SkipDenied(q) \/ LoseDenied(q) PROVE StatusStep(r)
  <2>1. CASE run'[r] = SkippedRow(run[r]) /\ run[r].status \in Active
    BY <2>1, <1>a, RowFields DEF StatusStep
  <2>2. run'[r] = run[r] \/ run'[r] = SkippedRow(run[r])
    BY <1>2, <1>a DEF SkipDenied, LoseDenied
  <2> QED BY <1>0, <1>a, <2>1, <2>2, RowFields
<1>3. ASSUME NEW w \in Runners, NEW q \in Runs, NEW t \in Stamps, ClaimDesktop(w, q, t)
      PROVE  StatusStep(r)
  <2>1. CASE q = r
    <3>1. run[r].status = "queued" /\ run'[r].status = "running"
      BY <1>3, <1>a, <2>1, RowFields, StampsAreTimes DEF ClaimDesktop
    <3> QED BY <3>1 DEF StatusStep, Active
  <2> QED BY <1>0, <1>3, <1>a, <2>1 DEF ClaimDesktop
<1>4. ASSUME NEW w \in Runners, NEW q \in Runs, NEW a \in 1 .. MaxAttempts, NEW t \in Stamps,
             \/ HeartbeatDesktop(w, q, a, t)
             \/ \E s \in 1 .. MaxSequence : AppendDesktopEvent(w, q, a, s, t)
      PROVE  StatusStep(r)
  <2>1. CASE q = r
    <3>1. CASE HeartbeatDesktop(w, q, a, t)
      <4>1. run[r].status = "running" /\ run' = [run EXCEPT ![r].lease = GrantedLease(t)]
        BY <2>1, <3>1 DEF HeartbeatDesktop, Fenced
      <4>2. run'[r].status = "running"
        BY <1>a, <4>1 DEF Row
      <4> QED BY <4>1, <4>2 DEF StatusStep
    <3>2. ASSUME NEW s \in 1 .. MaxSequence, AppendDesktopEvent(w, q, a, s, t)
          PROVE  StatusStep(r)
      <4>1. run[r].status = "running" /\ run' = [run EXCEPT ![r].seq = s]
        BY <2>1, <3>2 DEF AppendDesktopEvent, Fenced
      <4>2. run'[r].status = "running"
        BY <1>a, <4>1 DEF Row
      <4> QED BY <4>1, <4>2 DEF StatusStep
    <3> QED BY <1>4, <3>1, <3>2
  <2> QED BY <1>0, <1>4, <1>a, <2>1 DEF HeartbeatDesktop, AppendDesktopEvent
<1>5. ASSUME NEW w \in Runners, NEW q \in Runs, NEW a \in 1 .. MaxAttempts, NEW t \in Stamps,
             NEW status \in {"succeeded", "failed", "cancelled"}, Complete(w, q, a, status, t)
      PROVE  StatusStep(r)
  <2>1. CASE q = r
    <3>1. run[r].status = "running" /\ run'[r].status = status /\ run'[r].lease = NULL
      BY <1>5, <1>a, <2>1 DEF Complete, CompletedRow, Fenced, Row
    <3> QED BY <3>1 DEF StatusStep, Active
  <2> QED BY <1>0, <1>5, <1>a, <2>1 DEF Complete
<1>6. ASSUME NEW g \in gate, PassGate(g) \/ FailGate(g) \/ LoseGate(g) PROVE StatusStep(r)
  <2>1. CASE run'[r] = SkippedRow(run[r]) /\ run[r].status \in Active
    BY <2>1, <1>a, RowFields DEF StatusStep
  <2>2. run'[r] = run[r] \/ run'[r] = SkippedRow(run[r])
    BY <1>6, <1>a DEF PassGate, FailGate, LoseGate
  <2> QED BY <1>0, <1>a, <2>1, <2>2, RowFields
<1>7. ASSUME NEW p \in Replicas, RecoverUpdate(p) PROVE StatusStep(r)
  <2>1. PICK x \in tick[p].rows :
          run' = IF x.owner # NoOwner /\ StillExpired(run[x.run], x, tick[p].at)
                 THEN [run EXCEPT ![x.run] = RecoveredRow(run[x.run], x)]
                 ELSE run
    BY <1>7 DEF RecoverUpdate, Earliest
  <2>2. x \in Snapshot
    BY <1>a, <2>1 DEF RetryInvariant, TypeOK
  <2>3. CASE x.run = r /\ StillExpired(run[r], x, tick[p].at) /\ x.owner # NoOwner
    <3>1. run[r].lease # NULL /\ run'[r] = RecoveredRow(run[r], x)
      BY <2>1, <2>3, <1>a DEF StillExpired, LeaseExpired
    <3>2. run[r].status = "running" /\ run'[r].lease = NULL
      BY <2>2, <3>1, <1>a, RowFields
    <3> QED BY <3>2 DEF StatusStep, Active
  <2>4. CASE ~ (x.run = r /\ StillExpired(run[r], x, tick[p].at) /\ x.owner # NoOwner)
    BY <1>0, <2>1, <2>4, <1>a
  <2> QED BY <2>3, <2>4
<1>8. ASSUME NEW p \in Replicas, ExpireUpdate(p) PROVE StatusStep(r)
  <2>1. PICK x \in tick[p].rows :
          run' = IF StillQueued(run[x.run])
                 THEN [run EXCEPT ![x.run] = ExpiredRow(run[x.run])]
                 ELSE run
    BY <1>8 DEF ExpireUpdate, Earliest
  <2>2. CASE x.run = r /\ StillQueued(run[r])
    <3>1. run[r].status = "queued" /\ run'[r] = ExpiredRow(run[r])
      BY <2>1, <2>2, <1>a DEF StillQueued
    <3> QED BY <3>1, <1>a, RowFields DEF StatusStep, Active
  <2>3. CASE ~ (x.run = r /\ StillQueued(run[r]))
    BY <1>0, <2>1, <2>3, <1>a
  <2> QED BY <2>2, <2>3
<1>9. ASSUME run' = run PROVE StatusStep(r)
  BY <1>0, <1>9
<1>10. ASSUME NEW p \in Replicas,
              (\E t \in Stamps : RecoverSelect(p, t)) \/ ExpireSelect(p) \/ TickEnd(p) \/ TickAbort(p)
       PROVE  StatusStep(r)
  BY <1>9, <1>10 DEF RecoverSelect, ExpireSelect, TickEnd, TickAbort
<1>11. ASSUME NEW w \in Runners, NEW q \in Runs, ReclaimDesktop(w, q) PROVE StatusStep(r)
  BY <1>9, <1>11 DEF ReclaimDesktop
<1>12. ASSUME Clock \/ UNCHANGED vars PROVE StatusStep(r)
  BY <1>9, <1>12 DEF Clock, vars
<1>13. /\ ~ \E c \in Cancellations, q \in Runs : CancelSelect(c, q)
       /\ ~ \E x \in cancelling : CancelUpdate(x)
  BY DEF NobodyCancels, QuietInvariant
<1> QED
  BY <1>1, <1>2, <1>3, <1>4, <1>5, <1>6, <1>7, <1>8, <1>10, <1>11, <1>12, <1>13
     DEF Next, RunnerStep, TickStep

LEMMA QuietInit == Init => QuietInvariant
BY LifecycleInit DEF Init, QuietInvariant, AbsentRow

LEMMA QuietNext == NobodyCancels /\ QuietInvariant /\ [Next]_vars => QuietInvariant'
<1> SUFFICES ASSUME NobodyCancels, QuietInvariant, [Next]_vars PROVE QuietInvariant'
  OBVIOUS
<1>1. LifecycleInvariant'
  BY LifecycleNext DEF QuietInvariant
<1>2. cancelling' = {}
  BY <1>1 DEF NobodyCancels, LifecycleInvariant, RetryInvariant, TypeOK
<1>3. ASSUME NEW r \in Runs PROVE run'[r].lease # NULL => run'[r].status = "running"
  <2>1. ASSUME NEW t \in Stamps, NEW window \in ClaimWindows, Dispatch(r, t, window)
        PROVE  run'[r].lease = NULL
    BY <2>1 DEF Dispatch, AbsentRow, QuietInvariant, LifecycleInvariant, RetryInvariant, TypeOK
  <2> QED BY <2>1, QuietStep DEF StatusStep
<1> QED BY <1>1, <1>2, <1>3 DEF QuietInvariant

LEMMA SingleActiveStep ==
    ASSUME NobodyCancels, QuietInvariant, SingleActive, [Next]_vars PROVE SingleActive'
<1>a. run \in [Runs -> Row]
  BY DEF QuietInvariant, LifecycleInvariant, RetryInvariant, TypeOK
<1> SUFFICES ASSUME NEW r \in Runs, NEW q \in Runs, r # q,
                    run'[r].status \in Active, run'[q].status \in Active
             PROVE  FALSE
  BY DEF SingleActive
<1>1. ASSUME NEW x \in Runs, NEW y \in Runs, x # y, run'[x].status \in Active,
             run'[y].status \in Active, NEW t \in Stamps, NEW window \in ClaimWindows,
             Dispatch(x, t, window)
      PROVE  FALSE
  <2>1. run'[y] = run[y]
    BY <1>a, <1>1 DEF Dispatch
  <2>2. Overlaps(x)
    BY <1>1, <2>1 DEF Overlaps
  <2>3. run'[x].status = "skipped"
    BY <1>a, <1>1, <2>2 DEF Dispatch, AbsentRow
  <2> QED BY <1>1, <2>3 DEF Active
<1>2. StatusStep(r) /\ StatusStep(q)
  BY <1>1, QuietStep
<1> QED BY <1>2 DEF StatusStep, SingleActive

\* The overlap policy holds: no path of claims, lost leases, sweeps and
\* access checks leaves two occurrences of the automation in progress.
THEOREM OneRunActive == NobodyCancels => (Spec => []SingleActive)
<1> SUFFICES ASSUME NobodyCancels PROVE Spec => []SingleActive
  OBVIOUS
<1>1. Init => QuietInvariant /\ SingleActive
  BY QuietInit DEF Init, SingleActive, AbsentRow, Active
<1>2. (QuietInvariant /\ SingleActive) /\ [Next]_vars => (QuietInvariant /\ SingleActive)'
  BY QuietNext, SingleActiveStep
<1> QED BY <1>1, <1>2, PTL DEF Spec

\* A receipt that says how a run ended keeps saying so.
THEOREM TerminalStaysTerminal == NobodyCancels => (Spec => TerminalIsFinal)
<1> SUFFICES ASSUME NobodyCancels PROVE Spec => TerminalIsFinal
  OBVIOUS
<1>1. Init => QuietInvariant
  BY QuietInit
<1>2. QuietInvariant /\ [Next]_vars => QuietInvariant'
  BY QuietNext
<1>3. QuietInvariant /\ [Next]_vars =>
        [\A r \in Runs : run[r].status \in Terminal => run'[r].status = run[r].status]_vars
  <2> SUFFICES ASSUME QuietInvariant, [Next]_vars, NEW r \in Runs, run[r].status \in Terminal
               PROVE  run'[r].status = run[r].status
    OBVIOUS
  <2>1. ~ \E t \in Stamps, window \in ClaimWindows : Dispatch(r, t, window)
    BY DEF Dispatch, Terminal
  <2> QED BY <2>1, QuietStep DEF StatusStep, Terminal, Active
<1> QED BY <1>1, <1>2, <1>3, PTL DEF Spec, TerminalIsFinal

-----------------------------------------------------------------------------
(* Leases, with cancellations.  A row that failed has lost its lease for    *)
(* good, so a cancellation that read it then does not take a lease either   *)
(* when it writes the failure back.                                         *)

FailureRead(r) == \E x \in cancelling : x.run = r /\ x.status = "failed"

FailedIsInert == \A r \in Runs : run[r].status = "failed" \/ FailureRead(r) => Inert(r)

\* With one cancellation nothing takes a failure back that it has read.
CancelledOnce == \A c, d \in Cancellations : c = d
FailureStands ==
    CancelledOnce =>
        /\ requests # {} => cancelling = {}
        /\ \A x, y \in cancelling : x = y
        /\ \A r \in Runs : FailureRead(r) => run[r].status # "running"

LeaseInvariant == RetryInvariant /\ FailedIsInert /\ FailureStands

\* How a row fails, starts to run and stops running.
LossStep(r) ==
    /\ run'[r].status = "failed" =>
         run[r].status = "failed" \/ run'[r].lease = NULL \/ FailureRead(r)
    /\ run'[r].status = "running" =>
         run[r].status \in {"running", "queued"} \/ \E x \in cancelling : CancelUpdate(x)
    /\ (run[r].status = "running" /\ run'[r].status \in {"queued", "failed"}
        /\ run'[r].error # "reported")
       => LeaseExpired(run[r], now + MaxSkew) \/ FailureRead(r)

LEMMA LossSteps ==
    ASSUME RetryInvariant, [Next]_vars, NEW r \in Runs
    PROVE  LossStep(r)
<1>a. run \in [Runs -> Row] /\ now \in Nat /\ run[r] \in Row
  BY DEF RetryInvariant, TypeOK
<1>0. ASSUME run'[r].status = run[r].status PROVE LossStep(r)
  BY <1>0 DEF LossStep
<1>1. ASSUME NEW q \in Runs, NEW t \in Stamps, NEW window \in ClaimWindows,
             Dispatch(q, t, window)
      PROVE  LossStep(r)
  <2>1. CASE q = r
    <3>1. run[r].status = "absent" /\ run'[r].status \in {"skipped", "queued"}
      BY <1>1, <1>a, <2>1 DEF Dispatch, AbsentRow
    <3> QED BY <3>1 DEF LossStep
  <2> QED BY <1>0, <1>1, <1>a, <2>1 DEF Dispatch
<1>2. ASSUME run'[r] = run[r] \/ run'[r] = SkippedRow(run[r]) PROVE LossStep(r)
  <2>1. run'[r].status \in {run[r].status, "skipped"}
    BY <1>2, <1>a, RowFields
  <2> QED BY <2>1 DEF LossStep
<1>3. ASSUME NEW w \in Runners, NEW q \in Runs, NEW t \in Stamps, ClaimDesktop(w, q, t)
      PROVE  LossStep(r)
  <2>1. CASE q = r
    <3>1. run[r].status = "queued" /\ run'[r].status = "running"
      BY <1>3, <1>a, <2>1, RowFields, StampsAreTimes DEF ClaimDesktop
    <3> QED BY <3>1 DEF LossStep
  <2> QED BY <1>0, <1>3, <1>a, <2>1 DEF ClaimDesktop
<1>4. ASSUME NEW w \in Runners, NEW q \in Runs, NEW a \in 1 .. MaxAttempts, NEW t \in Stamps,
             \/ HeartbeatDesktop(w, q, a, t)
             \/ \E s \in 1 .. MaxSequence : AppendDesktopEvent(w, q, a, s, t)
      PROVE  LossStep(r)
  <2>1. CASE HeartbeatDesktop(w, q, a, t)
    <3>1. run' = [run EXCEPT ![q].lease = GrantedLease(t)]
      BY <2>1 DEF HeartbeatDesktop
    <3>2. run'[r].status = run[r].status
      BY <1>a, <3>1 DEF Row
    <3> QED BY <1>0, <3>2
  <2>2. ASSUME NEW s \in 1 .. MaxSequence, AppendDesktopEvent(w, q, a, s, t)
        PROVE  LossStep(r)
    <3>1. run' = [run EXCEPT ![q].seq = s]
      BY <2>2 DEF AppendDesktopEvent
    <3>2. run'[r].status = run[r].status
      BY <1>a, <3>1 DEF Row
    <3> QED BY <1>0, <3>2
  <2> QED BY <1>4, <2>1, <2>2
<1>5. ASSUME NEW w \in Runners, NEW q \in Runs, NEW a \in 1 .. MaxAttempts, NEW t \in Stamps,
             NEW status \in {"succeeded", "failed", "cancelled"}, Complete(w, q, a, status, t)
      PROVE  LossStep(r)
  <2>1. CASE q = r
    <3>1. /\ run'[r].status = status /\ run'[r].lease = NULL
          /\ status # "succeeded" => run'[r].error = "reported"
      BY <1>5, <1>a, <2>1 DEF Complete, CompletedRow, Fenced, Row
    <3> QED BY <3>1 DEF LossStep
  <2> QED BY <1>0, <1>5, <1>a, <2>1 DEF Complete
<1>6. ASSUME NEW x \in cancelling, CancelUpdate(x) PROVE LossStep(r)
  <2>1. x.run \in Runs /\ x.status \in Statuses \ {"absent"}
    BY DEF RetryInvariant, TypeOK
  <2>2. CASE x.run = r
    <3>1. run'[r] = CancelledRow(run[r], x.status)
      BY <1>6, <1>a, <2>2 DEF CancelUpdate
    <3>2. run'[r].status = IF x.status = "queued" THEN "cancelled" ELSE x.status
      BY <1>a, <3>1 DEF CancelledRow, Row
    <3>3. run'[r].status \in {"queued", "failed"} => FailureRead(r)
      BY <2>2, <3>2 DEF FailureRead
    <3> QED BY <1>6, <3>3 DEF LossStep
  <2> QED BY <1>0, <1>6, <1>a, <2>1, <2>2 DEF CancelUpdate
<1>7. ASSUME NEW p \in Replicas, RecoverUpdate(p) PROVE LossStep(r)
  <2>1. PICK x \in tick[p].rows :
          run' = IF x.owner # NoOwner /\ StillExpired(run[x.run], x, tick[p].at)
                 THEN [run EXCEPT ![x.run] = RecoveredRow(run[x.run], x)]
                 ELSE run
    BY <1>7 DEF RecoverUpdate, Earliest
  <2>2. x \in Snapshot
    BY <1>a, <2>1 DEF RetryInvariant, TypeOK
  <2>3. CASE x.run = r /\ StillExpired(run[r], x, tick[p].at) /\ x.owner # NoOwner
    <3>1. run[r].lease # NULL /\ run'[r] = RecoveredRow(run[r], x)
      BY <2>1, <2>3, <1>a DEF StillExpired, LeaseExpired
    <3>2. run'[r].lease = NULL /\ run'[r].status \in {"queued", "failed"}
      BY <2>2, <3>1, <1>a, RowFields
    <3>3. tick[p].at \in Nat /\ tick[p].at <= now + MaxSkew /\ run[r].lease \in Times
      BY <1>a DEF RetryInvariant, SweepStamped, TypeOK, Row
    <3>4. LeaseExpired(run[r], now + MaxSkew)
      BY <2>3, <3>1, <3>3, <1>a, SkewAssumption DEF StillExpired, LeaseExpired, Times, NULL
    <3> QED BY <3>2, <3>4 DEF LossStep
  <2>4. CASE ~ (x.run = r /\ StillExpired(run[r], x, tick[p].at) /\ x.owner # NoOwner)
    BY <1>0, <2>1, <2>4, <1>a
  <2> QED BY <2>3, <2>4
<1>8. ASSUME NEW p \in Replicas, ExpireUpdate(p) PROVE LossStep(r)
  <2>1. PICK x \in tick[p].rows :
          run' = IF StillQueued(run[x.run])
                 THEN [run EXCEPT ![x.run] = ExpiredRow(run[x.run])]
                 ELSE run
    BY <1>8 DEF ExpireUpdate, Earliest
  <2>2. run'[r].status \in {run[r].status, "skipped"}
    BY <1>a, <2>1, RowFields
  <2> QED BY <2>2 DEF LossStep
<1>9. ASSUME run' = run PROVE LossStep(r)
  BY <1>0, <1>9
<1>10. ASSUME NEW p \in Replicas,
              (\E t \in Stamps : RecoverSelect(p, t)) \/ ExpireSelect(p) \/ TickEnd(p) \/ TickAbort(p)
       PROVE  LossStep(r)
  BY <1>9, <1>10 DEF RecoverSelect, ExpireSelect, TickEnd, TickAbort
<1>11. ASSUME NEW w \in Runners, NEW q \in Runs, ReclaimDesktop(w, q) PROVE LossStep(r)
  BY <1>9, <1>11 DEF ReclaimDesktop
<1>12. ASSUME NEW q \in Runs, SkipDenied(q) \/ LoseDenied(q) PROVE LossStep(r)
  BY <1>2, <1>12, <1>a DEF SkipDenied, LoseDenied
<1>13. ASSUME NEW g \in gate, PassGate(g) \/ FailGate(g) \/ LoseGate(g) PROVE LossStep(r)
  BY <1>2, <1>13, <1>a DEF PassGate, FailGate, LoseGate
<1>14. ASSUME NEW c \in Cancellations, NEW q \in Runs, CancelSelect(c, q) PROVE LossStep(r)
  BY <1>9, <1>14 DEF CancelSelect
<1>15. ASSUME Clock \/ UNCHANGED vars PROVE LossStep(r)
  BY <1>9, <1>15 DEF Clock, vars
<1> QED
  BY <1>1, <1>3, <1>4, <1>5, <1>6, <1>7, <1>8, <1>10, <1>11, <1>12, <1>13, <1>14, <1>15
     DEF Next, RunnerStep, TickStep

\* What requestCancellation does to what it remembers.
LEMMA CancellingStep ==
    ASSUME [Next]_vars
    PROVE  \/ requests' = requests /\ cancelling' = cancelling
           \/ \E c \in Cancellations, r \in Runs : CancelSelect(c, r)
           \/ \E x \in cancelling : CancelUpdate(x)
<1> DEFINE Same == requests' = requests /\ cancelling' = cancelling
<1>1. ASSUME NEW r \in Runs, NEW t \in Stamps, NEW window \in ClaimWindows, Dispatch(r, t, window)
      PROVE  Same
  BY <1>1 DEF Dispatch
<1>2. ASSUME NEW r \in Runs, SkipDenied(r) \/ LoseDenied(r) PROVE Same
  BY <1>2 DEF SkipDenied, LoseDenied
<1>3. ASSUME NEW w \in Runners, NEW r \in Runs, RunnerStep(w, r) PROVE Same
  BY <1>3 DEF RunnerStep, ClaimDesktop, ReclaimDesktop, HeartbeatDesktop, AppendDesktopEvent,
              Complete
<1>4. ASSUME NEW g \in gate, PassGate(g) \/ FailGate(g) \/ LoseGate(g) PROVE Same
  BY <1>4 DEF PassGate, FailGate, LoseGate
<1>5. ASSUME NEW p \in Replicas, TickStep(p) \/ TickAbort(p) PROVE Same
  BY <1>5 DEF TickStep, RecoverSelect, RecoverUpdate, ExpireSelect, ExpireUpdate, TickEnd, TickAbort
<1>6. CASE Clock \/ UNCHANGED vars
  BY <1>6 DEF Clock, vars
<1> QED BY <1>1, <1>2, <1>3, <1>4, <1>5, <1>6 DEF Next

LEMMA FailureReadStep ==
    ASSUME [Next]_vars, NEW r \in Runs, FailureRead(r)'
    PROVE  run[r].status = "failed" \/ FailureRead(r)
<1>1. CASE cancelling' = cancelling
  BY <1>1 DEF FailureRead
<1>2. ASSUME NEW c \in Cancellations, NEW q \in Runs, CancelSelect(c, q)
      PROVE  run[r].status = "failed" \/ FailureRead(r)
  BY <1>2 DEF CancelSelect, FailureRead
<1>3. ASSUME NEW x \in cancelling, CancelUpdate(x) PROVE FailureRead(r)
  BY <1>3 DEF CancelUpdate, FailureRead
<1> QED BY <1>1, <1>2, <1>3, CancellingStep

LEMMA LeaseInit == Init => LeaseInvariant
BY RetryInit
   DEF Init, LeaseInvariant, FailedIsInert, FailureRead, FailureStands, AbsentRow

LEMMA LeaseNext == LeaseInvariant /\ [Next]_vars => LeaseInvariant'
<1> SUFFICES ASSUME LeaseInvariant, [Next]_vars PROVE LeaseInvariant'
  OBVIOUS
<1>1. RetryInvariant /\ RetryInvariant'
  BY RetryNext DEF LeaseInvariant
<1>2. ASSUME NEW r \in Runs, run[r].status = "failed" \/ FailureRead(r) PROVE Inert(r)'
  <2>1. Inert(r)
    BY <1>2 DEF LeaseInvariant, FailedIsInert
  <2> QED BY <1>1, <2>1, InertStep
<1>3. FailedIsInert'
  <2> SUFFICES ASSUME NEW r \in Runs, run'[r].status = "failed" \/ FailureRead(r)' PROVE Inert(r)'
    BY DEF FailedIsInert
  <2>1. CASE FailureRead(r)'
    BY <1>2, <2>1, FailureReadStep
  <2>2. CASE run'[r].status = "failed"
    <3>1. \/ run[r].status = "failed" \/ FailureRead(r)
          \/ run'[r].lease = NULL
      BY <1>1, <2>2, LossSteps DEF LossStep
    <3>2. CASE run'[r].lease = NULL
      BY <2>2, <3>2 DEF Inert
    <3> QED BY <1>2, <3>1, <3>2
  <2> QED BY <2>1, <2>2
<1>4. FailureStands'
  <2> SUFFICES ASSUME CancelledOnce
               PROVE  /\ requests' # {} => cancelling' = {}
                      /\ \A x, y \in cancelling' : x = y
                      /\ \A r \in Runs : FailureRead(r)' => run'[r].status # "running"
    BY DEF FailureStands, CancelledOnce
  <2>1. /\ requests # {} => cancelling = {}
        /\ \A x, y \in cancelling : x = y
        /\ \A r \in Runs : FailureRead(r) => run[r].status # "running"
    BY DEF LeaseInvariant, FailureStands
  <2>2. CASE requests' = requests /\ cancelling' = cancelling
    <3> SUFFICES ASSUME NEW r \in Runs, FailureRead(r), run'[r].status = "running" PROVE FALSE
      BY <2>1, <2>2 DEF FailureRead
    <3>1. Inert(r) /\ run[r].status # "running" /\ cancelling # {}
      BY <2>1 DEF LeaseInvariant, FailedIsInert, FailureRead
    <3>2. \E x \in cancelling : CancelUpdate(x)
      BY <1>1, <3>1, LossSteps DEF LossStep, Inert
    <3> QED BY <2>2, <3>2 DEF CancelUpdate
  <2>3. ASSUME NEW c \in Cancellations, NEW q \in Runs, CancelSelect(c, q)
        PROVE  /\ requests' = {} /\ run' = run
               /\ cancelling' = {[id |-> c, run |-> q, status |-> run[q].status]}
    <3>1. requests \subseteq Cancellations
      BY <1>1 DEF RetryInvariant, TypeOK
    <3> QED BY <2>1, <2>3, <3>1 DEF CancelSelect, CancelledOnce
  <2>4. CASE \E c \in Cancellations, q \in Runs : CancelSelect(c, q)
    BY <2>3, <2>4 DEF FailureRead
  <2>5. CASE \E x \in cancelling : CancelUpdate(x)
    BY <2>1, <2>5 DEF CancelUpdate, FailureRead
  <2> QED BY <2>2, <2>4, <2>5, CancellingStep
<1> QED BY <1>1, <1>3, <1>4 DEF LeaseInvariant

\* No sweep takes a run from a desktop before its lease has run out, however
\* long the sweep waited between its SELECT and its UPDATE and whatever the
\* skew of its clock, for any number of cancellations: while a row has a
\* lease, nothing but its own expiry makes it wait or fail unreported.
HeldLeaseRespected ==
    [][\A r \in Runs :
         (run[r].lease # NULL /\ run[r].status = "running"
          /\ run'[r].status \in {"queued", "failed"} /\ run'[r].error # "reported")
         => LeaseExpired(run[r], now + MaxSkew)]_vars

\* The sweeps respect every lease a desktop holds, whoever cancels.
THEOREM HeldLeasesAreRespected == Spec => HeldLeaseRespected
<1>1. LeaseInvariant /\ [Next]_vars =>
        [\A r \in Runs :
           (run[r].lease # NULL /\ run[r].status = "running"
            /\ run'[r].status \in {"queued", "failed"} /\ run'[r].error # "reported")
           => LeaseExpired(run[r], now + MaxSkew)]_vars
  <2> SUFFICES ASSUME LeaseInvariant, [Next]_vars, NEW r \in Runs, run[r].lease # NULL,
                      run[r].status = "running", run'[r].status \in {"queued", "failed"},
                      run'[r].error # "reported"
               PROVE  LeaseExpired(run[r], now + MaxSkew)
    OBVIOUS
  <2>1. ~FailureRead(r)
    BY DEF LeaseInvariant, FailedIsInert, Inert
  <2> QED BY <2>1, LossSteps DEF LossStep, LeaseInvariant
<1> QED BY <1>1, LeaseInit, LeaseNext, PTL DEF Spec, HeldLeaseRespected

\* When a run is cancelled once at most, a running row without a lease is
\* not made to wait or fail either: the one cancellation that can leave such
\* a row has been written by then.
THEOREM LeasesAreRespected == CancelledOnce => (Spec => LeaseRespected)
<1> SUFFICES ASSUME CancelledOnce PROVE Spec => LeaseRespected
  OBVIOUS
<1>1. LeaseInvariant /\ [Next]_vars =>
        [\A r \in Runs :
           (run[r].status = "running" /\ run'[r].status \in {"queued", "failed"}
            /\ run'[r].error # "reported")
           => LeaseExpired(run[r], now + MaxSkew)]_vars
  <2> SUFFICES ASSUME LeaseInvariant, [Next]_vars, NEW r \in Runs, run[r].status = "running",
                      run'[r].status \in {"queued", "failed"}, run'[r].error # "reported"
               PROVE  LeaseExpired(run[r], now + MaxSkew)
    OBVIOUS
  <2>1. ~FailureRead(r)
    BY DEF LeaseInvariant, FailureStands
  <2> QED BY <2>1, LossSteps DEF LossStep, LeaseInvariant
<1> QED BY <1>1, LeaseInit, LeaseNext, PTL DEF Spec, LeaseRespected
=============================================================================
