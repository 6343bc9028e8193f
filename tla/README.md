# A TLA+ verification of omnirush automations and cloud workers

This project models the parts of omnirush with the most demanding state: the
automations that Den (`ee/apps/den-api`) schedules, hands to desktops under a
lease or executes itself, recovers when an executor disappears, and lets users
edit, pause, cancel and start by hand at any moment; the desktop's runner; and
the cloud workers on which Den executes. TLC checks the models on small
instances; TLAPS proves the main safety properties for every instance.

## Inventory

The repository is a desktop coding agent (`apps/desktop`, `apps/app`), the local
server it embeds (`apps/server`), the cloud control plane Den (`ee/apps/den-*`)
and shared packages. The parts with protocol state of their own:

| Component | State | Operations | What is hard | What makes it correct |
| --- | --- | --- | --- | --- |
| Automation runs, `automations/repository.ts`, `service.ts` | `automation_run`, `automation_run_event` | dispatch, claim, heartbeat, event, complete, cancel, recover leases, expire | several desktops and several den-api replicas on one row; handlers that read, await and write; lost and repeated calls; clock skew; a crash inside a sweep | attempts exclusive and bounded, leases respected, events gap free, finished runs stay finished, every run ends |
| Automation schedule, same files with `packages/automations` | `automation` row, current revision | create, update, activate, deactivate, archive, Run now, tick, markNeedsAttention, script results | ticks of several replicas against user requests, all writing what they read earlier; outages | each occurrence dispatched once, the latest one kept, the schedule advances, paused automations stay quiet, refusals hit the refused revision only |
| Desktop automation runner, `electron/automation-runner.mjs` | generations, pending configuration, rejected credentials, active assignment | configure, poll, claim, execute, heartbeat, deliver, wake, stop | a credential that is replaced or rejected while requests of an older generation are in flight; delivery that hangs | one execution, rejected credentials stay out, a rotation neither cuts an assignment short nor is lost, polling goes on |
| Leases between desktops and Den | a row's lease, the desktop's misses | claim, heartbeat, cancel, complete | two clocks: the lease ends on Den's, the misses add up on the desktop's | executions stop in time, overlaps are short, only the holder's result counts |
| Cloud execution, `service.ts`, `cloud-agent-executor.ts` | running executions, leases, receipts, native threads | admit, claim, execute, monitor, recover, complete, cancel | another process continues a turn that may or may not have been submitted; the fence names no attempt | a turn is submitted once, results are real and of the right attempt, the limit holds, every run ends |
| Cloud workers, `workers/*.ts`, `routes/workers/shared.ts` | worker row, sandbox | provision, wake, recover, heartbeat, idle stop, reconcile, resolve | a claim without an owner, provider calls that outlive their deadline, crashes that leave a claim behind | one claimant, the row tells the truth, a worker becomes ready again |
| Remote session commands, `remote-sessions/commands.ts` | command rows | enqueue, claim, complete, expire | a second lease protocol | a command is executed at most once |
| Local server: engine pool, approvals, trailing work queue | engines, pending approvals, queued work | start, drain, evict; ask, answer, time out; enqueue, flush | timeouts racing answers, drain racing new work | an answer is used once, latest work is never lost |
| Updater and update gate | staged update | check, download, apply | forced update against running sessions | no update under an active session |
| React application, Den web, gateway, inference proxy, docs, evals | none beyond a request | | | |

### How the parts interact

Every den-api replica runs `startAutomationSchedulerLoop`: `tick`, then a timer,
again and again. A tick takes one timestamp, runs `recoverExpiredLeases` and
`expireUnclaimedDesktop`, starts queued cloud runs, and then, for each automation
`listDue` returns, checks the owner's access and calls `claim`, a transaction that
inserts the run and advances `next_due_at`. A desktop discovers queued runs over
HTTP, claims one, passes a last access check, and then sends heartbeats, events and
a completion, each carrying its attempt number. A cloud run is claimed by a den-api
process instead, which wakes the owner's worker, submits the turn to a native
thread there and observes it. Users act through the same service. All of
them share nothing but MySQL rows, so the questions are about what a statement
written from an earlier read does to a row that changed since.

## Modules

| Module | Contents |
| --- | --- |
| `RunLifecycle` | the abstract life of a run |
| `AutomationRuns` | the runs of one automation, every statement on the desktop path that writes them, and their properties; implements `RunLifecycle` |
| `AutomationSchedule` | one automation row and every statement that writes it, with runs seen only as occurrences |
| `DesktopRunner` | the closure of the desktop's runner, with Den and the local server as their answers |
| `LeasedExecution` | extends `AutomationRuns` with desktops that execute under its leases, in time |
| `CloudRuns` | extends `AutomationRuns` with the executions of den-api processes |
| `WorkerLifecycle` | one cloud worker: its row, its sandbox, and the operations of every replica |
| `AutomationRunsProofs`, `RunLifecycleProofs`, `AutomationScheduleProofs`, `DesktopRunnerProofs`, `LeasedExecutionProofs`, `CloudRunsProofs`, `CloudTurnsProofs`, `WorkerLifecycleProofs` | the theorems; every safety property the runs check is stated by one of them |
| `MC...` | the TLC instances |

The automation modules divide the tables between them. `claim` writes both: its run
half is `Dispatch` in `AutomationRuns` (`DispatchCloud` in `CloudRuns`), its schedule
half `TickClaim` and `RunNowClaim` in `AutomationSchedule`. The rule for the grain of
a step is the same everywhere: a transaction, or one UPDATE with its WHERE clause, is
one action. A handler that awaits between two statements is several actions, and what
it carries across the await is a variable (`cancelling`, `gate`, `denied`, `tick`,
`pending`, `attention`, `artifact`, `exec`, `resolver`, `ops`).

### AutomationRuns

`run` is the table (status, lease owner, lease, attempt count, event counter,
cancel flag, claim deadline, error). `events` is the event table. `gate` holds
claims whose access check is under way; `assigned` every assignment a desktop
ever received. A desktop may use any of those at any later time, any number of
times, which covers delayed, duplicated and reordered calls; a lost call is a
call not made, a lost answer is `LoseGate`.

| Action | Code |
| --- | --- |
| `Dispatch`, `SkipDenied`, `LoseDenied` | `claim`, and the `skipRun` of a tick that was refused access (or died first) |
| `ClaimDesktop`, `ReclaimDesktop` | `claimDesktop`, first claim and re-delivery |
| `PassGate`, `FailGate`, `LoseGate` | the rest of `claimDesktopRunner` |
| `HeartbeatDesktop`, `AppendDesktopEvent`, `Complete` | `heartbeatDesktop`, `appendClaimedEvent`, `complete` |
| `CancelSelect`, `CancelUpdate` | the two statements of `requestCancellation` |
| `RecoverSelect`, `RecoverUpdate` | `recoverExpiredLeases`, SELECT and one UPDATE per row |
| `ExpireSelect`, `ExpireUpdate` | `expireUnclaimedDesktop`, likewise |
| `TickEnd`, `TickAbort` | the loop's next cycle; a crash or an exception inside one |

`MaxSkew` bounds how far the timestamp a handler uses is from the reference clock
when its statement commits. `SkewAssumption` (twice the skew is at most a lease)
is the weakest bound under which the retry limit holds: beyond it one replica can
grant a lease that another already regards as expired, and a retry decision
taken on an old attempt count can be applied to a new attempt. With the default
lease of 60 s that is 30 s of skew and commit delay.

`RunLifecycle` is the abstract specification: a run waits, is attempted by one
holder at a time and at most `MaxAttempts` times, and once over stays over.
`ImplementsLifecycle` maps a row to it by its lease rather than its status (`PhaseOf`),
because a late cancellation may rename the status of a row that a desktop still
works on; with that mapping the refinement holds with cancellations too.

Abstracted: usage, result texts, token hashes, `started_at`, `finished_at`, and
the notification rows, which only wake a desktop earlier than its own polling. The
status `claimed` is in the schema and in several WHERE clauses but no statement
writes it. `heartbeat`, `appendEvent` and `reclaimQueued` of the repository have
no caller and are left out. Only one automation is modelled. Automations meet in the batch
limit of the sweeps; the limit is kept, but as one automation has one active run
at a time, what it does to several automations is not examined.

### AutomationSchedule

`auto` is the row with its current revision's number and schedule, a schedule
being the set of its instants. `tick` is what each replica's tick listed;
`pending` what each user request read. `ReadItem` is taken at the read and used
at the write, which is where the interesting interleavings are. `script` says whether
it is a saved-script cloud automation or a desktop one; it never changes, and `Kinds`
says which of the two an instance starts with.

| Action | Code |
| --- | --- |
| `TickList`, `TickDrop`, `TickClaim`, `TickDeny`, `TickAbort` | the due-automation half of `tick` with `claim` and `skipRun` |
| `Refuse`, `MarkNeedsAttention` | `reconcileModelAttention` and the conditional UPDATE |
| `RunNowRead`, `RunNowClaim`, `RunNowRefuse`, `RunNowRecord` | `runNow`, `claim` (manual), `recordSkippedManual` |
| `SetStateRead`, `SetStateWrite` | `activate`, `deactivate`, `archive` and `setState` |
| `Update` | `update`; an edit that changes nothing is a stutter |
| `RunStart`, `RunRequeue`, `RunExpire`, `RunRefused`, `RunEnd` | the runs, as far as the row depends on them |
| `ArtifactWrite` | the second half of `completeCloud` for a saved script |

`NextOccurrence` is `nextAutomationOccurrence` by its contract, the least instant
strictly after a point; the wall-clock search with time zones and daylight saving
is not modelled. `ClaimDeadline` is `desktopClaimDeadline` in full. The retry
limit and cancellation of runs belong to `AutomationRuns`: here a running run may
be requeued any number of times, which allows more than the code does.

### DesktopRunner

The main process has one thread, so everything between two awaits is one step, and
the operators (`Retire`, `RejectCredential`, `EndAssignment`, ...) are functions from
the closure's state to the state its next await leaves. `gens` holds every generation
`activateConfiguration` made; its `cycle` names the await its `reconcile` is in, its
`probe` the heartbeat in flight.

| Action | Code |
| --- | --- |
| `PollAnswered`, `ClaimAnswered` | `reconcile` |
| `CommandClaimed`, `CommandLost`, `CommandCreated`, `CommandCompleted` | the remote-session branch and `runRemoteSessionCommand` |
| `UserEventStored`, `ThreadFinished`, `ThreadFailed`, `ReportStored` | `runAssignment` |
| `RequestFailed`, `RequestUnauthorized` | `deliver`, `runnerRequest` with `rejectCredential` |
| `Heartbeat...` | `heartbeat`, `heartbeatTick` |
| `LoopTurn`, `Wake`, `Configure`, `Stop` | `connectLoop` and the object that is returned |

A request of a retired generation cannot lead to another one, so it is kept as
`"last"` whatever it was: only a rejection it may still bring matters. The early
return of a second rejection is left out, since what follows it repeats itself. A late
probe never coexists with a new one, because its timeout (8 s) is shorter than
the interval (10 s).

### LeasedExecution

Time passes for desktops too: `HeartbeatInterval`, `HeartbeatTimeout`, `MissLimit` and
`ClaimTimeout` are the runner's constants, and `Tock` does not pass a moment at which a
desktop has to act. `AutomationRuns` alone lets a desktop send any call of any
assignment it ever got, which proves more of Den but says nothing of how long a
desktop goes on; here each desktop is the sequential process the runner is.
`ReclaimDesktop` cannot happen to such a desktop and stays with `AutomationRuns`.
Because of `Tock` timers fire on time, so desktops stay awake here. A machine that
suspends, for which `automation-runner.mjs:186-190`, `576-578` and `711-716` make
provision, is outside of the module: its timers stop while Den's clock goes on.

| Action | Code |
| --- | --- |
| `Claim`, `Assign`, `Refuse`, `GiveUpClaim` | the claim request, its answer, its timeout |
| `HeartbeatReaches`, `HeartbeatRefused`, `HeartbeatAnswered`, `HeartbeatMissed` | a probe, as Den and as the desktop sees it |
| `ThreadEnds`, `Report` | the end of `runAssignment` |

### CloudRuns

The lease owner is a den-api process (its scheduler id is random per process, so a
restarted process is a new one). `exec` is `cloudExecutions` with the progress of each
entry, `receipt` the `engine_receipt` column, `thread` the native threads on the
workers. Sweeps, cancellations and stamps are those of `AutomationRuns`.

| Action | Code |
| --- | --- |
| `DispatchCloud`, `StartQueued` | the cloud halves of `tick`, with `startCloudRun` |
| `ClaimCloud`, `DenyAccess`, `EndScript` | `claimCloud`, `executeCloudRun` |
| `FirstMonitor`, `Monitor`, `ReadReceipt`, `DeliverEvent`, `CompleteCloud` | `executeCloudAgentRun` |
| `FailEarly`, `Admit`, `Adopt`, `RefuseTurn`, `SendTurn`, `ObserveTurn`, `Interrupt`, `StopTurn` | `executeCloudAgent`, `abortAndObserve` |
| `TurnEnds`, `Throw`, `Crash` | the thread engine; exceptions and crashes of a process |

`thread` holds what Den can learn of a turn. The executor decides success with
`waitForThread`, which asks for an idle thread whose first reply carries no error
(`client.ts:280-286`), and with `exportTranscript`, which asks the same of the last
reply (`transcript.ts:75`). Nothing tells it who ended the turn. So a thread that is
idle with a reply without an error is a success whether the turn ended by itself or the
engine lost it half-way (`answered`), or an execution interrupted it (`cut`); `Outcome`
treats these states alike, and only the properties tell them apart. `StopTurn` leaves
open whether the engine records an interruption as an error of the reply (`failed`; the
local server knows it as `MessageAbortedError`, `engine2/shapes.ts:374`) or, as between
two steps of a turn, leaves the finished replies as they are (`cut`). A turn that is over
before there is any reply stays `running`, because the executor waits for both alike.
The local server's `task-recovery.ts:123-126` asks more of a thread: there an idle thread
whose reply has no error is an unfinished turn when the reply was not completed or
ended in tool calls.

The thread engine is external. One thing is assumed of it: it keeps a message that has
an id once, which is what `sendTurn` (a check, then a post) relies on. `queueRetry` is
not modelled: no executor of an agent answers `retryable: true`.

### WorkerLifecycle

`ops` are the operations in progress, each with the process that awaits it; a provider
call whose deadline is over stays in `ops` without anybody (`live` is FALSE) and may
still start the sandbox. `resolver` is what the resolver of each process has read so
far. Time is the age of `updated_at`, cut off once the row is stale.

| Action | Code |
| --- | --- |
| `Check`, `Halt`, `Boot`, `Succeed`, `Insert`, `Fail`, `GiveUp` | `runClaimedCloudWorkerRecovery`, `runCloudProvisioning` and the calls of `daytona.ts` they make |
| `Touch`, `Deadline` | `withProvisioningHeartbeat`, `withProvisionDeadline` |
| `ReserveIdleStop`, `StopSandbox`, `ReportStop` | `stopIdleCloudWorkers` |
| `ListStale`, `Reclaim` | the reconciler |
| `Look`, `Probe`, `Recycle`, `Wake`, `MarkFailed`, `ClaimFailed` | `resolveCloudRuntimeState`, `wakeCloudWorker` |
| `Crash`, `SandboxStops`, `Tick` | crashes, a requested update or the provider, time |

When a claim is made while the same process still has an operation of that kind in
its in-flight map, nothing starts, and the claim waits for the reconciler; `Start`
keeps that. Left out: several rows of one member, the deletion cascade, the
replacement sandbox of a snapshot recycle; and cooldowns between recoveries, the
exclusion of workers with cloud runs from idle stops, and the activity of workers,
which only delay what the model may do. So the model's idle stop comes at more moments
than the code's: that is safe for the properties that hold, and the one counterexample
it appears in is discussed below.

## Runs

| Run | Instance | Shows |
| --- | --- | --- |
| `runs_cancel` | 1 run, 2 desktops, 2 replicas, 1 cancellation, lease 1, 2 events per attempt | `AttemptExclusive`, `EventsGapFree`, `AttemptBound`, `FinishedRunIsInert`, `LeaseRespected`, `ImplementsLifecycle` |
| `runs_ends` | 2 runs of one automation, 1 desktop, 1 replica that crashes once, batch 1, fair | `SingleActive`, `TerminalIsFinal`, `EveryRunEnds` |
| `schedule_users` | 1 replica, 2 user requests of any kind, 2 schedules, a desktop automation and a saved script | `OccurrenceOnce`, `AttentionIsCurrent`, `DormantUnscheduled` |
| `schedule_replicas` | 2 replicas, 3 occurrences, 1 crash, no user, both kinds, fair | `OccurrenceOnce`, `LatestOccurrenceKept`, `ScheduleAdvances` |
| `desktop_runner` | 2 credentials, 3 configure calls, miss limit 2, fair | `RejectedStaysOut`, `OneExecution`, `AssignmentSurvivesRotation`, `LatestConfigurationWins`, `RunnerKeepsPolling` |
| `leased_execution` | 1 run, 2 desktops, 1 replica, 1 cancellation, lease 3, interval 1, timeout 1, miss limit 2, claim timeout 2 | `StopsInTime`, `OverlapIsShort`, `CancelStopsInTime`, `NoResultWhileWorking` |
| `cloud_runs` | 1 run, 2 processes, 1 crash, 1 cancellation, lease 1, fair | `TurnOnce`, `OwnerExecutesItsAttempt`, `SuccessIsAnswered`, `EveryCloudRunEnds` |
| `worker_lifecycle` | 2 replicas, 2 failed calls, 1 fault, 1 crash, fair | `OneOwner`, `HealthyIsReal`, `StoppedIsReal`, `AlwaysReadyAgain` |
| `runs_terminal`, `schedule_run_now`, `schedule_backlog`, `worker_late_failure` | see below | counterexamples |

The type invariants are checked along. Bounds:

- `runs_*`: one run with two desktops and two replicas is enough for a lost lease, a
  second attempt by the other desktop and a sweep by each replica on a stale
  snapshot; two runs of one automation for an overlap. The maximum of two attempts is
  the code's own, and the claim window of 3 is long enough for a run to be claimed,
  lost, swept and claimed again. `Horizon` is the moment after which every desktop is
  offline; `MaxTime` leaves enough time after it for the last lease and the last claim
  window to end and for a tick to see it. Skew is 0 in the runs; the proofs cover it.
  `runs_ends` has one replica, so that two of them do not dispatch beside each other
  rests on the theorem `OneRunActive`, and its times are too short for a second attempt,
  which `runs_cancel` reaches.
- `schedule_*`: two user requests let one request's write fall between another's read
  and write, or either of them overlap a tick; four rows are enough for every claim they
  lead to. Two replicas are in the run without users, where the second one lists what the
  first one claims. Both together are beyond a run of minutes: there the theorems
  (`OccurrencesDispatchedOnce`, `RefusalsAreCurrent`, `DormantStaysUnscheduled`) stand
  for every number of replicas and requests. Three occurrences let two be missed.
- `desktop_runner`: three configure calls make three generations, so that a request of
  a first one can meet a third that uses the same credential again.
- `leased_execution`: the timers keep the order of the real ones (lease longer than
  the claim timeout and than one missed probe, shorter than all misses after a late
  claim), so the overlap does happen. `MaxTime` 8 is beyond the end of a second
  attempt's overlap with the first.
- `cloud_runs`: the first attempt is lost and the second one runs, on either process.
  The loss of the second lease lies beyond `MaxTime`; it is that of `AutomationRuns`,
  and the retry limit is proved for cloud runs. With one run the limit of concurrency
  never bites: admission is proved for every number of runs instead. `TurnOnce` is
  checked with one cancellation; with two it is false (see below).
- `worker_lifecycle`: a fault is a deadline that passes, a stop that fails, a probe
  that does not get through, or a sandbox that stops by itself.

Deadlock is checked where the idle tick or the resolver is always possible. In
`desktop_runner` the desktop may stop for good, and in `leased_execution` time ends
while the desktops wait, so both say `CHECK_DEADLOCK FALSE`. Symmetry is used only in
runs without a liveness property, over desktops, replicas and requests.

Fairness.

- Den: time passes and each replica's loop keeps taking steps. `run` re-arms its timer
  in a `finally` block whatever the cycle did. Crashes are bounded, so a tick is
  completed again and again. Nothing is assumed of desktops, users, access checks or
  the writes that follow them.
- Desktop: every request to Den has a timeout, the thread a deadline, the loop's wait
  a timer. That the local server answers `/workspaces` and `createThread` is an
  assumption, since neither call has a timeout and the assignment's deadline starts
  after them. A lost claim of a remote session (409) polls again at once; that a
  desktop does not lose every one of them to another is the one strong fairness
  condition.
- Cloud: a process that lives goes on, as every call of an execution has a timeout and
  the turn a deadline. Nothing is assumed of the turn itself, of users or of the
  monitor.
- Workers: provider calls have timeouts, the reconciler is an interval, and the member
  keeps asking; nothing is assumed of heartbeats or idle stops, but `Reliable` says
  that an operation in progress writes the row before it is stale (heartbeat 30 s,
  stale after 180 s, a stop at most 120 s).

### What the timed runs mean in seconds

`StopsInTime` bounds by `OverrunBound` how long a desktop executes after the last
lease it was granted: the larger of claim and heartbeat timeout, plus `MissLimit`
times interval and timeout. With the defaults that is 30 + 3 * 18 = 84 s (62 s when
the claim is answered at once), against a lease of 60 s: so two desktops may execute the same run
for up to 24 s, and `OverlapIsShort` says for no longer,
give or take the error of the two stamps involved (that of the grant and that of the
sweep that finds it expired, hence `2 * MaxSkew`). The comment of
`automation-runner.mjs:430-433`, by which a run aborts only after its misses outlast
the lease, holds for probes that time out but not for probes that fail at once:
three of those abort a healthy run after 30 s.

All this is about desktops that do not suspend: `StopsInTime`, `OverlapIsShort` and
`CancelStopsInTime` and their theorems say nothing of a machine that sleeps while it
executes, whose misses do not add up until it is awake again.

### Where code and text disagree

Four runs state what a comment, a test or a document says and end in a
counterexample.

- `runs_terminal` (`NeverReactivated`): `requestCancellation` reads `running`, the
  desktop completes, and the UPDATE by id writes `running` back. The lease stays
  empty, so the run does not execute again (`FinishedRunIsInert` holds), but it
  shows as running, is never swept because it has no lease, and makes every later
  occurrence overlap and be skipped. The same run contains the trace in which a
  sweep selected the row before a cancellation made it terminal and requeues it.
- `schedule_run_now` (`ScheduleAdvances`): Run now overlaps a tick and restores the
  due time the tick had advanced. Every later tick finds a duplicate and returns
  before it advances the schedule, until somebody edits or reactivates the
  automation. An activation that overlaps a tick, with the time at which it was
  requested just before the occurrence, ends the same way.
- `schedule_backlog` (`BacklogNotReplayed`): after an outage a tick dispatches an
  occurrence of which it could see a later one that has come too. `schedule.ts:194` says
  of missed occurrences "Returns at most the latest missed occurrence; older backlog is
  never replayed", `core.test.ts:31` tests it ("bounds missed recovery to one latest
  occurrence"), and the package's `README.md:7-8` counts "bounded missed recovery" among
  the things it owns for Den. But the function they are about,
  `recoverableAutomationOccurrence`, is called by that test alone. `claim` advances from
  the claimed occurrence (`repository.ts:464`), so each of the missed occurrences comes
  up in turn, the oldest first; those that meet a run still active are recorded as
  skipped, the others are dispatched. What code and text agree on is that the latest
  missed occurrence is not lost, and that is the property that is proved
  (`LatestOccurrenceKept`).
- `worker_late_failure` (`OneClaimant`): a provision writes `healthy` and then fails to
  insert its instance; its failure is written over whatever claim was made since, and
  the next claimant works on the sandbox beside the one whose claim was ended.
  `OneOwner` says that this is the only way to two claimants. In TLC's trace the claim in
  between is an idle stop right after the provision. In the code the idle stop also asks
  that `last_active_at` is old, which it is when an idle worker is provisioned again;
  and a resolver that found the sandbox unhealthy makes a claim that leads to the same
  state without waiting.

Seen while modelling, without a run of their own:

- A tick that listed an automation before an edit overwrites the edit's next due time
  with one of the old schedule (`claim` compares the state, not the revision).
- `activate` and script results take an archived automation back to active, although
  `core.test.ts:51` expects that transition to be refused.
- An occurrence that a desktop claimed and lost after the claim deadline is requeued
  and expired in the same tick, with `runner_unavailable` and without the second
  attempt it had left.
- A Run now that overlaps a pause restores the due time of an automation that is now
  inactive, and a script result that reactivates a paused automation leaves it
  active without one.
- Den answers a lost lease with 409, so the runner counts a miss; its test of
  `leaseValid` never sees FALSE. A terminal event that is delivered again takes a new
  sequence number and is refused as a gap when the first one was lost.
- An abort during `createThread` finds no listener yet: a thread the local server
  creates all the same is not aborted.
- A late cancellation can leave a cloud run `running` without a lease. Nothing ever
  ends it, and it keeps a place of `maxConcurrency` for good (`Stranded`).
- A cloud run that is cancelled while it executes is not completed as cancelled by
  its execution, which throws as soon as it delivers.
- An early failure, or the first monitor's cancellation, ends a recovered run while
  the turn of the earlier attempt may go on, although `cloud-agent-executor.ts:518-520`
  says that the run is not ended before its thread has stopped.
- An agent's run can be recorded as succeeded although its turn was cut short. The
  first attempt reaches its deadline, or loses its lease, stops the turn, and dies or loses
  the row before it reports; the second attempt reads the receipt, finds an idle thread
  with a reply that carries no error, and reports success. An old execution that reads
  the receipt late can do the same to the turn of the new attempt. Whether it does
  happen depends on what the engine records of an interruption, on which the executor
  does not insist; `SuccessIsAnswered` says what holds whatever it records. A turn the engine lost half-way
  (a restart of the worker) reads as a success in any attempt.
- Two cancellations of one run can bring its instructions to a second native thread.
  The first one read `queued` after the first attempt was lost, the second one read
  `running` after another process had claimed the run. The first writes `cancelled`,
  so the new execution passes over the receipt (`cloudRunState` returns it only
  for a running row); the second writes `running` back, and the new execution is admitted.
  TLC finds it (21 states) in the `cloud_runs` instance with two cancellations,
  `Horizon` 2 and `MaxTime` 4.
- A saved script runs without heartbeats: when it outlasts its lease, it is recovered
  and executed a second time.
- Without `Reliable`, the reconciler takes over a claim that is still worked on and
  the row may end up wrong, contrary to `provisioning-heartbeat.ts:34-35` ("a missed
  beat only risks an earlier reconcile of a live claim, never a wrong worker status").

## Proofs

`AutomationRunsProofs` holds for any number of runs, desktops, replicas and
cancellations, any lease and any skew within `SkewAssumption`.

- `TypeCorrect`: `TypeOK` is inductive.
- `AttemptsAreBounded`: `AttemptBound` is not inductive, because the sweep decides
  on an attempt count it read earlier. `RetryInvariant` adds that a queued row has
  an attempt left (`QueuedIsFresh`) and that, while the recovery UPDATE would still
  apply, the attempt count of the snapshot is the one in the row
  (`DecisionIsCurrent`): between the two statements only a claim changes the
  count, and it grants a lease that the sweep's timestamp cannot find expired
  (`SweepStamped` and `SkewAssumption`).
- `AttemptsAreExclusive`: nobody holds a future attempt, and whoever holds the
  current attempt of an owned row is its owner (`HoldersFenced`).
- `EventsAreGapFree`: while a row has a lease, its counter is exactly the number of
  events of its attempt (`EventsCounted`); a queued row has no events of the attempt
  to come.
- `FinishedRunsStayInert`: an action property, from `RetryInvariant`.

`RunLifecycleProofs`, in the same generality:

- `RunsImplementLifecycle`: the refinement. A queued row has no lease, a statement
  writes at most one row (`OneRow`), and each way of writing it is a step of the
  abstract run or none (`PhaseStep`).
- `OneRunActive`, `TerminalStaysTerminal`: assuming that nobody cancels, from the
  invariant that only running rows have leases. With cancellations both are false
  (`runs_terminal`).
- `HeldLeasesAreRespected`, for any number of cancellations: while a row has a lease,
  nothing but its expiry sends the run back to the queue or fails it unreported. What
  could is a cancellation that writes back a `failed` it read; `FailedIsInert` says
  that a row that failed, or was read as failed, has lost its lease for good.
- `LeasesAreRespected`: `LeaseRespected` also speaks of running rows without a lease,
  so it needs that the run is cancelled at most once (`CancelledOnce`, as in the run
  that checks it): then a row does not run again while the one UPDATE that could
  write a failure back is outstanding (`FailureStands`). Two cancellations can write
  `running` and then `failed` over a row that has failed.

`AutomationScheduleProofs` holds for any schedules, replicas, users and windows.
Its lemmas say what `NextOccurrence` returns (`NextOccurrenceIsLeast`, by
well-foundedness of the naturals) and where `ClaimDeadline` lies
(`ClaimDeadlineBounds`: never before the minimum window, never after the
requested one).

- `ScheduleTypeCorrect`.
- `OccurrencesDispatchedOnce`: with the strengthening that a row nobody inserted has
  no occurrence. It rests on `SlotStep`: a step changes the occurrence of at most
  one row, and only a claim of an occurrence without a run does.
- `RefusalsAreCurrent`, an action property of desktop automations: only they are
  excluded from script results (`artifact` stays empty), which set `needs_attention`
  unconditionally.
- `DormantStaysUnscheduled`, an action property from the types alone: each statement
  that writes the row either needs it active, makes it active, clears the due time, or is
  the claim of a manual run.
- `LatestOccurrenceIsKept`, without users: everything before the next due time, and
  before the occurrence a tick is about to claim, has a run (`GapInvariant`). With users
  it is false, as an edit or an activation schedules from the clock.

`DesktopRunnerProofs` holds for any credentials, any miss limit and any number of
configure calls. Each operator takes a good state of the closure to a good one. `Good`
says that every generation has its shape and is `Sound` (its misses fit its heartbeats;
once retired, what it still does leads nowhere), that the generation which has not
retired is the current one and there is none after a stop (`Alone`, `Awake`), and that
no rejected credential is in use or waiting (`Clean`).

- `RunnerTyped`: `TypeOK` alone is not inductive, since a heartbeat that is missed at
  the limit would exceed it; `Sound` says that a run at its limit has been aborted and
  sends none.
- `RejectedCredentialsStayOut`: a rejection passes through states that are not good,
  so `RejectGood` follows it from its first statement to its last.
- `OneAssignmentExecutes`: an execution that is not aborted belongs to a generation
  that has not retired, and there is one of these.
- `RotationsWait`, an action property: `Moves` relates the closure before and after a
  step, says which generations a step may touch, and composes over the operators of
  a step. Only a rejection, a sign-out and a stop retire a generation at work.

`LeasedExecutionProofs` holds for any number of runs, desktops and replicas, any
interval, timeouts, miss limit and lease, and any skew within `SkewAssumption`.

- `SystemImplementsRuns`: a step of the composed system is a step of `AutomationRuns`
  or leaves the table alone, so the invariants of `AutomationRunsProofs` hold of it.
  `DesksTyped` comes with it (`DesksInvariant`: every desktop that is not idle is
  about an attempt that has begun and, once it works, was assigned).
- `DesktopsStopInTime`: `Timed` keeps, beside the time of the last grant, the start of
  the heartbeat round in progress: a desktop has heard of a grant, or started, at most
  as many rounds ago as it has misses, plus the time an answer takes. Every other
  desktop only waits in a step (`DeskWaits`), and time does not pass an overdue one.
- `CancellationsStopDesktops`: from the recorded cancellation on, every heartbeat Den
  accepts is answered with the flag of the row, so the same count of rounds starts at
  the cancellation (`CancelTimed`).
- `OverlapsAreShort`: the lease in the table is the one the desktop was granted, up to
  the error of the stamp (`GrantInTable`); when the attempt is over, it was found
  expired, up to the error of the sweep's stamp (`GrantExpired`); so it was before
  the next claim (`ClaimedAfter`).
- `NoEarlyResult`: a success takes the lease away for good (`SuccessIsOver`), while a
  desktop that works on the current attempt, or is about to, finds the row not
  succeeded unless it reported that itself (`Unreported`).

`CloudRunsProofs`, for any number of runs, processes and cancellations and any limit:

- `OwnersExecuteTheirAttempt`: a process has at most one execution of a run
  (`OneExecutionEach`), and the execution of the process a row names is of the attempt
  in the row (`OwnersAttempt`), because only a claim brings a process into a row and a
  process claims only in an execution that is new. This is why completions without an
  attempt are safe.
- `CloudAttemptsAreBounded` and `CloudTypesCorrect`, from the same invariant; the sweeps
  and cancellations reuse the lemmas of `AutomationRunsProofs`.
- `AdmissionIsBounded`: a step admits at most the one run whose claim just found room.

`CloudTurnsProofs`, in the same generality:

- `SuccessesAreAnswered`: an execution delivers a success only for a thread that has
  replied without an error (`ResultEarned`), and the process the row names works on the
  thread of the receipt (`OnReceipt`). `Closed` keeps it true afterwards: a row that
  succeeded, or that a cancellation read as succeeded and will write back, has no lease
  and no owner at work, so nothing claims it or gives it another receipt. That the turn
  of a first attempt was not cut short needs more. In its first attempt a run has one
  execution at work (`Alone`), and none once it is done (`Settled`); only an execution at
  work interrupts a turn, and from then on it has nothing but a failure to report
  (`Interrupts`, `GivenUp`), so a run whose turn was cut is not done (`Uncut`). From the
  second attempt on none of this holds: two executions, of two processes, may be at work
  on one thread.
- `TurnsAreSubmittedOnce` and `OneTurnPerRun`: every thread that exists is the one of
  the receipt (`ThreadStored`), because an owner about to create one has read that
  there is no receipt (`NoReceiptYet`), and between the read and the admission only
  the owner writes it. The exception is a row whose status a cancellation wrote under
  its owner (`OwnerRuns`). With one cancellation (`Once`) the row then stays
  cancelled, so nothing is admitted, and `TurnOnce` holds; with more, a second thread
  remains possible, but only for a run that was cancelled.

`WorkerLifecycleProofs` holds for any number of replicas, failures, faults and
crashes and any staleness.

- `WorkerTypesCorrect`: `StagesFit` and the shapes, without further hypothesis.
- `ClaimsHaveOneOwner`, under `Reliable`. The claim names no owner, so the invariant
  says what stands behind it: `ClaimOwned`, there is at most one operation somebody
  awaits that has not written its result, and while there is one the row says
  `provisioning`; `ListedUnowned`, a reconciler finds a claim stale only when nobody
  works under it. A late failure (`unrecorded`) is the one exception.
- `HealthyWorkersRun`, `StoppedWorkersRest`, under `Reliable`: as long as no deadline
  and no stop failed, the sandbox is where the operation behind the claim or the row
  says (`SandboxKnown`).

`Reliable` is a constant the code does not guarantee: it says that an operation in
progress writes the row before it is stale, which heartbeats do unless they fail for
180 s or, during a stop, which sends none, the stop outlasts its 120 s. Without it
`OneOwner` is false (see above), so the theorems name it as their hypothesis.

Model-checked only: the liveness properties `EveryRunEnds`, `ScheduleAdvances`,
`LatestConfigurationWins`, `RunnerKeepsPolling`, `EveryCloudRunEnds` and
`AlwaysReadyAgain`, which are out of the prover's reach. Every invariant and every action
property of the passing runs is proved. The inductive invariants were checked with TLC
before they were proved. No module declares a recursive operator.

## Not modelled

- Den's side of remote session commands: claim, complete and expire of command rows, a
  simpler lease protocol than that of runs. The desktop's side is in `DesktopRunner`.
- Several automations at once: the batch limit of the sweeps is kept, but as one
  automation has one active run at a time, what it does to several is not examined.
- The notification cursor table, which only wakes a desktop earlier than its polling;
  token verification and access policy, whose outcomes are nondeterministic here.
- Worker rows other than one: creation races, deletion, replacement sandboxes.
- The local server's engine pool, approvals and trailing work queue, and the updater:
  state inside one process, small enough for tests, except the engine pool, which
  would deserve a module of its own.
- The wall-clock calendar (time zones, daylight saving), rendering, HTTP routing, token
  formats, generated clients, and the external model providers and hosts.
