------------------------------ MODULE CloudRuns ------------------------------
(***************************************************************************)
(* Runs that Den executes itself: admission under a global limit, the      *)
(* execution of an agent turn on a native thread of a cloud worker or of a *)
(* saved script, the monitor that renews the lease, recovery by another    *)
(* process through the stored receipt, delivery of events and the result.  *)
(*                                                                         *)
(* Source: ee/apps/den-api/src/automations/service.ts (startCloudRun,      *)
(* executeCloudRun, executeCloudAgentRun), cloud-agent-executor.ts, and    *)
(* the cloud statements of repository.ts.                                  *)
(*                                                                         *)
(* It extends AutomationRuns: rows, sweeps, cancellation and stamps are    *)
(* the same.  The lease owner is a process (its random scheduler id), so   *)
(* Runners and Replicas are the same set and a restarted process is        *)
(* another element.  Each run is of another automation; runs are numbered  *)
(* in the order of their creation.  claim_deadline_at, which the expiry    *)
(* sweep reads of desktop rows only, is NULL here.                         *)
(***************************************************************************)
EXTENDS AutomationRuns

CONSTANTS
    MaxConcurrency       \* env.automations.maxConcurrency

ASSUME CloudAssumption ==
    /\ Replicas = Runners /\ Runs \subseteq Nat /\ IsFiniteSet(Runs)
    /\ MaxConcurrency \in Nat \ {0}

VARIABLES
    exec,        \* cloudExecutions of every process, each with its progress
    receipt,     \* engine_receipt of each run
    thread,      \* native threads on the workers, and the turn they were sent
    scripts,     \* runs whose revision is a saved script
    dead         \* processes that crashed

cloudVars == <<exec, receipt, thread, scripts, dead>>

\* A thread is named by the execution that creates it.
Threads == Runners \X Runs \X (1 .. MaxAttempts)
NoThread == <<>>

\* What becomes of a turn.  Once the thread is idle again Den sees only its
\* messages: a reply without an error, whether the turn ended by itself or
\* the engine lost it half-way (answered) or Den interrupted it (cut), which
\* look the same; a reply with an error (failed).  A turn that is over before
\* there is a reply is waited for like one that goes on (running).
ThreadStates == {"none", "idle", "running", "answered", "cut", "failed"}
Submitted == ThreadStates \ {"none", "idle"}

Stages == {"claim", "access", "read", "prepare", "send", "wait", "stop", "abort", "deliver"}

Execution == [proc : Runners, run : Runs, attempt : Nat, stage : Stages,
              thread : Threads \cup {NoThread}, sent : Nat,
              result : {"none", "succeeded", "failed"}]

Alive == Runners \ dead

-----------------------------------------------------------------------------
(* Starting executions: cloudExecutions of a process has one entry per run  *)
(* and at most MaxConcurrency entries.                                      *)

ForgetsExecution(p, r) == FALSE          \* mutant
HasExecution(p, r) == \E e \in exec : e.proc = p /\ e.run = r

\* startCloudRun for each of rows, in their order.
Started(p, rows) ==
    LET fresh == {r \in rows : ~HasExecution(p, r)}
        room == MaxConcurrency - Cardinality({e \in exec : e.proc = p})
    IN {[proc |-> p, run |-> r, attempt |-> 0, stage |-> "claim", thread |-> NoThread,
         sent |-> 0, result |-> "none"] :
        r \in {r \in fresh : Cardinality({q \in fresh : q < r}) < room}}

\* A scheduled or manual occurrence whose owner has access: the same process
\* starts it at once.  A denied one is Dispatch and SkipDenied.
DispatchCloud(p, r) ==
    /\ Online /\ run[r].status = "absent"
    /\ \A q \in Runs : q < r => run[q].status # "absent"
    /\ run' = [run EXCEPT ![r].status = "queued"]
    /\ exec' = exec \cup Started(p, {r})
    /\ UNCHANGED <<now, events, gate, assigned, requests, cancelling, tick, crashes, denied,
                   receipt, thread, scripts, dead>>

\* The rest of a tick whose recovery is done or found nothing; the expiry
\* sweep selects no cloud row.  listQueuedCloud and the starts are one step:
\* what changes between them only makes the claim of an execution fail.
StartQueued(p) ==
    LET queued == {r \in Runs : run[r].status = "queued"}
        listed == {r \in queued : Cardinality({q \in queued : q < r}) < BatchSize}
    IN /\ tick[p].rows = {}
       /\ exec' = exec \cup Started(p, listed)
       /\ tick' = [tick EXCEPT ![p] = IdleTick]
       /\ UNCHANGED <<now, run, events, gate, assigned, requests, cancelling, crashes, denied,
                      receipt, thread, scripts, dead>>

-----------------------------------------------------------------------------
(* One execution, step by step.                                             *)

Move(e, f) == exec' = (exec \ {e}) \cup {f}
At(e, stage) == [e EXCEPT !.stage = stage]
Over(e) == exec' = exec \ {e}            \* finally: the entry is deleted
SetRow(e, row) == run' = [run EXCEPT ![e.run] = row]

RunKept == UNCHANGED <<now, events, gate, assigned, requests, cancelling, tick, crashes, denied,
                       scripts, dead>>
RowsKept == UNCHANGED run /\ RunKept
WorkerKept == UNCHANGED <<receipt, thread>>

Full(running) == running >= MaxConcurrency

\* claimCloud: admission and the transition share one serializable transaction.
ClaimCloud(e, t) ==
    /\ e.stage = "claim"
    /\ IF run[e.run].status = "queued"
          /\ ~Full(Cardinality({r \in Runs : run[r].status = "running"}))
       THEN /\ SetRow(e, ClaimedRow(run[e.run], e.proc, t))
            /\ Move(e, [At(e, "access") EXCEPT !.attempt = NextAttempt(run[e.run])])
       ELSE Over(e) /\ UNCHANGED run
    /\ RunKept /\ WorkerKept

\* The organization has no access any more: skipRun by id.
DenyAccess(e) ==
    /\ e.stage = "access"
    /\ SetRow(e, SkippedRow(run[e.run])) /\ Over(e)
    /\ RunKept /\ WorkerKept

\* The fence of heartbeatCloud and complete names no attempt.
Owned(e, t) == Fenced(run[e.run], e.proc, run[e.run].attempt, t)
Report(e, status, t) ==
    IF Owned(e, t) THEN SetRow(e, CompletedRow(run[e.run], status)) ELSE UNCHANGED run

\* A saved script, with access: it runs without a monitor, however long it
\* takes, and then reports.
EndScript(e, t) ==
    /\ e.stage = "access" /\ e.run \in scripts
    /\ \E result \in {"succeeded", "failed"} : Report(e, result, t)
    /\ Over(e)
    /\ RunKept /\ WorkerKept

\* The monitor reads the cancellation flag, then renews the lease; a change
\* between the two has the effect it would have after the renewal.
Watched(e, t) == ~run[e.run].cancel /\ Owned(e, t)
Renew(e, t) == SetRow(e, [run[e.run] EXCEPT !.lease = GrantedLease(t)])

\* An agent, with access: refused by its first monitor, it reports the run
\* as cancelled and never gets to the executor.
FirstMonitor(e, t) ==
    /\ e.stage = "access" /\ e.run \notin scripts
    /\ IF Watched(e, t) THEN Renew(e, t) /\ Move(e, At(e, "read"))
       ELSE Report(e, "cancelled", t) /\ Over(e)
    /\ RunKept /\ WorkerKept

\* Once the monitor has aborted, nothing the executor answers is recorded
\* (the loop over the events throws): only the turn is still to be stopped.
Monitor(e, t) ==
    /\ e.stage \in {"read", "prepare", "send", "wait"}
    /\ IF Watched(e, t) THEN Renew(e, t) /\ UNCHANGED exec
       ELSE /\ IF e.stage \in {"send", "wait"} THEN Move(e, At(e, "abort")) ELSE Over(e)
            /\ UNCHANGED run
    /\ RunKept /\ WorkerKept

\* cloudRunState: whoever stored the receipt, as long as the run is running.
ReadReceipt(e) ==
    /\ e.stage = "read"
    /\ Move(e, [At(e, "prepare") EXCEPT
                  !.thread = IF run[e.run].status = "running" THEN receipt[e.run] ELSE NoThread])
    /\ RowsKept /\ WorkerKept

Failed(e) == [At(e, "deliver") EXCEPT !.result = "failed"]

\* No access, no worker, another worker, no connection, or an abort: the
\* executor answers before it touches the thread.
FailEarly(e) ==
    /\ e.stage = "prepare" /\ Move(e, Failed(e))
    /\ RowsKept /\ WorkerKept

AdmitsWhileRunning(e) == run[e.run].status = "running"       \* mutant
Admits(e) == run[e.run].owner = e.proc /\ run[e.run].status = "running"

\* createThread, then setCloudExecution stores the receipt before any work
\* is submitted; when it throws, the new thread stays empty.
Admit(e) ==
    LET th == <<e.proc, e.run, e.attempt>>
    IN /\ e.stage = "prepare" /\ e.thread = NoThread
       /\ IF Admits(e)
          THEN /\ receipt' = [receipt EXCEPT ![e.run] = th]
               /\ thread' = [thread EXCEPT ![th] = "idle"]
               /\ Move(e, [At(e, "send") EXCEPT !.thread = th])
          ELSE Move(e, Failed(e)) /\ WorkerKept
       /\ RowsKept

Adopt(e) ==
    /\ e.stage = "prepare" /\ e.thread # NoThread
    /\ Move(e, At(e, "send"))
    /\ RowsKept /\ WorkerKept

\* Model authority was revoked: a thread found in a receipt is stopped first.
RefuseTurn(e) ==
    /\ e.stage = "send"
    /\ Move(e, IF e.thread[1] = e.proc /\ e.thread[3] = e.attempt
               THEN Failed(e) ELSE At(e, "stop"))
    /\ RowsKept /\ WorkerKept

\* sendTurn: a thread that already has the message is not sent it again.
SendTurn(e) ==
    /\ e.stage = "send"
    /\ thread' = [thread EXCEPT ![e.thread] = IF @ = "idle" THEN "running" ELSE @]
    /\ Move(e, At(e, "wait"))
    /\ RowsKept /\ UNCHANGED receipt

OutcomeIsState(state) == IF state \in {"answered", "cut", "failed"} THEN state ELSE "none" \* mutant
OutcomeWithoutErrors(state) ==                                                            \* mutant
    IF state \in {"answered", "cut", "failed"} THEN "succeeded" ELSE "none"
Outcome(state) ==
    CASE state \in {"answered", "cut"} -> "succeeded"
      [] state = "failed" -> "failed"
      [] OTHER -> "none"

\* waitForThread sees the thread idle with a reply, and exportTranscript
\* reads whether one carries an error: nothing says who ended the turn.  An
\* idle thread without a reply is polled until the deadline.
ObserveTurn(e) ==
    /\ e.stage = "wait" /\ Outcome(thread[e.thread]) # "none"
    /\ Move(e, [At(e, "deliver") EXCEPT !.result = Outcome(thread[e.thread])])
    /\ RowsKept /\ WorkerKept

\* The deadline, or a request that failed.
Interrupt(e) ==
    /\ e.stage \in {"send", "wait"}
    /\ Move(e, At(e, "stop"))
    /\ RowsKept /\ WorkerKept

\* abortAndObserve, on a thread another execution may be waiting for by now;
\* or the stop is not confirmed in time.  The engine may record the
\* interruption as an error of the reply, or leave a reply as it is.
StopTurn(e) ==
    /\ e.stage \in {"stop", "abort"}
    /\ \/ UNCHANGED thread
       \/ /\ thread[e.thread] = "running"
          /\ \E end \in {"failed", "cut"} : thread' = [thread EXCEPT ![e.thread] = end]
    /\ IF e.stage = "stop" THEN Move(e, Failed(e)) ELSE Over(e)
    /\ RowsKept /\ UNCHANGED receipt

\* The monitor runs before each event; an abort throws and leaves the run to
\* recovery.
DeliverEvent(e, t) ==
    LET s == e.sent + 1
    IN /\ e.stage = "deliver" /\ e.sent < MaxSequence
       /\ IF Watched(e, t) /\ Fenced(run[e.run], e.proc, e.attempt, t)
             /\ s = run[e.run].seq + 1
          THEN /\ SetRow(e, [run[e.run] EXCEPT !.lease = GrantedLease(t), !.seq = s])
               /\ events' = events \cup {<<e.run, e.attempt, s>>}
               /\ Move(e, [e EXCEPT !.sent = s])
          ELSE Over(e) /\ UNCHANGED <<run, events>>
       /\ UNCHANGED <<now, gate, assigned, requests, cancelling, tick, crashes, denied,
                      scripts, dead>>
       /\ WorkerKept

CompleteCloud(e, t) ==
    /\ e.stage = "deliver" /\ e.sent = MaxSequence
    /\ Report(e, e.result, t) /\ Over(e)
    /\ RunKept /\ WorkerKept

-----------------------------------------------------------------------------
(* Workers and failures.                                                    *)

\* A turn ends by itself, with or without an error; or the engine loses it
\* and leaves part of a reply.
TurnEnds(th) ==
    /\ thread[th] = "running"
    /\ \E end \in {"answered", "failed"} : thread' = [thread EXCEPT ![th] = end]
    /\ UNCHANGED <<vars, exec, receipt, scripts, dead>>

\* A statement of the execution throws: it is logged and the entry deleted.
Throw(e) ==
    /\ Online /\ crashes < MaxCrashes
    /\ Over(e) /\ crashes' = crashes + 1
    /\ UNCHANGED <<now, run, events, gate, assigned, requests, cancelling, tick, denied,
                   receipt, thread, scripts, dead>>

Crash(p) ==
    /\ Online /\ crashes < MaxCrashes
    /\ dead' = dead \cup {p} /\ crashes' = crashes + 1
    /\ exec' = {e \in exec : e.proc # p}
    /\ tick' = [tick EXCEPT ![p] = IdleTick]
    /\ UNCHANGED <<now, run, events, gate, assigned, requests, cancelling, denied,
                   receipt, thread, scripts>>

\* The modelled time does not end on the very instant a lease does.   (bound)
CloudClock ==
    /\ Clock
    /\ now' = MaxTime => \A r \in Runs : run[r].lease # MaxTime
    /\ UNCHANGED cloudVars

-----------------------------------------------------------------------------
CloudInit ==
    /\ Init
    /\ exec = {} /\ dead = {}
    /\ scripts \in SUBSET Runs
    /\ receipt = [r \in Runs |-> NoThread]
    /\ thread = [th \in Threads |-> "none"]

Sweep(p) ==
    /\ \/ \E t \in Stamps : RecoverSelect(p, t) /\ tick'[p].rows # {}
       \/ RecoverUpdate(p)
    /\ UNCHANGED cloudVars

ExecStep(e) ==
    \/ \E t \in Stamps :
         \/ ClaimCloud(e, t) \/ EndScript(e, t) \/ FirstMonitor(e, t)
         \/ DeliverEvent(e, t) \/ CompleteCloud(e, t)
    \/ DenyAccess(e)
    \/ ReadReceipt(e) \/ FailEarly(e) \/ Admit(e) \/ Adopt(e)
    \/ RefuseTurn(e) \/ SendTurn(e) \/ ObserveTurn(e) \/ Interrupt(e) \/ StopTurn(e)

\* Users cancel while Online.                                         (bound)
UserStep ==
    /\ Online
    /\ \/ \E c \in Cancellations, r \in Runs : CancelSelect(c, r)
       \/ \E x \in cancelling : CancelUpdate(x)
    /\ UNCHANGED cloudVars

ProcessStep(p) ==
    /\ p \in Alive
    /\ \/ Sweep(p) \/ StartQueued(p)
       \/ \E e \in exec : e.proc = p /\ ExecStep(e)

CloudNext ==
    \/ \E p \in Runners : ProcessStep(p)
    \/ \E p \in Alive : \/ \E r \in Runs : DispatchCloud(p, r)
                        \/ TickAbort(p) /\ UNCHANGED cloudVars
                        \/ Crash(p)
    \/ \E e \in exec : Throw(e) \/ \E t \in Stamps : Monitor(e, t)
    \/ \E th \in Threads : TurnEnds(th)
    \/ UserStep \/ CloudClock

cloudSystem == <<vars, cloudVars>>
CloudSpec == CloudInit /\ [][CloudNext]_cloudSystem

\* Processes that live go on: their loop ticks again and every call of an
\* execution has a timeout, the turn a deadline.  Nothing is assumed of the
\* turns, of users or of the monitor.
CloudFairness ==
    WF_cloudSystem(CloudClock) /\ \A p \in Runners : WF_cloudSystem(ProcessStep(p))
CloudFairSpec == CloudSpec /\ CloudFairness

-----------------------------------------------------------------------------
(* Properties.                                                              *)

CloudTypeOK ==
    /\ exec \subseteq Execution
    /\ receipt \in [Runs -> Threads \cup {NoThread}]
    /\ thread \in [Threads -> ThreadStates]
    /\ scripts \subseteq Runs /\ dead \subseteq Runners

\* However often a run is recovered, its instructions are submitted to one
\* native thread only.
TurnOnce ==
    \A x, y \in Threads :
        /\ x[2] = y[2]
        /\ thread[x] \in Submitted /\ thread[y] \in Submitted
        => x = y

\* Admission counts and claims in one transaction: the runs that count
\* against the limit never exceed it, but for those whose status a late
\* cancellation wrote back, which stay marked.
Admitted == {r \in Runs : run[r].status = "running" /\ ~run[r].cancel}
AdmissionBound == Cardinality(Admitted) <= MaxConcurrency

\* The process that owns a run executes the attempt in the table: heartbeats
\* and results, which name no attempt, never belong to an earlier one.
OwnerExecutesItsAttempt ==
    \A e \in exec :
        e.stage # "claim" /\ run[e.run].status = "running" /\ run[e.run].owner = e.proc
        => run[e.run].attempt = e.attempt

\* An agent run succeeds on the turn of its receipt, and only when that
\* turn was answered without an error.  An interrupted turn may pass for one
\* (nobody asks who ended it), but never where the run is still in its first
\* attempt: what an execution interrupts itself it reports as failed.
SuccessIsAnswered ==
    \A r \in Runs \ scripts : run[r].status = "succeeded" =>
        /\ receipt[r] # NoThread
        /\ \/ thread[receipt[r]] = "answered"
           \/ thread[receipt[r]] = "cut" /\ run[r].attempt > 1

\* A row that a late cancellation left running without a lease.
Stranded(r) == run[r].status = "running" /\ run[r].lease = NULL

\* Every cloud run ends, whatever crashes: only a stranded row, which takes
\* a place of the limit for good, can keep another run waiting.
EveryCloudRunEnds ==
    \A r \in Runs :
        run[r].status \in Active ~> (run[r].status \in Terminal \/ \E q \in Runs : Stranded(q))
=============================================================================
