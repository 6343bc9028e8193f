--------------------------- MODULE WorkerLifecycle ---------------------------
(***************************************************************************)
(* The life of one cloud worker: its row in the worker table, whose status *)
(* is the only claim between replicas and names no owner; provisioning,    *)
(* wake-up and recovery under a heartbeat and a deadline; the idle stop;   *)
(* the reconciler of stale claims; and the resolver that every request of  *)
(* a member runs and that heals what it finds.                             *)
(*                                                                         *)
(* Source: ee/apps/den-api/src/workers/cloud-lifecycle.ts, reconciler.ts,  *)
(* provisioning-heartbeat.ts, provision-deadline.ts, worker-access.ts and  *)
(* routes/workers/shared.ts.  The sandbox provider is external.            *)
(*                                                                         *)
(* Time is the age of updated_at, cut off when the row is stale, so there  *)
(* is no end of the clock.  A crash loses what a process holds in memory;  *)
(* the process then goes on as a new one.                                  *)
(***************************************************************************)
EXTENDS Naturals, FiniteSets

CONSTANTS
    Replicas,       \* den-api processes
    Creator,        \* the one that inserted the row
    Stale,          \* WORKER_PROVISIONING_RECONCILE_STALE_MS
    Reliable,       \* TRUE: no operation in progress leaves the row unwritten that long
    MaxFailures,    \* provider calls that fail                       (bound)
    MaxFaults,      \* see faults                                     (bound)
    MaxCrashes      \* process crashes                                (bound)

ASSUME WorkerAssumption ==
    /\ Creator \in Replicas /\ Reliable \in BOOLEAN
    /\ Stale \in Nat \ {0}
    /\ MaxFailures \in Nat /\ MaxFaults \in Nat /\ MaxCrashes \in Nat

VARIABLES
    status,     \* worker.status
    age,        \* time since worker.updated_at
    listed,     \* reconcilers that selected the row as it is now
    ops,        \* operations in progress, and provider calls nobody waits for
    resolver,   \* what the resolver of each process read
    vm,         \* the sandbox
    failures, crashes,
    faults,     \* deadlines, failed stops, stops and outages outside of Den's control
    unrecorded  \* history: a provision failed after it had written its success

workerVars == <<status, age, listed, ops, resolver, vm, failures, crashes, faults, unrecorded>>
budgets == <<failures, crashes, faults, unrecorded>>

Statuses == {"provisioning", "healthy", "failed", "stopped"}

Stages == {"check", "call", "boot", "booted", "insert", "halted", "failed"}

\* live: somebody awaits the operation; otherwise its deadline is over.
Operation == [proc : Replicas, kind : {"provision", "recover", "stop"}, stage : Stages,
              live : BOOLEAN]

Busy(p, kind) == \E o \in ops : o.proc = p /\ o.kind = kind /\ o.live
Op(p, kind, stage) == [proc |-> p, kind |-> kind, stage |-> stage, live |-> TRUE]

-----------------------------------------------------------------------------
(* Writing the row.  Every change of it moves updated_at, and with that it  *)
(* is no longer the row a reconciler selected.                              *)

Touched == age' = 0 /\ listed' = {}
RowKept == UNCHANGED <<status, age, listed>>

\* UPDATE ... SET status = to WHERE status IN from
Write(from, to) ==
    IF status \in from THEN status' = to /\ Touched ELSE RowKept

\* The conditional update that claims the worker.
Claims(from) == status \in from
ClaimRow == status' = "provisioning" /\ Touched

To(o, stage) == ops' = (ops \ {o}) \cup {[o EXCEPT !.stage = stage]}
Done(o) == ops' = ops \ {o}

-----------------------------------------------------------------------------
(* Provisioning and recovery.                                               *)

\* runWorkerRecoveryOnce, continueCloudProvisioning: a process that is busy
\* with such an operation starts no second one, whoever made the claim.
Start(p, kind, stage) ==
    ops' = IF Busy(p, kind) THEN ops ELSE ops \cup {Op(p, kind, stage)}

\* runClaimedCloudWorkerRecovery reads the row again.
Check(o) ==
    /\ o.stage = "check"
    /\ IF status = "provisioning" THEN To(o, "call") ELSE Done(o)
    /\ RowKept /\ UNCHANGED <<resolver, vm, budgets>>

\* Wake, adopt or create: a sandbox that runs is stopped first.
Halt(o) ==
    /\ o.kind # "stop" /\ o.stage = "call"
    /\ vm' = IF vm = "none" THEN "none" ELSE "stopped"
    /\ To(o, "boot")
    /\ RowKept /\ UNCHANGED <<resolver, budgets>>

\* It starts, its server answers and the sandbox is recorded.
Boot(o) ==
    /\ o.stage = "boot"
    /\ vm' = "running"
    /\ IF o.live THEN To(o, "booted") ELSE Done(o)
    /\ RowKept /\ UNCHANGED <<resolver, budgets>>

\* A provider call, the entitlement check or a token lookup fails.
Fail(o) ==
    /\ o.kind # "stop" /\ o.stage \in {"call", "boot", "insert"} /\ failures < MaxFailures
    /\ failures' = failures + 1 /\ unrecorded' = (unrecorded \/ o.stage = "insert")
    /\ IF o.live THEN To(o, "failed") ELSE Done(o)
    /\ RowKept /\ UNCHANGED <<resolver, vm, crashes, faults>>

\* withProvisionDeadline gives up waiting; the provider call goes on.
Deadline(o) ==
    /\ o.kind # "stop" /\ o.stage \in {"call", "boot"} /\ o.live /\ faults < MaxFaults
    /\ faults' = faults + 1
    /\ ops' = (ops \ {o}) \cup {[o EXCEPT !.stage = "failed"], [o EXCEPT !.live = FALSE]}
    /\ RowKept /\ UNCHANGED <<resolver, vm, failures, crashes, unrecorded>>

\* A provision may overwrite a failure, a recovery only its claim.
SuccessWritable(kind) ==
    IF kind = "provision" THEN {"provisioning", "failed"} ELSE {"provisioning"}

Succeed(o) ==
    /\ o.kind # "stop" /\ o.stage = "booted"
    /\ Write(SuccessWritable(o.kind), "healthy")
    /\ IF o.kind = "provision" THEN To(o, "insert") ELSE Done(o)
    /\ UNCHANGED <<resolver, vm, budgets>>

\* insertWorkerInstance, after the status: when it fails, Fail.
Insert(o) ==
    /\ o.stage = "insert" /\ Done(o)
    /\ RowKept /\ UNCHANGED <<resolver, vm, budgets>>

GiveUp(o) ==
    /\ o.kind # "stop" /\ o.stage = "failed"
    /\ Write({"provisioning"}, "failed") /\ Done(o)
    /\ UNCHANGED <<resolver, vm, budgets>>

\* withProvisioningHeartbeat
Beats(o) == o.live /\ o.kind # "stop" /\ o.stage \in {"call", "boot", "booted", "insert"}
Touch(o) ==
    /\ Beats(o) /\ status = "provisioning" /\ age > 0
    /\ Touched
    /\ UNCHANGED <<status, ops, resolver, vm, budgets>>

-----------------------------------------------------------------------------
(* The idle stop: it claims a healthy row, and writes no heartbeat.         *)

Idle == {"healthy"}
\* The code asks besides that the worker has been idle long enough and has no
\* cloud run: here the stop may come whenever the row is healthy, which is
\* more often than it does.
ReserveIdleStop(p) ==
    /\ ~Busy(p, "stop") /\ Claims(Idle)
    /\ ClaimRow
    /\ ops' = ops \cup {Op(p, "stop", "call")}
    /\ UNCHANGED <<resolver, vm, budgets>>

StopSandbox(o) ==
    /\ o.kind = "stop" /\ o.stage = "call"
    /\ \/ /\ vm' = IF vm = "none" THEN "none" ELSE "stopped"
          /\ To(o, "halted") /\ UNCHANGED faults
       \/ /\ vm' \in {vm, IF vm = "none" THEN "none" ELSE "stopped"}
          /\ faults < MaxFaults /\ faults' = faults + 1
          /\ To(o, "failed")
    /\ RowKept /\ UNCHANGED <<resolver, failures, crashes, unrecorded>>

AfterFailedStop == "healthy"
ReportStop(o) ==
    /\ o.kind = "stop" /\ o.stage \in {"halted", "failed"}
    /\ Write({"provisioning"}, IF o.stage = "halted" THEN "stopped" ELSE AfterFailedStop)
    /\ Done(o)
    /\ UNCHANGED <<resolver, vm, budgets>>

-----------------------------------------------------------------------------
(* The reconciler: select stale claims, then claim each with the updated_at *)
(* that was read.                                                           *)

NeverStale(a) == FALSE                      \* mutant
IsStale(a) == a > Stale

ListStale(p) ==
    /\ status = "provisioning" /\ IsStale(age) /\ p \notin listed
    /\ listed' = listed \cup {p}
    /\ UNCHANGED <<status, age, ops, resolver, vm, budgets>>

ReclaimKeepsUpdatedAt == UNCHANGED <<age, listed>>        \* mutant
Reclaimed == Touched

Reclaim(p) ==
    /\ p \in listed
    /\ Reclaimed /\ UNCHANGED status
    /\ Start(p, "provision", "call")
    /\ UNCHANGED <<resolver, vm, budgets>>

-----------------------------------------------------------------------------
(* The resolver: a row is read, the sandbox is probed, and the claim comes  *)
(* after both.  A provisioning row is only reported.                        *)

Found(p, what) == resolver' = [resolver EXCEPT ![p] = what]

Look(p) ==
    /\ resolver[p] = "none"
    /\ IF status = "provisioning" THEN UNCHANGED resolver ELSE Found(p, status)
    /\ RowKept /\ UNCHANGED <<ops, vm, budgets>>

\* A sandbox that answers is ready; one that does not is inspected.
Probe(p) ==
    /\ resolver[p] = "healthy"
    /\ \/ /\ Found(p, CASE vm = "running" -> "none"
                        [] vm = "stopped" -> "halted"
                        [] OTHER -> "lost")
          /\ UNCHANGED faults
       \/ /\ faults < MaxFaults /\ faults' = faults + 1
          /\ Found(p, "lost")
    /\ RowKept /\ UNCHANGED <<ops, vm, failures, crashes, unrecorded>>

RecyclesAnything == Statuses                \* mutant
Recyclable == {"healthy", "stopped"}

ClaimAndRecover(p, from) ==
    IF Claims(from) THEN ClaimRow /\ Start(p, "recover", "check")
    ELSE RowKept /\ UNCHANGED ops

\* The sandbox was stopped: claimRecycleWorker.  Also for a stopped row,
\* when its sandbox is stopped and not of the latest snapshot.
Recycle(p) ==
    /\ resolver[p] = "halted" \/ (resolver[p] = "stopped" /\ vm = "stopped")
    /\ ClaimAndRecover(p, Recyclable)
    /\ Found(p, "none")
    /\ UNCHANGED <<vm, budgets>>

\* wakeCloudWorker: a process that recovers the worker already makes no claim.
Wake(p) ==
    /\ resolver[p] = "stopped"
    /\ IF Busy(p, "recover") THEN RowKept /\ UNCHANGED ops
       ELSE ClaimAndRecover(p, {"stopped"})
    /\ Found(p, "none")
    /\ UNCHANGED <<vm, budgets>>

\* markHealthyWorkerFailed, then the claim of a failed worker.
MarkFailed(p) ==
    /\ resolver[p] = "lost"
    /\ Write({"healthy"}, "failed")
    /\ Found(p, "failed")
    /\ UNCHANGED <<ops, vm, budgets>>

ClaimFailed(p) ==
    /\ resolver[p] = "failed"
    /\ ClaimAndRecover(p, {"failed"})
    /\ Found(p, "none")
    /\ UNCHANGED <<vm, budgets>>

-----------------------------------------------------------------------------
(* The environment.                                                         *)

Crash(p) ==
    /\ crashes < MaxCrashes /\ crashes' = crashes + 1
    /\ ops' = {o \in ops : o.proc # p}
    /\ listed' = listed \ {p} /\ Found(p, "none")
    /\ UNCHANGED <<status, age, vm, failures, faults, unrecorded>>

\* The member asks for an update, which stops the sandbox and leaves the row
\* alone; or the provider stops it.
SandboxStops ==
    /\ vm = "running" /\ faults < MaxFaults
    /\ vm' = "stopped" /\ faults' = faults + 1
    /\ RowKept /\ UNCHANGED <<ops, resolver, failures, crashes, unrecorded>>

OlderForEver(a) == a + 1                    \* mutant
Older(a) == IF a > Stale THEN a ELSE a + 1

\* Heartbeats come several times before the row is stale, and a stop has a
\* shorter timeout.
Tick ==
    /\ Reliable /\ status = "provisioning" /\ (\E o \in ops : o.live) => age < Stale
    /\ age' = Older(age) /\ age' # age
    /\ UNCHANGED <<status, listed, ops, resolver, vm, budgets>>

-----------------------------------------------------------------------------
WorkerInit ==
    /\ status = "provisioning" /\ age = 0 /\ listed = {} /\ vm = "none"
    /\ ops = {Op(Creator, "provision", "call")}
    /\ resolver = [p \in Replicas |-> "none"]
    /\ failures = 0 /\ crashes = 0 /\ faults = 0 /\ unrecorded = FALSE

Progress(o) ==
    \/ Check(o) \/ Halt(o) \/ Boot(o) \/ Succeed(o) \/ Insert(o) \/ GiveUp(o)
    \/ StopSandbox(o) \/ ReportStop(o)
Advance(p) == \E o \in ops : o.proc = p /\ Progress(o)
Reconcile(p) == ListStale(p) \/ Reclaim(p)
Resolve(p) ==
    Look(p) \/ Probe(p) \/ Recycle(p) \/ Wake(p) \/ MarkFailed(p) \/ ClaimFailed(p)

WorkerNext ==
    \/ \E p \in Replicas :
         Advance(p) \/ Reconcile(p) \/ Resolve(p) \/ ReserveIdleStop(p) \/ Crash(p)
    \/ \E o \in ops : Fail(o) \/ Deadline(o) \/ Touch(o)
    \/ SandboxStops \/ Tick

WorkerSpec == WorkerInit /\ [][WorkerNext]_workerVars

\* Every call of an operation has a timeout, the reconciler of a replica
\* that lives runs again and again, and the member keeps asking.  Nothing is
\* assumed of heartbeats or of the idle stop.
WorkerFairness ==
    /\ WF_workerVars(Tick)
    /\ \A p \in Replicas :
         WF_workerVars(Advance(p)) /\ WF_workerVars(Reconcile(p)) /\ WF_workerVars(Resolve(p))
WorkerFairSpec == WorkerSpec /\ WorkerFairness

-----------------------------------------------------------------------------
(* Properties.                                                              *)

\* Every variable keeps the shape of the row, the maps or the provider.
WorkerTypeOK ==
    /\ status \in Statuses /\ age \in 0 .. (Stale + 1)
    /\ listed \subseteq Replicas /\ ops \subseteq Operation
    /\ resolver \in [Replicas -> Statuses \cup {"none", "halted", "lost"}]
    /\ vm \in {"none", "stopped", "running"}
    /\ failures \in 0 .. MaxFailures /\ crashes \in 0 .. MaxCrashes /\ faults \in 0 .. MaxFaults
    /\ unrecorded \in BOOLEAN

\* Only the claimant acts on the sandbox, although no claim names its owner.
OneClaimant ==
    \A x, y \in ops :
        /\ x.live /\ x.stage \in {"call", "boot"}
        /\ y.live /\ y.stage \in {"call", "boot"}
        => x = y

\* So it is, except after a provision that could not record its instance: it
\* marks the worker failed when its claim is over, and so ends another's.
OneOwner == ~unrecorded => OneClaimant

Quiet == ops = {} /\ faults = 0 /\ ~unrecorded

\* What the row says of the sandbox is true once nothing is in progress, as
\* long as every stop and every deadline was kept and every instance recorded.
HealthyIsReal == Quiet /\ status = "healthy" => vm = "running"
StoppedIsReal == Quiet /\ status = "stopped" => vm # "running"

\* A member who keeps asking always gets a running sandbox again: no claim
\* stays without anybody who works on it.
AlwaysReadyAgain == <>unrecorded \/ []<>(status = "healthy" /\ vm = "running")
=============================================================================
