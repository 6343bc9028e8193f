----------------------- MODULE WorkerLifecycleProofs ------------------------
(***************************************************************************)
(* The claim on a worker names no owner; still, as long as heartbeats      *)
(* reach the row in time and no provision fails after it has written its   *)
(* success, one operation at a time acts under it, and what the row says   *)
(* of the sandbox is true.  For any number of replicas, any staleness and  *)
(* any number of failures and crashes.                                     *)
(***************************************************************************)
EXTENDS WorkerLifecycle, TLAPS

-----------------------------------------------------------------------------
(* The inductive invariant.                                                 *)

\* What stands behind the claim: an operation somebody awaits that has not
\* written its result yet.
Owners == {o \in ops : o.live /\ o.stage # "insert"}

\* An idle stop neither checks nor boots, and nothing else halts.  Only a
\* deadline leaves a provider call without anybody who waits for it, and
\* only a fault makes an idle stop fail.
StagesFit ==
    \A o \in ops :
        /\ o.kind = "stop" => o.stage \in {"call", "halted", "failed"}
        /\ o.kind # "stop" => o.stage # "halted"
        /\ ~o.live => o.stage \in {"call", "boot"} /\ o.kind # "stop" /\ faults # 0
        /\ o.kind = "stop" /\ o.stage = "failed" => faults # 0

\* A reconciler finds a claim stale only when nobody works under it.
ListedUnowned ==
    /\ listed # {} => status = "provisioning"
    /\ status = "provisioning" /\ (\E o \in ops : o.live) => age <= Stale /\ listed = {}

\* The row says provisioning while somebody stands behind the claim, and
\* that is one operation.
ClaimOwned ==
    ~unrecorded =>
        /\ \A x, y \in Owners : x = y
        /\ Owners # {} => status = "provisioning"

\* As long as no stop and no deadline was missed, the sandbox is where the
\* operation behind the claim, or the row, says it is.
SandboxKnown ==
    faults = 0 /\ ~unrecorded =>
        /\ status = "healthy" => vm = "running"
        /\ status = "stopped" => vm # "running"
        /\ \A o \in ops : /\ o.stage = "booted" => vm = "running"
                          /\ o.stage = "halted" => vm # "running"

WorkerShape == WorkerTypeOK /\ StagesFit
WorkerInvariant == WorkerShape /\ ListedUnowned /\ ClaimOwned /\ SandboxKnown

-----------------------------------------------------------------------------
(* Shapes.                                                                  *)

LEMMA Restaged ==
    ASSUME NEW o \in Operation, NEW s \in Stages
    PROVE  /\ [o EXCEPT !.stage = s] \in Operation
           /\ [o EXCEPT !.stage = s].stage = s /\ [o EXCEPT !.stage = s].kind = o.kind
           /\ [o EXCEPT !.stage = s].live = o.live /\ [o EXCEPT !.stage = s].proc = o.proc
BY DEF Operation

LEMMA NewOperation ==
    ASSUME NEW p \in Replicas, NEW kind \in {"provision", "recover", "stop"}, NEW s \in Stages
    PROVE  /\ Op(p, kind, s) \in Operation /\ Op(p, kind, s).stage = s
           /\ Op(p, kind, s).kind = kind /\ Op(p, kind, s).live /\ Op(p, kind, s).proc = p
BY DEF Op, Operation

\* An operation that goes on to a stage of its kind, or ends.
LEMMA ShapeAdvance ==
    ASSUME WorkerShape, NEW o \in ops, faults' \in Nat, faults' >= faults,
           \/ Done(o)
           \/ \E s \in Stages :
                /\ To(o, s)
                /\ o.kind = "stop" => s \in {"halted", "failed"}
                /\ o.kind # "stop" => s # "halted"
                /\ ~o.live => s \in {"call", "boot"}
                /\ o.kind = "stop" /\ s = "failed" => faults' # 0
    PROVE  ops' \subseteq Operation /\ StagesFit'
<1>a. o \in Operation /\ ops \subseteq Operation /\ faults \in Nat
  BY DEF WorkerShape, WorkerTypeOK
<1>b. \A x \in ops : faults # 0 => faults' # 0
  BY <1>a
<1>1. CASE Done(o)
  BY <1>1, <1>a, <1>b DEF Done, WorkerShape, StagesFit
<1>2. ASSUME NEW s \in Stages, To(o, s),
             o.kind = "stop" => s \in {"halted", "failed"},
             o.kind # "stop" => s # "halted",
             ~o.live => s \in {"call", "boot"},
             o.kind = "stop" /\ s = "failed" => faults' # 0
      PROVE  ops' \subseteq Operation /\ StagesFit'
  <2> DEFINE n == [o EXCEPT !.stage = s]
  <2>1. ops' = (ops \ {o}) \cup {n}
    BY <1>2 DEF To
  <2>2. n \in Operation /\ n.stage = s /\ n.kind = o.kind /\ n.live = o.live
    BY <1>a, <1>2, Restaged
  <2> HIDE DEF n
  <2> QED BY <1>a, <1>b, <1>2, <2>1, <2>2 DEF WorkerShape, StagesFit
<1> QED BY <1>1, <1>2

\* A claim adds at most the operation that works under it.
LEMMA ShapeStart ==
    ASSUME WorkerShape, faults' = faults, NEW p \in Replicas,
           NEW kind \in {"provision", "recover", "stop"}, NEW s \in {"check", "call"},
           kind = "stop" => s = "call",
           Start(p, kind, s) \/ ops' = ops \cup {Op(p, kind, s)}
    PROVE  ops' \subseteq Operation /\ StagesFit'
<1>1. /\ Op(p, kind, s) \in Operation /\ Op(p, kind, s).stage = s
      /\ Op(p, kind, s).kind = kind /\ Op(p, kind, s).live
  BY NewOperation DEF Stages
<1>2. ops' = ops \/ ops' = ops \cup {Op(p, kind, s)}
  BY DEF Start
<1> QED BY <1>1, <1>2 DEF WorkerShape, WorkerTypeOK, StagesFit

LEMMA ShapeNext ==
    ASSUME WorkerShape, [WorkerNext]_workerVars
    PROVE  WorkerShape'
<1> USE DEF WorkerShape
<1>a. /\ status \in Statuses /\ age \in 0 .. (Stale + 1) /\ listed \subseteq Replicas
      /\ ops \subseteq Operation /\ vm \in {"none", "stopped", "running"}
      /\ resolver \in [Replicas -> Statuses \cup {"none", "halted", "lost"}]
      /\ failures \in 0 .. MaxFailures /\ crashes \in 0 .. MaxCrashes
      /\ faults \in 0 .. MaxFaults /\ unrecorded \in BOOLEAN
      /\ MaxFailures \in Nat /\ MaxCrashes \in Nat /\ MaxFaults \in Nat /\ Stale \in Nat
  BY WorkerAssumption DEF WorkerTypeOK
<1> DEFINE Row == status' \in Statuses /\ age' \in 0 .. (Stale + 1) /\ listed' \subseteq Replicas
           Memory == resolver' \in [Replicas -> Statuses \cup {"none", "halted", "lost"}]
           Counters == /\ failures' \in 0 .. MaxFailures /\ crashes' \in 0 .. MaxCrashes
                       /\ faults' \in 0 .. MaxFaults /\ unrecorded' \in BOOLEAN
           Operations == ops' \subseteq Operation /\ StagesFit'
           Sandbox == vm' \in {"none", "stopped", "running"}
<1>b. RowKept => Row
  BY <1>a DEF RowKept
<1>c. Touched /\ status' \in Statuses => Row
  BY <1>a DEF Touched
<1>d. ASSUME NEW from, NEW to \in Statuses, Write(from, to) PROVE Row
  BY <1>b, <1>c, <1>d DEF Write
<1>e. UNCHANGED budgets => Counters /\ faults' = faults
  BY <1>a DEF budgets
<1>f. UNCHANGED resolver => Memory
  BY <1>a
<1>g. ASSUME NEW p \in Replicas, NEW what \in Statuses \cup {"none", "halted", "lost"}, Found(p, what)
      PROVE  Memory
  BY <1>a, <1>g DEF Found
<1>h. UNCHANGED ops /\ faults' >= faults /\ faults' \in Nat => Operations
  BY <1>a DEF StagesFit
<1>i. ASSUME NEW p \in Replicas, NEW from, ClaimAndRecover(p, from), UNCHANGED budgets
      PROVE  Row /\ Operations
  BY <1>a, <1>b, <1>c, <1>e, <1>h, <1>i, ShapeStart DEF ClaimAndRecover, ClaimRow, Statuses
<1>j. {"provisioning", "healthy", "failed", "stopped"} = Statuses
  BY DEF Statuses
<1> SUFFICES Row /\ Memory /\ Counters /\ Operations /\ Sandbox
  BY DEF WorkerTypeOK
<1> HIDE DEF WorkerShape, Row, Memory, Counters, Operations, Sandbox
<1> DEFINE Shaped == Row /\ Memory /\ Counters /\ Operations /\ Sandbox
<1>0. ASSUME RowKept, UNCHANGED <<ops, vm, budgets>>, Memory PROVE Shaped
  BY <1>a, <1>0, <1>b, <1>e, <1>h DEF Sandbox
<1>1. ASSUME NEW o \in ops, Progress(o) PROVE Shaped
  <2>a. o \in Operation /\ o.kind \in {"provision", "recover", "stop"}
        /\ (~o.live => o.stage \in {"call", "boot"} /\ o.kind # "stop" /\ faults # 0)
        /\ (o.kind = "stop" => o.stage \in {"call", "halted", "failed"})
    BY <1>a DEF WorkerShape, StagesFit, Operation
  <2>b. ASSUME UNCHANGED budgets,
               \/ Done(o)
               \/ \E s \in Stages :
                    /\ To(o, s)
                    /\ o.kind = "stop" => s = "halted"
                    /\ o.kind # "stop" => s # "halted"
                    /\ ~o.live => s \in {"call", "boot"}
        PROVE  Operations
    <3>1. /\ faults' \in Nat /\ faults' >= faults /\ WorkerShape
      BY <1>a, <1>e, <2>b
    <3> QED BY <2>b, <3>1, ShapeAdvance DEF Operations
  <2>1. CASE Check(o)
    <3>1. Done(o) \/ (To(o, "call") /\ o.live /\ o.kind # "stop")
      BY <2>1, <2>a DEF Check
    <3> QED BY <1>a, <1>b, <1>e, <1>f, <2>1, <2>b, <3>1 DEF Check, Sandbox, Stages
  <2>2. CASE Halt(o)
    BY <1>a, <1>b, <1>e, <1>f, <2>2, <2>b DEF Halt, Sandbox, Stages
  <2>3. CASE Boot(o)
    <3>1. Done(o) \/ (To(o, "booted") /\ o.live /\ o.kind # "stop")
      BY <2>3, <2>a DEF Boot
    <3> QED BY <1>a, <1>b, <1>e, <1>f, <2>3, <2>b, <3>1 DEF Boot, Sandbox, Stages
  <2>4. CASE Succeed(o)
    <3>1. Done(o) \/ (To(o, "insert") /\ o.live /\ o.kind # "stop")
      BY <2>4, <2>a DEF Succeed
    <3> QED BY <1>a, <1>d, <1>e, <1>f, <1>j, <2>4, <2>b, <3>1 DEF Succeed, Sandbox, Stages
  <2>5. CASE Insert(o)
    BY <1>a, <1>b, <1>e, <1>f, <2>5, <2>b DEF Insert, Sandbox
  <2>6. CASE GiveUp(o)
    BY <1>a, <1>d, <1>e, <1>f, <1>j, <2>6, <2>b DEF GiveUp, Sandbox
  <2>7. CASE StopSandbox(o)
    <3>1. /\ faults' \in 0 .. MaxFaults /\ faults' >= faults /\ faults' \in Nat
          /\ UNCHANGED <<failures, crashes, unrecorded>>
          /\ To(o, "halted") \/ (To(o, "failed") /\ faults' # 0)
      BY <1>a, <2>7 DEF StopSandbox
    <3>2. Operations
      BY <2>7, <2>a, <3>1, <1>a, ShapeAdvance DEF Operations, StopSandbox, Stages
    <3>3. Counters
      BY <1>a, <3>1 DEF Counters
    <3> QED BY <1>a, <1>b, <1>f, <2>7, <3>2, <3>3 DEF StopSandbox, Sandbox
  <2>8. CASE ReportStop(o)
    BY <1>a, <1>d, <1>e, <1>f, <1>j, <2>8, <2>b DEF ReportStop, Sandbox, AfterFailedStop
  <2> QED BY <1>1, <2>1, <2>2, <2>3, <2>4, <2>5, <2>6, <2>7, <2>8 DEF Progress
<1>2. ASSUME NEW p \in Replicas, Reconcile(p) PROVE Shaped
  <2>1. CASE ListStale(p)
    BY <1>a, <1>e, <1>f, <1>h, <2>1 DEF ListStale, Sandbox, Row
  <2>2. CASE Reclaim(p)
    <3>1. Operations
      BY <1>a, <1>e, <2>2, ShapeStart DEF Reclaim, Operations
    <3> QED BY <1>a, <1>c, <1>e, <1>f, <2>2, <3>1 DEF Reclaim, Reclaimed, Sandbox
  <2> QED BY <1>2, <2>1, <2>2 DEF Reconcile
<1>3. ASSUME NEW p \in Replicas, Resolve(p) PROVE Shaped
  <2>1. CASE Look(p)
    BY <1>0, <1>a, <1>f, <1>g, <2>1 DEF Look
  <2>2. CASE Probe(p)
    <3>1. Memory
      BY <1>g, <2>2 DEF Probe
    <3>2. /\ faults' \in 0 .. MaxFaults /\ faults' >= faults /\ faults' \in Nat
          /\ UNCHANGED <<failures, crashes, unrecorded>>
      BY <1>a, <2>2 DEF Probe
    <3> QED BY <1>a, <1>b, <1>h, <2>2, <3>1, <3>2 DEF Probe, Sandbox, Counters
  <2>3. CASE Recycle(p)
    BY <1>a, <1>e, <1>g, <1>i, <2>3 DEF Recycle, Sandbox
  <2>4. CASE Wake(p)
    <3>1. Row /\ Operations
      BY <1>a, <1>b, <1>e, <1>h, <1>i, <2>4 DEF Wake
    <3> QED BY <1>a, <1>e, <1>g, <2>4, <3>1 DEF Wake, Sandbox
  <2>5. CASE MarkFailed(p)
    BY <1>a, <1>d, <1>e, <1>g, <1>h, <1>j, <2>5 DEF MarkFailed, Sandbox
  <2>6. CASE ClaimFailed(p)
    BY <1>a, <1>e, <1>g, <1>i, <2>6 DEF ClaimFailed, Sandbox
  <2> QED BY <1>3, <2>1, <2>2, <2>3, <2>4, <2>5, <2>6 DEF Resolve
<1>4. ASSUME NEW p \in Replicas, ReserveIdleStop(p) PROVE Shaped
  <2>1. Operations
    BY <1>a, <1>e, <1>4, ShapeStart DEF ReserveIdleStop, Operations
  <2> QED BY <1>a, <1>c, <1>e, <1>f, <1>j, <1>4, <2>1 DEF ReserveIdleStop, ClaimRow, Sandbox
<1>5. ASSUME NEW p \in Replicas, Crash(p) PROVE Shaped
  <2>1. Operations
    BY <1>a, <1>5 DEF Crash, Operations, WorkerShape, StagesFit
  <2>2. Row /\ Counters /\ Sandbox
    BY <1>a, <1>5 DEF Crash, Row, Counters, Sandbox
  <2> QED BY <1>5, <1>g, <2>1, <2>2 DEF Crash
<1>6. ASSUME NEW o \in ops, Fail(o) PROVE Shaped
  <2>1. Counters /\ faults' = faults
    BY <1>a, <1>6 DEF Fail, Counters
  <2>2. Operations
    <3>1. Done(o) \/ (To(o, "failed") /\ o.live /\ o.kind # "stop")
      BY <1>6 DEF Fail
    <3> QED BY <1>a, <2>1, <3>1, ShapeAdvance DEF Operations, Stages
  <2> QED BY <1>a, <1>b, <1>f, <1>6, <2>1, <2>2 DEF Fail, Sandbox
<1>7. ASSUME NEW o \in ops, Deadline(o) PROVE Shaped
  <2> DEFINE m == [o EXCEPT !.stage = "failed"]  n == [o EXCEPT !.live = FALSE]
  <2>1. faults' = faults + 1 /\ faults' \in 0 .. MaxFaults /\ Counters
    BY <1>a, <1>7 DEF Deadline, Counters
  <2>2. /\ m \in Operation /\ m.stage = "failed" /\ m.kind = o.kind /\ m.live
        /\ n \in Operation /\ n.stage = o.stage /\ n.kind = o.kind /\ ~n.live
        /\ o.kind # "stop" /\ o.stage \in {"call", "boot"}
    BY <1>a, <1>7 DEF Deadline, Operation, Stages
  <2>3. ops' = (ops \ {o}) \cup {m, n}
    BY <1>7 DEF Deadline
  <2> HIDE DEF m, n
  <2>4. Operations
    BY <1>a, <2>1, <2>2, <2>3 DEF Operations, WorkerShape, StagesFit
  <2> QED BY <1>a, <1>b, <1>f, <1>7, <2>1, <2>4 DEF Deadline, Sandbox
<1>8. ASSUME NEW o \in ops, Touch(o) PROVE Shaped
  BY <1>a, <1>c, <1>e, <1>f, <1>h, <1>8 DEF Touch, Sandbox
<1>9. CASE SandboxStops
  <2>1. Counters /\ faults' >= faults /\ faults' \in Nat
    BY <1>a, <1>9 DEF SandboxStops, Counters
  <2> QED BY <1>a, <1>b, <1>f, <1>h, <1>9, <2>1 DEF SandboxStops, Sandbox
<1>10. CASE Tick
  <2>1. age' \in 0 .. (Stale + 1)
    BY <1>a, <1>10 DEF Tick, Older
  <2> QED BY <1>a, <1>e, <1>f, <1>h, <1>10, <2>1 DEF Tick, Sandbox, Row
<1>11. CASE UNCHANGED workerVars
  BY <1>0, <1>f, <1>11 DEF workerVars, RowKept, budgets
<1> QED BY <1>1, <1>2, <1>3, <1>4, <1>5, <1>6, <1>7, <1>8, <1>9, <1>10, <1>11
        DEF WorkerNext, Advance

-----------------------------------------------------------------------------
(* What a step does to the claim.                                           *)

\* Nothing that matters: operations end that nobody waits for, or that have
\* written their result; or the processes that waited for them crash.
ClaimKept == status' = status /\ ops' \subseteq ops

\* An operation, awaited or not, goes on.
GoesOn(o) ==
    /\ RowKept
    /\ \E s \in Stages : To(o, s) /\ (s = "booted" => vm' = "running")
                                  /\ (s = "halted" => vm' # "running")
    /\ o.stage # "insert" \/ (unrecorded' /\ vm' = vm)

\* The claim is given up with a result.
Ends(o) ==
    /\ o.live /\ o.stage # "insert" /\ vm' = vm
    /\ ops' \in {ops \ {o}, (ops \ {o}) \cup {[o EXCEPT !.stage = "insert"]}}
    /\ \/ RowKept
       \/ /\ Touched /\ status' \in {"healthy", "stopped", "failed"}
          /\ status' = "healthy" => o.stage = "booted" \/ (o.kind = "stop" /\ o.stage = "failed")
          /\ status' = "stopped" => o.stage = "halted"

\* The wait for it is given up.
Abandons(o) ==
    /\ RowKept /\ o.live /\ o.stage # "insert" /\ faults' # 0
    /\ ops' = (ops \ {o}) \cup {[o EXCEPT !.stage = "failed"], [o EXCEPT !.live = FALSE]}

\* The claim is made, by a process that starts to work or works already.
IsClaimed ==
    /\ status' = "provisioning" /\ Touched /\ vm' = vm
    /\ status # "provisioning" \/ listed # {}
    /\ ops' = ops \/ \E p \in Replicas, kind \in {"provision", "recover", "stop"},
                         s \in {"check", "call"} : ops' = ops \cup {Op(p, kind, s)}

\* A sandbox is lost whose row says it is healthy.
IsLost == status = "healthy" /\ status' = "failed" /\ Touched /\ vm' = vm /\ ops' = ops

ClaimMoves ==
    \/ ClaimKept /\ (vm' = vm \/ faults' # 0)
    \/ \E o \in ops : GoesOn(o) \/ Ends(o) \/ Abandons(o)
    \/ IsClaimed
    \/ IsLost

LEMMA ClaimStep ==
    ASSUME WorkerShape, ListedUnowned, [WorkerNext]_workerVars
    PROVE  /\ ClaimMoves
           /\ faults' = 0 => faults = 0
           /\ unrecorded => unrecorded'
<1>a. /\ status \in Statuses /\ ops \subseteq Operation /\ vm \in {"none", "stopped", "running"}
      /\ faults \in Nat /\ unrecorded \in BOOLEAN
      /\ \A o \in ops : o.stage \in Stages
  BY DEF WorkerShape, WorkerTypeOK, Operation
<1>b. \A o \in ops :
        /\ o.kind = "stop" => o.stage \in {"call", "halted", "failed"}
        /\ o.kind # "stop" => o.stage # "halted"
        /\ ~o.live => o.stage \in {"call", "boot"} /\ o.kind # "stop" /\ faults # 0
  BY DEF WorkerShape, StagesFit
<1> DEFINE Rest == (faults' = 0 => faults = 0) /\ (unrecorded => unrecorded')
<1>c. UNCHANGED budgets => Rest
  BY DEF budgets
<1>d. ASSUME status' = status, UNCHANGED <<ops, vm>> PROVE ClaimMoves
  BY <1>d DEF ClaimMoves, ClaimKept
<1>e. ASSUME NEW o \in ops, Done(o), RowKept, vm' = vm \/ faults' # 0 PROVE ClaimMoves
  BY <1>e DEF ClaimMoves, ClaimKept, Done, RowKept
<1>f. ASSUME NEW o \in ops, NEW s \in Stages, To(o, s), RowKept,
             s = "booted" => vm' = "running", s = "halted" => vm' # "running",
             o.stage # "insert" \/ (unrecorded' /\ vm' = vm)
      PROVE  ClaimMoves
  BY <1>f DEF ClaimMoves, GoesOn
<1>g. ASSUME NEW p \in Replicas, NEW from \in SUBSET {"healthy", "stopped", "failed"},
             ClaimAndRecover(p, from), UNCHANGED vm
      PROVE  ClaimMoves
  <2>1. CASE status \in from
    <3>1. ops' = ops \/ ops' = ops \cup {Op(p, "recover", "check")}
      BY <1>g, <2>1 DEF ClaimAndRecover, Claims, Start
    <3>2. status' = "provisioning" /\ Touched /\ status # "provisioning"
      BY <1>g, <2>1 DEF ClaimAndRecover, Claims, ClaimRow
    <3> QED BY <1>g, <3>1, <3>2 DEF ClaimMoves, IsClaimed
  <2>2. CASE status \notin from
    BY <1>d, <1>g, <2>2 DEF ClaimAndRecover, Claims, RowKept
  <2> QED BY <2>1, <2>2
<1> HIDE DEF Rest
<1>1. ASSUME NEW o \in ops, Progress(o) PROVE ClaimMoves /\ Rest
  <2>1. CASE Check(o)
    BY <1>c, <1>e, <1>f, <2>1 DEF Check, Stages
  <2>2. CASE Halt(o)
    BY <1>c, <1>f, <2>2 DEF Halt, Stages
  <2>3. CASE Boot(o)
    <3>1. Rest
      BY <1>c, <2>3 DEF Boot
    <3>a. /\ o.stage = "boot" /\ vm' = "running" /\ RowKept
          /\ IF o.live THEN To(o, "booted") ELSE Done(o)
      BY <2>3 DEF Boot
    <3>2. CASE o.live
      <4>1. To(o, "booted")
        BY <3>a, <3>2
      <4> QED BY <1>f, <3>1, <3>a, <4>1 DEF Stages
    <3>3. CASE ~o.live
      <4>1. faults' # 0
        BY <1>b, <2>3, <3>3 DEF Boot, budgets
      <4>2. Done(o)
        BY <3>a, <3>3
      <4> QED BY <1>e, <3>1, <3>a, <4>1, <4>2
    <3> QED BY <3>2, <3>3
  <2>4. CASE Succeed(o)
    <3>1. Ends(o)
      BY <1>b, <2>4 DEF Succeed, Ends, Write, To, Done
    <3> QED BY <1>c, <2>4, <3>1 DEF Succeed, ClaimMoves
  <2>5. CASE Insert(o)
    BY <1>c, <1>e, <2>5 DEF Insert
  <2>6. CASE GiveUp(o)
    <3>1. Ends(o)
      BY <1>b, <2>6 DEF GiveUp, Ends, Write, Done
    <3> QED BY <1>c, <2>6, <3>1 DEF GiveUp, ClaimMoves
  <2>7. CASE StopSandbox(o)
    <3>1. o.stage = "call" /\ RowKept /\ UNCHANGED unrecorded
      BY <2>7 DEF StopSandbox
    <3>2. CASE To(o, "halted") /\ UNCHANGED faults
      <4>1. vm' # "running"
        BY <2>7, <3>2, <1>a DEF StopSandbox, To
      <4> QED BY <1>f, <3>1, <3>2, <4>1 DEF Stages, Rest
    <3>3. CASE To(o, "failed") /\ faults' = faults + 1
      BY <1>a, <1>f, <3>1, <3>3 DEF Stages, Rest
    <3> QED BY <2>7, <3>2, <3>3 DEF StopSandbox
  <2>8. CASE ReportStop(o)
    <3>1. Ends(o)
      BY <1>b, <2>8 DEF ReportStop, Ends, Write, Done, AfterFailedStop
    <3> QED BY <1>c, <2>8, <3>1 DEF ReportStop, ClaimMoves
  <2> QED BY <1>1, <2>1, <2>2, <2>3, <2>4, <2>5, <2>6, <2>7, <2>8 DEF Progress
<1>2. ASSUME NEW p \in Replicas, Reconcile(p) PROVE ClaimMoves /\ Rest
  <2>1. CASE ListStale(p)
    BY <1>c, <1>d, <2>1 DEF ListStale
  <2>2. CASE Reclaim(p)
    <3>1. ops' = ops \/ ops' = ops \cup {Op(p, "provision", "call")}
      BY <2>2 DEF Reclaim, Start
    <3>2. status = "provisioning" /\ listed # {}
      BY <2>2 DEF Reclaim, ListedUnowned
    <3> QED BY <1>c, <2>2, <3>1, <3>2 DEF Reclaim, Reclaimed, ClaimMoves, IsClaimed
  <2> QED BY <1>2, <2>1, <2>2 DEF Reconcile
<1>3. ASSUME NEW p \in Replicas, Resolve(p) PROVE ClaimMoves /\ Rest
  <2>1. CASE Look(p)
    BY <1>c, <1>d, <2>1 DEF Look, RowKept
  <2>2. CASE Probe(p)
    BY <1>a, <1>d, <2>2 DEF Probe, RowKept, Rest
  <2>3. CASE Recycle(p)
    BY <1>c, <1>g, <2>3 DEF Recycle, Recyclable
  <2>4. CASE Wake(p)
    BY <1>c, <1>d, <1>g, <2>4 DEF Wake, RowKept
  <2>5. CASE MarkFailed(p)
    <3>1. CASE status = "healthy"
      BY <1>c, <2>5, <3>1 DEF MarkFailed, Write, ClaimMoves, IsLost
    <3>2. CASE status # "healthy"
      BY <1>c, <1>d, <2>5, <3>2 DEF MarkFailed, Write, RowKept
    <3> QED BY <3>1, <3>2
  <2>6. CASE ClaimFailed(p)
    BY <1>c, <1>g, <2>6 DEF ClaimFailed
  <2> QED BY <1>3, <2>1, <2>2, <2>3, <2>4, <2>5, <2>6 DEF Resolve
<1>4. ASSUME NEW p \in Replicas, ReserveIdleStop(p) PROVE ClaimMoves /\ Rest
  BY <1>c, <1>4 DEF ReserveIdleStop, Claims, Idle, ClaimRow, ClaimMoves, IsClaimed
<1>5. ASSUME NEW p \in Replicas, Crash(p) PROVE ClaimMoves /\ Rest
  BY <1>5 DEF Crash, ClaimMoves, ClaimKept, Rest
<1>6. ASSUME NEW o \in ops, Fail(o) PROVE ClaimMoves /\ Rest
  BY <1>e, <1>f, <1>6 DEF Fail, Rest, Stages
<1>7. ASSUME NEW o \in ops, Deadline(o) PROVE ClaimMoves /\ Rest
  BY <1>a, <1>7 DEF Deadline, ClaimMoves, Abandons, Rest
<1>8. ASSUME NEW o \in ops, Touch(o) PROVE ClaimMoves /\ Rest
  BY <1>c, <1>d, <1>8 DEF Touch
<1>9. CASE SandboxStops
  BY <1>a, <1>9 DEF SandboxStops, RowKept, ClaimMoves, ClaimKept, Rest
<1>10. CASE Tick
  BY <1>c, <1>d, <1>10 DEF Tick, Rest
<1>11. CASE UNCHANGED workerVars
  BY <1>d, <1>11 DEF workerVars, Rest
<1> QED BY <1>1, <1>2, <1>3, <1>4, <1>5, <1>6, <1>7, <1>8, <1>9, <1>10, <1>11
        DEF WorkerNext, Advance, Rest

-----------------------------------------------------------------------------
(* The invariant is inductive.                                              *)

\* Only a new claim brings a new operation that somebody awaits.
LEMMA LiveKept ==
    ASSUME WorkerShape, ListedUnowned, [WorkerNext]_workerVars,
           \E o \in ops' : o.live
    PROVE  (\E o \in ops : o.live) \/ Touched
<1>a. ops \subseteq Operation
  BY DEF WorkerShape, WorkerTypeOK
<1>1. CASE ClaimKept
  BY <1>1 DEF ClaimKept
<1>2. ASSUME NEW o \in ops, NEW s \in Stages, To(o, s) PROVE \E x \in ops : x.live
  <2>1. [o EXCEPT !.stage = s].live = o.live
    BY <1>a, Restaged
  <2> QED BY <1>2, <2>1 DEF To
<1>3. ASSUME NEW o \in ops, Ends(o) \/ Abandons(o) PROVE \E x \in ops : x.live
  BY <1>3 DEF Ends, Abandons
<1>4. CASE IsClaimed \/ IsLost
  BY <1>4 DEF IsClaimed, IsLost
<1> QED BY <1>1, <1>2, <1>3, <1>4, ClaimStep DEF ClaimMoves, GoesOn

\* With heartbeats that reach the row in time, no reconciler holds a list
\* with a claim somebody works under.
LEMMA ListedUnownedStep ==
    ASSUME Reliable, WorkerShape, ListedUnowned, [WorkerNext]_workerVars
    PROVE  ListedUnowned'
<1>a. age \in Nat /\ Stale \in Nat /\ Stale # 0
  BY WorkerAssumption DEF WorkerShape, WorkerTypeOK
<1>1. CASE Touched
  BY <1>1, <1>a DEF Touched, ListedUnowned
<1>2. ASSUME status' = status, age' = age, listed' \subseteq listed PROVE ListedUnowned'
  <2>1. (\E o \in ops' : o.live) => (\E o \in ops : o.live) \/ Touched
    BY LiveKept
  <2> QED BY <1>1, <1>2, <2>1 DEF ListedUnowned
<1>3. ASSUME NEW p \in Replicas, ListStale(p) PROVE ListedUnowned'
  BY <1>3, <1>a DEF ListStale, IsStale, ListedUnowned
<1>4. CASE Tick
  BY <1>4, <1>a DEF Tick, Older, ListedUnowned
<1>5. ASSUME NEW o \in ops, Progress(o) PROVE RowKept \/ Touched
  BY <1>5 DEF Progress, Check, Halt, Boot, Succeed, Insert, GiveUp, StopSandbox, ReportStop, Write
<1>6. ASSUME NEW p \in Replicas, Resolve(p) PROVE RowKept \/ Touched
  BY <1>6 DEF Resolve, Look, Probe, Recycle, Wake, MarkFailed, ClaimFailed, ClaimAndRecover,
              ClaimRow, Write
<1>7. ASSUME NEW p \in Replicas, Reclaim(p) \/ ReserveIdleStop(p) PROVE Touched
  BY <1>7 DEF Reclaim, Reclaimed, ReserveIdleStop, ClaimRow
<1>8. ASSUME NEW p \in Replicas, Crash(p) PROVE ListedUnowned'
  BY <1>2, <1>8 DEF Crash
<1>9. ASSUME NEW o \in ops, Fail(o) \/ Deadline(o) \/ Touch(o) PROVE RowKept \/ Touched
  BY <1>9 DEF Fail, Deadline, Touch
<1>10. CASE SandboxStops \/ UNCHANGED workerVars
  BY <1>2, <1>10 DEF SandboxStops, RowKept, workerVars
<1>11. RowKept => ListedUnowned'
  BY <1>2 DEF RowKept
<1> QED BY <1>1, <1>3, <1>4, <1>5, <1>6, <1>7, <1>8, <1>9, <1>10, <1>11
        DEF WorkerNext, Advance, Reconcile

LEMMA ClaimOwnedStep ==
    ASSUME WorkerShape, ListedUnowned, ClaimOwned, [WorkerNext]_workerVars
    PROVE  ClaimOwned'
<1> SUFFICES ASSUME ~unrecorded'
             PROVE  /\ \A x, y \in Owners' : x = y
                    /\ Owners' # {} => status' = "provisioning"
  BY DEF ClaimOwned
<1>a. /\ ClaimMoves /\ ~unrecorded
      /\ \A x, y \in Owners : x = y
      /\ Owners # {} => status = "provisioning"
      /\ ops \subseteq Operation
  BY ClaimStep DEF ClaimOwned, WorkerShape, WorkerTypeOK
<1>1. CASE ClaimKept
  BY <1>1, <1>a DEF ClaimKept, Owners
<1>2. ASSUME NEW o \in ops, GoesOn(o)
      PROVE  /\ \A x, y \in Owners' : x = y
             /\ Owners' # {} => status' = "provisioning"
  <2>1. PICK s \in Stages : To(o, s)
    BY <1>2 DEF GoesOn
  <2> DEFINE n == [o EXCEPT !.stage = s]
  <2>2. ops' = (ops \ {o}) \cup {n} /\ n.live = o.live /\ status' = status /\ o.stage # "insert"
    BY <1>2, <1>a, <2>1, Restaged DEF To, GoesOn, RowKept
  <2> HIDE DEF n
  <2>3. CASE o.live
    <3>1. o \in Owners /\ Owners = {o}
      BY <1>a, <2>2, <2>3 DEF Owners
    <3>2. Owners' \subseteq {n}
      BY <2>2, <3>1 DEF Owners
    <3> QED BY <1>a, <2>2, <3>1, <3>2
  <2>4. CASE ~o.live
    <3>1. Owners' \subseteq Owners
      BY <2>2, <2>4 DEF Owners
    <3> QED BY <1>a, <2>2, <3>1
  <2> QED BY <2>3, <2>4
<1>3. ASSUME NEW o \in ops, Ends(o) PROVE Owners' = {}
  <2>1. Owners = {o}
    BY <1>3, <1>a DEF Ends, Owners
  <2>2. [o EXCEPT !.stage = "insert"].stage = "insert"
    BY <1>a, Restaged DEF Stages
  <2>3. ops' \subseteq (ops \ {o}) \cup {[o EXCEPT !.stage = "insert"]}
    BY <1>3 DEF Ends
  <2> QED BY <2>1, <2>2, <2>3 DEF Owners
<1>4. ASSUME NEW o \in ops, Abandons(o)
      PROVE  /\ \A x, y \in Owners' : x = y
             /\ Owners' # {} => status' = "provisioning"
  <2> DEFINE m == [o EXCEPT !.stage = "failed"]  n == [o EXCEPT !.live = FALSE]
  <2>1. Owners = {o} /\ status' = status
    BY <1>4, <1>a DEF Abandons, Owners, RowKept
  <2>2. ops' = (ops \ {o}) \cup {m, n} /\ ~n.live
    BY <1>4, <1>a DEF Abandons, Operation
  <2> HIDE DEF m, n
  <2>3. Owners' \subseteq {m}
    BY <2>1, <2>2 DEF Owners
  <2> QED BY <1>a, <2>1, <2>3
<1>5. ASSUME IsClaimed
      PROVE  /\ \A x, y \in Owners' : x = y
             /\ Owners' # {} => status' = "provisioning"
  <2>1. Owners = {}
    BY <1>5, <1>a DEF IsClaimed, ListedUnowned, Owners
  <2>2. PICK n : ops' = ops \/ ops' = ops \cup {n}
    BY <1>5 DEF IsClaimed
  <2>3. Owners' \subseteq {n}
    BY <2>1, <2>2 DEF Owners
  <2> QED BY <1>5, <2>3 DEF IsClaimed
<1>6. ASSUME IsLost PROVE Owners' = {}
  BY <1>6, <1>a DEF IsLost, Owners
<1> QED BY <1>a, <1>1, <1>2, <1>3, <1>4, <1>5, <1>6 DEF ClaimMoves

LEMMA SandboxKnownStep ==
    ASSUME WorkerShape, ListedUnowned, ClaimOwned, SandboxKnown, [WorkerNext]_workerVars
    PROVE  SandboxKnown'
<1> DEFINE Known == /\ status' = "healthy" => vm' = "running"
                    /\ status' = "stopped" => vm' # "running"
                    /\ \A o \in ops' : /\ o.stage = "booted" => vm' = "running"
                                       /\ o.stage = "halted" => vm' # "running"
<1> SUFFICES ASSUME faults' = 0, ~unrecorded' PROVE Known
  BY DEF SandboxKnown
<1>a. /\ ClaimMoves /\ ~unrecorded /\ faults = 0
      /\ \A x, y \in Owners : x = y
      /\ Owners # {} => status = "provisioning"
      /\ ops \subseteq Operation
      /\ \A o \in ops : o.live /\ (o.kind = "stop" => o.stage # "failed")
  BY ClaimStep DEF ClaimOwned, WorkerShape, WorkerTypeOK, StagesFit
<1>b. /\ status = "healthy" => vm = "running"
      /\ status = "stopped" => vm # "running"
      /\ \A o \in ops : /\ o.stage = "booted" => vm = "running"
                        /\ o.stage = "halted" => vm # "running"
  BY <1>a DEF SandboxKnown
<1>1. CASE ClaimKept /\ vm' = vm
  BY <1>1, <1>b DEF ClaimKept
<1>2. ASSUME NEW o \in ops, GoesOn(o) PROVE Known
  <2>1. PICK s \in Stages : To(o, s) /\ (s = "booted" => vm' = "running")
                                     /\ (s = "halted" => vm' # "running")
    BY <1>2 DEF GoesOn
  <2> DEFINE n == [o EXCEPT !.stage = s]
  <2>2. ops' = (ops \ {o}) \cup {n} /\ n.stage = s /\ status' = status /\ o.stage # "insert"
    BY <1>2, <1>a, <2>1, Restaged DEF To, GoesOn, RowKept
  <2> HIDE DEF n
  <2>3. Owners = {o} /\ status' = "provisioning"
    BY <1>a, <2>2 DEF Owners
  <2>4. \A x \in ops \ {o} : x.stage = "insert"
    BY <1>a, <2>3 DEF Owners
  <2> QED BY <2>1, <2>2, <2>3, <2>4
<1>3. ASSUME NEW o \in ops, Ends(o) PROVE Known
  <2>1. [o EXCEPT !.stage = "insert"].stage = "insert"
    BY <1>a, Restaged DEF Stages
  <2>2. ops' \subseteq (ops \ {o}) \cup {[o EXCEPT !.stage = "insert"]} /\ vm' = vm
    BY <1>3 DEF Ends
  <2>3. \A x \in ops' : /\ x.stage = "booted" => vm' = "running"
                        /\ x.stage = "halted" => vm' # "running"
    BY <1>b, <2>1, <2>2
  <2>4. status' = "healthy" => vm' = "running"
    BY <1>3, <1>a, <1>b, <2>2 DEF Ends, RowKept
  <2>5. status' = "stopped" => vm' # "running"
    BY <1>3, <1>a, <1>b, <2>2 DEF Ends, RowKept
  <2> QED BY <2>3, <2>4, <2>5
<1>4. ASSUME NEW o \in ops, Abandons(o) PROVE FALSE
  BY <1>4 DEF Abandons
<1>5. CASE IsClaimed
  <2>1. \A p \in Replicas, kind \in {"provision", "recover", "stop"}, s \in {"check", "call"} :
          Op(p, kind, s).stage \in {"check", "call"}
    BY DEF Op
  <2> QED BY <1>5, <1>b, <2>1 DEF IsClaimed
<1>6. CASE IsLost
  BY <1>6, <1>b DEF IsLost
<1> QED BY <1>a, <1>1, <1>2, <1>3, <1>4, <1>5, <1>6 DEF ClaimMoves

LEMMA WorkerShapeInit == WorkerInit => WorkerShape
<1> SUFFICES ASSUME WorkerInit PROVE WorkerShape
  OBVIOUS
<1>1. /\ Op(Creator, "provision", "call") \in Operation
      /\ Op(Creator, "provision", "call").stage = "call"
      /\ Op(Creator, "provision", "call").kind = "provision"
      /\ Op(Creator, "provision", "call").live
  BY NewOperation, WorkerAssumption DEF Stages
<1>2. WorkerTypeOK
  <2>1. /\ age \in 0 .. (Stale + 1) /\ failures \in 0 .. MaxFailures
        /\ crashes \in 0 .. MaxCrashes /\ faults \in 0 .. MaxFaults
    BY WorkerAssumption DEF WorkerInit
  <2>2. /\ status \in Statuses /\ listed \subseteq Replicas /\ vm \in {"none", "stopped", "running"}
        /\ resolver \in [Replicas -> Statuses \cup {"none", "halted", "lost"}]
        /\ unrecorded \in BOOLEAN /\ ops \subseteq Operation
    BY <1>1 DEF WorkerInit, Statuses
  <2> QED BY <2>1, <2>2 DEF WorkerTypeOK
<1>3. StagesFit
  BY <1>1 DEF WorkerInit, StagesFit
<1> QED BY <1>2, <1>3 DEF WorkerShape

LEMMA WorkerInvariantInit == WorkerInit => WorkerInvariant
<1> SUFFICES ASSUME WorkerInit PROVE WorkerInvariant
  OBVIOUS
<1>1. /\ ops = {Op(Creator, "provision", "call")}
      /\ Op(Creator, "provision", "call").stage = "call"
  BY NewOperation, WorkerAssumption DEF WorkerInit, Stages
<1>2. ListedUnowned
  BY WorkerAssumption DEF WorkerInit, ListedUnowned
<1>3. ClaimOwned /\ SandboxKnown
  BY <1>1 DEF WorkerInit, ClaimOwned, SandboxKnown, Owners
<1> QED BY <1>2, <1>3, WorkerShapeInit DEF WorkerInvariant

LEMMA WorkerInvariantNext ==
    ASSUME Reliable
    PROVE  WorkerInvariant /\ [WorkerNext]_workerVars => WorkerInvariant'
BY ShapeNext, ListedUnownedStep, ClaimOwnedStep, SandboxKnownStep DEF WorkerInvariant

-----------------------------------------------------------------------------
(* Theorems.                                                                *)

\* The row, the operations in progress and the sandbox keep their shapes,
\* whether or not heartbeats arrive.
THEOREM WorkerTypesCorrect == WorkerSpec => []WorkerTypeOK
<1>1. WorkerShape /\ [WorkerNext]_workerVars => WorkerShape'
  BY ShapeNext
<1>2. WorkerShape => WorkerTypeOK
  BY DEF WorkerShape
<1> QED BY <1>1, <1>2, WorkerShapeInit, PTL DEF WorkerSpec

\* A claim that names no owner is still worked on by one operation, across
\* crashes, deadlines and reconcilers, until a provision fails after its
\* success: as long as heartbeats reach the row before it is stale.
THEOREM ClaimsHaveOneOwner ==
    ASSUME Reliable
    PROVE  WorkerSpec => []OneOwner
<1>1. WorkerInvariant => OneOwner
  <2> SUFFICES ASSUME WorkerInvariant, ~unrecorded, NEW x \in ops, NEW y \in ops,
                      x.live, x.stage \in {"call", "boot"}, y.live, y.stage \in {"call", "boot"}
               PROVE  x = y
    BY DEF OneOwner, OneClaimant
  <2>1. x \in Owners /\ y \in Owners
    BY DEF Owners
  <2> QED BY <2>1 DEF WorkerInvariant, ClaimOwned
<1> QED BY <1>1, WorkerInvariantInit, WorkerInvariantNext, PTL DEF WorkerSpec

\* A healthy row has a running sandbox once nothing is in progress, unless a
\* deadline, a stop or an instance record failed before.
THEOREM HealthyWorkersRun ==
    ASSUME Reliable
    PROVE  WorkerSpec => []HealthyIsReal
<1>1. WorkerInvariant => HealthyIsReal
  BY DEF WorkerInvariant, SandboxKnown, HealthyIsReal, Quiet
<1> QED BY <1>1, WorkerInvariantInit, WorkerInvariantNext, PTL DEF WorkerSpec

\* Under the same conditions a stopped row has no running sandbox.
THEOREM StoppedWorkersRest ==
    ASSUME Reliable
    PROVE  WorkerSpec => []StoppedIsReal
<1>1. WorkerInvariant => StoppedIsReal
  BY DEF WorkerInvariant, SandboxKnown, StoppedIsReal, Quiet
<1> QED BY <1>1, WorkerInvariantInit, WorkerInvariantNext, PTL DEF WorkerSpec
=============================================================================
