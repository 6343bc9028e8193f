-------------------------- MODULE CloudRunsProofs ---------------------------
(***************************************************************************)
(* Proofs about CloudRuns, for any number of runs, processes and           *)
(* cancellations, any limit, any lease and any skew below half a lease.    *)
(* The sweeps and cancellations are those of AutomationRuns, and so are    *)
(* the lemmas about them.                                                  *)
(***************************************************************************)
EXTENDS CloudRuns, AutomationRunsProofs, FiniteSetTheorems

\* A process has at most one execution of a run.
OneExecutionEach == \A e, f \in exec : e.proc = f.proc /\ e.run = f.run => e = f

\* An execution of the process a row names is of the attempt in the row,
\* whatever the status: no statement but a claim brings a process in.
OwnersAttempt ==
    \A e \in exec :
        e.stage # "claim" /\ run[e.run].owner = e.proc => run[e.run].attempt = e.attempt

\* Past its claim an execution has an attempt.
AttemptBegun == \A e \in exec : e.stage # "claim" => e.attempt >= 1

\* What it delivers is a result.
ResultKnown == \A e \in exec : e.stage = "deliver" => e.result # "none"

Executing ==
    exec \subseteq Execution /\ OneExecutionEach /\ OwnersAttempt /\ AttemptBegun /\ ResultKnown

WorkersTyped ==
    /\ receipt \in [Runs -> Threads \cup {NoThread}]
    /\ thread \in [Threads -> ThreadStates]
    /\ scripts \subseteq Runs /\ dead \subseteq Runners

CloudInvariant == RetryInvariant /\ Executing /\ WorkersTyped

-----------------------------------------------------------------------------
(* What a statement that is not one of AutomationRuns does to the rows.     *)

Retries == AbsentIsFresh /\ QueuedIsFresh /\ AttemptBound /\ SweepStamped /\ DecisionIsCurrent

\* One row changes: no attempt begins and no lease is granted, or both with
\* a stamp of now.
LEMMA RetriesOfRow ==
    ASSUME RetryInvariant, NEW r \in Runs, run' \in [Runs -> Row],
           \A q \in Runs \ {r} : run'[q] = run[q],
           run'[r].status # "absent",
           run'[r].status = "queued" => run'[r].attempt < MaxAttempts /\ run'[r].seq = 0,
           run'[r].attempt <= MaxAttempts,
           \/ /\ run'[r].attempt = run[r].attempt
              /\ run'[r].lease \in {run[r].lease, NULL}
              /\ run'[r].lease # NULL => run'[r].owner = run[r].owner
           \/ \E t \in Stamps : run'[r].lease = t + LeaseMs,
           now' = now, tick' = tick
    PROVE  Retries'
<1>1. /\ run \in [Runs -> Row] /\ now \in Nat
      /\ tick \in [Replicas -> [phase : {"idle", "recover", "expire"}, at : Nat,
                                rows : SUBSET Snapshot]]
      /\ \A q \in Runs : run[q].attempt \in Nat
  BY DEF RetryInvariant, TypeOK, Row
<1>2. AbsentIsFresh'
  BY DEF RetryInvariant, AbsentIsFresh
<1>3. QueuedIsFresh'
  BY DEF RetryInvariant, QueuedIsFresh
<1>4. AttemptBound'
  BY DEF RetryInvariant, AttemptBound
<1>5. SweepStamped'
  BY DEF RetryInvariant, SweepStamped
<1>6. DecisionIsCurrent'
  <2> SUFFICES ASSUME NEW p \in Replicas, NEW x \in tick[p].rows, tick[p].phase = "recover",
                      StillExpired(run'[x.run], x, tick[p].at)
               PROVE  run'[x.run].attempt = x.attempt
    BY DEF DecisionIsCurrent
  <2>1. x.run \in Runs /\ tick[p].at \in Nat /\ tick[p].at <= now + MaxSkew
    BY <1>1 DEF Snapshot, RetryInvariant, SweepStamped
  <2>2. CASE x.run # r
    BY <2>1, <2>2 DEF RetryInvariant, DecisionIsCurrent
  <2>3. CASE x.run = r /\ \E t \in Stamps : run'[r].lease = t + LeaseMs
    <3>1. PICK t \in Stamps : run'[r].lease = t + LeaseMs
      BY <2>3
    <3>2. t \in Nat /\ now <= t + MaxSkew
      BY <1>1, StampsAreTimes
    <3>3. run'[r].lease < tick[p].at
      BY <2>3 DEF StillExpired, LeaseExpired
    <3> QED BY <1>1, <2>1, <3>1, <3>2, <3>3, SkewAssumption
  <2>4. CASE /\ x.run = r
             /\ run'[r].attempt = run[r].attempt
             /\ run'[r].lease \in {run[r].lease, NULL}
             /\ run'[r].lease # NULL => run'[r].owner = run[r].owner
    <3>1. StillExpired(run[x.run], x, tick[p].at)
      BY <2>4 DEF StillExpired, LeaseExpired
    <3> QED BY <2>4, <3>1 DEF RetryInvariant, DecisionIsCurrent
  <2> QED BY <2>2, <2>3, <2>4
<1> QED BY <1>2, <1>3, <1>4, <1>5, <1>6 DEF Retries

\* No row changes, and the sweeps remember no more than before.
LEMMA RetriesOfNoRow ==
    ASSUME RetryInvariant, run' = run, now' = now,
           tick' = tick \/ \E p \in Replicas : tick' = [tick EXCEPT ![p] = IdleTick]
    PROVE  Retries'
<1>1. /\ now \in Nat
      /\ tick \in [Replicas -> [phase : {"idle", "recover", "expire"}, at : Nat,
                                rows : SUBSET Snapshot]]
  BY DEF RetryInvariant, TypeOK
<1>2. \A p \in Replicas : tick'[p] = tick[p] \/ tick'[p] = IdleTick
  BY <1>1
<1>3. SweepStamped'
  BY <1>1, <1>2, SkewAssumption DEF RetryInvariant, SweepStamped, IdleTick
<1>4. DecisionIsCurrent'
  BY <1>1, <1>2 DEF RetryInvariant, DecisionIsCurrent, IdleTick
<1> QED BY <1>3, <1>4 DEF RetryInvariant, AbsentIsFresh, QueuedIsFresh, AttemptBound, Retries

LEMMA RetryOfRow ==
    ASSUME RetryInvariant, NEW r \in Runs, NEW row \in Row, run' = [run EXCEPT ![r] = row],
           row.status # "absent",
           row.status = "queued" => row.attempt < MaxAttempts /\ row.seq = 0,
           row.attempt <= MaxAttempts,
           \/ /\ row.attempt = run[r].attempt
              /\ row.lease \in {run[r].lease, NULL}
              /\ row.lease # NULL => row.owner = run[r].owner
           \/ \E t \in Stamps : row.lease = t + LeaseMs,
           events' \subseteq Runs \X Nat \X Nat,
           UNCHANGED <<now, gate, assigned, requests, cancelling, tick, crashes, denied>>
    PROVE  RetryInvariant'
<1>1. run \in [Runs -> Row]
  BY DEF RetryInvariant, TypeOK
<1>2. run' \in [Runs -> Row] /\ run'[r] = row /\ \A q \in Runs \ {r} : run'[q] = run[q]
  BY <1>1
<1>3. Retries'
  BY <1>2, RetriesOfRow
<1>4. TypeOK'
  BY <1>2 DEF RetryInvariant, TypeOK
<1> QED BY <1>3, <1>4 DEF Retries, RetryInvariant

LEMMA RetryOfNoRow ==
    ASSUME RetryInvariant, crashes' \in {crashes, crashes + 1},
           tick' = tick \/ \E p \in Replicas : tick' = [tick EXCEPT ![p] = IdleTick],
           UNCHANGED <<now, run, events, gate, assigned, requests, cancelling, denied>>
    PROVE  RetryInvariant'
<1>1. Retries'
  BY RetriesOfNoRow
<1>2. tick' \in [Replicas -> [phase : {"idle", "recover", "expire"}, at : Nat,
                              rows : SUBSET Snapshot]]
  BY DEF RetryInvariant, TypeOK, IdleTick
<1>3. TypeOK'
  BY <1>2 DEF RetryInvariant, TypeOK
<1> QED BY <1>1, <1>3 DEF Retries, RetryInvariant

-----------------------------------------------------------------------------
(* What a step does to the executions.                                      *)

\* Row r gets no owner it did not have, and keeps the attempt of its owner.
KeepsOwner(r) ==
    \/ run'[r].owner = NoOwner
    \/ run'[r].owner = run[r].owner /\ run'[r].attempt = run[r].attempt

LEMMA ExecutionsDropped ==
    ASSUME Executing, exec' \subseteq exec, \A r \in Runs : KeepsOwner(r)
    PROVE  Executing'
<1>1. exec' \subseteq Execution /\ OneExecutionEach'
  BY DEF Executing, OneExecutionEach
<1>2. OwnersAttempt'
  BY RunnersAssumption DEF Executing, OwnersAttempt, KeepsOwner, Execution
<1>3. AttemptBegun' /\ ResultKnown'
  BY DEF Executing, AttemptBegun, ResultKnown
<1> QED BY <1>1, <1>2, <1>3 DEF Executing

LEMMA ExecutionMoved ==
    ASSUME Executing, NEW e \in exec, NEW f \in Execution, Move(e, f),
           f.proc = e.proc, f.run = e.run, f.attempt = e.attempt, e.stage # "claim",
           f.stage = "deliver" => f.result # "none",
           \A r \in Runs : KeepsOwner(r)
    PROVE  Executing'
<1>1. exec' \subseteq Execution
  BY DEF Executing, Move
<1>2. OneExecutionEach'
  BY DEF Executing, OneExecutionEach, Move
<1>3. OwnersAttempt'
  <2> SUFFICES ASSUME NEW g \in exec', g.stage # "claim", run'[g.run].owner = g.proc
               PROVE  run'[g.run].attempt = g.attempt
    BY DEF OwnersAttempt
  <2>1. PICK d \in exec : /\ d.stage # "claim" /\ d.proc = g.proc /\ d.run = g.run
                          /\ d.attempt = g.attempt
    BY DEF Move
  <2>2. d.run \in Runs /\ d.proc \in Runners
    BY DEF Executing, Execution
  <2>3. run'[d.run].owner = run[d.run].owner /\ run'[d.run].attempt = run[d.run].attempt
    BY <2>1, <2>2, RunnersAssumption DEF KeepsOwner
  <2> QED BY <2>1, <2>3 DEF Executing, OwnersAttempt
<1>4. AttemptBegun' /\ ResultKnown'
  BY DEF Executing, AttemptBegun, ResultKnown, Move
<1> QED BY <1>1, <1>2, <1>3, <1>4 DEF Executing

LEMMA ExecutionsStarted ==
    ASSUME Executing, NEW p \in Runners, NEW rows \in SUBSET Runs,
           exec' = exec \cup Started(p, rows), \A r \in Runs : KeepsOwner(r)
    PROVE  Executing'
<1>1. \A f \in Started(p, rows) :
        /\ f \in Execution /\ f.proc = p /\ f.stage = "claim"
        /\ ~HasExecution(p, f.run)
        /\ \A g \in Started(p, rows) : g.run = f.run => g = f
  <2> DEFINE entry(r) == [proc |-> p, run |-> r, attempt |-> 0, stage |-> "claim",
                          thread |-> NoThread, sent |-> 0, result |-> "none"]
  <2>1. \A f \in Started(p, rows) : \E r \in rows : ~HasExecution(p, r) /\ f = entry(r)
    BY DEF Started
  <2>2. \A r \in rows : /\ entry(r) \in Execution /\ entry(r).proc = p
                        /\ entry(r).stage = "claim" /\ entry(r).run = r
    BY DEF Execution, Stages
  <2> HIDE DEF entry
  <2> QED BY <2>1, <2>2
<1>2. exec' \subseteq Execution
  BY <1>1 DEF Executing
<1>3. OneExecutionEach'
  BY <1>1 DEF Executing, OneExecutionEach, HasExecution
<1>4. OwnersAttempt'
  <2> SUFFICES ASSUME NEW g \in exec', g.stage # "claim", run'[g.run].owner = g.proc
               PROVE  run'[g.run].attempt = g.attempt
    BY DEF OwnersAttempt
  <2>1. g \in exec /\ g.run \in Runs /\ g.proc \in Runners
    BY <1>1 DEF Executing, Execution
  <2> QED BY <2>1, RunnersAssumption DEF KeepsOwner, Executing, OwnersAttempt
<1>5. AttemptBegun' /\ ResultKnown'
  BY <1>1 DEF Executing, AttemptBegun, ResultKnown
<1> QED BY <1>2, <1>3, <1>4, <1>5 DEF Executing

LEMMA StagesTyped ==
    ASSUME NEW e \in Execution
    PROVE  /\ \A s \in Stages : /\ At(e, s) \in Execution /\ At(e, s).stage = s
                                /\ At(e, s).proc = e.proc /\ At(e, s).run = e.run
                                /\ At(e, s).attempt = e.attempt
           /\ Failed(e) \in Execution /\ Failed(e).proc = e.proc /\ Failed(e).run = e.run
           /\ Failed(e).attempt = e.attempt /\ Failed(e).result = "failed"
<1>1. ASSUME NEW s \in Stages
      PROVE  /\ At(e, s) \in Execution /\ At(e, s).stage = s
             /\ At(e, s).proc = e.proc /\ At(e, s).run = e.run
             /\ At(e, s).attempt = e.attempt
  BY DEF At, Execution
<1> DEFINE d == At(e, "deliver")
<1>2. d \in Execution /\ d.proc = e.proc /\ d.run = e.run /\ d.attempt = e.attempt
  BY <1>1 DEF Stages
<1>3. Failed(e) = [d EXCEPT !.result = "failed"]
  BY DEF Failed
<1> HIDE DEF d
<1>4. /\ Failed(e) \in Execution /\ Failed(e).proc = e.proc /\ Failed(e).run = e.run
      /\ Failed(e).attempt = e.attempt /\ Failed(e).result = "failed"
  BY <1>2, <1>3 DEF Execution
<1> QED BY <1>1, <1>4

LEMMA NoRowKeepsOwners == ASSUME run' = run PROVE \A r \in Runs : KeepsOwner(r)
BY DEF KeepsOwner

(* The statements of an execution that write a row.                         *)

LEMMA ReportStep ==
    ASSUME CloudInvariant, NEW e \in exec, NEW t \in Stamps, NEW status \in Terminal,
           Report(e, status, t), RunKept
    PROVE  RetryInvariant' /\ \A r \in Runs : KeepsOwner(r)
<1>1. run \in [Runs -> Row] /\ e.run \in Runs /\ events \subseteq Runs \X Nat \X Nat
      /\ run[e.run] \in Row
  BY DEF CloudInvariant, RetryInvariant, TypeOK, Executing, Execution
<1>2. CASE run' = run
  BY <1>2, RetryOfNoRow, NoRowKeepsOwners DEF RunKept, CloudInvariant
<1>3. CASE Owned(e, t) /\ run' = [run EXCEPT ![e.run] = CompletedRow(run[e.run], status)]
  <2> DEFINE row == CompletedRow(run[e.run], status)
  <2>1. /\ row \in Row /\ row.status = status /\ row.owner = run[e.run].owner
        /\ row.lease = NULL /\ row.attempt = run[e.run].attempt
    BY <1>1, RowsTyped, RowFields
  <2>2. run' = [run EXCEPT ![e.run] = row]
    BY <1>3
  <2>3. run[e.run].attempt <= MaxAttempts
    BY <1>1 DEF CloudInvariant, RetryInvariant, AttemptBound
  <2> HIDE DEF row
  <2>4. RetryInvariant'
    <3>1. row.status # "absent" /\ row.status # "queued"
      BY <2>1 DEF Terminal
    <3> QED BY <1>1, <2>1, <2>2, <2>3, <3>1, RetryOfRow DEF RunKept, CloudInvariant
  <2>5. \A r \in Runs : KeepsOwner(r)
    BY <1>1, <2>1, <2>2 DEF KeepsOwner
  <2> QED BY <2>4, <2>5
<1> QED BY <1>2, <1>3 DEF Report, SetRow

LEMMA RenewStep ==
    ASSUME CloudInvariant, NEW e \in exec, NEW t \in Stamps, NEW seq \in Nat, Watched(e, t),
           SetRow(e, [run[e.run] EXCEPT !.lease = GrantedLease(t), !.seq = seq]),
           events' \subseteq Runs \X Nat \X Nat,
           UNCHANGED <<now, gate, assigned, requests, cancelling, tick, crashes, denied>>
    PROVE  RetryInvariant' /\ \A r \in Runs : KeepsOwner(r)
<1>1. run \in [Runs -> Row] /\ e.run \in Runs /\ now \in Nat /\ run[e.run] \in Row
  BY DEF CloudInvariant, RetryInvariant, TypeOK, Executing, Execution
<1> DEFINE row == [run[e.run] EXCEPT !.lease = GrantedLease(t), !.seq = seq]
<1>2. /\ row.status = run[e.run].status /\ row.owner = run[e.run].owner
      /\ row.lease = GrantedLease(t) /\ row.attempt = run[e.run].attempt
  BY <1>1 DEF Row
<1>3. GrantedLease(t) \in Nat /\ GrantedLease(t) = t + LeaseMs
  BY <1>1, StampsAreTimes, SkewAssumption DEF GrantedLease
<1>4. row \in Row
  BY <1>1, <1>3 DEF Row, Times
<1>5. run[e.run].status = "running"
  BY DEF Watched, Owned, Fenced
<1>6. run[e.run].attempt <= MaxAttempts
  BY <1>1 DEF CloudInvariant, RetryInvariant, AttemptBound
<1>7. run' = [run EXCEPT ![e.run] = row]
  BY DEF SetRow
<1> HIDE DEF row
<1>8. RetryInvariant'
  BY <1>1, <1>2, <1>3, <1>4, <1>5, <1>6, <1>7, RetryOfRow DEF CloudInvariant
<1>9. \A r \in Runs : KeepsOwner(r)
  BY <1>1, <1>2, <1>7 DEF KeepsOwner
<1> QED BY <1>8, <1>9

LEMMA RenewLeaseStep ==
    ASSUME CloudInvariant, NEW e \in exec, NEW t \in Stamps, Watched(e, t), Renew(e, t), RunKept
    PROVE  RetryInvariant' /\ \A r \in Runs : KeepsOwner(r)
<1>1. run[e.run] \in Row /\ run[e.run].seq \in Nat /\ events \subseteq Runs \X Nat \X Nat
  BY DEF CloudInvariant, RetryInvariant, TypeOK, Executing, Execution, Row
<1>2. [run[e.run] EXCEPT !.lease = GrantedLease(t)]
        = [run[e.run] EXCEPT !.lease = GrantedLease(t), !.seq = run[e.run].seq]
  BY <1>1 DEF Row
<1>3. SetRow(e, [run[e.run] EXCEPT !.lease = GrantedLease(t), !.seq = run[e.run].seq])
  BY <1>2 DEF Renew
<1> QED BY <1>1, <1>3, RenewStep DEF RunKept

LEMMA ClaimStep ==
    ASSUME CloudInvariant, NEW e \in exec, NEW t \in Stamps, ClaimCloud(e, t)
    PROVE  CloudInvariant'
<1>1. /\ run \in [Runs -> Row] /\ e \in Execution /\ e.run \in Runs /\ e.proc \in Runners
      /\ now \in Nat /\ run[e.run] \in Row /\ t \in Nat /\ events \subseteq Runs \X Nat \X Nat
  BY StampsAreTimes DEF CloudInvariant, RetryInvariant, TypeOK, Executing, Execution
<1>2. WorkersTyped'
  BY DEF ClaimCloud, RunKept, WorkerKept, WorkersTyped, CloudInvariant
<1>3. CASE Over(e) /\ UNCHANGED run
  <2>1. RetryInvariant'
    BY <1>3, RetryOfNoRow DEF CloudInvariant, ClaimCloud, RunKept
  <2>2. Executing'
    BY <1>3, ExecutionsDropped, NoRowKeepsOwners DEF CloudInvariant, Over
  <2> QED BY <1>2, <2>1, <2>2 DEF CloudInvariant
<1>4. CASE /\ run[e.run].status = "queued"
           /\ SetRow(e, ClaimedRow(run[e.run], e.proc, t))
           /\ Move(e, [At(e, "access") EXCEPT !.attempt = NextAttempt(run[e.run])])
  <2> DEFINE row == ClaimedRow(run[e.run], e.proc, t)
             f == [At(e, "access") EXCEPT !.attempt = NextAttempt(run[e.run])]
  <2>1. /\ row \in Row /\ row.status = "running" /\ row.owner = e.proc
        /\ row.lease = t + LeaseMs /\ row.attempt = run[e.run].attempt + 1
    BY <1>1, RowsTyped, RowFields
  <2>2. run[e.run].attempt < MaxAttempts /\ run[e.run].attempt \in Nat
    BY <1>1, <1>4 DEF CloudInvariant, RetryInvariant, QueuedIsFresh, Row
  <2>3. row.attempt <= MaxAttempts
    BY <2>1, <2>2, AttemptsAssumption
  <2>4. run' = [run EXCEPT ![e.run] = row]
    BY <1>4 DEF SetRow
  <2>5. /\ f \in Execution /\ f.proc = e.proc /\ f.run = e.run
        /\ f.attempt = run[e.run].attempt + 1 /\ f.stage = "access"
    <3>1. /\ At(e, "access") \in Execution /\ At(e, "access").proc = e.proc
          /\ At(e, "access").run = e.run /\ At(e, "access").stage = "access"
      BY <1>1, StagesTyped DEF Stages
    <3> QED BY <2>2, <3>1 DEF Execution, NextAttempt
  <2>6. exec' = (exec \ {e}) \cup {f}
    BY <1>4 DEF Move
  <2> HIDE DEF row, f
  <2>7. RetryInvariant'
    BY <1>1, <2>1, <2>3, <2>4, RetryOfRow DEF CloudInvariant, ClaimCloud, RunKept
  <2>8. exec' \subseteq Execution /\ OneExecutionEach'
    BY <2>5, <2>6 DEF CloudInvariant, Executing, OneExecutionEach
  <2>9. OwnersAttempt'
    <3> SUFFICES ASSUME NEW g \in exec', g.stage # "claim", run'[g.run].owner = g.proc
                 PROVE  run'[g.run].attempt = g.attempt
      BY DEF OwnersAttempt
    <3>1. CASE g = f
      BY <1>1, <2>1, <2>4, <2>5, <3>1
    <3>2. CASE g \in exec \ {e} /\ g.run = e.run
      BY <1>1, <2>1, <2>4, <3>2 DEF CloudInvariant, Executing, OneExecutionEach
    <3>3. CASE g \in exec \ {e} /\ g.run # e.run
      <4>1. g.run \in Runs /\ run'[g.run] = run[g.run]
        BY <1>1, <2>4, <3>3 DEF CloudInvariant, Executing, Execution
      <4> QED BY <3>3, <4>1 DEF CloudInvariant, Executing, OwnersAttempt
    <3> QED BY <2>6, <3>1, <3>2, <3>3
  <2>10. AttemptBegun' /\ ResultKnown'
    BY <2>2, <2>5, <2>6 DEF CloudInvariant, Executing, AttemptBegun, ResultKnown
  <2> QED BY <1>2, <2>7, <2>8, <2>9, <2>10 DEF CloudInvariant, Executing
<1> QED BY <1>3, <1>4 DEF ClaimCloud

(* The steps that change no row and move one execution.                     *)

LEMMA MoveStep ==
    ASSUME CloudInvariant, NEW e \in exec, NEW f \in Execution, Move(e, f) \/ Over(e),
           f.proc = e.proc, f.run = e.run, f.attempt = e.attempt, e.stage # "claim",
           f.stage = "deliver" => f.result # "none",
           RowsKept, WorkersTyped'
    PROVE  CloudInvariant'
<1>1. RetryInvariant'
  BY RetryOfNoRow DEF CloudInvariant, RowsKept, RunKept
<1>2. Executing'
  <2>1. CASE Move(e, f)
    BY <2>1, ExecutionMoved, NoRowKeepsOwners DEF CloudInvariant, RowsKept
  <2>2. CASE Over(e)
    BY <2>2, ExecutionsDropped, NoRowKeepsOwners DEF CloudInvariant, RowsKept, Over
  <2> QED BY <2>1, <2>2
<1> QED BY <1>1, <1>2 DEF CloudInvariant

LEMMA AdmitStep ==
    ASSUME CloudInvariant, NEW e \in exec, Admit(e)
    PROVE  CloudInvariant'
<1> DEFINE th == <<e.proc, e.run, e.attempt>>
           d == At(e, "send")
<1>1. e \in Execution /\ e.run \in Runs /\ e.proc \in Runners /\ e.attempt \in Nat
  BY DEF CloudInvariant, Executing, Execution
<1>2. WorkersTyped
  BY DEF CloudInvariant
<1>3. CASE Admits(e) /\ receipt' = [receipt EXCEPT ![e.run] = th]
           /\ thread' = [thread EXCEPT ![th] = "idle"]
           /\ Move(e, [d EXCEPT !.thread = th])
  <2>1. run[e.run].attempt = e.attempt
    BY <1>3 DEF Admits, Admit, CloudInvariant, Executing, OwnersAttempt
  <2>2. e.attempt <= MaxAttempts
    BY <1>1, <2>1 DEF CloudInvariant, RetryInvariant, AttemptBound
  <2>3. e.attempt >= 1
    BY DEF Admit, CloudInvariant, Executing, AttemptBegun
  <2>4. th \in Threads
    BY <1>1, <2>2, <2>3, AttemptsAssumption DEF Threads
  <2>5. WorkersTyped'
    <3>1. receipt' \in [Runs -> Threads \cup {NoThread}]
      BY <1>1, <1>2, <1>3, <2>4 DEF WorkersTyped
    <3>2. thread' \in [Threads -> ThreadStates]
      BY <1>2, <1>3 DEF WorkersTyped, ThreadStates
    <3> QED BY <1>2, <3>1, <3>2 DEF WorkersTyped, Admit, RowsKept, RunKept
  <2>6. d \in Execution /\ d.proc = e.proc /\ d.run = e.run /\ d.attempt = e.attempt
        /\ d.stage = "send"
    BY <1>1, StagesTyped DEF Stages
  <2> DEFINE f == [d EXCEPT !.thread = th]
  <2>7. f \in Execution /\ f.proc = e.proc /\ f.run = e.run /\ f.attempt = e.attempt
        /\ f.stage = "send"
    <3> HIDE DEF d, th
    <3> QED BY <2>4, <2>6 DEF Execution
  <2>8. Move(e, f)
    BY <1>3
  <2> HIDE DEF f
  <2> QED BY <2>5, <2>7, <2>8, MoveStep DEF Admit
<1>4. CASE Move(e, Failed(e)) /\ WorkerKept
  <2>1. WorkersTyped'
    BY <1>2, <1>4 DEF WorkersTyped, WorkerKept, Admit, RowsKept, RunKept
  <2> QED BY <1>1, <1>4, <2>1, StagesTyped, MoveStep DEF Admit
<1> QED BY <1>3, <1>4 DEF Admit

(* The statements that write the row of an execution.                       *)

LEMMA ReportOver ==
    ASSUME CloudInvariant, NEW e \in exec, NEW t \in Stamps, NEW status \in Terminal,
           Report(e, status, t), Over(e), RunKept, WorkerKept
    PROVE  CloudInvariant'
<1>1. RetryInvariant' /\ \A r \in Runs : KeepsOwner(r)
  BY ReportStep
<1>2. Executing'
  BY <1>1, ExecutionsDropped DEF CloudInvariant, Over
<1>3. WorkersTyped'
  BY DEF CloudInvariant, WorkersTyped, WorkerKept, RunKept
<1> QED BY <1>1, <1>2, <1>3 DEF CloudInvariant

LEMMA DenyStep ==
    ASSUME CloudInvariant, NEW e \in exec, DenyAccess(e)
    PROVE  CloudInvariant'
<1>1. run \in [Runs -> Row] /\ e.run \in Runs /\ run[e.run] \in Row
      /\ events \subseteq Runs \X Nat \X Nat
  BY DEF CloudInvariant, RetryInvariant, TypeOK, Executing, Execution
<1> DEFINE row == SkippedRow(run[e.run])
<1>2. run' = [run EXCEPT ![e.run] = row]
  BY DEF DenyAccess, SetRow
<1>3. RetryInvariant' /\ \A r \in Runs : KeepsOwner(r)
  <2>1. CASE run[e.run].status \in Active
    <3>1. /\ row \in Row /\ row.status = "skipped" /\ row.owner = NoOwner /\ row.lease = NULL
          /\ row.attempt = run[e.run].attempt
      BY <1>1, <2>1, RowsTyped, RowFields
    <3>2. run[e.run].attempt <= MaxAttempts
      BY <1>1 DEF CloudInvariant, RetryInvariant, AttemptBound
    <3> HIDE DEF row
    <3>3. RetryInvariant'
      BY <1>1, <1>2, <3>1, <3>2, RunnersAssumption, RetryOfRow
         DEF CloudInvariant, DenyAccess, RunKept
    <3>4. \A r \in Runs : KeepsOwner(r)
      BY <1>1, <1>2, <3>1 DEF KeepsOwner
    <3> QED BY <3>3, <3>4
  <2>2. CASE run[e.run].status \notin Active
    <3>1. row = run[e.run]
      BY <1>1, <2>2, RowFields
    <3>2. run' = run
      BY <1>1, <1>2, <3>1
    <3> QED BY <3>2, RetryOfNoRow, NoRowKeepsOwners DEF CloudInvariant, DenyAccess, RunKept
  <2> QED BY <2>1, <2>2
<1>4. Executing'
  BY <1>3, ExecutionsDropped DEF CloudInvariant, DenyAccess, Over
<1>5. WorkersTyped'
  BY DEF CloudInvariant, WorkersTyped, DenyAccess, WorkerKept, RunKept
<1> QED BY <1>3, <1>4, <1>5 DEF CloudInvariant

LEMMA FirstMonitorStep ==
    ASSUME CloudInvariant, NEW e \in exec, NEW t \in Stamps, FirstMonitor(e, t)
    PROVE  CloudInvariant'
<1>1. e \in Execution
  BY DEF CloudInvariant, Executing
<1>2. CASE Watched(e, t) /\ Renew(e, t) /\ Move(e, At(e, "read"))
  <2>1. RetryInvariant' /\ \A r \in Runs : KeepsOwner(r)
    BY <1>2, RenewLeaseStep DEF FirstMonitor
  <2>2. Executing'
    BY <1>1, <1>2, <2>1, StagesTyped, ExecutionMoved DEF CloudInvariant, FirstMonitor, Stages
  <2>3. WorkersTyped'
    BY DEF CloudInvariant, WorkersTyped, FirstMonitor, WorkerKept, RunKept
  <2> QED BY <2>1, <2>2, <2>3 DEF CloudInvariant
<1>3. CASE Report(e, "cancelled", t) /\ Over(e)
  BY <1>3, ReportOver DEF FirstMonitor, Terminal
<1> QED BY <1>2, <1>3 DEF FirstMonitor

LEMMA MonitorStep ==
    ASSUME CloudInvariant, NEW e \in exec, NEW t \in Stamps, Monitor(e, t)
    PROVE  CloudInvariant'
<1>1. e \in Execution
  BY DEF CloudInvariant, Executing
<1>2. WorkersTyped'
  BY DEF CloudInvariant, WorkersTyped, Monitor, WorkerKept, RunKept
<1>3. CASE Watched(e, t) /\ Renew(e, t) /\ UNCHANGED exec
  <2>1. RetryInvariant' /\ \A r \in Runs : KeepsOwner(r)
    BY <1>3, RenewLeaseStep DEF Monitor
  <2>2. Executing'
    BY <1>3, <2>1, ExecutionsDropped DEF CloudInvariant
  <2> QED BY <1>2, <2>1, <2>2 DEF CloudInvariant
<1>4. CASE UNCHANGED run /\ Move(e, At(e, "abort"))
  BY <1>1, <1>2, <1>4, StagesTyped, MoveStep DEF Monitor, RowsKept, Stages
<1>5. CASE UNCHANGED run /\ Over(e)
  <2>1. e.stage # "deliver" /\ e.stage # "claim"
    BY DEF Monitor
  <2> QED BY <1>1, <1>2, <1>5, <2>1, MoveStep DEF Monitor, RowsKept
<1> QED BY <1>3, <1>4, <1>5 DEF Monitor

LEMMA DeliverStep ==
    ASSUME CloudInvariant, NEW e \in exec, NEW t \in Stamps, DeliverEvent(e, t)
    PROVE  CloudInvariant'
<1>1. e \in Execution /\ e.run \in Runs /\ e.attempt \in Nat /\ e.sent \in Nat
      /\ events \subseteq Runs \X Nat \X Nat
  BY DEF CloudInvariant, RetryInvariant, TypeOK, Executing, Execution
<1> DEFINE s == e.sent + 1
           f == [e EXCEPT !.sent = s]
<1>2. WorkersTyped'
  BY DEF CloudInvariant, WorkersTyped, DeliverEvent, WorkerKept
<1>3. CASE /\ Watched(e, t)
           /\ SetRow(e, [run[e.run] EXCEPT !.lease = GrantedLease(t), !.seq = s])
           /\ events' = events \cup {<<e.run, e.attempt, s>>}
           /\ Move(e, f)
  <2>1. s \in Nat /\ events' \subseteq Runs \X Nat \X Nat
    BY <1>1, <1>3
  <2>2. RetryInvariant' /\ \A r \in Runs : KeepsOwner(r)
    BY <1>3, <2>1, RenewStep DEF DeliverEvent
  <2>3. f \in Execution /\ f.proc = e.proc /\ f.run = e.run /\ f.attempt = e.attempt
        /\ f.result # "none"
    BY <1>1, <2>1 DEF Execution, DeliverEvent, CloudInvariant, Executing, ResultKnown
  <2> HIDE DEF f
  <2>4. Executing'
    BY <1>3, <2>2, <2>3, ExecutionMoved DEF CloudInvariant, DeliverEvent
  <2> QED BY <1>2, <2>2, <2>4 DEF CloudInvariant
<1>4. CASE Over(e) /\ UNCHANGED <<run, events>>
  <2>1. RowsKept
    BY <1>4 DEF DeliverEvent, RowsKept, RunKept
  <2>2. e.result # "none"
    BY DEF DeliverEvent, CloudInvariant, Executing, ResultKnown
  <2> QED BY <1>1, <1>2, <1>4, <2>1, <2>2, MoveStep DEF DeliverEvent
<1> QED BY <1>3, <1>4 DEF DeliverEvent

LEMMA ExecStepKeeps ==
    ASSUME CloudInvariant, NEW e \in exec, ExecStep(e)
    PROVE  CloudInvariant'
<1>1. e \in Execution /\ (e.stage = "deliver" => e.result # "none")
  BY DEF CloudInvariant, Executing, ResultKnown
<1>2. ASSUME NEW t \in Stamps, ClaimCloud(e, t) PROVE CloudInvariant'
  BY <1>2, ClaimStep
<1>3. ASSUME NEW t \in Stamps, EndScript(e, t) PROVE CloudInvariant'
  BY <1>3, ReportOver DEF EndScript, Terminal
<1>4. ASSUME NEW t \in Stamps, FirstMonitor(e, t) PROVE CloudInvariant'
  BY <1>4, FirstMonitorStep
<1>5. ASSUME NEW t \in Stamps, DeliverEvent(e, t) PROVE CloudInvariant'
  BY <1>5, DeliverStep
<1>6. ASSUME NEW t \in Stamps, CompleteCloud(e, t) PROVE CloudInvariant'
  <2>1. e.result \in Terminal
    BY <1>1, <1>6 DEF CompleteCloud, Execution, Terminal
  <2> QED BY <1>6, <2>1, ReportOver DEF CompleteCloud
<1>7. CASE DenyAccess(e)
  BY <1>7, DenyStep
<1>8. CASE Admit(e)
  BY <1>8, AdmitStep
<1>9. ASSUME NEW f \in Execution, Move(e, f), RowsKept, WorkerKept, e.stage # "claim",
             f.proc = e.proc, f.run = e.run, f.attempt = e.attempt,
             f.stage = "deliver" => f.result # "none"
      PROVE  CloudInvariant'
  <2>1. WorkersTyped'
    BY <1>9 DEF CloudInvariant, WorkersTyped, WorkerKept, RowsKept, RunKept
  <2> QED BY <1>9, <2>1, MoveStep
<1>10. CASE ReadReceipt(e)
  <2> DEFINE d == At(e, "prepare")
             th == IF run[e.run].status = "running" THEN receipt[e.run] ELSE NoThread
             f == [d EXCEPT !.thread = th]
  <2>1. d \in Execution /\ d.proc = e.proc /\ d.run = e.run /\ d.attempt = e.attempt
        /\ d.stage = "prepare"
    BY <1>1, StagesTyped DEF Stages
  <2>2. th \in Threads \cup {NoThread}
    BY <1>1 DEF CloudInvariant, WorkersTyped, Execution
  <2>3. f \in Execution /\ f.proc = e.proc /\ f.run = e.run /\ f.attempt = e.attempt
        /\ f.stage = "prepare"
    <3> HIDE DEF d, th
    <3> QED BY <2>1, <2>2 DEF Execution
  <2>4. Move(e, f)
    BY <1>10 DEF ReadReceipt
  <2> HIDE DEF f
  <2> QED BY <1>9, <1>10, <2>3, <2>4 DEF ReadReceipt
<1>11. CASE FailEarly(e)
  BY <1>1, <1>9, <1>11, StagesTyped DEF FailEarly
<1>12. CASE Adopt(e)
  BY <1>1, <1>9, <1>12, StagesTyped DEF Adopt, Stages
<1>13. CASE RefuseTurn(e)
  <2>1. Move(e, Failed(e)) \/ Move(e, At(e, "stop"))
    BY <1>13 DEF RefuseTurn
  <2> QED BY <1>1, <1>9, <1>13, <2>1, StagesTyped DEF RefuseTurn, Stages
<1>14. ASSUME Move(e, At(e, "wait")) \/ Move(e, At(e, "stop")) \/ Move(e, Failed(e)) \/ Over(e),
              e.stage \notin {"claim", "deliver"}, RowsKept, UNCHANGED receipt,
              thread' \in [Threads -> ThreadStates]
       PROVE  CloudInvariant'
  <2>1. WorkersTyped'
    BY <1>14 DEF CloudInvariant, WorkersTyped, RowsKept, RunKept
  <2> QED BY <1>1, <1>14, <2>1, StagesTyped, MoveStep DEF Stages
<1>15. \A th, s : s \in ThreadStates => [thread EXCEPT ![th] = s] \in [Threads -> ThreadStates]
  BY DEF CloudInvariant, WorkersTyped
<1>16. thread \in [Threads -> ThreadStates]
  BY DEF CloudInvariant, WorkersTyped
<1>17. CASE SendTurn(e)
  <2>1. thread' \in [Threads -> ThreadStates]
    BY <1>16, <1>17 DEF SendTurn, ThreadStates
  <2> QED BY <1>14, <1>17, <2>1 DEF SendTurn
<1>18. CASE ObserveTurn(e)
  <2> DEFINE d == At(e, "deliver")
             f == [d EXCEPT !.result = Outcome(thread[e.thread])]
  <2>1. d \in Execution /\ d.proc = e.proc /\ d.run = e.run /\ d.attempt = e.attempt
    BY <1>1, StagesTyped DEF Stages
  <2>2. Outcome(thread[e.thread]) \in {"succeeded", "failed"}
    BY <1>18 DEF ObserveTurn, Outcome
  <2>3. f \in Execution /\ f.proc = e.proc /\ f.run = e.run /\ f.attempt = e.attempt
        /\ f.result # "none"
    <3> HIDE DEF d
    <3> QED BY <2>1, <2>2 DEF Execution
  <2>4. Move(e, f)
    BY <1>18 DEF ObserveTurn
  <2> HIDE DEF f
  <2> QED BY <1>9, <1>18, <2>3, <2>4 DEF ObserveTurn
<1>19. CASE Interrupt(e)
  BY <1>14, <1>16, <1>19 DEF Interrupt, WorkerKept
<1>20. CASE StopTurn(e)
  <2>1. thread' \in [Threads -> ThreadStates]
    BY <1>16, <1>20 DEF StopTurn, ThreadStates
  <2> QED BY <1>14, <1>20, <2>1 DEF StopTurn
<1> QED BY <1>2, <1>3, <1>4, <1>5, <1>6, <1>7, <1>8, <1>10, <1>11, <1>12, <1>13, <1>17, <1>18,
           <1>19, <1>20 DEF ExecStep

(* The steps of the loop, of users and of the world.                        *)

\* A step of the table alone.
LEMMA TableStep ==
    ASSUME CloudInvariant, Next, UNCHANGED cloudVars, \A r \in Runs : KeepsOwner(r)
    PROVE  CloudInvariant'
<1>1. RetryInvariant'
  BY RetryNext DEF CloudInvariant
<1>2. Executing'
  BY ExecutionsDropped DEF CloudInvariant, cloudVars
<1>3. WorkersTyped'
  BY DEF CloudInvariant, WorkersTyped, cloudVars
<1> QED BY <1>1, <1>2, <1>3 DEF CloudInvariant

\* A step that changes no row and at most drops executions.
LEMMA QuietStep ==
    ASSUME CloudInvariant, crashes' \in {crashes, crashes + 1},
           tick' = tick \/ \E p \in Replicas : tick' = [tick EXCEPT ![p] = IdleTick],
           UNCHANGED <<now, run, events, gate, assigned, requests, cancelling, denied>>,
           exec' \subseteq exec, WorkersTyped'
    PROVE  CloudInvariant'
BY RetryOfNoRow, ExecutionsDropped, NoRowKeepsOwners DEF CloudInvariant

LEMMA SweepStep ==
    ASSUME CloudInvariant, NEW p \in Runners, Sweep(p)
    PROVE  CloudInvariant'
<1>1. /\ p \in Replicas /\ run \in [Runs -> Row]
      /\ tick \in [Replicas -> [phase : {"idle", "recover", "expire"}, at : Nat,
                                rows : SUBSET Snapshot]]
  BY CloudAssumption DEF CloudInvariant, RetryInvariant, TypeOK
<1>2. Next /\ UNCHANGED cloudVars
  BY <1>1 DEF Sweep, Next, TickStep
<1>3. \A r \in Runs : KeepsOwner(r)
  <2>1. CASE \E t \in Stamps : RecoverSelect(p, t)
    BY <2>1, NoRowKeepsOwners DEF RecoverSelect
  <2>2. CASE RecoverUpdate(p)
    <3>1. PICK x \in tick[p].rows :
            run' = run \/ run' = [run EXCEPT ![x.run] = RecoveredRow(run[x.run], x)]
      BY <2>2 DEF RecoverUpdate, Earliest
    <3>2. x \in Snapshot /\ x.run \in Runs
      BY <1>1, <3>1 DEF Snapshot
    <3>3. RecoveredRow(run[x.run], x).owner = NoOwner
      BY <1>1, <3>2, RowFields
    <3> QED BY <1>1, <3>1, <3>2, <3>3 DEF KeepsOwner
  <2> QED BY <2>1, <2>2 DEF Sweep
<1> QED BY <1>2, <1>3, TableStep

LEMMA UserStepKeeps ==
    ASSUME CloudInvariant, UserStep
    PROVE  CloudInvariant'
<1>1. /\ run \in [Runs -> Row]
      /\ cancelling \subseteq [id : Cancellations, run : Runs, status : Statuses \ {"absent"}]
  BY DEF CloudInvariant, RetryInvariant, TypeOK
<1>2. CASE \E c \in Cancellations, r \in Runs : CancelSelect(c, r)
  <2>1. Next
    BY <1>2 DEF Next
  <2>2. \A r \in Runs : KeepsOwner(r)
    BY <1>2, NoRowKeepsOwners DEF CancelSelect
  <2> QED BY <2>1, <2>2, TableStep DEF UserStep
<1>3. ASSUME NEW x \in cancelling, CancelUpdate(x), UNCHANGED cloudVars
      PROVE  CloudInvariant'
  <2>1. Next
    BY <1>3 DEF Next
  <2>2. x.run \in Runs /\ x.status \in Statuses \ {"absent"}
    BY <1>1
  <2>3. /\ CancelledRow(run[x.run], x.status).owner = run[x.run].owner
        /\ CancelledRow(run[x.run], x.status).attempt = run[x.run].attempt
    BY <1>1, <2>2, RowFields
  <2>4. \A r \in Runs : KeepsOwner(r)
    BY <1>1, <1>3, <2>2, <2>3 DEF CancelUpdate, KeepsOwner
  <2> QED BY <1>3, <2>1, <2>4, TableStep
<1> QED BY <1>2, <1>3 DEF UserStep

LEMMA DispatchStep ==
    ASSUME CloudInvariant, NEW p \in Runners, NEW r \in Runs, DispatchCloud(p, r)
    PROVE  CloudInvariant'
<1>1. run \in [Runs -> Row] /\ events \subseteq Runs \X Nat \X Nat
  BY DEF CloudInvariant, RetryInvariant, TypeOK
<1>2. run[r] = AbsentRow
  BY DEF DispatchCloud, CloudInvariant, RetryInvariant, AbsentIsFresh
<1> DEFINE row == [run[r] EXCEPT !.status = "queued"]
<1>3. /\ row \in Row /\ row.status = "queued" /\ row.owner = NoOwner /\ row.lease = run[r].lease
      /\ row.lease = NULL /\ row.attempt = run[r].attempt /\ row.attempt = 0 /\ row.seq = 0
  <2>1. run[r] \in Row /\ "queued" \in Statuses
    BY <1>1 DEF Statuses, Active
  <2>2. /\ row \in Row /\ row.status = "queued" /\ row.owner = run[r].owner
        /\ row.lease = run[r].lease /\ row.attempt = run[r].attempt /\ row.seq = run[r].seq
    BY <2>1 DEF Row
  <2>3. run[r].owner = NoOwner /\ run[r].lease = NULL /\ run[r].attempt = 0 /\ run[r].seq = 0
    BY <1>2 DEF AbsentRow
  <2> QED BY <2>2, <2>3
<1>4. run' = [run EXCEPT ![r] = row]
  BY <1>1 DEF DispatchCloud
<1> HIDE DEF row
<1>5. RetryInvariant'
  <2>1. row.attempt < MaxAttempts /\ row.attempt <= MaxAttempts
    BY <1>3, AttemptsAssumption
  <2> QED BY <1>1, <1>3, <1>4, <2>1, RetryOfRow DEF DispatchCloud, CloudInvariant
<1>6. Executing'
  <2>1. \A q \in Runs : KeepsOwner(q)
    BY <1>1, <1>3, <1>4 DEF KeepsOwner
  <2> QED BY <2>1, ExecutionsStarted DEF DispatchCloud, CloudInvariant
<1>7. WorkersTyped'
  BY DEF DispatchCloud, CloudInvariant, WorkersTyped
<1> QED BY <1>5, <1>6, <1>7 DEF CloudInvariant

LEMMA StartStep ==
    ASSUME CloudInvariant, NEW p \in Runners, StartQueued(p)
    PROVE  CloudInvariant'
<1>1. RetryInvariant'
  BY CloudAssumption, RetryOfNoRow DEF StartQueued, CloudInvariant
<1>2. PICK rows \in SUBSET Runs : exec' = exec \cup Started(p, rows)
  BY DEF StartQueued
<1>3. Executing'
  BY <1>2, ExecutionsStarted, NoRowKeepsOwners DEF StartQueued, CloudInvariant
<1>4. WorkersTyped'
  BY DEF StartQueued, CloudInvariant, WorkersTyped
<1> QED BY <1>1, <1>3, <1>4 DEF CloudInvariant

LEMMA CloudInvariantInit == CloudInit => CloudInvariant
<1> SUFFICES ASSUME CloudInit PROVE CloudInvariant
  OBVIOUS
<1>1. RetryInvariant
  BY RetryInit DEF CloudInit
<1>2. Executing
  BY DEF CloudInit, Executing, OneExecutionEach, OwnersAttempt, AttemptBegun, ResultKnown
<1>3. WorkersTyped
  BY DEF CloudInit, WorkersTyped, ThreadStates
<1> QED BY <1>1, <1>2, <1>3 DEF CloudInvariant

LEMMA CloudInvariantNext == CloudInvariant /\ [CloudNext]_cloudSystem => CloudInvariant'
<1> SUFFICES ASSUME CloudInvariant, [CloudNext]_cloudSystem PROVE CloudInvariant'
  OBVIOUS
<1>1. WorkersTyped
  BY DEF CloudInvariant
<1>2. ASSUME NEW p \in Runners, ProcessStep(p) PROVE CloudInvariant'
  BY <1>2, SweepStep, StartStep, ExecStepKeeps DEF ProcessStep
<1>3. ASSUME NEW p \in Alive, NEW r \in Runs, DispatchCloud(p, r) PROVE CloudInvariant'
  BY <1>3, DispatchStep DEF Alive
<1>4. ASSUME NEW p \in Alive, TickAbort(p), UNCHANGED cloudVars PROVE CloudInvariant'
  <2>1. Next
    BY <1>4, CloudAssumption DEF Next, Alive
  <2> QED BY <1>4, <2>1, TableStep, NoRowKeepsOwners DEF TickAbort
<1>5. ASSUME NEW p \in Alive, Crash(p) PROVE CloudInvariant'
  <2>1. WorkersTyped'
    BY <1>1, <1>5 DEF Crash, WorkersTyped, Alive
  <2> QED BY <1>5, <2>1, QuietStep, CloudAssumption DEF Crash, Alive
<1>6. ASSUME NEW e \in exec, Throw(e) PROVE CloudInvariant'
  <2>1. WorkersTyped'
    BY <1>1, <1>6 DEF Throw, WorkersTyped
  <2> QED BY <1>6, <2>1, QuietStep DEF Throw, Over
<1>7. ASSUME NEW e \in exec, NEW t \in Stamps, Monitor(e, t) PROVE CloudInvariant'
  BY <1>7, MonitorStep
<1>8. ASSUME NEW th \in Threads, TurnEnds(th) PROVE CloudInvariant'
  <2>1. WorkersTyped'
    BY <1>1, <1>8 DEF TurnEnds, WorkersTyped, ThreadStates
  <2> QED BY <1>8, <2>1, QuietStep DEF TurnEnds, vars
<1>9. CASE UserStep
  BY <1>9, UserStepKeeps
<1>10. CASE CloudClock
  BY <1>10, TableStep, NoRowKeepsOwners DEF CloudClock, Clock, Next
<1>11. CASE UNCHANGED cloudSystem
  <2>1. WorkersTyped'
    BY <1>1, <1>11 DEF cloudSystem, cloudVars, WorkersTyped
  <2> QED BY <1>11, <2>1, QuietStep DEF cloudSystem, vars, cloudVars
<1> QED BY <1>2, <1>3, <1>4, <1>5, <1>6, <1>7, <1>8, <1>9, <1>10, <1>11 DEF CloudNext

\* However processes crash, throw and take runs over, every execution, every
\* receipt and every thread keeps its type; an execution that stores a
\* receipt does so for an attempt the table allows.
THEOREM CloudTypesCorrect == CloudSpec => []CloudTypeOK
<1>1. CloudInvariant => CloudTypeOK
  BY DEF CloudInvariant, Executing, WorkersTyped, CloudTypeOK
<1> QED BY <1>1, CloudInvariantInit, CloudInvariantNext, PTL DEF CloudSpec

\* The fences of heartbeatCloud and completeCloud name no attempt, and need
\* none: the process in the row executes the attempt in the row.
THEOREM OwnersExecuteTheirAttempt == CloudSpec => []OwnerExecutesItsAttempt
<1>1. CloudInvariant => OwnerExecutesItsAttempt
  BY DEF CloudInvariant, Executing, OwnersAttempt, OwnerExecutesItsAttempt
<1> QED BY <1>1, CloudInvariantInit, CloudInvariantNext, PTL DEF CloudSpec

\* The retry limit holds for runs that Den executes itself, too.
THEOREM CloudAttemptsAreBounded == CloudSpec => []AttemptBound
<1>1. CloudInvariant => AttemptBound
  BY DEF CloudInvariant, RetryInvariant
<1> QED BY <1>1, CloudInvariantInit, CloudInvariantNext, PTL DEF CloudSpec

-----------------------------------------------------------------------------
(* Admission.                                                               *)

LEMMA OneRowAdmits ==
    ASSUME run \in [Runs -> Row], NEW r \in Runs, NEW row, run' = [run EXCEPT ![r] = row],
           \/ row.status # "running"
           \/ row.cancel = TRUE
           \/ row.status = run[r].status /\ row.cancel = run[r].cancel
    PROVE  Admitted' \subseteq Admitted
<1> SUFFICES ASSUME NEW q \in Runs, run'[q].status = "running", ~run'[q].cancel
             PROVE  run[q].status = "running" /\ ~run[q].cancel
  BY DEF Admitted
<1>1. CASE q = r
  <2>1. run'[q] = row
    BY <1>1
  <2>2. row.cancel # TRUE
    BY <2>1
  <2>3. row.status = run[r].status /\ row.cancel = run[r].cancel
    BY <2>1, <2>2
  <2> QED BY <1>1, <2>1, <2>3
<1>2. CASE q # r
  BY <1>2
<1> QED BY <1>1, <1>2

LEMMA RowsAdmitted ==
    ASSUME NEW row \in Row
    PROVE  /\ SkippedRow(row).status = "skipped" \/ SkippedRow(row) = row
           /\ \A status \in Terminal : CompletedRow(row, status).status # "running"
           /\ \A x \in Snapshot : RecoveredRow(row, x).status # "running"
           /\ \A read \in Statuses : CancelledRow(row, read).cancel = TRUE
           /\ \A lease : /\ [row EXCEPT !.lease = lease].status = row.status
                         /\ [row EXCEPT !.lease = lease].cancel = row.cancel
           /\ \A lease, seq : /\ [row EXCEPT !.lease = lease, !.seq = seq].status = row.status
                              /\ [row EXCEPT !.lease = lease, !.seq = seq].cancel = row.cancel
<1>1. SkippedRow(row).status = "skipped" \/ SkippedRow(row) = row
  BY DEF SkippedRow, Row
<1>2. \A status \in Terminal : CompletedRow(row, status).status # "running"
  BY DEF CompletedRow, Row, Terminal
<1>3. \A x \in Snapshot : RecoveredRow(row, x).status # "running"
  BY DEF RecoveredRow, Row
<1>4. \A read \in Statuses : CancelledRow(row, read).cancel = TRUE
  BY DEF CancelledRow, Row
<1>5. \A lease : /\ [row EXCEPT !.lease = lease].status = row.status
                 /\ [row EXCEPT !.lease = lease].cancel = row.cancel
  BY DEF Row
<1>6. \A lease, seq : /\ [row EXCEPT !.lease = lease, !.seq = seq].status = row.status
                      /\ [row EXCEPT !.lease = lease, !.seq = seq].cancel = row.cancel
  BY DEF Row
<1> QED BY <1>1, <1>2, <1>3, <1>4, <1>5, <1>6

LEMMA RowStatus ==
    ASSUME NEW row \in Row, NEW status
    PROVE  [row EXCEPT !.status = status].status = status
BY DEF Row

LEMMA SameRowsAdmit == ASSUME run' = run PROVE Admitted' \subseteq Admitted
BY DEF Admitted

LEMMA ReportAdmits ==
    ASSUME CloudInvariant, NEW e \in exec, NEW t \in Stamps, NEW status \in Terminal,
           Report(e, status, t)
    PROVE  Admitted' \subseteq Admitted
<1>1. run \in [Runs -> Row] /\ e.run \in Runs /\ run[e.run] \in Row
  BY DEF CloudInvariant, RetryInvariant, TypeOK, Executing, Execution
<1>2. run' = run \/ run' = [run EXCEPT ![e.run] = CompletedRow(run[e.run], status)]
  BY DEF Report, SetRow
<1>3. CompletedRow(run[e.run], status).status # "running"
  BY <1>1, RowsAdmitted
<1> QED BY <1>1, <1>2, <1>3, OneRowAdmits, SameRowsAdmit

LEMMA RenewAdmits ==
    ASSUME CloudInvariant, NEW e \in exec, NEW t \in Stamps, Renew(e, t)
    PROVE  Admitted' \subseteq Admitted
<1>1. run \in [Runs -> Row] /\ e.run \in Runs /\ run[e.run] \in Row
  BY DEF CloudInvariant, RetryInvariant, TypeOK, Executing, Execution
<1> DEFINE row == [run[e.run] EXCEPT !.lease = GrantedLease(t)]
<1>2. row.status = run[e.run].status /\ row.cancel = run[e.run].cancel
  BY <1>1, RowsAdmitted
<1>3. run' = [run EXCEPT ![e.run] = row]
  BY DEF Renew, SetRow
<1> HIDE DEF row
<1> QED BY <1>1, <1>2, <1>3, OneRowAdmits

LEMMA ExecAdmits ==
    ASSUME CloudInvariant, NEW e \in exec, ExecStep(e), \A t \in Stamps : ~ClaimCloud(e, t)
    PROVE  Admitted' \subseteq Admitted
<1>1. run \in [Runs -> Row] /\ e \in Execution /\ e.run \in Runs /\ run[e.run] \in Row
  BY DEF CloudInvariant, RetryInvariant, TypeOK, Executing, Execution
<1>2. ASSUME NEW t \in Stamps, EndScript(e, t) PROVE Admitted' \subseteq Admitted
  BY <1>2, ReportAdmits DEF EndScript, Terminal
<1>3. ASSUME NEW t \in Stamps, FirstMonitor(e, t) PROVE Admitted' \subseteq Admitted
  BY <1>3, ReportAdmits, RenewAdmits DEF FirstMonitor, Terminal
<1>4. ASSUME NEW t \in Stamps, DeliverEvent(e, t) PROVE Admitted' \subseteq Admitted
  <2> DEFINE row == [run[e.run] EXCEPT !.lease = GrantedLease(t), !.seq = e.sent + 1]
  <2>1. row.status = run[e.run].status /\ row.cancel = run[e.run].cancel
    BY <1>1, RowsAdmitted
  <2>2. run' = run \/ run' = [run EXCEPT ![e.run] = row]
    BY <1>4 DEF DeliverEvent, SetRow
  <2> HIDE DEF row
  <2> QED BY <1>1, <2>1, <2>2, OneRowAdmits, SameRowsAdmit
<1>5. ASSUME NEW t \in Stamps, CompleteCloud(e, t) PROVE Admitted' \subseteq Admitted
  <2>1. e.result \in Terminal
    BY <1>1, <1>5 DEF CompleteCloud, Execution, Terminal, CloudInvariant, Executing, ResultKnown
  <2> QED BY <1>5, <2>1, ReportAdmits DEF CompleteCloud
<1>6. CASE DenyAccess(e)
  <2> DEFINE row == SkippedRow(run[e.run])
  <2>1. row.status = "skipped" \/ row = run[e.run]
    BY <1>1, RowsAdmitted
  <2>2. run' = [run EXCEPT ![e.run] = row]
    BY <1>6 DEF DenyAccess, SetRow
  <2> HIDE DEF row
  <2> QED BY <1>1, <2>1, <2>2, OneRowAdmits
<1>7. CASE RowsKept
  BY <1>7, SameRowsAdmit DEF RowsKept
<1> QED BY <1>2, <1>3, <1>4, <1>5, <1>6, <1>7
        DEF ExecStep, ReadReceipt, FailEarly, Admit, Adopt, RefuseTurn, SendTurn, ObserveTurn,
            Interrupt, StopTurn

LEMMA SweepAdmits ==
    ASSUME CloudInvariant, NEW p \in Runners, Sweep(p)
    PROVE  Admitted' \subseteq Admitted
<1>1. /\ p \in Replicas /\ run \in [Runs -> Row]
      /\ tick \in [Replicas -> [phase : {"idle", "recover", "expire"}, at : Nat,
                                rows : SUBSET Snapshot]]
  BY CloudAssumption DEF CloudInvariant, RetryInvariant, TypeOK
<1>2. CASE \E t \in Stamps : RecoverSelect(p, t)
  BY <1>2, SameRowsAdmit DEF RecoverSelect
<1>3. CASE RecoverUpdate(p)
  <2>1. PICK x \in tick[p].rows :
          run' = run \/ run' = [run EXCEPT ![x.run] = RecoveredRow(run[x.run], x)]
    BY <1>3 DEF RecoverUpdate, Earliest
  <2>2. x \in Snapshot /\ x.run \in Runs
    BY <1>1, <2>1 DEF Snapshot
  <2>3. RecoveredRow(run[x.run], x).status # "running"
    <3>1. run[x.run] \in Row
      BY <1>1, <2>2
    <3> QED BY <2>2, <3>1, RowsAdmitted
  <2> QED BY <1>1, <2>1, <2>2, <2>3, OneRowAdmits, SameRowsAdmit
<1> QED BY <1>2, <1>3 DEF Sweep

LEMMA OthersAdmit ==
    ASSUME CloudInvariant, [CloudNext]_cloudSystem,
           \A e \in exec, t \in Stamps : ~ClaimCloud(e, t)
    PROVE  Admitted' \subseteq Admitted
<1>1. run \in [Runs -> Row]
  BY DEF CloudInvariant, RetryInvariant, TypeOK
<1>2. ASSUME NEW p \in Runners, ProcessStep(p) PROVE Admitted' \subseteq Admitted
  BY <1>2, SweepAdmits, ExecAdmits, SameRowsAdmit DEF ProcessStep, StartQueued
<1>3. ASSUME NEW p \in Alive, NEW r \in Runs, DispatchCloud(p, r) PROVE Admitted' \subseteq Admitted
  <2> DEFINE row == [run[r] EXCEPT !.status = "queued"]
  <2>1. row.status # "running" /\ run' = [run EXCEPT ![r] = row]
    BY <1>1, <1>3, RowStatus DEF DispatchCloud
  <2> HIDE DEF row
  <2> QED BY <1>1, <2>1, OneRowAdmits
<1>4. ASSUME NEW e \in exec, NEW t \in Stamps, Monitor(e, t) PROVE Admitted' \subseteq Admitted
  BY <1>4, RenewAdmits, SameRowsAdmit DEF Monitor
<1>5. CASE UserStep
  <2>1. ASSUME NEW x \in cancelling, CancelUpdate(x) PROVE Admitted' \subseteq Admitted
    <3>1. x.run \in Runs /\ x.status \in Statuses
      BY DEF CloudInvariant, RetryInvariant, TypeOK
    <3>2. CancelledRow(run[x.run], x.status).cancel = TRUE
      BY <1>1, <3>1, RowsAdmitted
    <3> QED BY <1>1, <2>1, <3>1, <3>2, OneRowAdmits DEF CancelUpdate
  <2> QED BY <1>5, <2>1, SameRowsAdmit DEF UserStep, CancelSelect
<1>6. ASSUME run' = run PROVE Admitted' \subseteq Admitted
  BY <1>6, SameRowsAdmit
<1> QED BY <1>2, <1>3, <1>4, <1>5, <1>6
        DEF CloudNext, TickAbort, Crash, Throw, TurnEnds, CloudClock, Clock, cloudSystem, vars

LEMMA ClaimAdmits ==
    ASSUME CloudInvariant, AdmissionBound, NEW e \in exec, NEW t \in Stamps, ClaimCloud(e, t)
    PROVE  AdmissionBound'
<1> DEFINE running == {r \in Runs : run[r].status = "running"}
<1>1. IsFiniteSet(running) /\ Cardinality(running) \in Nat
  BY CloudAssumption, FS_Subset, FS_CardinalityType
<1>2. CASE run' = run
  BY <1>2 DEF AdmissionBound, Admitted
<1>3. CASE ~Full(Cardinality(running)) /\ run' # run
  <2>1. Cardinality(running) + 1 <= MaxConcurrency
    BY <1>1, <1>3, CloudAssumption DEF Full
  <2>2. Admitted' \subseteq running \cup {e.run}
    <3>1. run \in [Runs -> Row]
      BY DEF CloudInvariant, RetryInvariant, TypeOK
    <3>2. \A q \in Runs \ {e.run} : run'[q] = run[q]
      BY <1>3, <3>1 DEF ClaimCloud, SetRow
    <3> QED BY <3>2 DEF Admitted
  <2>3. /\ IsFiniteSet(running \cup {e.run})
        /\ Cardinality(running \cup {e.run}) <= Cardinality(running) + 1
        /\ Cardinality(running \cup {e.run}) \in Nat
    <3> HIDE DEF running
    <3>1. /\ IsFiniteSet(running \cup {e.run})
          /\ Cardinality(running \cup {e.run})
               = IF e.run \in running THEN Cardinality(running) ELSE Cardinality(running) + 1
      BY <1>1, FS_AddElement
    <3> QED BY <1>1, <3>1
  <2>4. /\ Cardinality(Admitted') \in Nat
        /\ Cardinality(Admitted') <= Cardinality(running \cup {e.run})
    BY <2>2, <2>3, FS_Subset, FS_CardinalityType
  <2> HIDE DEF running
  <2> QED BY <1>1, <2>1, <2>3, <2>4, CloudAssumption DEF AdmissionBound
<1> QED BY <1>2, <1>3 DEF ClaimCloud

\* Admission counts and claims in one transaction, so however many processes
\* start executions at once, the runs that count against the limit stay
\* within it.
THEOREM AdmissionIsBounded == CloudSpec => []AdmissionBound
<1>1. CloudInit => AdmissionBound
  <2> SUFFICES ASSUME CloudInit PROVE AdmissionBound
    OBVIOUS
  <2>1. Admitted = {}
    BY DEF CloudInit, Init, AbsentRow, Admitted
  <2> QED BY <2>1, FS_EmptySet, CloudAssumption DEF AdmissionBound
<1>2. CloudInvariant /\ AdmissionBound /\ [CloudNext]_cloudSystem => AdmissionBound'
  <2> SUFFICES ASSUME CloudInvariant, AdmissionBound, [CloudNext]_cloudSystem
               PROVE  AdmissionBound'
    OBVIOUS
  <2>1. CASE \E e \in exec, t \in Stamps : ClaimCloud(e, t)
    BY <2>1, ClaimAdmits
  <2>2. CASE \A e \in exec, t \in Stamps : ~ClaimCloud(e, t)
    <3>1. Admitted' \subseteq Admitted
      BY <2>2, OthersAdmit
    <3>2. IsFiniteSet(Admitted) /\ Cardinality(Admitted) \in Nat
      BY CloudAssumption, FS_Subset, FS_CardinalityType DEF Admitted
    <3>3. Cardinality(Admitted') <= Cardinality(Admitted) /\ Cardinality(Admitted') \in Nat
      BY <3>1, <3>2, FS_Subset, FS_CardinalityType
    <3> QED BY <3>2, <3>3, CloudAssumption DEF AdmissionBound
  <2> QED BY <2>1, <2>2
<1> QED BY <1>1, <1>2, CloudInvariantInit, CloudInvariantNext, PTL DEF CloudSpec
=============================================================================
