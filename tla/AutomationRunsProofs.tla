------------------------ MODULE AutomationRunsProofs ------------------------
(***************************************************************************)
(* Proofs about AutomationRuns, for any number of runs, desktops, replicas *)
(* and cancellations, any lease length and any skew below half a lease.    *)
(***************************************************************************)
EXTENDS AutomationRuns, TLAPS

USE DEF NULL

LEMMA StampsAreTimes ==
    ASSUME now \in Nat, NEW t \in Stamps
    PROVE  t \in Nat /\ t <= now + MaxSkew /\ now <= t + MaxSkew
BY SkewAssumption DEF Stamps

(* Every statement that writes a row writes a row. *)

LEMMA RowsTyped ==
    ASSUME NEW row \in Row
    PROVE  /\ \A w \in Runners, t \in Nat : ClaimedRow(row, w, t) \in Row
           /\ SkippedRow(row) \in Row
           /\ \A status \in Terminal : CompletedRow(row, status) \in Row
           /\ \A status \in Statuses : CancelledRow(row, status) \in Row
           /\ \A x \in Snapshot : RecoveredRow(row, x) \in Row
           /\ ExpiredRow(row) \in Row
<1> USE DEF Row, Statuses, Active, Terminal, Errors, Times
<1>1. ASSUME NEW w \in Runners, NEW t \in Nat PROVE ClaimedRow(row, w, t) \in Row
  <2>1. GrantedLease(t) \in Nat /\ NextAttempt(row) \in Nat
    BY SkewAssumption DEF GrantedLease, NextAttempt
  <2> DEFINE running == [row EXCEPT !.status = "running", !.owner = w]
  <2>2. running \in Row
    OBVIOUS
  <2>3. [running EXCEPT !.lease = GrantedLease(t), !.attempt = NextAttempt(row)] \in Row
    <3> HIDE DEF running
    <3> QED BY <2>1, <2>2
  <2> QED BY <2>3 DEF ClaimedRow
<1>2. SkippedRow(row) \in Row
  BY DEF SkippedRow
<1>3. ASSUME NEW status \in Terminal PROVE CompletedRow(row, status) \in Row
  BY DEF CompletedRow
<1>4. ASSUME NEW status \in Statuses PROVE CancelledRow(row, status) \in Row
  BY DEF CancelledRow
<1>5. ASSUME NEW x \in Snapshot PROVE RecoveredRow(row, x) \in Row
  BY DEF RecoveredRow, Snapshot
<1>6. ExpiredRow(row) \in Row
  BY DEF ExpiredRow
<1> QED BY <1>1, <1>2, <1>3, <1>4, <1>5, <1>6

LEMMA TypeInit == Init => TypeOK
BY DEF Init, TypeOK, AbsentRow, Row, Statuses, Active, Terminal, Errors, Times, IdleTick

LEMMA TypeNext == TypeOK /\ [Next]_vars => TypeOK'
<1> SUFFICES ASSUME TypeOK, [Next]_vars PROVE TypeOK'
  OBVIOUS
<1> USE DEF TypeOK
<1>1. ASSUME NEW r \in Runs, NEW t \in Stamps, NEW window \in ClaimWindows, Dispatch(r, t, window)
      PROVE  TypeOK'
  <2>1. t + window \in Nat
    BY StampsAreTimes, BoundsAssumption
  <2>2. run' \in [Runs -> Row]
    BY <1>1, <2>1 DEF Dispatch, AbsentRow, Row, Statuses, Active, Errors, Times, Terminal
  <2> QED BY <1>1, <2>2 DEF Dispatch
<1>2. ASSUME NEW w \in Runners, NEW r \in Runs, NEW t \in Stamps, ClaimDesktop(w, r, t)
      PROVE  TypeOK'
  <2>2. NextAttempt(run[r]) \in Nat
    BY DEF NextAttempt, Row
  <2>3. run' \in [Runs -> Row]
    BY <1>2, RowsTyped, StampsAreTimes DEF ClaimDesktop
  <2> QED BY <1>2, <2>2, <2>3 DEF ClaimDesktop
<1>3. ASSUME NEW w \in Runners, NEW r \in Runs, ReclaimDesktop(w, r)
      PROVE  TypeOK'
  BY <1>3 DEF ReclaimDesktop, Row
<1>4. ASSUME NEW g \in gate, PassGate(g)
      PROVE  TypeOK'
  BY <1>4 DEF PassGate
<1>5. ASSUME NEW g \in gate, FailGate(g)
      PROVE  TypeOK'
  <2>1. g[2] \in Runs
    OBVIOUS
  <2>2. run' \in [Runs -> Row]
    BY <1>5, <2>1, RowsTyped DEF FailGate
  <2> QED BY <1>5, <2>2 DEF FailGate
<1>6. ASSUME NEW g \in gate, LoseGate(g)
      PROVE  TypeOK'
  BY <1>6 DEF LoseGate
<1>7. ASSUME NEW w \in Runners, NEW r \in Runs, NEW a \in 1 .. MaxAttempts, NEW t \in Stamps,
             HeartbeatDesktop(w, r, a, t)
      PROVE  TypeOK'
  <2>1. GrantedLease(t) \in Nat
    BY StampsAreTimes, SkewAssumption DEF GrantedLease
  <2>2. run' \in [Runs -> Row]
    BY <1>7, <2>1 DEF HeartbeatDesktop, Row, Times
  <2> QED BY <1>7, <2>2 DEF HeartbeatDesktop
<1>8. ASSUME NEW w \in Runners, NEW r \in Runs, NEW a \in 1 .. MaxAttempts, NEW t \in Stamps,
             NEW s \in 1 .. MaxSequence, AppendDesktopEvent(w, r, a, s, t)
      PROVE  TypeOK'
  <2>1. s \in Nat /\ a \in Nat
    BY AttemptsAssumption, BoundsAssumption
  <2>2. run' \in [Runs -> Row]
    BY <1>8, <2>1 DEF AppendDesktopEvent, Row
  <2> QED BY <1>8, <2>1, <2>2 DEF AppendDesktopEvent
<1>9. ASSUME NEW w \in Runners, NEW r \in Runs, NEW a \in 1 .. MaxAttempts, NEW t \in Stamps,
             NEW status \in {"succeeded", "failed", "cancelled"}, Complete(w, r, a, status, t)
      PROVE  TypeOK'
  <2>1. run' \in [Runs -> Row]
    BY <1>9, RowsTyped DEF Complete, Terminal
  <2> QED BY <1>9, <2>1 DEF Complete
<1>10. ASSUME NEW c \in Cancellations, NEW r \in Runs, CancelSelect(c, r)
       PROVE  TypeOK'
  BY <1>10 DEF CancelSelect, Row
<1>11. ASSUME NEW x \in cancelling, CancelUpdate(x)
       PROVE  TypeOK'
  <2>1. x.run \in Runs /\ x.status \in Statuses
    OBVIOUS
  <2>2. run' \in [Runs -> Row]
    BY <1>11, <2>1, RowsTyped DEF CancelUpdate
  <2> QED BY <1>11, <2>2 DEF CancelUpdate
<1>12. ASSUME NEW p \in Replicas, NEW t \in Stamps, RecoverSelect(p, t)
       PROVE  TypeOK'
  <2>1. t \in Nat
    BY StampsAreTimes
  <2>2. PICK rows \in Batches({[run |-> r, owner |-> run[r].owner, attempt |-> run[r].attempt,
                             seq |-> run[r].seq, key |-> run[r].lease] :
                            r \in {q \in Runs : run[q].status = "running"
                                                /\ LeaseExpired(run[q], t)}}) :
             tick' = [tick EXCEPT ![p] = [phase |-> "recover", at |-> t, rows |-> rows]]
    BY <1>12 DEF RecoverSelect
  <2>3. rows \in SUBSET Snapshot
    BY <2>2 DEF Batches, Snapshot, LeaseExpired, Row, Times
  <2> QED BY <1>12, <2>1, <2>2, <2>3 DEF RecoverSelect
<1>13. ASSUME NEW p \in Replicas, RecoverUpdate(p)
       PROVE  TypeOK'
  <2>1. PICK x \in tick[p].rows :
          /\ tick' = [tick EXCEPT ![p].rows = @ \ {x}]
          /\ run' = IF x.owner # NoOwner /\ StillExpired(run[x.run], x, tick[p].at)
                    THEN [run EXCEPT ![x.run] = RecoveredRow(run[x.run], x)]
                    ELSE run
    BY <1>13 DEF RecoverUpdate, Earliest
  <2>2. x \in Snapshot
    BY <2>1
  <2>3. run' \in [Runs -> Row]
    BY <2>1, <2>2, RowsTyped DEF Snapshot
  <2>4. tick' \in [Replicas -> [phase : {"idle", "recover", "expire"}, at : Nat,
                                rows : SUBSET Snapshot]]
    BY <2>1
  <2> QED BY <1>13, <2>3, <2>4 DEF RecoverUpdate
<1>14. ASSUME NEW p \in Replicas, ExpireSelect(p)
       PROVE  TypeOK'
  <2>2. PICK rows \in Batches({[run |-> r, owner |-> run[r].owner, attempt |-> run[r].attempt,
                             seq |-> run[r].seq, key |-> run[r].deadline] :
                            r \in {q \in Runs : /\ run[q].status = "queued"
                                                /\ run[q].deadline # NULL
                                                /\ run[q].deadline <= tick[p].at}}) :
             tick' = [tick EXCEPT ![p].phase = "expire", ![p].rows = rows]
    BY <1>14 DEF ExpireSelect
  <2>3. rows \in SUBSET Snapshot
    BY <2>2 DEF Batches, Snapshot, Row, Times
  <2>4. tick' \in [Replicas -> [phase : {"idle", "recover", "expire"}, at : Nat,
                                rows : SUBSET Snapshot]]
    BY <2>2, <2>3
  <2> QED BY <1>14, <2>4 DEF ExpireSelect
<1>15. ASSUME NEW p \in Replicas, ExpireUpdate(p)
       PROVE  TypeOK'
  <2>1. PICK x \in tick[p].rows :
          /\ tick' = [tick EXCEPT ![p].rows = @ \ {x}]
          /\ run' = IF StillQueued(run[x.run])
                    THEN [run EXCEPT ![x.run] = ExpiredRow(run[x.run])]
                    ELSE run
    BY <1>15 DEF ExpireUpdate, Earliest
  <2>2. x \in Snapshot
    BY <2>1
  <2>3. run' \in [Runs -> Row]
    BY <2>1, <2>2, RowsTyped DEF Snapshot
  <2>4. tick' \in [Replicas -> [phase : {"idle", "recover", "expire"}, at : Nat,
                                rows : SUBSET Snapshot]]
    BY <2>1
  <2> QED BY <1>15, <2>3, <2>4 DEF ExpireUpdate
<1>16. ASSUME NEW p \in Replicas, TickEnd(p) \/ TickAbort(p)
       PROVE  TypeOK'
  BY <1>16 DEF TickEnd, TickAbort, IdleTick
<1>17. CASE Clock
  BY <1>17 DEF Clock
<1>18. CASE UNCHANGED vars
  BY <1>18 DEF vars
<1>19. ASSUME NEW r \in Runs, SkipDenied(r)
       PROVE  TypeOK'
  <2>1. run' \in [Runs -> Row]
    BY <1>19, RowsTyped DEF SkipDenied
  <2> QED BY <1>19, <2>1 DEF SkipDenied
<1>20. ASSUME NEW r \in Runs, LoseDenied(r)
       PROVE  TypeOK'
  BY <1>20 DEF LoseDenied
<1> HIDE DEF TypeOK
<1> QED
  BY <1>1, <1>2, <1>3, <1>4, <1>5, <1>6, <1>7, <1>8, <1>9, <1>10, <1>11, <1>12, <1>13,
     <1>14, <1>15, <1>16, <1>17, <1>18, <1>19, <1>20 DEF Next, RunnerStep, TickStep

\* Every row, receipt and pending handler keeps its type, whatever the
\* constants: in particular no path of the sweeps or of a cancellation
\* leaves a status outside the enumeration.
THEOREM TypeCorrect == Spec => []TypeOK
<1>1. Init => TypeOK
  BY TypeInit
<1>2. TypeOK /\ [Next]_vars => TypeOK'
  BY TypeNext
<1> QED BY <1>1, <1>2, PTL DEF Spec

-----------------------------------------------------------------------------
(* What each statement leaves in the columns the invariants speak about.    *)

LEMMA RowFields ==
    ASSUME NEW row \in Row
    PROVE  /\ \A w \in Runners, t \in Nat :
                /\ ClaimedRow(row, w, t).status = "running"
                /\ ClaimedRow(row, w, t).owner = w
                /\ ClaimedRow(row, w, t).lease = t + LeaseMs
                /\ ClaimedRow(row, w, t).attempt = row.attempt + 1
                /\ ClaimedRow(row, w, t).seq = row.seq
           /\ row.status \in Active =>
                /\ SkippedRow(row).status = "skipped"
                /\ SkippedRow(row).owner = NoOwner
                /\ SkippedRow(row).lease = NULL
                /\ SkippedRow(row).attempt = row.attempt
                /\ SkippedRow(row).seq = row.seq
           /\ row.status \notin Active => SkippedRow(row) = row
           /\ \A status \in Terminal :
                /\ CompletedRow(row, status).status = status
                /\ CompletedRow(row, status).owner = row.owner
                /\ CompletedRow(row, status).lease = NULL
                /\ CompletedRow(row, status).attempt = row.attempt
                /\ CompletedRow(row, status).seq = row.seq
           /\ \A read \in Statuses \ {"absent"} :
                /\ CancelledRow(row, read).status \notin {"absent", "queued"}
                /\ CancelledRow(row, read).owner = row.owner
                /\ CancelledRow(row, read).lease = row.lease
                /\ CancelledRow(row, read).attempt = row.attempt
                /\ CancelledRow(row, read).seq = row.seq
           /\ \A x \in Snapshot :
                /\ RecoveredRow(row, x).status = IF x.attempt < MaxAttempts THEN "queued" ELSE "failed"
                /\ RecoveredRow(row, x).owner = NoOwner
                /\ RecoveredRow(row, x).lease = NULL
                /\ RecoveredRow(row, x).attempt = row.attempt
                /\ RecoveredRow(row, x).seq = IF x.attempt < MaxAttempts THEN 0 ELSE x.seq
           /\ ExpiredRow(row).status = "skipped"
           /\ ExpiredRow(row).owner = row.owner
           /\ ExpiredRow(row).lease = row.lease
           /\ ExpiredRow(row).attempt = row.attempt
           /\ ExpiredRow(row).seq = row.seq
<1> USE DEF Row
<1>1. ASSUME NEW w \in Runners, NEW t \in Nat
      PROVE  /\ ClaimedRow(row, w, t).status = "running"
             /\ ClaimedRow(row, w, t).owner = w
             /\ ClaimedRow(row, w, t).lease = t + LeaseMs
             /\ ClaimedRow(row, w, t).attempt = row.attempt + 1
             /\ ClaimedRow(row, w, t).seq = row.seq
  BY DEF ClaimedRow, GrantedLease, NextAttempt
<1>2. row.status \in Active =>
        /\ SkippedRow(row).status = "skipped"
        /\ SkippedRow(row).owner = NoOwner
        /\ SkippedRow(row).lease = NULL
        /\ SkippedRow(row).attempt = row.attempt
        /\ SkippedRow(row).seq = row.seq
  BY DEF SkippedRow
<1>3. row.status \notin Active => SkippedRow(row) = row
  BY DEF SkippedRow
<1>4. ASSUME NEW status \in Terminal
      PROVE  /\ CompletedRow(row, status).status = status
             /\ CompletedRow(row, status).owner = row.owner
             /\ CompletedRow(row, status).lease = NULL
             /\ CompletedRow(row, status).attempt = row.attempt
             /\ CompletedRow(row, status).seq = row.seq
  BY DEF CompletedRow
<1>5. ASSUME NEW read \in Statuses \ {"absent"}
      PROVE  /\ CancelledRow(row, read).status \notin {"absent", "queued"}
             /\ CancelledRow(row, read).owner = row.owner
             /\ CancelledRow(row, read).lease = row.lease
             /\ CancelledRow(row, read).attempt = row.attempt
             /\ CancelledRow(row, read).seq = row.seq
  BY DEF CancelledRow
<1>6. ASSUME NEW x \in Snapshot
      PROVE  /\ RecoveredRow(row, x).status = IF x.attempt < MaxAttempts THEN "queued" ELSE "failed"
             /\ RecoveredRow(row, x).owner = NoOwner
             /\ RecoveredRow(row, x).lease = NULL
             /\ RecoveredRow(row, x).attempt = row.attempt
             /\ RecoveredRow(row, x).seq = IF x.attempt < MaxAttempts THEN 0 ELSE x.seq
  BY DEF RecoveredRow, Retry
<1>7. /\ ExpiredRow(row).status = "skipped"
      /\ ExpiredRow(row).owner = row.owner
      /\ ExpiredRow(row).lease = row.lease
      /\ ExpiredRow(row).attempt = row.attempt
      /\ ExpiredRow(row).seq = row.seq
  BY DEF ExpiredRow
<1> HIDE DEF Row
<1> QED BY <1>1, <1>2, <1>3, <1>4, <1>5, <1>6, <1>7

-----------------------------------------------------------------------------
(* The retry bound.                                                         *)

LEMMA RetryInit == Init => RetryInvariant
BY TypeInit, AttemptsAssumption, SkewAssumption
   DEF Init, RetryInvariant, AbsentIsFresh, QueuedIsFresh, AttemptBound, SweepStamped,
       DecisionIsCurrent, AbsentRow, IdleTick

LEMMA RetryNext == RetryInvariant /\ [Next]_vars => RetryInvariant'
<1> SUFFICES ASSUME RetryInvariant, [Next]_vars PROVE RetryInvariant'
  OBVIOUS
<1>0. TypeOK'
  BY TypeNext DEF RetryInvariant
<1> DEFINE Rest == AbsentIsFresh' /\ QueuedIsFresh' /\ AttemptBound' /\ SweepStamped'
                   /\ DecisionIsCurrent'
<1> USE AttemptsAssumption, SkewAssumption
        DEF RetryInvariant, AbsentIsFresh, QueuedIsFresh, AttemptBound, SweepStamped,
            DecisionIsCurrent, StillExpired, LeaseExpired
<1>a. run \in [Runs -> Row] /\ now \in Nat
      /\ tick \in [Replicas -> [phase : {"idle", "recover", "expire"}, at : Nat,
                                rows : SUBSET Snapshot]]
      /\ \A r \in Runs : run[r].attempt \in Nat
  BY DEF TypeOK, Row
<1>1. ASSUME NEW r \in Runs, NEW t \in Stamps, NEW window \in ClaimWindows, Dispatch(r, t, window)
      PROVE  Rest
  <2>1. /\ run'[r].status \in {"skipped", "queued"} /\ run'[r].attempt = 0
        /\ run'[r].seq = 0 /\ run'[r].lease = NULL
        /\ \A q \in Runs \ {r} : run'[q] = run[q]
    BY <1>1, <1>a DEF Dispatch, AbsentRow
  <2>2. AbsentIsFresh' /\ QueuedIsFresh' /\ AttemptBound' /\ SweepStamped'
    BY <1>1, <2>1, <1>a DEF Dispatch
  <2>3. DecisionIsCurrent'
    BY <1>1, <2>1, <1>a DEF Dispatch, Snapshot
  <2> QED BY <2>2, <2>3
<1>2. ASSUME NEW w \in Runners, NEW r \in Runs, NEW t \in Stamps, ClaimDesktop(w, r, t)
      PROVE  Rest
  <2>1. t \in Nat /\ now <= t + MaxSkew
    BY <1>a, StampsAreTimes
  <2>2. run'[r] = ClaimedRow(run[r], w, t) /\ \A q \in Runs \ {r} : run'[q] = run[q]
    BY <1>2, <1>a DEF ClaimDesktop
  <2>3. run'[r].status = "running" /\ run'[r].lease = t + LeaseMs
        /\ run'[r].attempt = run[r].attempt + 1
    BY <2>1, <2>2, <1>a, RowFields
  <2>4. AbsentIsFresh' /\ QueuedIsFresh' /\ AttemptBound'
    BY <1>2, <2>2, <2>3, <1>a DEF ClaimDesktop
  <2>5. SweepStamped'
    BY <1>2 DEF ClaimDesktop
  <2>6. DecisionIsCurrent'
    <3> SUFFICES ASSUME NEW p \in Replicas, NEW x \in tick[p].rows, tick[p].phase = "recover",
                        StillExpired(run'[x.run], x, tick[p].at)
                 PROVE  run'[x.run].attempt = x.attempt
      BY <1>2 DEF ClaimDesktop
    <3>1. x.run \in Runs /\ tick[p].at \in Nat /\ tick[p].at <= now + MaxSkew
      BY <1>a DEF Snapshot
    <3>2. x.run # r
      BY <2>1, <2>3, <3>1, <1>a
    <3> QED BY <2>2, <3>1, <3>2
  <2> QED BY <2>4, <2>5, <2>6
<1>3. ASSUME NEW w \in Runners, NEW r \in Runs, NEW a \in 1 .. MaxAttempts, NEW t \in Stamps,
             HeartbeatDesktop(w, r, a, t)
      PROVE  Rest
  <2>1. t \in Nat /\ now <= t + MaxSkew
    BY <1>a, StampsAreTimes
  <2>2. /\ run[r].status = "running" /\ run'[r].status = "running"
        /\ run'[r].lease = t + LeaseMs /\ run'[r].attempt = run[r].attempt
        /\ \A q \in Runs \ {r} : run'[q] = run[q]
    BY <1>3, <1>a DEF HeartbeatDesktop, Fenced, GrantedLease, Row
  <2>4. AbsentIsFresh' /\ QueuedIsFresh' /\ AttemptBound' /\ SweepStamped'
    BY <1>3, <2>2, <1>a DEF HeartbeatDesktop
  <2>6. DecisionIsCurrent'
    <3> SUFFICES ASSUME NEW p \in Replicas, NEW x \in tick[p].rows, tick[p].phase = "recover",
                        StillExpired(run'[x.run], x, tick[p].at)
                 PROVE  run'[x.run].attempt = x.attempt
      BY <1>3 DEF HeartbeatDesktop
    <3>1. x.run \in Runs /\ tick[p].at \in Nat /\ tick[p].at <= now + MaxSkew
      BY <1>a DEF Snapshot
    <3>2. x.run # r
      BY <2>1, <2>2, <3>1, <1>a
    <3> QED BY <2>2, <3>1, <3>2
  <2> QED BY <2>4, <2>6
<1> DEFINE Shrinks == /\ now' = now
                      /\ \A p \in Replicas : /\ tick'[p].at = tick[p].at
                                             /\ tick'[p].phase = tick[p].phase
                                             /\ tick'[p].rows \subseteq tick[p].rows
\* A statement that neither begins an attempt nor renews a lease.
<1>4. ASSUME NEW r \in Runs,
             \A q \in Runs \ {r} : run'[q] = run[q],
             run'[r].status # "absent",
             run'[r].status = "queued" => run'[r].attempt < MaxAttempts /\ run'[r].seq = 0,
             run'[r].attempt = run[r].attempt,
             run'[r].lease \in {run[r].lease, NULL},
             run'[r].lease # NULL => run'[r].owner = run[r].owner,
             Shrinks
      PROVE  Rest
  <2>1. AbsentIsFresh' /\ QueuedIsFresh' /\ AttemptBound' /\ SweepStamped'
    BY <1>4, <1>a
  <2>2. DecisionIsCurrent'
    BY <1>4, <1>a DEF Snapshot
  <2> QED BY <2>1, <2>2
<1>5. ASSUME run' = run, Shrinks
      PROVE  Rest
  BY <1>5
<1>6. ASSUME NEW g \in gate, FailGate(g)
      PROVE  Rest
  <2>1. g[2] \in Runs
    BY DEF TypeOK
  <2>2. run'[g[2]] = SkippedRow(run[g[2]]) /\ \A q \in Runs \ {g[2]} : run'[q] = run[q]
    BY <1>6, <2>1, <1>a DEF FailGate
  <2>3. CASE run[g[2]].status \in Active
    BY <2>1, <2>2, <2>3, <1>a, <1>4, <1>6, RowFields DEF FailGate
  <2>4. CASE run[g[2]].status \notin Active
    <3>1. run'[g[2]] = run[g[2]]
      BY <2>1, <2>2, <2>4, <1>a, RowFields
    <3>2. run' = run
      BY <1>6, <2>1, <2>2, <3>1, <1>a DEF FailGate
    <3> QED BY <3>2, <1>5, <1>6 DEF FailGate
  <2> QED BY <2>3, <2>4
<1>7. ASSUME NEW w \in Runners, NEW r \in Runs, NEW a \in 1 .. MaxAttempts, NEW t \in Stamps,
             NEW s \in 1 .. MaxSequence, AppendDesktopEvent(w, r, a, s, t)
      PROVE  Rest
  <2>1. /\ run[r].status = "running" /\ run'[r].status = "running"
        /\ run'[r].lease = run[r].lease /\ run'[r].attempt = run[r].attempt
        /\ run'[r].owner = run[r].owner
        /\ \A q \in Runs \ {r} : run'[q] = run[q]
    BY <1>7, <1>a DEF AppendDesktopEvent, Fenced, Row
  <2> QED BY <2>1, <1>4, <1>7 DEF AppendDesktopEvent
<1>8. ASSUME NEW w \in Runners, NEW r \in Runs, NEW a \in 1 .. MaxAttempts, NEW t \in Stamps,
             NEW status \in {"succeeded", "failed", "cancelled"}, Complete(w, r, a, status, t)
      PROVE  Rest
  <2>1. run[r].status = "running" /\ run'[r] = CompletedRow(run[r], status)
        /\ \A q \in Runs \ {r} : run'[q] = run[q]
    BY <1>8, <1>a DEF Complete, Fenced
  <2>2. run'[r].status = status /\ run'[r].lease = NULL /\ run'[r].attempt = run[r].attempt
    BY <2>1, <1>a, RowFields DEF Terminal
  <2> QED BY <2>1, <2>2, <1>4, <1>8 DEF Complete
<1>9. ASSUME NEW x \in cancelling, CancelUpdate(x)
      PROVE  Rest
  <2>1. x.run \in Runs /\ x.status \in Statuses \ {"absent"}
    BY DEF TypeOK
  <2>2. run'[x.run] = CancelledRow(run[x.run], x.status)
        /\ \A q \in Runs \ {x.run} : run'[q] = run[q]
    BY <1>9, <2>1, <1>a DEF CancelUpdate
  <2>3. run'[x.run].status \notin {"absent", "queued"} /\ run'[x.run].owner = run[x.run].owner
        /\ run'[x.run].lease = run[x.run].lease /\ run'[x.run].attempt = run[x.run].attempt
    BY <2>1, <2>2, <1>a, RowFields
  <2> QED BY <2>1, <2>2, <2>3, <1>4, <1>9 DEF CancelUpdate
<1>10. ASSUME NEW p \in Replicas, NEW t \in Stamps, RecoverSelect(p, t)
       PROVE  Rest
  <2>1. t \in Nat /\ t <= now + MaxSkew
    BY <1>a, StampsAreTimes
  <2>2. PICK rows \in Batches({[run |-> r, owner |-> run[r].owner, attempt |-> run[r].attempt,
                             seq |-> run[r].seq, key |-> run[r].lease] :
                            r \in {q \in Runs : run[q].status = "running"
                                                /\ LeaseExpired(run[q], t)}}) :
             tick' = [tick EXCEPT ![p] = [phase |-> "recover", at |-> t, rows |-> rows]]
    BY <1>10 DEF RecoverSelect
  <2>3. \A x \in rows : x.run \in Runs /\ x.attempt = run[x.run].attempt
    BY <2>2 DEF Batches
  <2>4. AbsentIsFresh' /\ QueuedIsFresh' /\ AttemptBound' /\ SweepStamped'
    BY <1>10, <2>1, <2>2, <1>a DEF RecoverSelect
  <2>5. DecisionIsCurrent'
    BY <1>10, <2>2, <2>3, <1>a DEF RecoverSelect
  <2> QED BY <2>4, <2>5
<1>11. ASSUME NEW p \in Replicas, RecoverUpdate(p)
       PROVE  Rest
  <2>1. PICK x \in tick[p].rows :
          /\ tick' = [tick EXCEPT ![p].rows = @ \ {x}]
          /\ run' = IF x.owner # NoOwner /\ StillExpired(run[x.run], x, tick[p].at)
                    THEN [run EXCEPT ![x.run] = RecoveredRow(run[x.run], x)]
                    ELSE run
    BY <1>11 DEF RecoverUpdate, Earliest
  <2>2. x \in Snapshot /\ x.run \in Runs /\ x.attempt \in Nat
    BY <2>1, <1>a DEF Snapshot
  <2>3. Shrinks
    BY <1>11, <2>1, <1>a DEF RecoverUpdate
  <2>4. CASE x.owner # NoOwner /\ StillExpired(run[x.run], x, tick[p].at)
    <3>1. run'[x.run] = RecoveredRow(run[x.run], x) /\ \A q \in Runs \ {x.run} : run'[q] = run[q]
      BY <2>1, <2>2, <2>4, <1>a
    <3>2. run[x.run].attempt = x.attempt
      BY <1>11, <2>1, <2>4 DEF RecoverUpdate
    <3>3. /\ run'[x.run].status = IF x.attempt < MaxAttempts THEN "queued" ELSE "failed"
          /\ run'[x.run].lease = NULL /\ run'[x.run].attempt = run[x.run].attempt
          /\ run'[x.run].seq = IF x.attempt < MaxAttempts THEN 0 ELSE x.seq
      BY <2>2, <3>1, <1>a, RowFields
    <3> QED BY <2>2, <2>3, <3>1, <3>2, <3>3, <1>4
  <2>5. CASE ~ (x.owner # NoOwner /\ StillExpired(run[x.run], x, tick[p].at))
    BY <2>1, <2>3, <2>5, <1>5
  <2> QED BY <2>4, <2>5
<1>12. ASSUME NEW p \in Replicas, ExpireUpdate(p)
       PROVE  Rest
  <2>1. PICK x \in tick[p].rows :
          /\ tick' = [tick EXCEPT ![p].rows = @ \ {x}]
          /\ run' = IF StillQueued(run[x.run])
                    THEN [run EXCEPT ![x.run] = ExpiredRow(run[x.run])]
                    ELSE run
    BY <1>12 DEF ExpireUpdate, Earliest
  <2>2. x.run \in Runs
    BY <2>1, <1>a DEF Snapshot
  <2>3. Shrinks
    BY <1>12, <2>1, <1>a DEF ExpireUpdate
  <2>4. CASE StillQueued(run[x.run])
    <3>1. run'[x.run] = ExpiredRow(run[x.run]) /\ \A q \in Runs \ {x.run} : run'[q] = run[q]
      BY <2>1, <2>2, <2>4, <1>a
    <3>2. /\ run'[x.run].status = "skipped" /\ run'[x.run].lease = run[x.run].lease
          /\ run'[x.run].owner = run[x.run].owner /\ run'[x.run].attempt = run[x.run].attempt
      BY <2>2, <3>1, <1>a, RowFields
    <3> QED BY <2>2, <2>3, <3>1, <3>2, <1>4
  <2>5. CASE ~ StillQueued(run[x.run])
    BY <2>1, <2>3, <2>5, <1>5
  <2> QED BY <2>4, <2>5
\* Only the phase "recover" of a tick carries a decision.
<1>13. ASSUME NEW p \in Replicas, run' = run, now' = now,
              \A q \in Replicas \ {p} : tick'[q] = tick[q],
              tick'[p].phase # "recover", tick'[p].at <= tick[p].at, tick'[p].at \in Nat
       PROVE  Rest
  <2>1. AbsentIsFresh' /\ QueuedIsFresh' /\ AttemptBound'
    BY <1>13
  <2>2. SweepStamped'
    BY <1>13, <1>a
  <2>3. DecisionIsCurrent'
    BY <1>13, <1>a
  <2> QED BY <2>1, <2>2, <2>3
<1>13a. ASSUME NEW p \in Replicas, ExpireSelect(p)
        PROVE  Rest
  <2>1. PICK rows : tick' = [tick EXCEPT ![p].phase = "expire", ![p].rows = rows]
    BY <1>13a DEF ExpireSelect
  <2> QED BY <2>1, <1>13, <1>13a, <1>a DEF ExpireSelect
<1>13b. ASSUME NEW p \in Replicas, TickEnd(p) \/ TickAbort(p)
        PROVE  Rest
  BY <1>13, <1>13b, <1>a DEF TickEnd, TickAbort, IdleTick
<1>14. ASSUME Clock
       PROVE  Rest
  <2>1. AbsentIsFresh' /\ QueuedIsFresh' /\ AttemptBound' /\ DecisionIsCurrent'
    BY <1>14 DEF Clock
  <2>2. SweepStamped'
    BY <1>14, <1>a DEF Clock
  <2> QED BY <2>1, <2>2
<1>15. ASSUME NEW w \in Runners, NEW r \in Runs, ReclaimDesktop(w, r)
       PROVE  Rest
  BY <1>15, <1>5 DEF ReclaimDesktop
<1>16. ASSUME NEW g \in gate, PassGate(g) \/ LoseGate(g)
       PROVE  Rest
  BY <1>16, <1>5 DEF PassGate, LoseGate
<1>17. ASSUME NEW c \in Cancellations, NEW r \in Runs, CancelSelect(c, r)
       PROVE  Rest
  BY <1>17, <1>5 DEF CancelSelect
<1>18. ASSUME UNCHANGED vars
       PROVE  Rest
  <2>1. run' = run /\ now' = now /\ tick' = tick
    BY <1>18 DEF vars
  <2> QED BY <2>1, <1>5
<1>20. ASSUME NEW r \in Runs, SkipDenied(r)
       PROVE  Rest
  <2>1. run'[r] = SkippedRow(run[r]) /\ \A q \in Runs \ {r} : run'[q] = run[q]
    BY <1>20, <1>a DEF SkipDenied
  <2>2. CASE run[r].status \in Active
    BY <2>1, <2>2, <1>a, <1>4, <1>20, RowFields DEF SkipDenied
  <2>3. CASE run[r].status \notin Active
    <3>1. run'[r] = run[r]
      BY <2>1, <2>3, <1>a, RowFields
    <3>2. run' = run
      BY <1>20, <2>1, <3>1, <1>a DEF SkipDenied
    <3> QED BY <3>2, <1>5, <1>20 DEF SkipDenied
  <2> QED BY <2>2, <2>3
<1>21. ASSUME NEW r \in Runs, LoseDenied(r)
       PROVE  Rest
  BY <1>21, <1>5 DEF LoseDenied
<1>19. Rest
  <2> HIDE DEF Rest, Shrinks, RetryInvariant, AbsentIsFresh, QueuedIsFresh, AttemptBound,
               SweepStamped, DecisionIsCurrent, StillExpired, LeaseExpired
  <2> QED BY <1>1, <1>2, <1>3, <1>6, <1>7, <1>8, <1>9, <1>10, <1>11, <1>12, <1>13a, <1>13b, <1>14,
             <1>15, <1>16, <1>17, <1>18, <1>20, <1>21 DEF Next, RunnerStep, TickStep
<1> QED BY <1>0, <1>19

\* No run is attempted more than MaxAttempts times although the sweep
\* decides on a snapshot: the owner and lease conditions of its UPDATE
\* exclude a row that was claimed again since, as long as no stamp is off
\* by half a lease.
THEOREM AttemptsAreBounded == Spec => []AttemptBound
<1>1. Init => RetryInvariant
  BY RetryInit
<1>2. RetryInvariant /\ [Next]_vars => RetryInvariant'
  BY RetryNext
<1>3. RetryInvariant => AttemptBound
  BY DEF RetryInvariant
<1> QED BY <1>1, <1>2, <1>3, PTL DEF Spec

-----------------------------------------------------------------------------
(* What a step that neither claims row r nor appends an event to it leaves  *)
(* of the row.                                                              *)

KeptRow(r) ==
    /\ run'[r].attempt = run[r].attempt
    /\ run'[r].owner \in {run[r].owner, NoOwner}
    /\ run[r].lease = NULL => run'[r].lease = NULL /\ run'[r].seq = run[r].seq
    /\ run'[r].lease # NULL => run'[r].seq = run[r].seq
    /\ run'[r].status = "absent" => run[r].status = "absent"
    /\ run'[r].status = "queued" => run[r].status \in {"absent", "queued"} \/ run[r].lease # NULL
    /\ run'[r].status = "queued" =>
         \/ run'[r].lease = NULL
         \/ (run[r].status = "queued" /\ run'[r].lease = run[r].lease)
    /\ run'[r].lease # NULL => run'[r].owner = run[r].owner

LEMMA RowStep ==
    ASSUME RetryInvariant, [Next]_vars, NEW r \in Runs
    PROVE  \/ \E w \in Runners, t \in Stamps : ClaimDesktop(w, r, t)
           \/ \E w \in Runners, a \in 1 .. MaxAttempts, s \in 1 .. MaxSequence, t \in Stamps :
                AppendDesktopEvent(w, r, a, s, t)
           \/ KeptRow(r)
<1>a. run \in [Runs -> Row] /\ now \in Nat
  BY DEF RetryInvariant, TypeOK
<1>0. ASSUME run'[r] = run[r] PROVE KeptRow(r)
  BY <1>0 DEF KeptRow
<1>1. ASSUME NEW q \in Runs, NEW t \in Stamps, NEW window \in ClaimWindows, Dispatch(q, t, window)
      PROVE  KeptRow(r)
  <2>1. CASE q = r
    <3>1. run[r] = AbsentRow /\ run[r].status = "absent"
      BY <1>1, <2>1 DEF RetryInvariant, AbsentIsFresh, Dispatch
    <3>2. run'[r].attempt = 0 /\ run'[r].owner = NoOwner /\ run'[r].lease = NULL
          /\ run'[r].seq = 0 /\ run'[r].status # "absent"
      BY <1>1, <2>1, <1>a DEF Dispatch, AbsentRow
    <3> QED BY <3>1, <3>2 DEF KeptRow, AbsentRow
  <2>2. CASE q # r
    BY <1>0, <1>1, <2>2, <1>a DEF Dispatch
  <2> QED BY <2>1, <2>2
<1>2. ASSUME NEW w \in Runners, NEW q \in Runs, NEW t \in Stamps, ClaimDesktop(w, q, t), q # r
      PROVE  KeptRow(r)
  BY <1>0, <1>2, <1>a DEF ClaimDesktop
<1>3. ASSUME NEW w \in Runners, NEW q \in Runs, NEW a \in 1 .. MaxAttempts, NEW t \in Stamps,
             HeartbeatDesktop(w, q, a, t)
      PROVE  KeptRow(r)
  <2>1. CASE q = r
    BY <1>3, <2>1, <1>a DEF HeartbeatDesktop, Fenced, LeaseLive, KeptRow, Row
  <2>2. CASE q # r
    BY <1>0, <1>3, <2>2, <1>a DEF HeartbeatDesktop
  <2> QED BY <2>1, <2>2
<1>4. ASSUME NEW w \in Runners, NEW q \in Runs, NEW a \in 1 .. MaxAttempts, NEW t \in Stamps,
             NEW s \in 1 .. MaxSequence, AppendDesktopEvent(w, q, a, s, t), q # r
      PROVE  KeptRow(r)
  BY <1>0, <1>4, <1>a DEF AppendDesktopEvent
<1>5. ASSUME NEW w \in Runners, NEW q \in Runs, NEW a \in 1 .. MaxAttempts, NEW t \in Stamps,
             NEW status \in {"succeeded", "failed", "cancelled"}, Complete(w, q, a, status, t)
      PROVE  KeptRow(r)
  <2>1. CASE q = r
    <3>1. run[r].lease # NULL /\ run'[r] = CompletedRow(run[r], status)
      BY <1>5, <2>1, <1>a DEF Complete, Fenced, LeaseLive
    <3> QED BY <3>1, <1>a, RowFields DEF KeptRow, Terminal
  <2>2. CASE q # r
    BY <1>0, <1>5, <2>2, <1>a DEF Complete
  <2> QED BY <2>1, <2>2
<1>6. ASSUME NEW g \in gate, FailGate(g)
      PROVE  KeptRow(r)
  <2>1. CASE g[2] = r /\ run[r].status \in Active
    <3>1. run'[r] = SkippedRow(run[r])
      BY <1>6, <2>1, <1>a DEF FailGate
    <3> QED BY <2>1, <3>1, <1>a, RowFields DEF KeptRow
  <2>2. CASE ~ (g[2] = r /\ run[r].status \in Active)
    BY <1>0, <1>6, <2>2, <1>a, RowFields DEF FailGate
  <2> QED BY <2>1, <2>2
<1>7. ASSUME NEW x \in cancelling, CancelUpdate(x)
      PROVE  KeptRow(r)
  <2>1. CASE x.run = r
    <3>1. x.status \in Statuses \ {"absent"}
      BY DEF RetryInvariant, TypeOK
    <3>2. run'[r] = CancelledRow(run[r], x.status)
      BY <1>7, <2>1, <1>a DEF CancelUpdate
    <3> QED BY <3>1, <3>2, <1>a, RowFields DEF KeptRow
  <2>2. CASE x.run # r
    BY <1>0, <1>7, <2>2, <1>a DEF CancelUpdate
  <2> QED BY <2>1, <2>2
<1>8. ASSUME NEW p \in Replicas, RecoverUpdate(p)
      PROVE  KeptRow(r)
  <2>1. PICK x \in tick[p].rows :
          run' = IF x.owner # NoOwner /\ StillExpired(run[x.run], x, tick[p].at)
                 THEN [run EXCEPT ![x.run] = RecoveredRow(run[x.run], x)]
                 ELSE run
    BY <1>8 DEF RecoverUpdate, Earliest
  <2>2. x \in Snapshot
    BY <2>1 DEF RetryInvariant, TypeOK
  <2>3. CASE x.run = r /\ StillExpired(run[r], x, tick[p].at) /\ x.owner # NoOwner
    <3>1. run[r].lease # NULL /\ run'[r] = RecoveredRow(run[r], x)
      BY <2>1, <2>3, <1>a DEF StillExpired, LeaseExpired
    <3> QED BY <2>2, <3>1, <1>a, RowFields DEF KeptRow
  <2>4. CASE ~ (x.run = r /\ StillExpired(run[r], x, tick[p].at) /\ x.owner # NoOwner)
    BY <1>0, <2>1, <2>4, <1>a
  <2> QED BY <2>3, <2>4
<1>9. ASSUME NEW p \in Replicas, ExpireUpdate(p)
      PROVE  KeptRow(r)
  <2>1. PICK x \in tick[p].rows :
          run' = IF StillQueued(run[x.run])
                 THEN [run EXCEPT ![x.run] = ExpiredRow(run[x.run])]
                 ELSE run
    BY <1>9 DEF ExpireUpdate, Earliest
  <2>2. CASE x.run = r /\ StillQueued(run[r])
    <3>1. run'[r] = ExpiredRow(run[r])
      BY <2>1, <2>2, <1>a
    <3> QED BY <3>1, <1>a, RowFields DEF KeptRow
  <2>3. CASE ~ (x.run = r /\ StillQueued(run[r]))
    BY <1>0, <2>1, <2>3, <1>a
  <2> QED BY <2>2, <2>3
<1>10. ASSUME run' = run PROVE KeptRow(r)
  BY <1>0, <1>10
<1>11. ASSUME NEW w \in Runners, NEW q \in Runs, ReclaimDesktop(w, q) PROVE KeptRow(r)
  BY <1>10, <1>11 DEF ReclaimDesktop
<1>12. ASSUME NEW g \in gate, PassGate(g) \/ LoseGate(g) PROVE KeptRow(r)
  BY <1>10, <1>12 DEF PassGate, LoseGate
<1>13. ASSUME NEW c \in Cancellations, NEW q \in Runs, CancelSelect(c, q) PROVE KeptRow(r)
  BY <1>10, <1>13 DEF CancelSelect
<1>14. ASSUME NEW p \in Replicas,
              (\E t \in Stamps : RecoverSelect(p, t)) \/ ExpireSelect(p) \/ TickEnd(p) \/ TickAbort(p)
       PROVE  KeptRow(r)
  BY <1>10, <1>14 DEF RecoverSelect, ExpireSelect, TickEnd, TickAbort
<1>15. ASSUME Clock \/ UNCHANGED vars PROVE KeptRow(r)
  BY <1>10, <1>15 DEF Clock, vars
<1>16. ASSUME NEW q \in Runs, SkipDenied(q)
       PROVE  KeptRow(r)
  <2>1. CASE q = r /\ run[r].status \in Active
    <3>1. run'[r] = SkippedRow(run[r])
      BY <1>16, <2>1, <1>a DEF SkipDenied
    <3> QED BY <2>1, <3>1, <1>a, RowFields DEF KeptRow
  <2>2. CASE ~ (q = r /\ run[r].status \in Active)
    BY <1>0, <1>16, <2>2, <1>a, RowFields DEF SkipDenied
  <2> QED BY <2>1, <2>2
<1>17. ASSUME NEW q \in Runs, LoseDenied(q) PROVE KeptRow(r)
  BY <1>10, <1>17 DEF LoseDenied
<1> QED
  BY <1>1, <1>2, <1>3, <1>4, <1>5, <1>6, <1>7, <1>8, <1>9, <1>11, <1>12, <1>13, <1>14, <1>15,
     <1>16, <1>17
     DEF Next, RunnerStep, TickStep

-----------------------------------------------------------------------------
(* Exclusive attempts.                                                      *)

LEMMA HolderStep ==
    ASSUME [Next]_vars
    PROVE  \/ \E w \in Runners, r \in Runs, t \in Stamps : ClaimDesktop(w, r, t)
           \/ \E w \in Runners, r \in Runs : ReclaimDesktop(w, r)
           \/ Holders' \subseteq Holders
<1>1. ASSUME NEW g \in gate, PassGate(g) \/ FailGate(g) \/ LoseGate(g)
      PROVE  Holders' \subseteq Holders
  BY <1>1 DEF PassGate, FailGate, LoseGate, Holders
<1>2. ASSUME UNCHANGED <<gate, assigned>>
      PROVE  Holders' \subseteq Holders
  BY <1>2 DEF Holders
<1>3. ASSUME NEW r \in Runs, NEW t \in Stamps, NEW window \in ClaimWindows, Dispatch(r, t, window)
      PROVE  Holders' \subseteq Holders
  BY <1>2, <1>3 DEF Dispatch
<1>4. ASSUME NEW w \in Runners, NEW r \in Runs, NEW a \in 1 .. MaxAttempts, NEW t \in Stamps,
             \/ HeartbeatDesktop(w, r, a, t)
             \/ \E s \in 1 .. MaxSequence : AppendDesktopEvent(w, r, a, s, t)
             \/ \E status \in {"succeeded", "failed", "cancelled"} : Complete(w, r, a, status, t)
      PROVE  Holders' \subseteq Holders
  BY <1>2, <1>4 DEF HeartbeatDesktop, AppendDesktopEvent, Complete
<1>5. ASSUME \/ \E c \in Cancellations, r \in Runs : CancelSelect(c, r)
             \/ \E x \in cancelling : CancelUpdate(x)
             \/ \E p \in Replicas : TickStep(p) \/ TickAbort(p)
             \/ \E r \in Runs : SkipDenied(r) \/ LoseDenied(r)
             \/ Clock
             \/ UNCHANGED vars
      PROVE  Holders' \subseteq Holders
  BY <1>2, <1>5 DEF CancelSelect, CancelUpdate, TickStep, RecoverSelect, RecoverUpdate,
                    ExpireSelect, ExpireUpdate, TickEnd, TickAbort, SkipDenied, LoseDenied,
                    Clock, vars
<1> QED BY <1>1, <1>3, <1>4, <1>5 DEF Next, RunnerStep

HolderInvariant == RetryInvariant /\ HoldersFenced /\ AttemptExclusive

LEMMA HolderInit == Init => HolderInvariant
BY RetryInit DEF Init, HolderInvariant, HoldersFenced, AttemptExclusive, Holders

LEMMA HolderNext == HolderInvariant /\ [Next]_vars => HolderInvariant'
<1> SUFFICES ASSUME HolderInvariant, [Next]_vars PROVE HoldersFenced' /\ AttemptExclusive'
  BY RetryNext DEF HolderInvariant
<1> USE DEF HolderInvariant
<1>a. /\ run \in [Runs -> Row] /\ now \in Nat
      /\ \A r \in Runs : run[r].attempt \in Nat /\ run[r].owner \in Runners \cup {NoOwner}
      /\ Holders \subseteq Runners \X Runs \X Nat
  BY DEF RetryInvariant, TypeOK, Row, Holders
<1>1. ASSUME NEW w \in Runners, NEW r \in Runs, NEW t \in Stamps, ClaimDesktop(w, r, t)
      PROVE  HoldersFenced' /\ AttemptExclusive'
  <2>1. Holders' = Holders \cup {<<w, r, run[r].attempt + 1>>}
    BY <1>1 DEF ClaimDesktop, NextAttempt, Holders
  <2>2. run'[r] = ClaimedRow(run[r], w, t) /\ \A q \in Runs \ {r} : run'[q] = run[q]
    BY <1>1, <1>a DEF ClaimDesktop
  <2>3. run'[r].attempt = run[r].attempt + 1 /\ run'[r].owner = w
    BY <2>2, <1>a, RowFields, StampsAreTimes
  <2>4. \A x \in Holders : x[2] \in Runs /\ x[3] \in Nat /\ x[3] <= run[x[2]].attempt
    BY <1>a DEF HoldersFenced
  <2>5. HoldersFenced'
    <3> SUFFICES ASSUME NEW x \in Holders'
                 PROVE  /\ x[3] <= run'[x[2]].attempt
                        /\ x[3] = run'[x[2]].attempt /\ run'[x[2]].owner # NoOwner
                           => x[1] = run'[x[2]].owner
      BY DEF HoldersFenced
    <3>1. CASE x = <<w, r, run[r].attempt + 1>>
      BY <2>3, <3>1, <1>a
    <3>2. CASE x \in Holders
      BY <2>2, <2>3, <2>4, <3>2, <1>a DEF HoldersFenced
    <3> QED BY <2>1, <3>1, <3>2
  <2>6. AttemptExclusive'
    <3> SUFFICES ASSUME NEW x \in Holders', NEW y \in Holders', x[2] = y[2], x[3] = y[3]
                 PROVE  x[1] = y[1]
      BY DEF AttemptExclusive
    <3>1. CASE x \in Holders /\ y \in Holders
      BY <3>1 DEF AttemptExclusive
    <3>2. CASE x = <<w, r, run[r].attempt + 1>>
      BY <2>1, <2>4, <3>2, <1>a
    <3>3. CASE y = <<w, r, run[r].attempt + 1>>
      BY <2>1, <2>4, <3>3, <1>a
    <3> QED BY <2>1, <3>1, <3>2, <3>3
  <2> QED BY <2>5, <2>6
<1>2. ASSUME NEW w \in Runners, NEW r \in Runs, ReclaimDesktop(w, r)
      PROVE  HoldersFenced' /\ AttemptExclusive'
  <2>1. /\ Holders' = Holders \cup {<<w, r, run[r].attempt>>}
        /\ run' = run /\ run[r].owner = w /\ w # NoOwner
    BY <1>2, RunnersAssumption DEF ReclaimDesktop, Holders
  <2>2. HoldersFenced'
    BY <2>1, <1>a DEF HoldersFenced
  <2>3. AttemptExclusive'
    <3> SUFFICES ASSUME NEW x \in Holders', NEW y \in Holders', x[2] = y[2], x[3] = y[3]
                 PROVE  x[1] = y[1]
      BY DEF AttemptExclusive
    <3>1. CASE x \in Holders /\ y \in Holders
      BY <3>1 DEF AttemptExclusive
    <3>2. CASE x = <<w, r, run[r].attempt>>
      BY <2>1, <3>2, <1>a DEF HoldersFenced
    <3>3. CASE y = <<w, r, run[r].attempt>>
      BY <2>1, <3>3, <1>a DEF HoldersFenced
    <3> QED BY <2>1, <3>1, <3>2, <3>3
  <2> QED BY <2>2, <2>3
<1>3. CASE Holders' \subseteq Holders
  <2>1. AttemptExclusive'
    BY <1>3 DEF AttemptExclusive
  <2>2. \A r \in Runs : \/ \E w \in Runners, t \in Stamps : ClaimDesktop(w, r, t)
                        \/ run'[r].attempt = run[r].attempt
                           /\ run'[r].owner \in {run[r].owner, NoOwner}
    <3> TAKE r \in Runs
    <3>1. ASSUME NEW w \in Runners, NEW a \in 1 .. MaxAttempts, NEW s \in 1 .. MaxSequence,
                 NEW t \in Stamps, AppendDesktopEvent(w, r, a, s, t)
          PROVE  run'[r].attempt = run[r].attempt /\ run'[r].owner = run[r].owner
      BY <3>1, <1>a DEF AppendDesktopEvent, Row
    <3> QED BY <3>1, RowStep DEF KeptRow
  <2>3. CASE \E r \in Runs, w \in Runners, t \in Stamps : ClaimDesktop(w, r, t)
    BY <1>1, <2>3
  <2>4. CASE ~ \E r \in Runs, w \in Runners, t \in Stamps : ClaimDesktop(w, r, t)
    <3>1. \A r \in Runs : run'[r].attempt = run[r].attempt
                          /\ run'[r].owner \in {run[r].owner, NoOwner}
      BY <2>2, <2>4
    <3>2. HoldersFenced'
      BY <1>3, <3>1, <1>a DEF HoldersFenced
    <3> QED BY <2>1, <3>2
  <2> QED BY <2>3, <2>4
<1> QED BY <1>1, <1>2, <1>3, HolderStep

\* The attempt number fences desktops from each other: two desktops never
\* hold the same attempt of the same run, for any interleaving of claims,
\* repeated claims, sweeps of several replicas and cancellations.
THEOREM AttemptsAreExclusive == Spec => []AttemptExclusive
<1>1. Init => HolderInvariant
  BY HolderInit
<1>2. HolderInvariant /\ [Next]_vars => HolderInvariant'
  BY HolderNext
<1>3. HolderInvariant => AttemptExclusive
  BY DEF HolderInvariant
<1> QED BY <1>1, <1>2, <1>3, PTL DEF Spec

-----------------------------------------------------------------------------
(* The event log.                                                           *)

LEMMA EventStep ==
    ASSUME [Next]_vars
    PROVE  \/ \E w \in Runners, r \in Runs, a \in 1 .. MaxAttempts, s \in 1 .. MaxSequence,
                 t \in Stamps : AppendDesktopEvent(w, r, a, s, t)
           \/ events' = events
<1>1. ASSUME \/ \E r \in Runs, t \in Stamps, window \in ClaimWindows : Dispatch(r, t, window)
             \/ \E g \in gate : PassGate(g) \/ FailGate(g) \/ LoseGate(g)
             \/ \E c \in Cancellations, r \in Runs : CancelSelect(c, r)
             \/ \E x \in cancelling : CancelUpdate(x)
             \/ \E r \in Runs : SkipDenied(r) \/ LoseDenied(r)
             \/ Clock
             \/ UNCHANGED vars
      PROVE  events' = events
  BY <1>1 DEF Dispatch, PassGate, FailGate, LoseGate, CancelSelect, CancelUpdate,
              SkipDenied, LoseDenied, Clock, vars
<1>2. ASSUME NEW p \in Replicas, TickStep(p) \/ TickAbort(p)
      PROVE  events' = events
  BY <1>2 DEF TickStep, RecoverSelect, RecoverUpdate, ExpireSelect, ExpireUpdate, TickEnd, TickAbort
<1>3. ASSUME NEW w \in Runners, NEW r \in Runs,
             \/ \E t \in Stamps : ClaimDesktop(w, r, t)
             \/ ReclaimDesktop(w, r)
             \/ \E a \in 1 .. MaxAttempts, t \in Stamps :
                  \/ HeartbeatDesktop(w, r, a, t)
                  \/ \E status \in {"succeeded", "failed", "cancelled"} :
                       Complete(w, r, a, status, t)
      PROVE  events' = events
  BY <1>3 DEF ClaimDesktop, ReclaimDesktop, HeartbeatDesktop, Complete
<1> QED BY <1>1, <1>2, <1>3 DEF Next, RunnerStep

EventInvariant == RetryInvariant /\ EventsCounted /\ EventsGapFree

LEMMA EventInit == Init => EventInvariant
BY RetryInit DEF Init, EventInvariant, EventsCounted, EventsGapFree, AbsentRow

LEMMA EventNext == EventInvariant /\ [Next]_vars => EventInvariant'
<1> SUFFICES ASSUME EventInvariant, [Next]_vars PROVE EventsCounted' /\ EventsGapFree'
  BY RetryNext DEF EventInvariant
<1> USE DEF EventInvariant
<1>a. /\ run \in [Runs -> Row] /\ now \in Nat
      /\ \A r \in Runs : run[r].attempt \in Nat /\ run[r].seq \in Nat
      /\ events \subseteq Runs \X Nat \X Nat
  BY DEF RetryInvariant, TypeOK, Row
<1>1. ASSUME NEW w \in Runners, NEW q \in Runs, NEW a \in 1 .. MaxAttempts,
             NEW s \in 1 .. MaxSequence, NEW t \in Stamps, AppendDesktopEvent(w, q, a, s, t)
      PROVE  EventsCounted' /\ EventsGapFree'
  <2>1. /\ a = run[q].attempt /\ s = run[q].seq + 1 /\ run[q].lease # NULL
        /\ events' = events \cup {<<q, run[q].attempt, run[q].seq + 1>>}
    BY <1>1 DEF AppendDesktopEvent, Fenced, LeaseLive
  <2>2. /\ \A r \in Runs \ {q} : run'[r] = run[r]
        /\ run'[q].attempt = run[q].attempt /\ run'[q].lease = run[q].lease
        /\ run'[q].seq = run[q].seq + 1
    BY <1>1, <2>1, <1>a DEF AppendDesktopEvent, Row
  <2>3. \A e \in events' : e[2] <= run'[e[1]].attempt /\ e[3] >= 1
    BY <2>1, <2>2, <1>a DEF EventsCounted
  <2>4. ASSUME NEW r \in Runs, run'[r].lease # NULL, NEW n \in Nat
        PROVE  <<r, run'[r].attempt, n>> \in events' <=> 1 <= n /\ n <= run'[r].seq
    <3>1. CASE r = q
      <4>1. <<q, run[q].attempt, n>> \in events <=> 1 <= n /\ n <= run[q].seq
        BY <2>1 DEF EventsCounted
      <4>2. <<q, run[q].attempt, n>> \in events' <=>
              <<q, run[q].attempt, n>> \in events \/ n = run[q].seq + 1
        BY <2>1
      <4> QED BY <4>1, <4>2, <2>2, <3>1, <1>a
    <3>2. CASE r # q
      <4>1. <<r, run[r].attempt, n>> \in events <=> 1 <= n /\ n <= run[r].seq
        BY <2>2, <2>4, <3>2 DEF EventsCounted
      <4>2. <<r, run[r].attempt, n>> \in events' <=> <<r, run[r].attempt, n>> \in events
        BY <2>1, <3>2
      <4> QED BY <4>1, <4>2, <2>2, <3>2
    <3> QED BY <3>1, <3>2
  <2>5. EventsCounted'
    BY <2>3, <2>4 DEF EventsCounted
  <2>6. EventsGapFree'
    <3> SUFFICES ASSUME NEW e \in events', NEW n \in 1 .. e[3]
                 PROVE  <<e[1], e[2], n>> \in events'
      BY DEF EventsGapFree
    <3>1. CASE e \in events
      BY <2>1, <3>1 DEF EventsGapFree
    <3>2. CASE e = <<q, run[q].attempt, run[q].seq + 1>>
      <4>1. n \in Nat /\ 1 <= n /\ n <= run[q].seq + 1
        BY <3>2, <1>a
      <4>2. n <= run[q].seq => <<q, run[q].attempt, n>> \in events
        BY <2>1, <4>1 DEF EventsCounted
      <4>3. n = run[q].seq + 1 \/ n <= run[q].seq
        BY <4>1, <1>a
      <4> QED BY <2>1, <3>2, <4>2, <4>3
    <3> QED BY <2>1, <3>1, <3>2
  <2> QED BY <2>5, <2>6
<1>2. ASSUME events' = events,
             ~ \E w \in Runners, r \in Runs, a \in 1 .. MaxAttempts, s \in 1 .. MaxSequence,
                 t \in Stamps : AppendDesktopEvent(w, r, a, s, t)
      PROVE  EventsCounted' /\ EventsGapFree'
  <2>1. EventsGapFree'
    BY <1>2 DEF EventsGapFree
  <2>2. ASSUME NEW r \in Runs
        PROVE  /\ run[r].attempt <= run'[r].attempt
               /\ run'[r].lease # NULL =>
                    \A s \in Nat : <<r, run'[r].attempt, s>> \in events
                                   <=> 1 <= s /\ s <= run'[r].seq
    <3>1. CASE KeptRow(r)
      BY <3>1, <1>a DEF KeptRow, EventsCounted
    <3>2. ASSUME NEW w \in Runners, NEW t \in Stamps, ClaimDesktop(w, r, t)
          PROVE  /\ run[r].attempt <= run'[r].attempt
                 /\ \A s \in Nat : <<r, run'[r].attempt, s>> \in events
                                   <=> 1 <= s /\ s <= run'[r].seq
      <4>1. run'[r] = ClaimedRow(run[r], w, t) /\ run[r].status = "queued"
        BY <3>2, <1>a DEF ClaimDesktop
      <4>2. run[r].seq = 0
        BY <4>1 DEF RetryInvariant, QueuedIsFresh
      <4>3. run'[r].attempt = run[r].attempt + 1 /\ run'[r].seq = 0
        BY <4>1, <4>2, <1>a, RowFields, StampsAreTimes
      <4>4. \A s \in Nat : <<r, run[r].attempt + 1, s>> \notin events
        BY <1>a DEF EventsCounted
      <4> QED BY <4>3, <4>4, <1>a
    <3> QED BY <3>1, <3>2, <1>2, RowStep
  <2>3. \A e \in events' : e[2] <= run'[e[1]].attempt /\ e[3] >= 1
    <3> SUFFICES ASSUME NEW e \in events
                 PROVE  e[2] <= run'[e[1]].attempt /\ e[3] >= 1
      BY <1>2
    <3>1. e[1] \in Runs /\ e[2] \in Nat /\ e[2] <= run[e[1]].attempt /\ e[3] >= 1
      BY <1>a DEF EventsCounted
    <3>2. run[e[1]].attempt <= run'[e[1]].attempt
      BY <2>2, <3>1
    <3>3. run[e[1]].attempt \in Nat /\ run'[e[1]].attempt \in Nat
      BY <3>1, <1>a, TypeNext DEF RetryInvariant, TypeOK, Row
    <3> QED BY <3>1, <3>2, <3>3
  <2> QED BY <1>2, <2>1, <2>2, <2>3 DEF EventsCounted
<1> QED BY <1>1, <1>2, EventStep

\* What a receipt shows of an attempt is a prefix 1..n of what the desktop
\* reported, whichever attempts were lost in between.
THEOREM EventsAreGapFree == Spec => []EventsGapFree
<1>1. Init => EventInvariant
  BY EventInit
<1>2. EventInvariant /\ [Next]_vars => EventInvariant'
  BY EventNext
<1>3. EventInvariant => EventsGapFree
  BY DEF EventInvariant
<1> QED BY <1>1, <1>2, <1>3, PTL DEF Spec

-----------------------------------------------------------------------------
(* Finished runs.                                                           *)

LEMMA InertStep ==
    ASSUME RetryInvariant, [Next]_vars, NEW r \in Runs, Inert(r)
    PROVE  /\ Inert(r)'
           /\ run'[r].attempt = run[r].attempt /\ run'[r].seq = run[r].seq
           /\ \A e \in events' \ events : e[1] # r
<1>1. ~ \E w \in Runners, t \in Stamps : ClaimDesktop(w, r, t)
  BY DEF Inert, ClaimDesktop
<1>2. ~ \E w \in Runners, a \in 1 .. MaxAttempts, s \in 1 .. MaxSequence, t \in Stamps :
          AppendDesktopEvent(w, r, a, s, t)
  BY DEF Inert, AppendDesktopEvent, Fenced, LeaseLive
<1>3. KeptRow(r)
  BY <1>1, <1>2, RowStep
<1>4. Inert(r)' /\ run'[r].attempt = run[r].attempt /\ run'[r].seq = run[r].seq
  BY <1>3 DEF Inert, KeptRow
<1>5. ASSUME NEW e \in events' \ events PROVE e[1] # r
  <2>1. PICK w \in Runners, q \in Runs, a \in 1 .. MaxAttempts, s \in 1 .. MaxSequence,
             t \in Stamps : AppendDesktopEvent(w, q, a, s, t)
    BY <1>5, EventStep
  <2>2. q # r /\ e = <<q, a, s>>
    BY <1>2, <1>5, <2>1 DEF AppendDesktopEvent
  <2> QED BY <2>2
<1> QED BY <1>4, <1>5

\* A finished run never executes again, although a cancellation that read
\* the row earlier can still overwrite its status.
THEOREM FinishedRunsStayInert == Spec => FinishedRunIsInert
<1>1. Init => RetryInvariant
  BY RetryInit
<1>2. RetryInvariant /\ [Next]_vars => RetryInvariant'
  BY RetryNext
<1>3. RetryInvariant /\ [Next]_vars =>
        [\A r \in Runs : Inert(r) =>
           /\ Inert(r)'
           /\ run'[r].attempt = run[r].attempt /\ run'[r].seq = run[r].seq
           /\ \A e \in events' \ events : e[1] # r]_vars
  BY InertStep
<1> QED BY <1>1, <1>2, <1>3, PTL DEF Spec, FinishedRunIsInert
=============================================================================
