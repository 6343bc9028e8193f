--------------------------- MODULE AutomationRuns ---------------------------
(***************************************************************************)
(* The automation_run table of Den and every statement that writes to it   *)
(* on the desktop path: dispatch of an occurrence, the desktop runner      *)
(* protocol (claim, heartbeat, events, completion), the access gate that   *)
(* follows a claim, user cancellation, and the two sweeps of the           *)
(* scheduler tick (expired leases, unclaimed occurrences).                 *)
(*                                                                         *)
(* Source: ee/apps/den-api/src/automations/repository.ts and service.ts.   *)
(*                                                                         *)
(* Runs are the occurrences of ONE automation: different automations share *)
(* nothing but the batch limit of the sweeps.  A transaction, or a single  *)
(* UPDATE with its WHERE clause, is one step.  A handler that awaits       *)
(* between two statements is two steps, and what it read in the first is   *)
(* kept in cancelling, gate or tick until the second.                      *)
(*                                                                         *)
(* Every handler stamps its statements with its own Date.now().  now is a  *)
(* reference clock and MaxSkew bounds the distance of a stamp from it when *)
(* the statement commits: clock skew between replicas and the delay        *)
(* between reading the clock and committing.                               *)
(***************************************************************************)
EXTENDS Integers, FiniteSets

CONSTANTS
    Runs,            \* occurrences of the automation
    Runners,         \* desktop installations of its owner (lease owners)
    Replicas,        \* den-api processes that run the scheduler loop
    Cancellations,   \* user cancellation requests, each used at most once
    NoOwner,         \* lease_owner IS NULL
    MaxAttempts,     \* AUTOMATION_MAXIMUM_ATTEMPTS
    LeaseMs,         \* env.automations.leaseMs
    ClaimWindows,    \* how long an occurrence stays claimable
    BatchSize,       \* rows one sweep selects
    MaxSkew,         \* bound on the error of a stamp
    Horizon,         \* after it every desktop is offline   (bound)
    MaxTime,         \* end of the modelled clock           (bound)
    MaxSequence,     \* events of one attempt               (bound)
    MaxCrashes       \* replica crashes inside a tick       (bound)

ASSUME RunnersAssumption == NoOwner \notin Runners
ASSUME AttemptsAssumption == MaxAttempts \in Nat \ {0}
ASSUME BoundsAssumption ==
    /\ ClaimWindows \subseteq Nat /\ BatchSize \in Nat \ {0}
    /\ Horizon \in Nat /\ MaxTime \in Nat /\ MaxSequence \in Nat /\ MaxCrashes \in Nat
\* A stamp is never wrong by half a lease: otherwise a lease can be granted
\* that the sweep of another replica already regards as expired.
ASSUME SkewAssumption == LeaseMs \in Nat /\ MaxSkew \in Nat /\ 2 * MaxSkew <= LeaseMs

VARIABLES
    now,         \* reference clock
    run,         \* the table: one row per element of Runs
    events,      \* automation_run_event: <<run, attempt, sequence>>
    gate,        \* claims waiting for the model-access check: <<runner, run, attempt>>
    assigned,    \* assignments that reached a runner: <<runner, run, attempt>>
    requests,    \* cancellation requests not made yet
    cancelling,  \* requestCancellation between its SELECT and its UPDATE
    tick,        \* the scheduler tick of each replica
    crashes,     \* crashes so far
    denied       \* dispatched runs whose access check failed, not skipped yet

vars == <<now, run, events, gate, assigned, requests, cancelling, tick, crashes, denied>>

NULL == -1       \* a NULL timestamp

Terminal == {"succeeded", "failed", "cancelled", "skipped"}
Active == {"queued", "running"}
Statuses == {"absent"} \cup Active \cup Terminal
Errors == {"none", "lease_lost", "runner_unavailable", "access_lost", "reported"}
Times == Nat \cup {NULL}

Row == [status : Statuses, owner : Runners \cup {NoOwner}, lease : Times,
        attempt : Nat, seq : Nat, cancel : BOOLEAN, deadline : Times, error : Errors]

AbsentRow == [status |-> "absent", owner |-> NoOwner, lease |-> NULL, attempt |-> 0,
              seq |-> 0, cancel |-> FALSE, deadline |-> NULL, error |-> "none"]

\* What a sweep remembers of a row between its SELECT and its UPDATE.
Snapshot == [run : Runs, owner : Runners \cup {NoOwner}, attempt : Nat, seq : Nat, key : Nat]
IdleTick == [phase |-> "idle", at |-> 0, rows |-> {}]

-----------------------------------------------------------------------------
(* Conditions of the WHERE clauses.  A comparison with NULL is false.       *)

Stamps == {t \in 0 .. (now + MaxSkew) : now <= t + MaxSkew}

LeaseLive(row, t) == row.lease # NULL /\ row.lease > t
LeaseExpired(row, t) == row.lease # NULL /\ row.lease < t

\* The fence of heartbeats, events and completions: lease owner, attempt,
\* status running, and a lease that has not expired.
FencedByLease(row, w, a, t) == row.status = "running" /\ LeaseLive(row, t)      \* mutant
Fenced(row, w, a, t) ==
    row.owner = w /\ row.attempt = a /\ row.status = "running" /\ LeaseLive(row, t)

\* Every desktop goes offline at the Horizon, so each lease ends within MaxTime.
Online == now <= Horizon

\* The earliest rows of S, at most BatchSize of them (ORDER BY key LIMIT n).
Batches(S) ==
    {B \in SUBSET S :
        /\ Cardinality(B) <= BatchSize
        /\ Cardinality(B) < BatchSize => B = S
        /\ \A x \in B, y \in S \ B : x.key <= y.key}
Earliest(rows) == {x \in rows : \A y \in rows : x.key <= y.key}

-----------------------------------------------------------------------------
(* Dispatch: the run half of the claim transaction.                         *)

OverlapsRunningOnly(r) == \E q \in Runs \ {r} : run[q].status = "running"   \* mutant
Overlaps(r) == \E q \in Runs \ {r} : run[q].status \in Active

\* The scheduler resolves the owner's access before the transaction and skips
\* the run after it when access was denied: denied is what lies between.
Dispatch(r, t, window) ==
    /\ Online
    /\ run[r].status = "absent"
    /\ run' = [run EXCEPT ![r] =
         IF Overlaps(r)
         THEN [AbsentRow EXCEPT !.status = "skipped"]
         ELSE [AbsentRow EXCEPT !.status = "queued", !.deadline = t + window]]
    /\ denied' \in IF Overlaps(r) THEN {denied} ELSE {denied, denied \cup {r}}
    /\ UNCHANGED <<now, events, gate, assigned, requests, cancelling, tick, crashes>>

\* skipRun, which names neither owner nor attempt.
SkippedRowAlways(row) ==                 \* mutant
    [row EXCEPT !.status = "skipped", !.owner = NoOwner, !.lease = NULL, !.error = "access_lost"]
SkippedRow(row) ==
    IF row.status \in Active
    THEN [row EXCEPT !.status = "skipped", !.owner = NoOwner, !.lease = NULL,
                     !.error = "access_lost"]
    ELSE row

SkipDenied(r) ==
    /\ r \in denied
    /\ denied' = denied \ {r}
    /\ run' = [run EXCEPT ![r] = SkippedRow(run[r])]
    /\ UNCHANGED <<now, events, gate, assigned, requests, cancelling, tick, crashes>>

\* The scheduler died between the two statements: the run stays claimable.
LoseDenied(r) ==
    /\ r \in denied
    /\ denied' = denied \ {r}
    /\ UNCHANGED <<now, run, events, gate, assigned, requests, cancelling, tick, crashes>>

-----------------------------------------------------------------------------
(* The desktop runner protocol.                                             *)

SameAttempt(row) == row.attempt          \* mutant
NextAttempt(row) == row.attempt + 1

NoLeaseGranted(t) == NULL                \* mutant
GrantedLease(t) == t + LeaseMs

ClaimedRow(row, w, t) ==
    [row EXCEPT !.status = "running", !.owner = w, !.lease = GrantedLease(t),
                !.attempt = NextAttempt(row)]

\* claimDesktop takes a queued row inside its claim window.
ClaimDesktop(w, r, t) ==
    /\ Online
    /\ run[r].status = "queued" /\ run[r].deadline # NULL /\ run[r].deadline > t
    /\ run' = [run EXCEPT ![r] = ClaimedRow(run[r], w, t)]
    /\ gate' = gate \cup {<<w, r, NextAttempt(run[r])>>}
    /\ UNCHANGED <<now, events, assigned, requests, cancelling, tick, crashes, denied>>

\* claimDesktop hands a row its caller already holds to it again, even when
\* the lease has expired; a row without a lease yields no assignment.
ReclaimDesktop(w, r) ==
    /\ Online
    /\ run[r].status = "running" /\ run[r].owner = w /\ run[r].lease # NULL
    /\ gate' = gate \cup {<<w, r, run[r].attempt>>}
    /\ UNCHANGED <<now, run, events, assigned, requests, cancelling, tick, crashes, denied>>

\* The access check after the claim succeeded: the assignment leaves Den.
PassGate(g) ==
    /\ gate' = gate \ {g}
    /\ assigned' = assigned \cup {g}
    /\ UNCHANGED <<now, run, events, requests, cancelling, tick, crashes, denied>>

\* The access check failed: the run is skipped, whoever holds it by now.
FailGate(g) ==
    /\ gate' = gate \ {g}
    /\ run' = [run EXCEPT ![g[2]] = SkippedRow(run[g[2]])]
    /\ UNCHANGED <<now, events, assigned, requests, cancelling, tick, crashes, denied>>

\* The process answering the claim died, or its answer was lost.
LoseGate(g) ==
    /\ gate' = gate \ {g}
    /\ UNCHANGED <<now, run, events, assigned, requests, cancelling, tick, crashes, denied>>

HeartbeatDesktop(w, r, a, t) ==
    /\ Online
    /\ <<w, r, a>> \in assigned
    /\ Fenced(run[r], w, a, t)
    /\ run' = [run EXCEPT ![r].lease = GrantedLease(t)]
    /\ UNCHANGED <<now, events, gate, assigned, requests, cancelling, tick, crashes, denied>>

\* appendClaimedEvent: a duplicate is acknowledged, a gap is refused, and
\* only the next sequence number changes anything.
AppendDesktopEvent(w, r, a, s, t) ==
    /\ Online
    /\ <<w, r, a>> \in assigned
    /\ Fenced(run[r], w, a, t)
    /\ <<r, a, s>> \notin events
    /\ s = run[r].seq + 1
    /\ events' = events \cup {<<r, a, s>>}
    /\ run' = [run EXCEPT ![r].seq = s]
    /\ UNCHANGED <<now, gate, assigned, requests, cancelling, tick, crashes, denied>>

CompletedRow(row, status) ==
    [row EXCEPT !.status = status, !.lease = NULL,
                !.error = IF status = "succeeded" THEN "none" ELSE "reported"]

\* complete: on a terminal row it only answers (same status) or refuses
\* (another status), so a repeated completion changes nothing.
Complete(w, r, a, status, t) ==
    /\ Online
    /\ <<w, r, a>> \in assigned
    /\ Fenced(run[r], w, a, t)
    /\ run' = [run EXCEPT ![r] = CompletedRow(run[r], status)]
    /\ UNCHANGED <<now, events, gate, assigned, requests, cancelling, tick, crashes, denied>>

-----------------------------------------------------------------------------
(* requestCancellation: SELECT, then an UPDATE by id alone that writes the  *)
(* status it read back unless that status was queued.                       *)

CancelSelect(c, r) ==
    /\ c \in requests
    /\ run[r].status # "absent"
    /\ requests' = requests \ {c}
    /\ cancelling' = cancelling \cup {[id |-> c, run |-> r, status |-> run[r].status]}
    /\ UNCHANGED <<now, run, events, gate, assigned, tick, crashes, denied>>

CancelledRowAsRead(row, read) == [row EXCEPT !.status = read, !.cancel = TRUE]   \* mutant
CancelledRow(row, read) ==
    [row EXCEPT !.status = IF read = "queued" THEN "cancelled" ELSE read, !.cancel = TRUE]

CancelUpdate(x) ==
    /\ cancelling' = cancelling \ {x}
    /\ run' = [run EXCEPT ![x.run] = CancelledRow(run[x.run], x.status)]
    /\ UNCHANGED <<now, events, gate, assigned, requests, tick, crashes, denied>>

-----------------------------------------------------------------------------
(* The scheduler tick: recoverExpiredLeases, then expireUnclaimedDesktop,   *)
(* both with the stamp taken when the tick began.                           *)

RecoverSelect(p, t) ==
    /\ tick[p].phase = "idle"
    /\ \E rows \in Batches({[run |-> r, owner |-> run[r].owner, attempt |-> run[r].attempt,
                             seq |-> run[r].seq, key |-> run[r].lease] :
                            r \in {q \in Runs : run[q].status = "running"
                                                /\ LeaseExpired(run[q], t)}}) :
         tick' = [tick EXCEPT ![p] = [phase |-> "recover", at |-> t, rows |-> rows]]
    /\ UNCHANGED <<now, run, events, gate, assigned, requests, cancelling, crashes, denied>>

Retry(attempt) == attempt < MaxAttempts

RecoveredRowKeepsSequence(row, x) ==                  \* mutant
    IF Retry(x.attempt)
    THEN [row EXCEPT !.status = "queued", !.owner = NoOwner, !.lease = NULL, !.error = "none"]
    ELSE [row EXCEPT !.status = "failed", !.owner = NoOwner, !.lease = NULL,
                     !.seq = x.seq, !.error = "lease_lost"]
RecoveredRowClaimed(row, x) ==                        \* mutant
    IF Retry(x.attempt)
    THEN [row EXCEPT !.status = "claimed", !.owner = NoOwner, !.lease = NULL, !.seq = 0]
    ELSE [row EXCEPT !.status = "failed", !.owner = NoOwner, !.lease = NULL, !.seq = x.seq]
RecoveredRow(row, x) ==
    IF Retry(x.attempt)
    THEN [row EXCEPT !.status = "queued", !.owner = NoOwner, !.lease = NULL,
                     !.seq = 0, !.error = "none"]
    ELSE [row EXCEPT !.status = "failed", !.owner = NoOwner, !.lease = NULL,
                     !.seq = x.seq, !.error = "lease_lost"]

\* The WHERE clause of the recovery UPDATE: same owner, lease still expired.
StillSameOwner(row, x, t) == row.owner = x.owner      \* mutant
StillExpired(row, x, t) == row.owner = x.owner /\ LeaseExpired(row, t)

\* One row of the batch: rows without an owner are passed over.
RecoverUpdate(p) ==
    /\ tick[p].phase = "recover"
    /\ \E x \in Earliest(tick[p].rows) :
         /\ tick' = [tick EXCEPT ![p].rows = @ \ {x}]
         /\ run' = IF x.owner # NoOwner /\ StillExpired(run[x.run], x, tick[p].at)
                   THEN [run EXCEPT ![x.run] = RecoveredRow(run[x.run], x)]
                   ELSE run
    /\ UNCHANGED <<now, events, gate, assigned, requests, cancelling, crashes, denied>>

ExpireSelect(p) ==
    /\ tick[p].phase = "recover" /\ tick[p].rows = {}
    /\ \E rows \in Batches({[run |-> r, owner |-> run[r].owner, attempt |-> run[r].attempt,
                             seq |-> run[r].seq, key |-> run[r].deadline] :
                            r \in {q \in Runs : /\ run[q].status = "queued"
                                                /\ run[q].deadline # NULL
                                                /\ run[q].deadline <= tick[p].at}}) :
         tick' = [tick EXCEPT ![p].phase = "expire", ![p].rows = rows]
    /\ UNCHANGED <<now, run, events, gate, assigned, requests, cancelling, crashes, denied>>

\* The WHERE clause of the expiry UPDATE.
StillQueued(row) == row.status = "queued"

ExpiredRow(row) == [row EXCEPT !.status = "skipped", !.error = "runner_unavailable"]

ExpireUpdate(p) ==
    /\ tick[p].phase = "expire"
    /\ \E x \in Earliest(tick[p].rows) :
         /\ tick' = [tick EXCEPT ![p].rows = @ \ {x}]
         /\ run' = IF StillQueued(run[x.run])
                   THEN [run EXCEPT ![x.run] = ExpiredRow(run[x.run])]
                   ELSE run
    /\ UNCHANGED <<now, events, gate, assigned, requests, cancelling, crashes, denied>>

TickEnd(p) ==
    /\ tick[p].phase = "expire" /\ tick[p].rows = {}
    /\ tick' = [tick EXCEPT ![p] = IdleTick]
    /\ UNCHANGED <<now, run, events, gate, assigned, requests, cancelling, crashes, denied>>

\* The replica dies, or a statement of the tick throws: the rest of the
\* batch is dropped and the loop starts over.
TickAbort(p) ==
    /\ tick[p].phase # "idle" /\ crashes < MaxCrashes
    /\ tick' = [tick EXCEPT ![p] = IdleTick]
    /\ crashes' = crashes + 1
    /\ UNCHANGED <<now, run, events, gate, assigned, requests, cancelling, denied>>

Clock ==
    /\ now < MaxTime
    /\ now' = now + 1
    /\ UNCHANGED <<run, events, gate, assigned, requests, cancelling, tick, crashes, denied>>

-----------------------------------------------------------------------------
Init ==
    /\ now = 0
    /\ run = [r \in Runs |-> AbsentRow]
    /\ events = {} /\ gate = {} /\ assigned = {} /\ denied = {}
    /\ requests = Cancellations /\ cancelling = {}
    /\ tick = [p \in Replicas |-> IdleTick]
    /\ crashes = 0

TickStep(p) ==
    \/ \E t \in Stamps : RecoverSelect(p, t)
    \/ RecoverUpdate(p)
    \/ ExpireSelect(p)
    \/ ExpireUpdate(p)
    \/ TickEnd(p)

RunnerStep(w, r) ==
    \/ \E t \in Stamps : ClaimDesktop(w, r, t)
    \/ ReclaimDesktop(w, r)
    \/ \E a \in 1 .. MaxAttempts, t \in Stamps :
         \/ HeartbeatDesktop(w, r, a, t)
         \/ \E s \in 1 .. MaxSequence : AppendDesktopEvent(w, r, a, s, t)
         \/ \E status \in {"succeeded", "failed", "cancelled"} : Complete(w, r, a, status, t)

Next ==
    \/ \E r \in Runs, t \in Stamps, window \in ClaimWindows : Dispatch(r, t, window)
    \/ \E r \in Runs : SkipDenied(r) \/ LoseDenied(r)
    \/ \E w \in Runners, r \in Runs : RunnerStep(w, r)
    \/ \E g \in gate : PassGate(g) \/ FailGate(g) \/ LoseGate(g)
    \/ \E c \in Cancellations, r \in Runs : CancelSelect(c, r)
    \/ \E x \in cancelling : CancelUpdate(x)
    \/ \E p \in Replicas : TickStep(p) \/ TickAbort(p)
    \/ Clock

Spec == Init /\ [][Next]_vars

\* Time passes, and every replica's loop keeps ticking: run() re-arms its
\* timer in a finally block, whatever the cycle did.  Nothing is assumed of
\* the desktops, of users or of the access check.
Fairness == WF_vars(Clock) /\ \A p \in Replicas : WF_vars(TickStep(p))
FairSpec == Spec /\ Fairness

-----------------------------------------------------------------------------
(* Properties.                                                              *)

Holders == gate \cup assigned

\* Every variable keeps the shape of the table or handler it models.
TypeOK ==
    /\ now \in Nat /\ crashes \in Nat
    /\ run \in [Runs -> Row]
    /\ events \subseteq Runs \X Nat \X Nat
    /\ gate \subseteq Runners \X Runs \X Nat
    /\ assigned \subseteq Runners \X Runs \X Nat
    /\ requests \subseteq Cancellations /\ denied \subseteq Runs
    /\ cancelling \subseteq [id : Cancellations, run : Runs, status : Statuses \ {"absent"}]
    /\ tick \in [Replicas -> [phase : {"idle", "recover", "expire"}, at : Nat,
                              rows : SUBSET Snapshot]]

\* No attempt of a run is ever handed to two desktops: whatever recovery,
\* cancellation and repeated claims do, the attempt number in a heartbeat,
\* an event or a completion identifies one runner.
AttemptExclusive ==
    \A x, y \in Holders : x[2] = y[2] /\ x[3] = y[3] => x[1] = y[1]

\* A run is attempted at most MaxAttempts times, although the sweep decides
\* to retry on an attempt count it read before its UPDATE.
AttemptBound == \A r \in Runs : run[r].attempt <= MaxAttempts

\* The stored events of every attempt are 1..n without a gap, across lost
\* leases and the reset of engine_sequence that a retry makes.
EventsGapFree ==
    \A e \in events : \A s \in 1 .. e[3] : <<e[1], e[2], s>> \in events

\* Finished: not waiting for a desktop, and no lease.
Inert(r) == run[r].status \notin {"absent", "queued"} /\ run[r].lease = NULL

\* A run that completed, failed, was skipped or lost its last lease never
\* executes again: no later claim, recovery, cancellation or event revives
\* it, even where a late cancellation overwrites its status.
FinishedRunIsInert ==
    [][\A r \in Runs : Inert(r) =>
         /\ Inert(r)'
         /\ run'[r].attempt = run[r].attempt /\ run'[r].seq = run[r].seq
         /\ \A e \in events' \ events : e[1] # r]_vars

\* Recovery takes a running run from its desktop only when the lease in the
\* table has really run out, however long ago the sweep selected the row.
LeaseRespected ==
    [][\A r \in Runs :
         (run[r].status = "running" /\ run'[r].status \in {"queued", "failed"}
          /\ run'[r].error # "reported")
         => LeaseExpired(run[r], now + MaxSkew)]_vars

\* The automation never has two occurrences in progress.
SingleActive ==
    \A r, q \in Runs : run[r].status \in Active /\ run[q].status \in Active => r = q

\* A terminal status is never replaced.
TerminalIsFinal ==
    [][\A r \in Runs : run[r].status \in Terminal => run'[r].status = run[r].status]_vars

\* A run with a terminal status never becomes queued or running again.
NeverReactivated ==
    [][\A r \in Runs : run[r].status \in Terminal => run'[r].status \in Terminal]_vars

\* Every dispatched occurrence ends: the desktop may vanish at any point and
\* the access check may never answer.
EveryRunEnds ==
    \A r \in Runs : run[r].status \in Active ~> run[r].status \in Terminal

-----------------------------------------------------------------------------
(* The abstract life of a run.  A row is working while it has a lease, even *)
(* where a cancellation based on an old read renamed its status: the        *)
(* desktop goes on until a heartbeat tells it, and a sweep that selected    *)
(* the row earlier may still requeue it.                                    *)

PhaseOf(row) ==
    IF row.status = "absent" THEN "absent"
    ELSE IF row.status = "queued" THEN "waiting"
    ELSE IF row.lease # NULL THEN "working" ELSE "over"

Lifecycle == INSTANCE RunLifecycle WITH
    phase <- [r \in Runs |-> PhaseOf(run[r])],
    tries <- [r \in Runs |-> run[r].attempt],
    holder <- [r \in Runs |-> IF PhaseOf(run[r]) = "working" THEN run[r].owner ELSE NoOwner]

\* The table implements the life of a run: every statement, of whichever
\* handler and on whatever it read before, is one of its steps or none.
ImplementsLifecycle == Lifecycle!Spec

-----------------------------------------------------------------------------
(* The inductive strengthening the proofs use.                              *)

\* A row nobody inserted carries nothing.
AbsentIsFresh == \A r \in Runs : run[r].status = "absent" => run[r] = AbsentRow

\* A queued row has an attempt left and its event counter is reset.
QueuedIsFresh ==
    \A r \in Runs : run[r].status = "queued" => run[r].attempt < MaxAttempts /\ run[r].seq = 0

\* Nobody holds a future attempt, and whoever holds the current attempt of
\* an owned row is its owner.
HoldersFenced ==
    \A x \in Holders :
        /\ x[3] <= run[x[2]].attempt
        /\ x[3] = run[x[2]].attempt /\ run[x[2]].owner # NoOwner => x[1] = run[x[2]].owner

\* A sweep's stamp is not ahead of the clock by more than the skew.
SweepStamped == \A p \in Replicas : tick[p].at <= now + MaxSkew

\* When the recovery UPDATE would still apply, the attempt count on which
\* the sweep decided is still the one in the table.
DecisionIsCurrent ==
    \A p \in Replicas : \A x \in tick[p].rows :
        tick[p].phase = "recover" /\ StillExpired(run[x.run], x, tick[p].at)
        => run[x.run].attempt = x.attempt

\* Stored events belong to attempts already begun, and while a row has a
\* lease its counter is exactly the number of events of its attempt.
EventsCounted ==
    /\ \A e \in events : e[2] <= run[e[1]].attempt /\ e[3] >= 1
    /\ \A r \in Runs : run[r].lease # NULL =>
         \A s \in Nat : <<r, run[r].attempt, s>> \in events <=> 1 <= s /\ s <= run[r].seq

RetryInvariant ==
    TypeOK /\ AbsentIsFresh /\ QueuedIsFresh /\ AttemptBound /\ SweepStamped /\ DecisionIsCurrent
=============================================================================
