------------------------- MODULE AutomationSchedule -------------------------
(***************************************************************************)
(* One row of Den's automation table (state, current revision, next due    *)
(* time) and everything that writes to it: creation, edits, activation,    *)
(* archiving, Run now, the claim of a due occurrence by the scheduler      *)
(* ticks of several replicas, refused access (needs_attention), and the    *)
(* completion of a saved-script cloud run.                                 *)
(*                                                                         *)
(* Source: ee/apps/den-api/src/automations/repository.ts and service.ts,   *)
(* packages/automations/src/schedule.ts and runner.ts.                     *)
(*                                                                         *)
(* A schedule is the set of instants at which it is due.  The runs are     *)
(* seen from here only as occurrences: AutomationRuns models their leases, *)
(* attempts and cancellation.  Every handler that reads the row, awaits    *)
(* and writes it back keeps what it read in tick or in pending.            *)
(***************************************************************************)
EXTENDS Integers, FiniteSets

CONSTANTS
    Runs,         \* identities of automation_run rows, in order of insertion
    NoRun,
    Replicas,     \* den-api processes that run the scheduler loop
    Requests,     \* user requests, each used at most once      (bound)
    Operations,   \* what users do: subset of {"run", "set", "update"}
    Schedules,    \* schedules a revision may have
    Kinds,        \* is the automation a saved script: subset of BOOLEAN (bound)
    Window,       \* env.automations.runnerClaimDeadlineMs
    MinWindow,    \* AUTOMATION_MIN_CLAIM_WINDOW_MS
    MaxTime,      \* end of the modelled clock                  (bound)
    MaxCrashes    \* replica crashes inside a tick              (bound)

ASSUME RunsAssumption == Runs \subseteq Nat /\ NoRun \notin Runs
ASSUME SchedulesAssumption == Schedules \subseteq SUBSET Nat
ASSUME ScheduleBounds ==
    /\ Kinds \subseteq BOOLEAN
    /\ Window \in Nat /\ MinWindow \in Nat /\ MaxTime \in Nat /\ MaxCrashes \in Nat

VARIABLES
    now,        \* reference clock
    script,     \* a saved-script cloud automation; FALSE: a desktop one
    auto,       \* the automation row with the schedule of its current revision
    run,        \* its automation_run rows
    tick,       \* the scheduler tick of each replica
    requests,   \* user requests not made yet
    pending,    \* user requests between their read and their write
    attention,  \* revisions with a markNeedsAttention call under way
    artifact,   \* states that finished script runs are about to write
    crashes

vars == <<now, script, auto, run, tick, requests, pending, attention, artifact, crashes>>

NULL == -1
Times == Nat \cup {NULL}
States == {"active", "inactive", "needs_attention", "archived"}

\* What listDue or get reads of the row and hands to claim or setState.
Item == [rev : Nat, schedule : Schedules, due : Times]
NoItem == [rev |-> 0, schedule |-> {}, due |-> NULL]
AutomationRow == [state : States, rev : Nat, schedule : Schedules, due : Times]
Row == [status : {"absent", "queued", "running", "ended", "refused", "skipped"},
        scheduledFor : Times, rev : Nat, deadline : Times]
AbsentRow == [status |-> "absent", scheduledFor |-> NULL, rev |-> 0, deadline |-> NULL]
Request == [id : Requests, op : {"run", "refuse", "record", "set"}, item : Item,
            target : {"active", "inactive", "archived"}, at : Nat]

ReadItem == [rev |-> auto.rev, schedule |-> auto.schedule, due |-> auto.due]

-----------------------------------------------------------------------------
(* Pure functions.                                                          *)

\* nextAutomationOccurrence: the first occurrence strictly after an instant.
NextOccurrenceInclusive(S, after) ==     \* mutant
    LET later == {d \in S : d >= after} IN
    IF later = {} THEN NULL ELSE CHOOSE d \in later : \A e \in later : d <= e
NextOccurrence(S, after) ==
    LET later == {d \in S : d > after} IN
    IF later = {} THEN NULL ELSE CHOOSE d \in later : \A e \in later : d <= e

Least(a, b) == IF a <= b THEN a ELSE b
Greatest(a, b) == IF a >= b THEN a ELSE b

\* desktopClaimDeadline: the window, cut at the next occurrence, but never
\* shorter than the minimum.
ClaimDeadline(t, window, next) ==
    LET requested == t + window
        bounded == IF next = NULL THEN requested ELSE Least(requested, next)
    IN  Greatest(t + Least(window, MinWindow), bounded)

-----------------------------------------------------------------------------
(* The claim transaction.                                                   *)

Overlap == \E q \in Runs : run[q].status \in {"queued", "running"}

NeverDuplicate(scheduledFor) == FALSE    \* mutant
Duplicate(scheduledFor) ==
    scheduledFor # NULL
    /\ \E q \in Runs : run[q].status # "absent" /\ run[q].scheduledFor = scheduledFor

\* The identity the next INSERT gets.
Fresh(r) == run[r].status = "absent" /\ \A q \in Runs : run[q].status = "absent" => r <= q

\* The row claim inserts for the revision v.
ClaimedRow(scheduledFor, v, deadline) ==
    [status |-> IF Overlap THEN "skipped" ELSE "queued", scheduledFor |-> scheduledFor,
     rev |-> v, deadline |-> IF Overlap THEN NULL ELSE deadline]

IdleTick == [phase |-> "idle", at |-> 0, item |-> NoItem, run |-> NoRun]

\* A scheduled claim needs an active automation (a manual one is laxer).
CanRunDormant == auto.state \in {"active", "inactive"}     \* mutant
CanRun == auto.state = "active"

\* The schedule advances from the claimed occurrence, not from the clock.
NextDueFromNow(item, t) == NextOccurrence(item.schedule, t)   \* mutant
NextDue(item, t) == NextOccurrence(item.schedule, item.due)

\* listDue, with the stamp taken when the tick began; often nothing is due.
TickList(p) ==
    /\ tick[p].phase = "idle"
    /\ tick' = IF auto.state = "active" /\ auto.due # NULL /\ auto.due <= now
               THEN [tick EXCEPT ![p] = [phase |-> "claim", at |-> now, item |-> ReadItem,
                                         run |-> NoRun]]
               ELSE tick
    /\ UNCHANGED <<now, script, auto, run, requests, pending, attention, artifact, crashes>>

\* The automation is no longer active, or the occurrence already has a run:
\* the tick drops it and leaves the row alone.
TickDrop(p) ==
    /\ tick[p].phase = "claim"
    /\ ~ CanRun \/ Duplicate(tick[p].item.due)
    /\ tick' = [tick EXCEPT ![p] = IdleTick]
    /\ UNCHANGED <<now, script, auto, run, requests, pending, attention, artifact, crashes>>

\* The occurrence is recorded and the schedule advances, from what the tick
\* read.  When access was refused the run is skipped in a second statement.
TickClaim(p, r, refused) ==
    LET item == tick[p].item
        next == NextDue(item, tick[p].at)
    IN  /\ tick[p].phase = "claim"
        /\ CanRun /\ ~ Duplicate(item.due)
        /\ Fresh(r)
        /\ run' = [run EXCEPT ![r] =
             ClaimedRow(item.due, item.rev, ClaimDeadline(tick[p].at, Window, next))]
        /\ auto' = [auto EXCEPT !.due = next]
        /\ tick' = [tick EXCEPT ![p] =
             IF refused /\ ~ Overlap THEN [@ EXCEPT !.phase = "deny", !.run = r] ELSE IdleTick]
        /\ UNCHANGED <<now, script, requests, pending, attention, artifact, crashes>>

SkippedRow(row) == IF row.status \in {"queued", "running"} THEN [row EXCEPT !.status = "skipped"]
                   ELSE row

\* skipRun; the markNeedsAttention that follows is left in attention.
TickDeny(p) ==
    /\ tick[p].phase = "deny"
    /\ run' = [run EXCEPT ![tick[p].run] = SkippedRow(@)]
    /\ attention' = attention \cup {tick[p].item.rev}
    /\ tick' = [tick EXCEPT ![p] = IdleTick]
    /\ UNCHANGED <<now, script, auto, requests, pending, artifact, crashes>>

TickAbort(p) ==
    /\ tick[p].phase # "idle" /\ crashes < MaxCrashes
    /\ crashes' = crashes + 1
    /\ tick' = [tick EXCEPT ![p] = IdleTick]
    /\ UNCHANGED <<now, script, auto, run, requests, pending, attention, artifact>>

-----------------------------------------------------------------------------
(* Refused access.                                                          *)

\* markNeedsAttention: only while the refused revision is the current one.
MarkedAnyRevision(row, v) ==             \* mutant
    IF row.state = "active" THEN [row EXCEPT !.state = "needs_attention", !.due = NULL] ELSE row
MarkedMisspelt(row, v) ==                \* mutant
    IF row.rev = v /\ row.state = "active"
    THEN [row EXCEPT !.state = "attention", !.due = NULL] ELSE row
Marked(row, v) ==
    IF row.rev = v /\ row.state = "active"
    THEN [row EXCEPT !.state = "needs_attention", !.due = NULL] ELSE row

\* reconcileModelAttention, on every get, list, create, update and activate.
Refuse ==
    /\ ~ script /\ auto.state = "active"
    /\ attention' = attention \cup {auto.rev}
    /\ UNCHANGED <<now, script, auto, run, tick, requests, pending, artifact, crashes>>

MarkNeedsAttention(v) ==
    /\ attention' = attention \ {v}
    /\ auto' = Marked(auto, v)
    /\ UNCHANGED <<now, script, run, tick, requests, pending, artifact, crashes>>

-----------------------------------------------------------------------------
(* Users.                                                                   *)

\* Run now reads the automation and decides whether access is refused; a
\* script's owner check throws instead.
RunNowRead(c) ==
    /\ c \in requests /\ "run" \in Operations
    /\ auto.state # "archived"
    /\ \E op \in IF auto.state = "needs_attention" THEN {"refuse"}
                 ELSE IF script THEN {"run"} ELSE {"run", "refuse"} :
         pending' = pending \cup
           {[id |-> c, op |-> op, item |-> ReadItem, target |-> "active", at |-> now]}
    /\ requests' = requests \ {c}
    /\ UNCHANGED <<now, script, auto, run, tick, attention, artifact, crashes>>

\* The claim of a manual run: it writes back the next due time it read.
RunNowClaim(x, r) ==
    /\ x.op = "run"
    /\ Fresh(r)
    /\ pending' = pending \ {x}
    /\ IF auto.state \in {"active", "inactive"}
       THEN /\ run' = [run EXCEPT ![r] =
                 ClaimedRow(NULL, x.item.rev, ClaimDeadline(now, MinWindow, x.item.due))]
            /\ auto' = [auto EXCEPT !.due = x.item.due]
       ELSE UNCHANGED <<run, auto>>
    /\ UNCHANGED <<now, script, tick, requests, attention, artifact, crashes>>

RunNowRefuse(x) ==
    /\ x.op = "refuse"
    /\ auto' = Marked(auto, x.item.rev)
    /\ pending' = (pending \ {x}) \cup {[x EXCEPT !.op = "record"]}
    /\ UNCHANGED <<now, script, run, tick, requests, attention, artifact, crashes>>

\* recordSkippedManual
RunNowRecord(x, r) ==
    /\ x.op = "record"
    /\ Fresh(r)
    /\ pending' = pending \ {x}
    /\ run' = IF auto.state # "archived" /\ auto.rev = x.item.rev
              THEN [run EXCEPT ![r] = [AbsentRow EXCEPT !.status = "skipped", !.rev = auto.rev]]
              ELSE run
    /\ UNCHANGED <<now, script, auto, tick, requests, attention, artifact, crashes>>

\* setState reads, and does nothing more when the state is already there.
SetStateRead(c, target) ==
    /\ c \in requests /\ "set" \in Operations
    /\ auto.state # target
    /\ requests' = requests \ {c}
    /\ pending' = pending \cup
         {[id |-> c, op |-> "set", item |-> ReadItem, target |-> target, at |-> now]}
    /\ UNCHANGED <<now, script, auto, run, tick, attention, artifact, crashes>>

\* Its UPDATE names the row only: not the state or the revision it read.
SetStateWrite(x) ==
    /\ x.op = "set"
    /\ pending' = pending \ {x}
    /\ auto' = [auto EXCEPT !.state = x.target,
                  !.due = IF x.target = "active" THEN NextOccurrence(x.item.schedule, x.at)
                          ELSE NULL]
    /\ UNCHANGED <<now, script, run, tick, requests, attention, artifact, crashes>>

\* update, one transaction: a new revision, active and scheduled from now.
Update(c, S) ==
    /\ c \in requests /\ "update" \in Operations
    /\ auto.state # "archived"
    /\ requests' = requests \ {c}
    /\ auto' = [state |-> "active", rev |-> auto.rev + 1, schedule |-> S,
                due |-> NextOccurrence(S, now)]
    /\ UNCHANGED <<now, script, run, tick, pending, attention, artifact, crashes>>

-----------------------------------------------------------------------------
(* The runs, as far as the automation row sees them.                        *)

\* claimDesktop inside the claim window, or claimCloud.
RunStart(r) ==
    /\ run[r].status = "queued"
    /\ script \/ run[r].deadline > now
    /\ run' = [run EXCEPT ![r].status = "running"]
    /\ UNCHANGED <<now, script, auto, tick, requests, pending, attention, artifact, crashes>>

\* recoverExpiredLeases
RunRequeue(r) ==
    /\ run[r].status = "running"
    /\ run' = [run EXCEPT ![r].status = "queued"]
    /\ UNCHANGED <<now, script, auto, tick, requests, pending, attention, artifact, crashes>>

\* expireUnclaimedDesktop
RunExpire(r) ==
    /\ ~ script
    /\ run[r].status = "queued" /\ run[r].deadline <= now
    /\ run' = [run EXCEPT ![r].status = "skipped"]
    /\ UNCHANGED <<now, script, auto, tick, requests, pending, attention, artifact, crashes>>

\* The run ends because access to its revision was refused: at the claim
\* gate, by the desktop's report, or by the cloud access check.  A report
\* that is delivered again changes no run and marks the automation again.
RunRefused(r) ==
    /\ run[r].status = "running" \/ (~ script /\ run[r].status = "refused")
    /\ run' = [run EXCEPT ![r].status = "refused"]
    /\ attention' = attention \cup {run[r].rev}
    /\ UNCHANGED <<now, script, auto, tick, requests, pending, artifact, crashes>>

\* The run completes; completeCloud goes on to write the automation's state.
RunEnd(r) ==
    /\ run[r].status = "running"
    /\ run' = [run EXCEPT ![r].status = "ended"]
    /\ IF script THEN \E s \in {"active", "needs_attention"} : artifact' = artifact \cup {s}
       ELSE UNCHANGED artifact
    /\ UNCHANGED <<now, script, auto, tick, requests, pending, attention, crashes>>

\* The second half of completeCloud: neither the state nor the revision is
\* compared, and the next due time is left as it is.
ArtifactWrite(s) ==
    /\ artifact' = artifact \ {s}
    /\ auto' = [auto EXCEPT !.state = s]
    /\ UNCHANGED <<now, script, run, tick, requests, pending, attention, crashes>>

Clock ==
    /\ now < MaxTime
    /\ now' = now + 1
    /\ UNCHANGED <<script, auto, run, tick, requests, pending, attention, artifact, crashes>>

-----------------------------------------------------------------------------
\* create, at time 0
Init ==
    /\ now = 0 /\ script \in Kinds
    /\ \E S \in Schedules :
         auto = [state |-> "active", rev |-> 1, schedule |-> S, due |-> NextOccurrence(S, 0)]
    /\ run = [r \in Runs |-> AbsentRow]
    /\ tick = [p \in Replicas |-> IdleTick]
    /\ requests = Requests /\ pending = {}
    /\ attention = {} /\ artifact = {} /\ crashes = 0

TickStep(p) ==
    \/ TickList(p) \/ TickDrop(p) \/ TickDeny(p)
    \/ \E r \in Runs, refused \in BOOLEAN : TickClaim(p, r, refused)

UserRead(c) ==
    \/ RunNowRead(c)
    \/ \E target \in {"active", "inactive", "archived"} : SetStateRead(c, target)
    \/ \E S \in Schedules : Update(c, S)

UserWrite(x) ==
    \/ \E r \in Runs : RunNowClaim(x, r) \/ RunNowRecord(x, r)
    \/ RunNowRefuse(x)
    \/ SetStateWrite(x)

RunStep(r) == RunStart(r) \/ RunRequeue(r) \/ RunExpire(r) \/ RunRefused(r) \/ RunEnd(r)

Next ==
    \/ \E p \in Replicas : TickStep(p) \/ TickAbort(p)
    \/ Refuse
    \/ \E v \in attention : MarkNeedsAttention(v)
    \/ \E c \in Requests : UserRead(c)
    \/ \E x \in pending : UserWrite(x)
    \/ \E r \in Runs : RunStep(r)
    \/ \E s \in artifact : ArtifactWrite(s)
    \/ Clock

Spec == Init /\ [][Next]_vars

\* Time passes and every replica's loop keeps ticking; nothing is assumed
\* of users, of desktops or of the calls in attention and artifact.
Fairness == WF_vars(Clock) /\ \A p \in Replicas : WF_vars(TickStep(p))
FairSpec == Spec /\ Fairness

-----------------------------------------------------------------------------
(* Properties.                                                              *)

\* Every variable keeps the shape of the row or handler it models.
TypeOK ==
    /\ now \in Nat /\ script \in Kinds /\ crashes \in Nat
    /\ auto \in AutomationRow
    /\ run \in [Runs -> Row]
    /\ tick \in [Replicas -> [phase : {"idle", "claim", "deny"}, at : Nat,
                              item : Item \cup {NoItem}, run : Runs \cup {NoRun}]]
    /\ requests \subseteq Requests
    /\ pending \subseteq Request
    /\ attention \subseteq Nat
    /\ artifact \subseteq {"active", "needs_attention"}

\* An occurrence is dispatched at most once, whatever replicas list it and
\* however edits and manual runs move the next due time back.
OccurrenceOnce ==
    \A r, q \in Runs :
        run[r].scheduledFor # NULL /\ run[r].scheduledFor = run[q].scheduledFor => r = q

\* Revisions whose access was refused by a call that is still under way.
Refused == attention \cup {x.item.rev : x \in {y \in pending : y.op = "refuse"}}

\* A late refusal never stops a desktop automation that was edited since:
\* it goes to needs_attention only because its current revision was refused.
AttentionIsCurrent ==
    [][~ script /\ auto.state = "active" /\ auto'.state = "needs_attention"
       => auto.rev \in Refused]_vars

\* Nothing becomes due of an automation that is paused or archived, although
\* ticks, refusals and script results write to its row at any time: only the
\* claim of a manual run puts a due time back, the one it read, and only on
\* a paused one.
Dormant(row) == row.state \in {"inactive", "archived"} /\ row.due # NULL
DormantUnscheduled ==
    [][Dormant(auto') => \/ Dormant(auto) /\ auto' = auto
                         \/ \E x \in pending :
                              /\ x.op = "run" /\ pending' = pending \ {x}
                              /\ auto' = [auto EXCEPT !.due = x.item.due]
                              /\ auto.state = "inactive"]_vars

Recorded(d) == \E r \in Runs : run[r].scheduledFor = d

\* While the schedule goes on, the latest occurrence that has come has a run,
\* however long the replicas stalled and whichever of them crashed.
LatestOccurrenceKept ==
    auto.state = "active" /\ auto.due # NULL =>
        \A d \in auto.schedule :
            /\ 0 < d /\ d <= now /\ d < auto.due
            /\ \A e \in auto.schedule : e <= now => e <= d
            => Recorded(d)

\* What schedule.ts says of missed occurrences: a tick dispatches none of
\* which it could see a later one.
BacklogNotReplayed ==
    [][\A r \in Runs :
         run[r].status = "absent" /\ run'[r].status = "queued" /\ run'[r].scheduledFor # NULL
         => \E p \in Replicas :
              LET item == tick[p].item IN
              /\ tick[p].phase = "claim" /\ item.due = run'[r].scheduledFor
              /\ \A d \in item.schedule : d > item.due => d > tick[p].at]_vars

Instants == UNION Schedules

\* The schedule never gets stuck on an occurrence that is due.
ScheduleAdvances ==
    \A d \in Instants :
        (auto.state = "active" /\ auto.due = d /\ d <= now)
        ~> (auto.state # "active" \/ auto.due # d)
=============================================================================
