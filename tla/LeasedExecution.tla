--------------------------- MODULE LeasedExecution ---------------------------
(***************************************************************************)
(* The desktops that execute runs, together with Den: a claim whose answer *)
(* takes its time, the heartbeats that renew the lease and count as missed *)
(* when Den refuses them, the request is lost or its answer comes too      *)
(* late, and the abort after a number of misses.  The lease ends on Den's  *)
(* clock, the misses add up on the desktop's: this module relates the two. *)
(*                                                                         *)
(* Source: apps/desktop/electron/automation-runner.mjs (runAssignment,     *)
(* heartbeat) and the routes and statements of AutomationRuns.             *)
(*                                                                         *)
(* Each desktop is one sequential process.  A request it gave up on does   *)
(* not reach Den any more; AutomationRuns alone covers those that do.      *)
(***************************************************************************)
EXTENDS AutomationRuns

CONSTANTS
    HeartbeatInterval,   \* heartbeatIntervalMs
    HeartbeatTimeout,    \* heartbeatTimeoutMs
    MissLimit,           \* heartbeatMissLimit
    ClaimTimeout         \* lifecycleRequestTimeoutMs, of the claim

ASSUME TimersAssumption ==
    /\ HeartbeatInterval \in Nat \ {0} /\ HeartbeatTimeout \in Nat
    /\ MissLimit \in Nat \ {0} /\ ClaimTimeout \in Nat

VARIABLES
    desk,        \* what each desktop is doing
    granted,     \* when Den last granted a lease to the desktop's claim
    cancelledAt  \* when the cancellation of a run was recorded

deskVars == <<desk, granted, cancelledAt>>
systemVars == <<vars, deskVars>>

Results == {"succeeded", "failed", "cancelled"}

\* claimed is when Den processed the claim, since when the wait of the phase
\* began, reply what Den answered to the heartbeat in flight, result what is
\* left to report.
Desk == [phase : {"idle", "claiming", "working", "settling"},
         run : Runs \cup {NoOwner}, attempt : Nat, claimed : Nat, since : Nat,
         misses : 0 .. MissLimit, reply : {"none", "ok", "cancel", "refused"}, result : Results \cup {"none"}]

IdleDesk == [phase |-> "idle", run |-> NoOwner, attempt |-> 0, claimed |-> 0,
             since |-> 0, misses |-> 0, reply |-> "none", result |-> "none"]

Is(w, phase) == desk[w].phase = phase
Holding(w, r, a) == desk[w].run = r /\ desk[w].attempt = a

-----------------------------------------------------------------------------
(* The claim.                                                               *)

\* The request reaches Den; the answer is on its way from now on.
Claim(w, r, t) ==
    /\ Is(w, "idle")
    /\ ClaimDesktop(w, r, t)
    /\ desk' = [desk EXCEPT ![w] = [IdleDesk EXCEPT !.phase = "claiming", !.run = r,
                                      !.attempt = NextAttempt(run[r]),
                                      !.claimed = now, !.since = now]]
    /\ granted' = [granted EXCEPT ![w] = now]
    /\ UNCHANGED cancelledAt

\* The assignment leaves Den, and arrives: heartbeats are armed.
Assign(g) ==
    /\ Is(g[1], "claiming") /\ Holding(g[1], g[2], g[3])
    /\ PassGate(g)
    /\ desk' = [desk EXCEPT ![g[1]].phase = "working", ![g[1]].since = now]
    /\ UNCHANGED <<granted, cancelledAt>>

\* No assignment: access was denied, or the answer was lost on the way.
Refuse(g) ==
    /\ FailGate(g) \/ LoseGate(g)
    /\ UNCHANGED deskVars

GiveUpClaim(w) ==
    /\ Is(w, "claiming")
    /\ desk' = [desk EXCEPT ![w] = IdleDesk]
    /\ gate' = {g \in gate : g[1] # w}
    /\ UNCHANGED <<now, run, events, assigned, requests, cancelling, tick, crashes, denied,
                   granted, cancelledAt>>

-----------------------------------------------------------------------------
(* Heartbeats.                                                              *)

Due(w) == now >= desk[w].since + HeartbeatInterval

\* Den answers with the cancellation flag of the row it renewed.
HeartbeatReaches(w, t) ==
    LET r == desk[w].run  a == desk[w].attempt
    IN /\ Is(w, "working") /\ Due(w) /\ desk[w].reply = "none"
       /\ HeartbeatDesktop(w, r, a, t)
       /\ desk' = [desk EXCEPT ![w].reply = IF run[r].cancel THEN "cancel" ELSE "ok"]
       /\ granted' = [granted EXCEPT ![w] = now]
       /\ UNCHANGED cancelledAt

\* The lease is lost: Den answers 409.
HeartbeatRefused(w, t) ==
    /\ Is(w, "working") /\ Due(w) /\ desk[w].reply = "none" /\ Online
    /\ ~Fenced(run[desk[w].run], w, desk[w].attempt, t)
    /\ desk' = [desk EXCEPT ![w].reply = "refused"]
    /\ UNCHANGED <<vars, granted, cancelledAt>>

Settle(d, result) ==
    [d EXCEPT !.phase = "settling", !.result = result, !.reply = "none", !.misses = 0,
              !.since = 0, !.claimed = 0]

OutOfMissesLater(misses) == misses > MissLimit       \* mutant
OutOfMisses(misses) == misses >= MissLimit

Renewed(d) == [d EXCEPT !.reply = "none", !.misses = 0, !.since = now]
MissedForEver(d) == [d EXCEPT !.reply = "none", !.misses = @ + 1, !.since = now]   \* mutant
Missed(d) ==
    IF OutOfMisses(d.misses + 1) THEN Settle(d, "failed")
    ELSE [d EXCEPT !.reply = "none", !.misses = @ + 1, !.since = now]

\* An error status is a miss, whatever it says.
AfterRefusalForgives(d) == Renewed(d)    \* mutant
AfterRefusal(d) == Missed(d)

AfterReplyIgnoresCancel(d) == IF d.reply = "refused" THEN AfterRefusal(d) ELSE Renewed(d)  \* mutant
AfterReply(d) ==
    CASE d.reply = "ok" -> Renewed(d)
      [] d.reply = "cancel" -> Settle(d, "cancelled")
      [] d.reply = "refused" -> AfterRefusal(d)

HeartbeatAnswered(w) ==
    /\ Is(w, "working") /\ desk[w].reply # "none"
    /\ desk' = [desk EXCEPT ![w] = AfterReply(@)]
    /\ UNCHANGED <<vars, granted, cancelledAt>>

\* Request or answer lost: the probe fails at once or runs into its timeout.
HeartbeatMissed(w) ==
    /\ Is(w, "working") /\ Due(w)
    /\ desk' = [desk EXCEPT ![w] = Missed(@)]
    /\ UNCHANGED <<vars, granted, cancelledAt>>

-----------------------------------------------------------------------------
(* The end of an execution.                                                 *)

ThreadEnds(w) ==
    /\ Is(w, "working")
    /\ \E result \in {"succeeded", "failed"} :
         desk' = [desk EXCEPT ![w] = Settle(@, result)]
    /\ UNCHANGED <<vars, granted, cancelledAt>>

\* The completion reaches Den, which may refuse it; or no try does.
Report(w, t) ==
    /\ Is(w, "settling")
    /\ \/ Complete(w, desk[w].run, desk[w].attempt, desk[w].result, t)
       \/ UNCHANGED vars
    /\ desk' = [desk EXCEPT ![w] = IdleDesk]
    /\ UNCHANGED <<granted, cancelledAt>>

-----------------------------------------------------------------------------
Overdue(w) ==
    \/ Is(w, "claiming") /\ now >= desk[w].since + ClaimTimeout
    \/ Is(w, "working") /\ now >= desk[w].since + HeartbeatInterval + HeartbeatTimeout

\* Timers fire on time: desktops stay awake.  A machine that suspends, whose
\* timers stop while Den's clock goes on, is outside of this module.
Tock == Clock /\ (\A w \in Runners : ~Overdue(w)) /\ UNCHANGED deskVars

RecordCancel(x) ==
    /\ CancelUpdate(x)
    /\ cancelledAt' = [cancelledAt EXCEPT ![x.run] = IF @ = NULL THEN now ELSE @]
    /\ UNCHANGED <<desk, granted>>

DenStep ==
    /\ \/ \E r \in Runs, t \in Stamps, window \in ClaimWindows : Dispatch(r, t, window)
       \/ \E r \in Runs : SkipDenied(r) \/ LoseDenied(r)
       \/ \E c \in Cancellations, r \in Runs : CancelSelect(c, r)
       \/ \E p \in Replicas : TickStep(p) \/ TickAbort(p)
    /\ UNCHANGED deskVars

DeskStep(w) ==
    \/ \E r \in Runs, t \in Stamps : Claim(w, r, t)
    \/ GiveUpClaim(w)
    \/ \E t \in Stamps : HeartbeatReaches(w, t) \/ HeartbeatRefused(w, t) \/ Report(w, t)
    \/ HeartbeatAnswered(w) \/ HeartbeatMissed(w)
    \/ ThreadEnds(w)

SystemInit ==
    /\ Init
    /\ desk = [w \in Runners |-> IdleDesk]
    /\ granted = [w \in Runners |-> 0]
    /\ cancelledAt = [r \in Runs |-> NULL]

SystemNext ==
    \/ DenStep
    \/ \E w \in Runners : DeskStep(w)
    \/ \E g \in gate : Assign(g) \/ Refuse(g)
    \/ \E x \in cancelling : RecordCancel(x)
    \/ Tock

SystemSpec == SystemInit /\ [][SystemNext]_systemVars

-----------------------------------------------------------------------------
(* Properties.                                                              *)

Larger(m, n) == IF m >= n THEN m ELSE n

\* The misses after which a desktop gives up take at most this long.
MissTime == MissLimit * (HeartbeatInterval + HeartbeatTimeout)

\* And this long after its last grant no desktop executes any more: the
\* answer of the grant may have been late as well.
OverrunBound == Larger(ClaimTimeout, HeartbeatTimeout) + MissTime

DeskTypeOK ==
    /\ desk \in [Runners -> Desk]
    /\ granted \in [Runners -> Nat]
    /\ cancelledAt \in [Runs -> Times]

\* A desktop that Den no longer answers, or no longer accepts, stops within
\* OverrunBound of the last lease it was granted.
StopsInTime ==
    \A w \in Runners : Is(w, "working") => now <= granted[w] + OverrunBound

\* Two desktops execute the same run at the same time only for as long as
\* the OverrunBound exceeds the lease, and the stamps of the grant and of the
\* sweep that found it expired are wrong.
OverlapIsShort ==
    \A v, w \in Runners :
        /\ Is(v, "working") /\ Is(w, "working")
        /\ desk[v].run = desk[w].run /\ desk[v].attempt < desk[w].attempt
        => now + LeaseMs < desk[w].claimed + OverrunBound + 2 * MaxSkew

\* A recorded cancellation stops the desktop whatever the network does: the
\* next heartbeat tells it, or the misses do.
CancelStopsInTime ==
    \A w \in Runners : Is(w, "working") /\ cancelledAt[desk[w].run] # NULL =>
        now <= Larger(cancelledAt[desk[w].run], desk[w].claimed) + OverrunBound

\* While a desktop executes an attempt, no late report of another one has
\* recorded that attempt as succeeded.
NoResultWhileWorking ==
    \A w \in Runners : Is(w, "working") /\ run[desk[w].run].attempt = desk[w].attempt
        => run[desk[w].run].status # "succeeded"
=============================================================================
