------------------------ MODULE LeasedExecutionProofs ------------------------
(***************************************************************************)
(* Den and the desktops together, for any number of runs, desktops and     *)
(* replicas, any timers and any skew the table allows: Den's table lives   *)
(* as AutomationRuns says, and the desktop's timers bound how long it goes *)
(* on without its lease.                                                   *)
(***************************************************************************)
EXTENDS LeasedExecution, AutomationRunsProofs

-----------------------------------------------------------------------------
(* Arithmetic of the misses.                                                *)

LEMMA ProductStep == \A m, p \in Nat : m * p \in Nat /\ (m + 1) * p = m * p + p
OBVIOUS

LEMMA ProductMonotone ==
    ASSUME NEW m \in Nat, NEW n \in Nat, NEW p \in Nat, m <= n
    PROVE  m * p <= n * p
<1>1. PICK k \in Nat : n = m + k
  <2>1. n - m \in Nat /\ n = m + (n - m)
    OBVIOUS
  <2> QED BY <2>1
<1>2. n * p = m * p + k * p /\ k * p \in Nat /\ m * p \in Nat
  BY <1>1
<1> QED BY <1>2

\* One round of the heartbeat: the wait and the request.
Round == HeartbeatInterval + HeartbeatTimeout

\* How late the answer of a grant may be.
Delay == Larger(ClaimTimeout, HeartbeatTimeout)

LEMMA TimersTyped ==
    /\ Round \in Nat /\ Delay \in Nat /\ MissTime \in Nat /\ OverrunBound \in Nat
    /\ ClaimTimeout <= Delay /\ HeartbeatTimeout <= Delay
    /\ MissTime = MissLimit * Round /\ OverrunBound = Delay + MissTime
<1>1. Round \in Nat /\ Delay \in Nat /\ ClaimTimeout <= Delay /\ HeartbeatTimeout <= Delay
  BY TimersAssumption DEF Round, Delay, Larger
<1>2. MissTime = MissLimit * Round /\ OverrunBound = Delay + MissTime
  BY DEF MissTime, OverrunBound, Round, Delay
<1>3. MissLimit \in Nat
  BY TimersAssumption
<1>4. MissLimit * Round \in Nat
  BY <1>1, <1>3, ProductStep
<1> QED BY <1>1, <1>2, <1>4

-----------------------------------------------------------------------------
(* What the steps of a desktop leave of it.                                 *)

LEMMA DeskMoves ==
    ASSUME NEW d \in Desk, now \in Nat
    PROVE  /\ \A result \in Results :
                /\ Settle(d, result) \in Desk /\ Settle(d, result).phase = "settling"
                /\ Settle(d, result).run = d.run /\ Settle(d, result).attempt = d.attempt
                /\ Settle(d, result).result = result
           /\ Renewed(d) \in Desk /\ Renewed(d).phase = d.phase
           /\ Renewed(d).run = d.run /\ Renewed(d).attempt = d.attempt
           /\ Renewed(d).claimed = d.claimed /\ Renewed(d).result = d.result
           /\ Renewed(d).reply = "none" /\ Renewed(d).misses = 0 /\ Renewed(d).since = now
<1> USE DEF Desk, Results
<1>1. 0 \in 0 .. MissLimit
  BY TimersAssumption
<1>2. ASSUME NEW result \in Results
      PROVE  /\ Settle(d, result) \in Desk /\ Settle(d, result).phase = "settling"
             /\ Settle(d, result).run = d.run /\ Settle(d, result).attempt = d.attempt
             /\ Settle(d, result).result = result
  BY <1>1 DEF Settle
<1>3. /\ Renewed(d) \in Desk /\ Renewed(d).phase = d.phase
      /\ Renewed(d).run = d.run /\ Renewed(d).attempt = d.attempt
      /\ Renewed(d).claimed = d.claimed /\ Renewed(d).result = d.result
      /\ Renewed(d).reply = "none" /\ Renewed(d).misses = 0 /\ Renewed(d).since = now
  BY <1>1 DEF Renewed
<1> QED BY <1>2, <1>3

\* A miss either is the last one, or one more round without a grant.
LEMMA MissMoves ==
    ASSUME NEW d \in Desk, now \in Nat, d.misses < MissLimit
    PROVE  \/ Missed(d) = Settle(d, "failed")
           \/ /\ Missed(d) \in Desk /\ Missed(d).phase = d.phase
              /\ Missed(d).run = d.run /\ Missed(d).attempt = d.attempt
              /\ Missed(d).claimed = d.claimed /\ Missed(d).result = d.result
              /\ Missed(d).reply = "none" /\ Missed(d).since = now
              /\ Missed(d).misses = d.misses + 1 /\ Missed(d).misses < MissLimit
<1>1. CASE OutOfMisses(d.misses + 1)
  BY <1>1 DEF Missed
<1>2. CASE ~OutOfMisses(d.misses + 1)
  <2>1. Missed(d) = [d EXCEPT !.reply = "none", !.misses = @ + 1, !.since = now]
    BY <1>2 DEF Missed
  <2>2. d.misses + 1 \in 0 .. MissLimit /\ d.misses + 1 < MissLimit
    BY <1>2, TimersAssumption DEF OutOfMisses, Desk
  <2>3. Missed(d) \in Desk
    BY <2>1, <2>2 DEF Desk
  <2> QED BY <2>1, <2>2, <2>3 DEF Desk
<1> QED BY <1>1, <1>2

-----------------------------------------------------------------------------
(* Den's table lives as AutomationRuns says: every step of the system is    *)
(* one of its steps, or none.                                               *)

\* A desktop that is not idle is about an attempt that has begun.
DesksAssigned ==
    \A w \in Runners : desk[w].phase # "idle" =>
        /\ desk[w].run \in Runs /\ desk[w].attempt \in 1 .. MaxAttempts
        /\ desk[w].attempt <= run[desk[w].run].attempt
        /\ desk[w].phase = "working" => <<w, desk[w].run, desk[w].attempt>> \in assigned
        /\ desk[w].phase = "settling" => desk[w].result \in Results

\* The only claims whose access check is pending are those desktops wait for.
GateClaimed == \A g \in gate : Is(g[1], "claiming") /\ Holding(g[1], g[2], g[3])

DesksInvariant == HolderInvariant /\ DeskTypeOK /\ DesksAssigned /\ GateClaimed

LEMMA SystemStep ==
    ASSUME DesksInvariant, [SystemNext]_systemVars
    PROVE  [Next]_vars
<1> USE DEF DesksInvariant
<1>a. gate \subseteq Runners \X Runs \X Nat
  BY DEF HolderInvariant, RetryInvariant, TypeOK
<1>1. CASE DenStep
  BY <1>1 DEF DenStep, Next
<1>2. ASSUME NEW w \in Runners, DeskStep(w) PROVE [Next]_vars
  <2>1. ASSUME NEW r \in Runs, NEW t \in Stamps, Claim(w, r, t) PROVE Next
    BY <2>1 DEF Claim, Next, RunnerStep
  <2>2. ASSUME GiveUpClaim(w) PROVE [Next]_vars
    <3>1. CASE \E g \in gate : g[1] = w
      <4>1. PICK g \in gate : g[1] = w
        BY <3>1
      <4>2. \A h \in gate : h[1] = w => h = g
        BY <1>a, <4>1 DEF GateClaimed, Holding
      <4>3. gate' = gate \ {g}
        BY <2>2, <4>1, <4>2 DEF GiveUpClaim
      <4>4. LoseGate(g)
        BY <2>2, <4>3 DEF GiveUpClaim, LoseGate
      <4> QED BY <4>4 DEF Next
    <3>2. CASE ~\E g \in gate : g[1] = w
      <4>1. gate' = gate
        BY <2>2, <3>2 DEF GiveUpClaim
      <4> QED BY <2>2, <4>1 DEF GiveUpClaim, vars
    <3> QED BY <3>1, <3>2
  <2>3. ASSUME NEW t \in Stamps, HeartbeatReaches(w, t) PROVE Next
    <3>1. /\ HeartbeatDesktop(w, desk[w].run, desk[w].attempt, t)
          /\ desk[w].run \in Runs /\ desk[w].attempt \in 1 .. MaxAttempts
      BY <2>3 DEF HeartbeatReaches, Is, DesksAssigned
    <3> QED BY <3>1 DEF Next, RunnerStep
  <2>4. ASSUME NEW t \in Stamps, Report(w, t) PROVE [Next]_vars
    <3>1. /\ desk[w].run \in Runs /\ desk[w].attempt \in 1 .. MaxAttempts
          /\ desk[w].result \in {"succeeded", "failed", "cancelled"}
      BY <2>4 DEF Report, Is, DesksAssigned, Results
    <3>2. CASE Complete(w, desk[w].run, desk[w].attempt, desk[w].result, t)
      BY <3>1, <3>2 DEF Next, RunnerStep
    <3> QED BY <2>4, <3>2 DEF Report
  <2>5. ASSUME NEW t \in Stamps, HeartbeatRefused(w, t) PROVE [Next]_vars
    BY <2>5 DEF HeartbeatRefused
  <2>6. ASSUME HeartbeatAnswered(w) \/ HeartbeatMissed(w) \/ ThreadEnds(w) PROVE [Next]_vars
    BY <2>6 DEF HeartbeatAnswered, HeartbeatMissed, ThreadEnds
  <2> QED BY <1>2, <2>1, <2>2, <2>3, <2>4, <2>5, <2>6 DEF DeskStep
<1>3. ASSUME NEW g \in gate, Assign(g) \/ Refuse(g) PROVE Next
  BY <1>3 DEF Assign, Refuse, Next
<1>4. ASSUME NEW x \in cancelling, RecordCancel(x) PROVE Next
  BY <1>4 DEF RecordCancel, Next
<1>5. CASE Tock
  BY <1>5 DEF Tock, Next
<1>6. CASE UNCHANGED systemVars
  BY <1>6 DEF systemVars
<1> QED BY <1>1, <1>2, <1>3, <1>4, <1>5, <1>6 DEF SystemNext

-----------------------------------------------------------------------------
(* What a step does to one desktop.                                         *)

\* It does nothing but wait.
DeskWaits(w) ==
    /\ desk'[w] = desk[w] /\ granted'[w] = granted[w]
    /\ now' = now \/ (now' = now + 1 /\ ~Overdue(w))

\* It moves, while no time passes and nothing becomes of a cancellation.
DeskActs(w) ==
    \/ \E r \in Runs, t \in Stamps : Claim(w, r, t)
    \/ GiveUpClaim(w)
    \/ \E g \in gate : g[1] = w /\ Assign(g)
    \/ \E t \in Stamps : HeartbeatReaches(w, t) \/ HeartbeatRefused(w, t) \/ Report(w, t)
    \/ HeartbeatAnswered(w) \/ HeartbeatMissed(w) \/ ThreadEnds(w)

LEMMA DeskActsOrWaits ==
    ASSUME DesksInvariant, [SystemNext]_systemVars, NEW w \in Runners
    PROVE  \/ DeskActs(w) /\ now' = now /\ cancelledAt' = cancelledAt
           \/ DeskWaits(w)
<1>a. desk \in [Runners -> Desk] /\ granted \in [Runners -> Nat]
  BY DEF DesksInvariant, DeskTypeOK
<1>b. gate \subseteq Runners \X Runs \X Nat
  BY DEF DesksInvariant, HolderInvariant, RetryInvariant, TypeOK
<1>1. CASE DenStep
  <2>1. now' = now
    BY <1>1 DEF DenStep, Dispatch, SkipDenied, LoseDenied, CancelSelect, TickStep, RecoverSelect,
                RecoverUpdate, ExpireSelect, ExpireUpdate, TickEnd, TickAbort
  <2> QED BY <1>1, <2>1 DEF DenStep, deskVars, DeskWaits
<1>2. ASSUME NEW v \in Runners, DeskStep(v)
      PROVE  \/ DeskActs(w) /\ now' = now /\ cancelledAt' = cancelledAt
             \/ DeskWaits(w)
  <2>1. now' = now /\ cancelledAt' = cancelledAt
    BY <1>2 DEF DeskStep, Claim, ClaimDesktop, GiveUpClaim, HeartbeatReaches, HeartbeatDesktop,
                HeartbeatRefused, Report, Complete, HeartbeatAnswered, HeartbeatMissed,
                ThreadEnds, vars
  <2>2. CASE v = w
    BY <1>2, <2>1, <2>2 DEF DeskStep, DeskActs
  <2>3. CASE v # w
    <3>1. desk'[w] = desk[w] /\ granted'[w] = granted[w]
      BY <1>a, <1>2, <2>3 DEF DeskStep, Claim, GiveUpClaim, HeartbeatReaches, HeartbeatRefused,
                              Report, HeartbeatAnswered, HeartbeatMissed, ThreadEnds
    <3> QED BY <2>1, <3>1 DEF DeskWaits
  <2> QED BY <2>2, <2>3
<1>3. ASSUME NEW g \in gate, Assign(g) \/ Refuse(g)
      PROVE  \/ DeskActs(w) /\ now' = now /\ cancelledAt' = cancelledAt
             \/ DeskWaits(w)
  <2>1. now' = now
    BY <1>3 DEF Assign, Refuse, PassGate, FailGate, LoseGate
  <2>2. CASE Assign(g) /\ g[1] = w
    BY <2>1, <2>2 DEF Assign, DeskActs
  <2>3. CASE Assign(g) /\ g[1] # w
    BY <1>a, <1>b, <2>1, <2>3 DEF Assign, DeskWaits
  <2>4. CASE Refuse(g)
    BY <2>1, <2>4 DEF Refuse, deskVars, DeskWaits
  <2> QED BY <1>3, <2>2, <2>3, <2>4
<1>4. ASSUME NEW x \in cancelling, RecordCancel(x) PROVE DeskWaits(w)
  BY <1>4 DEF RecordCancel, CancelUpdate, DeskWaits
<1>5. CASE Tock
  BY <1>5 DEF Tock, Clock, deskVars, DeskWaits
<1>6. CASE UNCHANGED systemVars
  BY <1>6 DEF systemVars, vars, deskVars, DeskWaits
<1> QED BY <1>1, <1>2, <1>3, <1>4, <1>5, <1>6 DEF SystemNext

-----------------------------------------------------------------------------
(* The shape of desktops and grants.                                        *)

LEMMA DeskTypeStep ==
    ASSUME DesksInvariant, [SystemNext]_systemVars
    PROVE  DeskTypeOK'
<1> USE DEF DesksInvariant, DeskTypeOK
<1>a. now \in Nat /\ run \in [Runs -> Row] /\ gate \subseteq Runners \X Runs \X Nat
  BY DEF HolderInvariant, RetryInvariant, TypeOK
<1>b. now \in Times /\ cancelledAt \in [Runs -> Times]
  BY <1>a DEF Times
<1>c. IdleDesk \in Desk
  BY TimersAssumption DEF IdleDesk, Desk
<1>d. \A w \in Runners : desk[w] \in Desk
  OBVIOUS
<1>1. CASE UNCHANGED deskVars
  BY <1>1 DEF deskVars
<1>2. ASSUME NEW w \in Runners, NEW d \in Desk, desk' = [desk EXCEPT ![w] = d],
             granted' = granted \/ granted' = [granted EXCEPT ![w] = now],
             cancelledAt' = cancelledAt
      PROVE  DeskTypeOK'
  BY <1>a, <1>2
<1>3. ASSUME NEW w \in Runners, DeskStep(w) PROVE DeskTypeOK'
  <2>1. ASSUME NEW r \in Runs, NEW t \in Stamps, Claim(w, r, t) PROVE DeskTypeOK'
    <3>1. NextAttempt(run[r]) \in Nat
      BY <1>a DEF Row, NextAttempt
    <3>2. [IdleDesk EXCEPT !.phase = "claiming", !.run = r, !.attempt = NextAttempt(run[r]),
                           !.claimed = now, !.since = now] \in Desk
      BY <1>a, <1>c, <3>1 DEF Desk
    <3> QED BY <1>2, <2>1, <3>2 DEF Claim
  <2>2. ASSUME GiveUpClaim(w) PROVE DeskTypeOK'
    BY <1>2, <1>c, <2>2 DEF GiveUpClaim
  <2>3. ASSUME NEW t \in Stamps, HeartbeatReaches(w, t) PROVE DeskTypeOK'
    <3> DEFINE d == [desk[w] EXCEPT !.reply = IF run[desk[w].run].cancel THEN "cancel" ELSE "ok"]
    <3>1. d \in Desk
      BY <1>d DEF Desk
    <3>2. desk' = [desk EXCEPT ![w] = d]
      BY <1>d, <2>3 DEF HeartbeatReaches
    <3> HIDE DEF d
    <3> QED BY <1>2, <2>3, <3>1, <3>2 DEF HeartbeatReaches
  <2>4. ASSUME NEW t \in Stamps, HeartbeatRefused(w, t) PROVE DeskTypeOK'
    <3> DEFINE d == [desk[w] EXCEPT !.reply = "refused"]
    <3>1. d \in Desk
      BY <1>d DEF Desk
    <3>2. desk' = [desk EXCEPT ![w] = d]
      BY <1>d, <2>4 DEF HeartbeatRefused
    <3> HIDE DEF d
    <3> QED BY <1>2, <2>4, <3>1, <3>2 DEF HeartbeatRefused
  <2>5. ASSUME NEW t \in Stamps, Report(w, t) PROVE DeskTypeOK'
    BY <1>2, <1>c, <2>5 DEF Report
  <2>6. Missed(desk[w]) \in Desk
    <3>1. CASE OutOfMisses(desk[w].misses + 1)
      BY <1>a, <1>d, <3>1, DeskMoves DEF Missed, Results
    <3>2. CASE ~OutOfMisses(desk[w].misses + 1)
      <4>1. desk[w].misses + 1 \in 0 .. MissLimit
        BY <1>d, <3>2, TimersAssumption DEF OutOfMisses, Desk
      <4>2. Missed(desk[w]) = [desk[w] EXCEPT !.reply = "none", !.misses = @ + 1, !.since = now]
        BY <3>2 DEF Missed
      <4> QED BY <1>a, <1>d, <4>1, <4>2 DEF Desk
    <3> QED BY <3>1, <3>2
  <2>7. ASSUME HeartbeatAnswered(w) PROVE DeskTypeOK'
    <3>1. AfterReply(desk[w]) \in Desk
      <4>1. desk[w].reply \in {"ok", "cancel", "refused"}
        BY <1>d, <2>7 DEF HeartbeatAnswered, Desk
      <4> QED BY <1>a, <1>d, <2>6, <4>1, DeskMoves DEF AfterReply, AfterRefusal, Results
    <3> QED BY <1>2, <2>7, <3>1 DEF HeartbeatAnswered
  <2>8. ASSUME HeartbeatMissed(w) PROVE DeskTypeOK'
    BY <1>2, <2>6, <2>8 DEF HeartbeatMissed
  <2>9. ASSUME ThreadEnds(w) PROVE DeskTypeOK'
    <3>1. PICK result \in {"succeeded", "failed"} :
            desk' = [desk EXCEPT ![w] = Settle(desk[w], result)]
      BY <2>9 DEF ThreadEnds
    <3>2. Settle(desk[w], result) \in Desk
      BY <1>a, <1>d, DeskMoves DEF Results
    <3> QED BY <1>2, <2>9, <3>1, <3>2 DEF ThreadEnds
  <2> QED BY <1>3, <2>1, <2>2, <2>3, <2>4, <2>5, <2>7, <2>8, <2>9 DEF DeskStep
<1>4. ASSUME NEW g \in gate, Assign(g) PROVE DeskTypeOK'
  <2> DEFINE d == [desk[g[1]] EXCEPT !.phase = "working", !.since = now]
  <2>0. g[1] \in Runners
    BY <1>a
  <2>1. g[1] \in Runners /\ d \in Desk
    <3>1. desk[g[1]] \in Desk
      BY <1>d, <2>0
    <3> QED BY <1>a, <2>0, <3>1 DEF Desk
  <2>2. desk' = [desk EXCEPT ![g[1]] = d]
    BY <1>4, <2>1 DEF Assign
  <2> HIDE DEF d
  <2> QED BY <1>2, <1>4, <2>1, <2>2 DEF Assign
<1>5. ASSUME NEW x \in cancelling, RecordCancel(x) PROVE DeskTypeOK'
  BY <1>a, <1>b, <1>5 DEF RecordCancel
<1> QED BY <1>1, <1>3, <1>4, <1>5 DEF SystemNext, DenStep, Refuse, Tock, systemVars

-----------------------------------------------------------------------------
(* Desktops and the claims they are about.                                  *)

LEMMA AttemptGrows ==
    ASSUME HolderInvariant, [Next]_vars, NEW r \in Runs
    PROVE  run'[r].attempt \in Nat /\ run[r].attempt <= run'[r].attempt
<1>a. run \in [Runs -> Row] /\ now \in Nat /\ run[r].attempt \in Nat
  BY DEF HolderInvariant, RetryInvariant, TypeOK, Row
<1>1. ASSUME NEW w \in Runners, NEW t \in Stamps, ClaimDesktop(w, r, t)
      PROVE  run'[r].attempt = run[r].attempt + 1
  BY <1>a, <1>1, RowFields, StampsAreTimes DEF ClaimDesktop
<1>2. ASSUME NEW w \in Runners, NEW a \in 1 .. MaxAttempts, NEW s \in 1 .. MaxSequence,
             NEW t \in Stamps, AppendDesktopEvent(w, r, a, s, t)
      PROVE  run'[r].attempt = run[r].attempt
  BY <1>a, <1>2 DEF AppendDesktopEvent, Row
<1> QED BY <1>a, <1>1, <1>2, RowStep DEF HolderInvariant, KeptRow

LEMMA AssignmentsStay == [Next]_vars => assigned \subseteq assigned'
<1> SUFFICES ASSUME [Next]_vars PROVE assigned \subseteq assigned'
  OBVIOUS
<1>1. ASSUME NEW w \in Runners, NEW r \in Runs, RunnerStep(w, r) PROVE assigned' = assigned
  BY <1>1 DEF RunnerStep, ClaimDesktop, ReclaimDesktop, HeartbeatDesktop, AppendDesktopEvent,
              Complete
<1>2. ASSUME NEW p \in Replicas, TickStep(p) \/ TickAbort(p) PROVE assigned' = assigned
  BY <1>2 DEF TickStep, RecoverSelect, RecoverUpdate, ExpireSelect, ExpireUpdate, TickEnd, TickAbort
<1>3. ASSUME NEW g \in gate, PassGate(g) \/ FailGate(g) \/ LoseGate(g)
      PROVE  assigned \subseteq assigned'
  BY <1>3 DEF PassGate, FailGate, LoseGate
<1> QED BY <1>1, <1>2, <1>3
        DEF Next, Dispatch, SkipDenied, LoseDenied, CancelSelect, CancelUpdate, Clock, vars

\* What a desktop does, it does about the run and the attempt it claimed.
LEMMA DeskKeepsClaim ==
    ASSUME DesksInvariant, [SystemNext]_systemVars, NEW w \in Runners, desk'[w].phase # "idle"
    PROVE  \/ \E r \in Runs, t \in Stamps : Claim(w, r, t)
           \/ /\ desk[w].phase # "idle"
              /\ desk'[w].run = desk[w].run /\ desk'[w].attempt = desk[w].attempt
              /\ \/ desk'[w].phase = desk[w].phase /\ desk'[w].result = desk[w].result
                 \/ desk'[w].phase = "settling" /\ desk'[w].result \in Results
                 \/ \E g \in gate : g[1] = w /\ Assign(g)
<1>a. desk[w] \in Desk /\ desk \in [Runners -> Desk] /\ now \in Nat
      /\ gate \subseteq Runners \X Runs \X Nat
  BY DEF DesksInvariant, DeskTypeOK, HolderInvariant, RetryInvariant, TypeOK
<1> DEFINE Kept ==
      /\ desk[w].phase # "idle"
      /\ desk'[w].run = desk[w].run /\ desk'[w].attempt = desk[w].attempt
      /\ \/ desk'[w].phase = desk[w].phase /\ desk'[w].result = desk[w].result
         \/ desk'[w].phase = "settling" /\ desk'[w].result \in Results
         \/ \E g \in gate : g[1] = w /\ Assign(g)
<1>1. CASE DeskWaits(w)
  BY <1>1 DEF DeskWaits
<1>2. CASE GiveUpClaim(w) \/ \E t \in Stamps : Report(w, t)
  BY <1>a, <1>2 DEF GiveUpClaim, Report, IdleDesk
<1>3. ASSUME NEW g \in gate, g[1] = w, Assign(g) PROVE Kept
  BY <1>a, <1>3 DEF Assign, Is, Desk
<1>4. ASSUME NEW t \in Stamps, HeartbeatReaches(w, t) \/ HeartbeatRefused(w, t) PROVE Kept
  BY <1>a, <1>4 DEF HeartbeatReaches, HeartbeatRefused, Is, Desk
<1>5. /\ Missed(desk[w]).run = desk[w].run /\ Missed(desk[w]).attempt = desk[w].attempt
      /\ \/ Missed(desk[w]).phase = desk[w].phase /\ Missed(desk[w]).result = desk[w].result
         \/ Missed(desk[w]).phase = "settling" /\ Missed(desk[w]).result \in Results
  <2>1. CASE OutOfMisses(desk[w].misses + 1)
    BY <1>a, <2>1, DeskMoves DEF Missed, Results
  <2>2. CASE ~OutOfMisses(desk[w].misses + 1)
    BY <1>a, <2>2 DEF Missed, Desk
  <2> QED BY <2>1, <2>2
<1>6. CASE HeartbeatAnswered(w)
  <2>1. desk[w].reply \in {"ok", "cancel", "refused"} /\ desk[w].phase = "working"
    BY <1>a, <1>6 DEF HeartbeatAnswered, Desk, Is
  <2>2. desk'[w] = AfterReply(desk[w])
    BY <1>a, <1>6 DEF HeartbeatAnswered
  <2> QED BY <1>a, <1>5, <2>1, <2>2, DeskMoves DEF AfterReply, AfterRefusal, Results
<1>7. CASE HeartbeatMissed(w)
  BY <1>a, <1>5, <1>7 DEF HeartbeatMissed, Is
<1>8. CASE ThreadEnds(w)
  BY <1>a, <1>8, DeskMoves DEF ThreadEnds, Is, Results
<1> QED BY <1>1, <1>2, <1>3, <1>4, <1>6, <1>7, <1>8, DeskActsOrWaits DEF DeskActs

LEMMA DesksAssignedStep ==
    ASSUME DesksInvariant, [SystemNext]_systemVars
    PROVE  DesksAssigned'
<1> SUFFICES ASSUME NEW w \in Runners, desk'[w].phase # "idle"
             PROVE  /\ desk'[w].run \in Runs /\ desk'[w].attempt \in 1 .. MaxAttempts
                    /\ desk'[w].attempt <= run'[desk'[w].run].attempt
                    /\ desk'[w].phase = "working" => <<w, desk'[w].run, desk'[w].attempt>> \in assigned'
                    /\ desk'[w].phase = "settling" => desk'[w].result \in Results
  BY DEF DesksAssigned
<1>a. [Next]_vars /\ HolderInvariant
  BY SystemStep DEF DesksInvariant
<1>b. run \in [Runs -> Row] /\ now \in Nat /\ desk \in [Runners -> Desk]
      /\ gate \subseteq Runners \X Runs \X Nat
  BY DEF DesksInvariant, DeskTypeOK, HolderInvariant, RetryInvariant, TypeOK
<1>1. ASSUME NEW r \in Runs, NEW t \in Stamps, Claim(w, r, t)
      PROVE  /\ desk'[w].run = r /\ desk'[w].phase = "claiming"
             /\ desk'[w].attempt \in 1 .. MaxAttempts
             /\ desk'[w].attempt <= run'[r].attempt
  <2>1. run[r].status = "queued" /\ run[r].attempt < MaxAttempts /\ run[r].attempt \in Nat
    BY <1>a, <1>b, <1>1 DEF Claim, ClaimDesktop, HolderInvariant, RetryInvariant, QueuedIsFresh, Row
  <2>2. run'[r].attempt = run[r].attempt + 1
    BY <1>b, <1>1, RowFields, StampsAreTimes DEF Claim, ClaimDesktop
  <2>3. /\ desk'[w].attempt = run[r].attempt + 1 /\ desk'[w].run = r
        /\ desk'[w].phase = "claiming"
    BY <1>b, <1>1 DEF Claim, NextAttempt, IdleDesk
  <2> QED BY <2>1, <2>2, <2>3, AttemptsAssumption
<1>2. ASSUME desk[w].phase # "idle", desk'[w].run = desk[w].run, desk'[w].attempt = desk[w].attempt
      PROVE  /\ desk'[w].run \in Runs /\ desk'[w].attempt \in 1 .. MaxAttempts
             /\ desk'[w].attempt <= run'[desk'[w].run].attempt
  <2>1. /\ desk[w].run \in Runs /\ desk[w].attempt \in 1 .. MaxAttempts
        /\ desk[w].attempt <= run[desk[w].run].attempt
    BY <1>2 DEF DesksInvariant, DesksAssigned
  <2>2. /\ run[desk[w].run].attempt <= run'[desk[w].run].attempt
        /\ run'[desk[w].run].attempt \in Nat
    BY <1>a, <2>1, AttemptGrows
  <2>3. run[desk[w].run].attempt \in Nat /\ MaxAttempts \in Nat
    BY <1>b, <2>1, AttemptsAssumption DEF Row
  <2> QED BY <1>2, <2>1, <2>2, <2>3
<1>3. ASSUME NEW g \in gate, g[1] = w, Assign(g)
      PROVE  <<w, desk'[w].run, desk'[w].attempt>> \in assigned' /\ desk'[w].phase = "working"
  <2>1. g = <<w, desk[w].run, desk[w].attempt>>
    BY <1>b, <1>3 DEF Assign, Holding
  <2>2. desk[w] \in Desk /\ desk'[w] = [desk[w] EXCEPT !.phase = "working", !.since = now]
    BY <1>b, <1>3 DEF Assign
  <2>3. /\ desk'[w].run = desk[w].run /\ desk'[w].attempt = desk[w].attempt
        /\ desk'[w].phase = "working"
    BY <2>2 DEF Desk
  <2> QED BY <1>3, <2>1, <2>3 DEF Assign, PassGate
<1>4. ASSUME desk[w].phase # "idle", desk'[w].run = desk[w].run, desk'[w].attempt = desk[w].attempt,
             desk'[w].phase = desk[w].phase, desk'[w].result = desk[w].result
      PROVE  /\ desk'[w].phase = "working" => <<w, desk'[w].run, desk'[w].attempt>> \in assigned'
             /\ desk'[w].phase = "settling" => desk'[w].result \in Results
  BY <1>4, <1>a, AssignmentsStay DEF DesksInvariant, DesksAssigned
<1> QED BY <1>1, <1>2, <1>3, <1>4, DeskKeepsClaim

LEMMA GateClaimedStep ==
    ASSUME DesksInvariant, [SystemNext]_systemVars
    PROVE  GateClaimed'
<1> USE DEF DesksInvariant
<1>a. gate \subseteq Runners \X Runs \X Nat /\ desk \in [Runners -> Desk]
  BY DEF HolderInvariant, RetryInvariant, TypeOK, DeskTypeOK
<1>b. \A g \in gate : desk[g[1]].phase = "claiming" /\ g = <<g[1], desk[g[1]].run, desk[g[1]].attempt>>
  BY <1>a DEF GateClaimed, Is, Holding
<1>0. ASSUME gate' \subseteq gate, \A g \in gate' : desk'[g[1]] = desk[g[1]]
      PROVE  GateClaimed'
  BY <1>0 DEF GateClaimed, Is, Holding
<1>1. CASE DenStep
  <2>1. gate' = gate
    BY <1>1 DEF DenStep, Dispatch, SkipDenied, LoseDenied, CancelSelect, TickStep, RecoverSelect,
                RecoverUpdate, ExpireSelect, ExpireUpdate, TickEnd, TickAbort
  <2> QED BY <1>0, <1>1, <2>1 DEF DenStep, deskVars
<1>2. ASSUME NEW w \in Runners, DeskStep(w) PROVE GateClaimed'
  <2>1. ASSUME NEW r \in Runs, NEW t \in Stamps, Claim(w, r, t) PROVE GateClaimed'
    <3>1. gate' = gate \cup {<<w, r, NextAttempt(run[r])>>} /\ desk[w].phase = "idle"
      BY <2>1 DEF Claim, ClaimDesktop, Is
    <3>2. /\ desk'[w].phase = "claiming" /\ desk'[w].run = r
          /\ desk'[w].attempt = NextAttempt(run[r])
          /\ \A v \in Runners \ {w} : desk'[v] = desk[v]
      BY <1>a, <2>1 DEF Claim, IdleDesk
    <3>3. ASSUME NEW g \in gate' PROVE Is(g[1], "claiming")' /\ Holding(g[1], g[2], g[3])'
      <4>1. CASE g = <<w, r, NextAttempt(run[r])>>
        BY <3>2, <4>1 DEF Is, Holding
      <4>2. CASE g \in gate
        <5>1. g[1] \in Runners \ {w}
          BY <1>a, <1>b, <3>1, <4>2
        <5> QED BY <3>2, <4>2, <5>1 DEF GateClaimed, Is, Holding
      <4> QED BY <3>1, <4>1, <4>2
    <3> QED BY <3>3 DEF GateClaimed
  <2>2. CASE GiveUpClaim(w)
    BY <1>0, <1>a, <2>2 DEF GiveUpClaim
  <2>3. ASSUME \/ \E t \in Stamps : HeartbeatReaches(w, t) \/ HeartbeatRefused(w, t) \/ Report(w, t)
               \/ HeartbeatAnswered(w) \/ HeartbeatMissed(w) \/ ThreadEnds(w)
        PROVE  GateClaimed'
    <3>1. gate' = gate /\ desk[w].phase \in {"working", "settling"}
      BY <2>3 DEF HeartbeatReaches, HeartbeatDesktop, HeartbeatRefused, Report, Complete,
                  HeartbeatAnswered, HeartbeatMissed, ThreadEnds, Is, vars
    <3>2. \A v \in Runners \ {w} : desk'[v] = desk[v]
      BY <1>a, <2>3 DEF HeartbeatReaches, HeartbeatRefused, Report, HeartbeatAnswered,
                        HeartbeatMissed, ThreadEnds
    <3>3. \A g \in gate : g[1] \in Runners \ {w}
      BY <1>a, <1>b, <3>1
    <3> QED BY <1>0, <3>1, <3>2, <3>3
  <2> QED BY <1>2, <2>1, <2>2, <2>3 DEF DeskStep
<1>3. ASSUME NEW g \in gate, Assign(g) PROVE GateClaimed'
  <2>1. gate' = gate \ {g} /\ \A v \in Runners \ {g[1]} : desk'[v] = desk[v]
    BY <1>a, <1>3 DEF Assign, PassGate
  <2>2. \A h \in gate : h[1] = g[1] => h = g
    BY <1>b
  <2>3. \A h \in gate' : h[1] \in Runners \ {g[1]}
    BY <1>a, <2>1, <2>2
  <2> QED BY <1>0, <2>1, <2>3
<1>4. ASSUME NEW g \in gate, Refuse(g) PROVE GateClaimed'
  BY <1>0, <1>4 DEF Refuse, FailGate, LoseGate, deskVars
<1>5. ASSUME NEW x \in cancelling, RecordCancel(x) PROVE GateClaimed'
  BY <1>0, <1>5 DEF RecordCancel, CancelUpdate
<1>6. CASE Tock
  BY <1>0, <1>6 DEF Tock, Clock, deskVars
<1>7. CASE UNCHANGED systemVars
  BY <1>0, <1>7 DEF systemVars, vars, deskVars
<1> QED BY <1>1, <1>2, <1>3, <1>4, <1>5, <1>6, <1>7 DEF SystemNext

LEMMA DesksInit == SystemInit => DesksInvariant
<1> SUFFICES ASSUME SystemInit PROVE DesksInvariant
  OBVIOUS
<1>1. HolderInvariant
  BY HolderInit DEF SystemInit
<1>2. IdleDesk \in Desk /\ IdleDesk.phase = "idle"
  BY TimersAssumption DEF IdleDesk, Desk
<1>3. DeskTypeOK
  BY <1>2 DEF SystemInit, DeskTypeOK, Times
<1>4. DesksAssigned /\ GateClaimed
  BY <1>2 DEF SystemInit, Init, DesksAssigned, GateClaimed
<1> QED BY <1>1, <1>3, <1>4 DEF DesksInvariant

LEMMA DesksNext == DesksInvariant /\ [SystemNext]_systemVars => DesksInvariant'
<1> SUFFICES ASSUME DesksInvariant, [SystemNext]_systemVars PROVE DesksInvariant'
  OBVIOUS
<1>1. HolderInvariant'
  BY SystemStep, HolderNext DEF DesksInvariant
<1> QED BY <1>1, DeskTypeStep, DesksAssignedStep, GateClaimedStep DEF DesksInvariant

\* The desktops keep their shape, and every desktop that is not idle is
\* about an attempt that has begun.
THEOREM DesksTyped == SystemSpec => []DeskTypeOK
<1>1. DesksInvariant => DeskTypeOK
  BY DEF DesksInvariant
<1> QED BY <1>1, DesksInit, DesksNext, PTL DEF SystemSpec

\* Composed with desktops that take their time, Den's table still does what
\* AutomationRuns lets it do: whatever holds of every behaviour of that
\* specification holds here, too.
THEOREM SystemImplementsRuns == SystemSpec => Spec
<1>1. SystemInit => Init
  BY DEF SystemInit
<1>2. DesksInvariant /\ [SystemNext]_systemVars => [Next]_vars
  BY SystemStep
<1> QED BY <1>1, <1>2, DesksInit, DesksNext, PTL DEF SystemSpec, Spec

-----------------------------------------------------------------------------
(* The timers of one desktop.                                               *)

\* A desktop that waits for its claim was granted the lease when it asked.
\* One that works has heard of a grant, or started, at most misses rounds
\* ago, and a renewal it has not heard of yet was granted in this round.
Timed(w) ==
    /\ granted[w] <= now
    /\ Is(w, "claiming") =>
         /\ desk[w].claimed = granted[w] /\ desk[w].since = granted[w]
         /\ desk[w].misses = 0 /\ desk[w].reply = "none"
         /\ now <= desk[w].since + ClaimTimeout
    /\ Is(w, "working") =>
         /\ desk[w].since <= now /\ now <= desk[w].since + Round
         /\ desk[w].misses < MissLimit
         /\ desk[w].since <= granted[w] + Delay + desk[w].misses * Round
         /\ desk[w].reply \in {"ok", "cancel"} => desk[w].since + HeartbeatInterval <= granted[w]

TimersInvariant == DesksInvariant /\ \A w \in Runners : Timed(w)

\* One more miss, or one more wait, fits below the limit.
LEMMA MissesFit ==
    ASSUME NEW m \in Nat, m < MissLimit
    PROVE  /\ m * Round \in Nat /\ (m + 1) * Round = m * Round + Round
           /\ m * Round + Round <= MissTime
<1>1. m + 1 <= MissLimit /\ MissLimit \in Nat /\ Round \in Nat
  BY TimersAssumption, TimersTyped
<1>2. m * Round \in Nat /\ (m + 1) * Round = m * Round + Round
  BY <1>1, ProductStep
<1>3. (m + 1) * Round <= MissLimit * Round
  BY <1>1, ProductMonotone
<1> QED BY <1>2, <1>3, TimersTyped

LEMMA TimedStep ==
    ASSUME TimersInvariant, [SystemNext]_systemVars, NEW w \in Runners
    PROVE  Timed(w)'
<1> USE DEF Timed, Is
<1>a. /\ DesksInvariant /\ Timed(w) /\ desk[w] \in Desk /\ desk \in [Runners -> Desk]
      /\ now \in Nat /\ granted \in [Runners -> Nat] /\ gate \subseteq Runners \X Runs \X Nat
      /\ desk[w].since \in Nat /\ desk[w].misses \in Nat /\ desk[w].claimed \in Nat
  BY DEF TimersInvariant, DesksInvariant, DeskTypeOK, HolderInvariant, RetryInvariant, TypeOK, Desk
<1>b. now' \in Nat /\ desk'[w] \in Desk /\ granted'[w] \in Nat
  BY <1>a, DesksNext DEF DesksInvariant, DeskTypeOK, HolderInvariant, RetryInvariant, TypeOK
<1>c. /\ HeartbeatInterval \in Nat /\ HeartbeatTimeout \in Nat /\ ClaimTimeout \in Nat
      /\ MissLimit \in Nat /\ 0 < MissLimit
      /\ Round \in Nat /\ Round = HeartbeatInterval + HeartbeatTimeout
      /\ Delay \in Nat /\ ClaimTimeout <= Delay /\ HeartbeatTimeout <= Delay
  BY TimersAssumption, TimersTyped DEF Round
<1>d. 0 * Round = 0
  BY <1>c
<1>e. desk[w].phase = "working" => desk[w].misses * Round \in Nat
  BY <1>a, MissesFit
<1>1. CASE DeskWaits(w)
  <2>1. desk'[w] = desk[w] /\ granted'[w] = granted[w]
    BY <1>1 DEF DeskWaits
  <2>2. CASE now' = now
    BY <1>a, <2>1, <2>2
  <2>3. CASE now' = now + 1 /\ ~Overdue(w)
    BY <1>a, <1>c, <2>1, <2>3 DEF Overdue
  <2> QED BY <1>1, <2>2, <2>3 DEF DeskWaits
<1>2. ASSUME now' = now, NEW r \in Runs, NEW t \in Stamps, Claim(w, r, t) PROVE Timed(w)'
  <2>1. /\ desk'[w].phase = "claiming" /\ desk'[w].since = now /\ desk'[w].claimed = now
        /\ desk'[w].misses = 0 /\ desk'[w].reply = "none" /\ granted'[w] = now
    BY <1>a, <1>2 DEF Claim, IdleDesk
  <2> QED BY <1>a, <1>c, <1>2, <2>1
<1>3. ASSUME now' = now, GiveUpClaim(w) \/ \E t \in Stamps : Report(w, t) PROVE Timed(w)'
  <2>1. desk'[w].phase = "idle" /\ granted'[w] = granted[w]
    BY <1>a, <1>3 DEF GiveUpClaim, Report, IdleDesk
  <2> QED BY <1>a, <1>3, <2>1
<1>4. ASSUME now' = now, NEW g \in gate, g[1] = w, Assign(g) PROVE Timed(w)'
  <2>1. /\ desk[w].phase = "claiming" /\ granted'[w] = granted[w]
        /\ desk'[w] = [desk[w] EXCEPT !.phase = "working", !.since = now]
    BY <1>a, <1>4 DEF Assign
  <2>2. /\ desk'[w].since = now /\ desk'[w].misses = desk[w].misses
        /\ desk'[w].reply = desk[w].reply /\ desk'[w].phase = "working"
    BY <1>a, <2>1 DEF Desk
  <2>3. desk'[w].misses = 0 /\ desk'[w].reply = "none"
    BY <1>a, <2>1, <2>2
  <2>4. desk'[w].misses * Round = 0
    BY <1>d, <2>3
  <2>5. now <= granted'[w] + Delay
    BY <1>a, <1>c, <2>1
  <2> QED BY <1>a, <1>c, <1>4, <2>1, <2>2, <2>3, <2>4, <2>5
<1>5. ASSUME now' = now, NEW t \in Stamps, HeartbeatReaches(w, t) PROVE Timed(w)'
  <2> DEFINE reply == IF run[desk[w].run].cancel THEN "cancel" ELSE "ok"
  <2>1. /\ desk[w].phase = "working" /\ now >= desk[w].since + HeartbeatInterval
        /\ granted'[w] = now /\ desk'[w] = [desk[w] EXCEPT !.reply = reply]
    BY <1>a, <1>5 DEF HeartbeatReaches, Due
  <2>2. /\ desk'[w].since = desk[w].since /\ desk'[w].misses = desk[w].misses
        /\ desk'[w].phase = "working"
    BY <1>a, <2>1 DEF Desk
  <2> QED BY <1>a, <1>c, <1>e, <1>5, <2>1, <2>2
<1>6. ASSUME now' = now, NEW t \in Stamps, HeartbeatRefused(w, t) PROVE Timed(w)'
  <2>1. /\ desk[w].phase = "working" /\ granted'[w] = granted[w]
        /\ desk'[w] = [desk[w] EXCEPT !.reply = "refused"]
    BY <1>a, <1>6 DEF HeartbeatRefused
  <2>2. /\ desk'[w].since = desk[w].since /\ desk'[w].misses = desk[w].misses
        /\ desk'[w].phase = "working" /\ desk'[w].reply = "refused"
    BY <1>a, <2>1 DEF Desk
  <2> QED BY <1>a, <1>6, <2>1, <2>2
<1>7. ASSUME now' = now, granted'[w] = granted[w], desk'[w].phase = "settling" PROVE Timed(w)'
  BY <1>a, <1>7
<1>8. ASSUME now' = now, granted'[w] = granted[w], desk[w].phase = "working", desk'[w] = Missed(desk[w])
      PROVE  Timed(w)'
  <2>1. CASE Missed(desk[w]) = Settle(desk[w], "failed")
    BY <1>a, <1>7, <1>8, <2>1, DeskMoves DEF Results
  <2>2. CASE /\ Missed(desk[w]).since = now /\ Missed(desk[w]).reply = "none"
             /\ Missed(desk[w]).misses = desk[w].misses + 1 /\ Missed(desk[w]).misses < MissLimit
             /\ Missed(desk[w]).phase = desk[w].phase
    <3>1. (desk[w].misses + 1) * Round = desk[w].misses * Round + Round
      BY <1>a, <1>8, MissesFit
    <3>2. now <= granted[w] + Delay + desk[w].misses * Round + Round
      BY <1>a, <1>c, <1>e, <1>8
    <3> QED BY <1>a, <1>c, <1>e, <1>8, <2>2, <3>1, <3>2
  <2> QED BY <1>a, <1>8, <2>1, <2>2, MissMoves
<1>9. ASSUME now' = now, HeartbeatAnswered(w) PROVE Timed(w)'
  <2>1. /\ desk[w].phase = "working" /\ desk[w].reply \in {"ok", "cancel", "refused"}
        /\ desk'[w] = AfterReply(desk[w]) /\ granted'[w] = granted[w]
    BY <1>a, <1>9 DEF HeartbeatAnswered, Desk
  <2>2. CASE desk[w].reply = "ok"
    <3>1. desk'[w] = Renewed(desk[w])
      BY <2>1, <2>2 DEF AfterReply
    <3>2. desk'[w].since = now /\ desk'[w].misses = 0 /\ desk'[w].reply = "none"
      BY <1>a, <3>1, DeskMoves
    <3>3. now <= granted[w] + Delay
      BY <1>a, <1>c, <2>1, <2>2
    <3> QED BY <1>a, <1>c, <1>d, <1>9, <2>1, <3>1, <3>2, <3>3, DeskMoves
  <2>3. CASE desk[w].reply = "cancel"
    BY <1>a, <1>7, <1>9, <2>1, <2>3, DeskMoves DEF AfterReply, Results
  <2>4. CASE desk[w].reply = "refused"
    BY <1>8, <1>9, <2>1, <2>4 DEF AfterReply, AfterRefusal
  <2> QED BY <2>1, <2>2, <2>3, <2>4
<1>10. ASSUME now' = now, HeartbeatMissed(w) PROVE Timed(w)'
  BY <1>a, <1>8, <1>10 DEF HeartbeatMissed
<1>11. ASSUME now' = now, ThreadEnds(w) PROVE Timed(w)'
  BY <1>a, <1>7, <1>11, DeskMoves DEF ThreadEnds, Results
<1> QED BY <1>a, <1>1, <1>2, <1>3, <1>4, <1>5, <1>6, <1>9, <1>10, <1>11, DeskActsOrWaits DEF DeskActs

LEMMA TimersInit == SystemInit => TimersInvariant
<1> SUFFICES ASSUME SystemInit PROVE TimersInvariant
  OBVIOUS
<1>1. ASSUME NEW w \in Runners PROVE Timed(w)
  BY DEF SystemInit, Init, Timed, Is, IdleDesk
<1> QED BY <1>1, DesksInit DEF TimersInvariant

LEMMA TimersNext == TimersInvariant /\ [SystemNext]_systemVars => TimersInvariant'
<1> SUFFICES ASSUME TimersInvariant, [SystemNext]_systemVars PROVE TimersInvariant'
  OBVIOUS
<1>1. DesksInvariant'
  BY DesksNext DEF TimersInvariant
<1> QED BY <1>1, TimedStep DEF TimersInvariant

LEMMA WorkIsTimed ==
    ASSUME TimersInvariant, NEW w \in Runners, Is(w, "working")
    PROVE  now <= granted[w] + OverrunBound
<1>1. /\ Timed(w) /\ now \in Nat /\ granted[w] \in Nat /\ desk[w].since \in Nat
      /\ desk[w].misses \in Nat
  BY DEF TimersInvariant, DesksInvariant, DeskTypeOK, HolderInvariant, RetryInvariant, TypeOK, Desk
<1>2. desk[w].misses * Round \in Nat /\ desk[w].misses * Round + Round <= MissTime
  BY <1>1, MissesFit DEF Timed
<1> QED BY <1>1, <1>2, TimersTyped DEF Timed

\* A desktop that Den no longer answers, or no longer accepts, stops within
\* OverrunBound of the last lease it was granted, for any timers.
THEOREM DesktopsStopInTime == SystemSpec => []StopsInTime
<1>1. TimersInvariant => StopsInTime
  BY WorkIsTimed DEF StopsInTime
<1> QED BY <1>1, TimersInit, TimersNext, PTL DEF SystemSpec

-----------------------------------------------------------------------------
(* What a step of Den's table leaves of a row.                              *)

\* The cancellation flag of a row stays, whatever is written to it.
LEMMA FlagStays ==
    ASSUME RetryInvariant, [Next]_vars, NEW r \in Runs, run[r].cancel
    PROVE  run'[r].cancel
<1>a. run \in [Runs -> Row] /\ run[r] \in Row
  BY DEF RetryInvariant, TypeOK
<1>b. run[r].status # "absent"
  BY DEF RetryInvariant, AbsentIsFresh, AbsentRow
<1>1. ASSUME NEW row \in Row, row.cancel
      PROVE  /\ \A w, t : ClaimedRow(row, w, t).cancel
             /\ SkippedRow(row).cancel /\ ExpiredRow(row).cancel
             /\ \A status : CompletedRow(row, status).cancel
             /\ \A x : RecoveredRow(row, x).cancel
             /\ \A read : CancelledRow(row, read).cancel
  <2>1. \A w, t : ClaimedRow(row, w, t).cancel
    BY <1>1 DEF ClaimedRow, Row
  <2>2. SkippedRow(row).cancel /\ ExpiredRow(row).cancel
    BY <1>1 DEF SkippedRow, ExpiredRow, Row
  <2>3. \A status : CompletedRow(row, status).cancel
    BY <1>1 DEF CompletedRow, Row
  <2>4. \A x : RecoveredRow(row, x).cancel
    BY <1>1 DEF RecoveredRow, Row
  <2>5. \A read : CancelledRow(row, read).cancel
    BY <1>1 DEF CancelledRow, Row
  <2> QED BY <2>1, <2>2, <2>3, <2>4, <2>5
<1>2. ASSUME NEW q \in Runs, NEW t \in Stamps, NEW window \in ClaimWindows, Dispatch(q, t, window)
      PROVE  run'[r].cancel
  BY <1>a, <1>b, <1>2 DEF Dispatch
<1>3. ASSUME NEW q \in Runs, SkipDenied(q) \/ LoseDenied(q) PROVE run'[r].cancel
  BY <1>a, <1>1, <1>3 DEF SkipDenied, LoseDenied
<1>4. ASSUME NEW w \in Runners, NEW q \in Runs,
             (\E t \in Stamps : ClaimDesktop(w, q, t)) \/ ReclaimDesktop(w, q)
      PROVE  run'[r].cancel
  BY <1>a, <1>1, <1>4 DEF ClaimDesktop, ReclaimDesktop
<1>5. ASSUME NEW w \in Runners, NEW q \in Runs, NEW a \in 1 .. MaxAttempts, NEW t \in Stamps,
             \/ HeartbeatDesktop(w, q, a, t)
             \/ \E s \in 1 .. MaxSequence : AppendDesktopEvent(w, q, a, s, t)
             \/ \E status \in {"succeeded", "failed", "cancelled"} : Complete(w, q, a, status, t)
      PROVE  run'[r].cancel
  <2>1. CASE HeartbeatDesktop(w, q, a, t) \/ \E s \in 1 .. MaxSequence : AppendDesktopEvent(w, q, a, s, t)
    BY <1>a, <2>1 DEF HeartbeatDesktop, AppendDesktopEvent, Row
  <2>2. CASE \E status \in {"succeeded", "failed", "cancelled"} : Complete(w, q, a, status, t)
    BY <1>a, <1>1, <2>2 DEF Complete
  <2> QED BY <1>5, <2>1, <2>2
<1>6. ASSUME NEW g \in gate, PassGate(g) \/ FailGate(g) \/ LoseGate(g) PROVE run'[r].cancel
  BY <1>a, <1>1, <1>6 DEF PassGate, FailGate, LoseGate
<1>7. ASSUME NEW x \in cancelling, CancelUpdate(x) PROVE run'[r].cancel
  BY <1>a, <1>1, <1>7 DEF CancelUpdate
<1>8. ASSUME NEW p \in Replicas, TickStep(p) \/ TickAbort(p) PROVE run'[r].cancel
  <2>1. CASE RecoverUpdate(p)
    <3>1. PICK x \in tick[p].rows : run' = run \/ run' = [run EXCEPT ![x.run] = RecoveredRow(run[x.run], x)]
      BY <2>1 DEF RecoverUpdate, Earliest
    <3> QED BY <1>a, <1>1, <3>1
  <2>2. CASE ExpireUpdate(p)
    <3>1. PICK x \in tick[p].rows : run' = run \/ run' = [run EXCEPT ![x.run] = ExpiredRow(run[x.run])]
      BY <2>2 DEF ExpireUpdate, Earliest
    <3> QED BY <1>a, <1>1, <3>1
  <2>3. CASE (\E t \in Stamps : RecoverSelect(p, t)) \/ ExpireSelect(p) \/ TickEnd(p) \/ TickAbort(p)
    BY <2>3 DEF RecoverSelect, ExpireSelect, TickEnd, TickAbort
  <2> QED BY <1>8, <2>1, <2>2, <2>3 DEF TickStep
<1>9. CASE (\E c \in Cancellations, q \in Runs : CancelSelect(c, q)) \/ Clock \/ UNCHANGED vars
  BY <1>9 DEF CancelSelect, Clock, vars
<1> QED BY <1>2, <1>3, <1>4, <1>5, <1>6, <1>7, <1>8, <1>9 DEF Next, RunnerStep

\* A step that grants no lease on row r: the attempt stays, the lease stays
\* or ends, and only a lease that ran out sends the run back to the queue.
Ungranted(r) ==
    /\ run'[r].attempt = run[r].attempt
    /\ run'[r].lease \in {run[r].lease, NULL}
    /\ run'[r].status = "queued" =>
         \/ run[r].status \in {"absent", "queued"}
         \/ run[r].lease # NULL /\ run[r].lease < now + MaxSkew

\* A row says "succeeded" because it did, because its desktop said so, or
\* because a cancellation writes back what it read.
Succeeds(r) ==
    \/ run[r].status = "succeeded"
    \/ \E w \in Runners, a \in 1 .. MaxAttempts, t \in Stamps : Complete(w, r, a, "succeeded", t)
    \/ \E x \in cancelling : CancelUpdate(x) /\ x.run = r /\ x.status = "succeeded"

RowMoves(r) ==
    /\ \/ \E w \in Runners, t \in Stamps : ClaimDesktop(w, r, t)
       \/ \E w \in Runners, a \in 1 .. MaxAttempts, t \in Stamps : HeartbeatDesktop(w, r, a, t)
       \/ Ungranted(r)
    /\ run'[r].status = "succeeded" => Succeeds(r)

LEMMA RowLeaseStep ==
    ASSUME RetryInvariant, [Next]_vars, NEW r \in Runs
    PROVE  RowMoves(r)
<1>a. run \in [Runs -> Row] /\ now \in Nat /\ run[r] \in Row
  BY DEF RetryInvariant, TypeOK
<1>b. tick \in [Replicas -> [phase : {"idle", "recover", "expire"}, at : Nat, rows : SUBSET Snapshot]]
  BY DEF RetryInvariant, TypeOK
<1>c. cancelling \subseteq [id : Cancellations, run : Runs, status : Statuses \ {"absent"}]
  BY DEF RetryInvariant, TypeOK
<1>0. ASSUME run'[r] = run[r] PROVE RowMoves(r)
  BY <1>0 DEF RowMoves, Ungranted, Succeeds
<1>1. ASSUME NEW q \in Runs, NEW t \in Stamps, NEW window \in ClaimWindows, Dispatch(q, t, window)
      PROVE  RowMoves(r)
  <2>1. CASE q = r
    <3>1. run[r] = AbsentRow
      BY <1>1, <2>1 DEF Dispatch, RetryInvariant, AbsentIsFresh
    <3>2. /\ run'[r].attempt = 0 /\ run'[r].lease = NULL
          /\ run'[r].status \in {"skipped", "queued"}
      BY <1>a, <1>1, <2>1 DEF Dispatch, AbsentRow
    <3> QED BY <3>1, <3>2 DEF RowMoves, Ungranted, AbsentRow
  <2>2. CASE q # r
    BY <1>0, <1>a, <1>1, <2>2 DEF Dispatch
  <2> QED BY <2>1, <2>2
<1>2. ASSUME run'[r] = SkippedRow(run[r]) PROVE RowMoves(r)
  <2>1. CASE run[r].status \in Active
    BY <1>a, <1>2, <2>1, RowFields DEF RowMoves, Ungranted
  <2>2. CASE run[r].status \notin Active
    BY <1>0, <1>a, <1>2, <2>2, RowFields
  <2> QED BY <2>1, <2>2
<1>3. ASSUME NEW q \in Runs, SkipDenied(q) \/ LoseDenied(q) PROVE RowMoves(r)
  BY <1>0, <1>2, <1>a, <1>3 DEF SkipDenied, LoseDenied
<1>4. ASSUME NEW w \in Runners, NEW q \in Runs, NEW t \in Stamps, ClaimDesktop(w, q, t)
      PROVE  RowMoves(r)
  <2>1. CASE q = r
    <3>1. run'[r].status = "running"
      BY <1>a, <1>4, <2>1, RowFields, StampsAreTimes DEF ClaimDesktop
    <3> QED BY <1>4, <2>1, <3>1 DEF RowMoves
  <2>2. CASE q # r
    BY <1>0, <1>a, <1>4, <2>2 DEF ClaimDesktop
  <2> QED BY <2>1, <2>2
<1>5. ASSUME NEW w \in Runners, NEW q \in Runs, NEW a \in 1 .. MaxAttempts, NEW t \in Stamps,
             HeartbeatDesktop(w, q, a, t)
      PROVE  RowMoves(r)
  <2>1. CASE q = r
    <3>1. run'[r].status = "running"
      BY <1>a, <1>5, <2>1 DEF HeartbeatDesktop, Fenced, Row
    <3> QED BY <1>5, <2>1, <3>1 DEF RowMoves
  <2>2. CASE q # r
    BY <1>0, <1>a, <1>5, <2>2 DEF HeartbeatDesktop
  <2> QED BY <2>1, <2>2
<1>6. ASSUME NEW w \in Runners, NEW q \in Runs, NEW a \in 1 .. MaxAttempts, NEW t \in Stamps,
             NEW s \in 1 .. MaxSequence, AppendDesktopEvent(w, q, a, s, t)
      PROVE  RowMoves(r)
  <2>1. CASE q = r
    <3>1. /\ run'[r].attempt = run[r].attempt /\ run'[r].lease = run[r].lease
          /\ run'[r].status = run[r].status
      BY <1>a, <1>6, <2>1 DEF AppendDesktopEvent, Row
    <3> QED BY <3>1 DEF RowMoves, Ungranted, Succeeds
  <2>2. CASE q # r
    BY <1>0, <1>a, <1>6, <2>2 DEF AppendDesktopEvent
  <2> QED BY <2>1, <2>2
<1>7. ASSUME NEW w \in Runners, NEW q \in Runs, NEW a \in 1 .. MaxAttempts, NEW t \in Stamps,
             NEW status \in {"succeeded", "failed", "cancelled"}, Complete(w, q, a, status, t)
      PROVE  RowMoves(r)
  <2>1. CASE q = r
    <3>1. /\ run'[r].attempt = run[r].attempt /\ run'[r].lease = NULL
          /\ run'[r].status = status
      BY <1>a, <1>7, <2>1, RowFields DEF Complete, Terminal
    <3> QED BY <1>7, <2>1, <3>1 DEF RowMoves, Ungranted, Succeeds
  <2>2. CASE q # r
    BY <1>0, <1>a, <1>7, <2>2 DEF Complete
  <2> QED BY <2>1, <2>2
<1>8. ASSUME NEW g \in gate, PassGate(g) \/ FailGate(g) \/ LoseGate(g) PROVE RowMoves(r)
  BY <1>0, <1>2, <1>a, <1>8 DEF PassGate, FailGate, LoseGate
<1>9. ASSUME NEW x \in cancelling, CancelUpdate(x) PROVE RowMoves(r)
  <2>1. CASE x.run = r
    <3>1. /\ run'[r] = CancelledRow(run[r], x.status) /\ x.status \in Statuses \ {"absent"}
      BY <1>a, <1>c, <1>9, <2>1 DEF CancelUpdate
    <3>2. /\ run'[r].attempt = run[r].attempt /\ run'[r].lease = run[r].lease
          /\ run'[r].status \notin {"absent", "queued"}
      BY <1>a, <3>1, RowFields
    <3>3. run'[r].status = "succeeded" => x.status = "succeeded"
      BY <1>a, <3>1 DEF CancelledRow, Row
    <3> QED BY <1>9, <2>1, <3>2, <3>3 DEF RowMoves, Ungranted, Succeeds
  <2>2. CASE x.run # r
    BY <1>0, <1>a, <1>9, <2>2 DEF CancelUpdate
  <2> QED BY <2>1, <2>2
<1>10. ASSUME NEW p \in Replicas, RecoverUpdate(p) PROVE RowMoves(r)
  <2>1. PICK x \in tick[p].rows :
          \/ run' = run
          \/ /\ StillExpired(run[x.run], x, tick[p].at)
             /\ run' = [run EXCEPT ![x.run] = RecoveredRow(run[x.run], x)]
    BY <1>10 DEF RecoverUpdate, Earliest
  <2>2. x \in Snapshot /\ tick[p].at \in Nat /\ tick[p].at <= now + MaxSkew
    BY <1>b DEF RetryInvariant, SweepStamped
  <2>3. CASE /\ StillExpired(run[x.run], x, tick[p].at) /\ x.run = r
             /\ run' = [run EXCEPT ![x.run] = RecoveredRow(run[x.run], x)]
    <3>1. /\ run'[r].attempt = run[r].attempt /\ run'[r].lease = NULL
          /\ run'[r].status \in {"queued", "failed"}
      BY <1>a, <2>2, <2>3, RowFields
    <3>2. run[r].lease # NULL /\ run[r].lease < tick[p].at /\ run[r].lease \in Times
      BY <1>a, <2>3 DEF StillExpired, LeaseExpired, Row
    <3>3. run[r].lease < now + MaxSkew
      BY <1>a, <2>2, <3>2, SkewAssumption DEF Times, NULL
    <3> QED BY <3>1, <3>2, <3>3 DEF RowMoves, Ungranted
  <2>4. CASE run'[r] = run[r]
    BY <1>0, <2>4
  <2> QED BY <1>a, <2>1, <2>2, <2>3, <2>4
<1>11. ASSUME NEW p \in Replicas, ExpireUpdate(p) PROVE RowMoves(r)
  <2>1. PICK x \in tick[p].rows :
          run' = run \/ run' = [run EXCEPT ![x.run] = ExpiredRow(run[x.run])]
    BY <1>11 DEF ExpireUpdate, Earliest
  <2>2. CASE run'[r] = ExpiredRow(run[r])
    BY <1>a, <2>2, RowFields DEF RowMoves, Ungranted
  <2>3. CASE run'[r] = run[r]
    BY <1>0, <2>3
  <2> QED BY <1>a, <2>1, <2>2, <2>3
<1>12. ASSUME NEW p \in Replicas,
              (\E t \in Stamps : RecoverSelect(p, t)) \/ ExpireSelect(p) \/ TickEnd(p) \/ TickAbort(p)
       PROVE  RowMoves(r)
  BY <1>0, <1>12 DEF RecoverSelect, ExpireSelect, TickEnd, TickAbort
<1>13. CASE \/ \E c \in Cancellations, q \in Runs : CancelSelect(c, q)
            \/ \E w \in Runners, q \in Runs : ReclaimDesktop(w, q)
            \/ Clock \/ UNCHANGED vars
  BY <1>0, <1>13 DEF CancelSelect, ReclaimDesktop, Clock, vars
<1> QED BY <1>1, <1>3, <1>4, <1>5, <1>6, <1>7, <1>8, <1>9, <1>10, <1>11, <1>12, <1>13
        DEF Next, RunnerStep, TickStep

-----------------------------------------------------------------------------
(* A recorded cancellation stops the desktop.                               *)

\* The time a cancellation was recorded is in the past, and from then on
\* every heartbeat Den accepts is answered with the flag of the row.
CancelRecorded ==
    \A r \in Runs : cancelledAt[r] # NULL =>
        cancelledAt[r] \in Nat /\ cancelledAt[r] <= now /\ run[r].cancel

\* From the cancellation on, or from the claim if that is later, a desktop
\* hears of no renewal that is not older than the cancellation.
CancelTimed(w) ==
    Is(w, "working") /\ cancelledAt[desk[w].run] # NULL =>
        /\ desk[w].since <= Larger(cancelledAt[desk[w].run], desk[w].claimed) + Delay
                             + desk[w].misses * Round
        /\ desk[w].reply = "ok" => granted[w] <= cancelledAt[desk[w].run]

CancelInvariant == TimersInvariant /\ CancelRecorded /\ \A w \in Runners : CancelTimed(w)

\* Only the recording of a cancellation sets its time, and it sets the flag.
LEMMA RecordsStay ==
    ASSUME DesksInvariant, [SystemNext]_systemVars, NEW r \in Runs
    PROVE  \/ cancelledAt'[r] = cancelledAt[r]
           \/ /\ cancelledAt[r] = NULL /\ cancelledAt'[r] = now /\ run'[r].cancel
              /\ now' = now /\ desk' = desk /\ granted' = granted
<1>a. cancelledAt \in [Runs -> Times] /\ run \in [Runs -> Row] /\ run[r] \in Row
      /\ cancelling \subseteq [id : Cancellations, run : Runs, status : Statuses \ {"absent"}]
  BY DEF DesksInvariant, DeskTypeOK, HolderInvariant, RetryInvariant, TypeOK
<1>1. ASSUME NEW x \in cancelling, RecordCancel(x)
      PROVE  \/ cancelledAt'[r] = cancelledAt[r]
             \/ /\ cancelledAt[r] = NULL /\ cancelledAt'[r] = now /\ run'[r].cancel
                /\ now' = now /\ desk' = desk /\ granted' = granted
  <2>1. CASE x.run = r /\ cancelledAt[r] = NULL
    <3>1. run'[r] = CancelledRow(run[r], x.status)
      BY <1>a, <1>1, <2>1 DEF RecordCancel, CancelUpdate
    <3>2. run'[r].cancel
      BY <1>a, <3>1 DEF CancelledRow, Row
    <3>3. cancelledAt'[r] = now /\ now' = now /\ desk' = desk /\ granted' = granted
      BY <1>a, <1>1, <2>1 DEF RecordCancel, CancelUpdate
    <3> QED BY <2>1, <3>2, <3>3
  <2>2. CASE ~(x.run = r /\ cancelledAt[r] = NULL)
    BY <1>a, <1>1, <2>2 DEF RecordCancel
  <2> QED BY <2>1, <2>2
<1>2. ASSUME NEW w \in Runners, DeskStep(w) PROVE cancelledAt' = cancelledAt
  BY <1>2 DEF DeskStep, Claim, GiveUpClaim, HeartbeatReaches, HeartbeatRefused, Report,
              HeartbeatAnswered, HeartbeatMissed, ThreadEnds
<1>3. ASSUME NEW g \in gate, Assign(g) \/ Refuse(g) PROVE cancelledAt' = cancelledAt
  BY <1>3 DEF Assign, Refuse, deskVars
<1>4. CASE DenStep \/ Tock \/ UNCHANGED systemVars
  BY <1>4 DEF DenStep, Tock, systemVars, deskVars
<1> QED BY <1>1, <1>2, <1>3, <1>4 DEF SystemNext

LEMMA TimePasses ==
    ASSUME [Next]_vars
    PROVE  now' = now \/ now' = now + 1
<1>1. ASSUME NEW w \in Runners, NEW r \in Runs, RunnerStep(w, r) PROVE now' = now
  BY <1>1 DEF RunnerStep, ClaimDesktop, ReclaimDesktop, HeartbeatDesktop, AppendDesktopEvent,
              Complete
<1>2. ASSUME NEW p \in Replicas, TickStep(p) \/ TickAbort(p) PROVE now' = now
  BY <1>2 DEF TickStep, RecoverSelect, RecoverUpdate, ExpireSelect, ExpireUpdate, TickEnd, TickAbort
<1>3. ASSUME NEW g \in gate, PassGate(g) \/ FailGate(g) \/ LoseGate(g) PROVE now' = now
  BY <1>3 DEF PassGate, FailGate, LoseGate
<1>4. CASE Clock \/ UNCHANGED vars
  BY <1>4 DEF Clock, vars
<1> QED BY <1>1, <1>2, <1>3, <1>4
        DEF Next, Dispatch, SkipDenied, LoseDenied, CancelSelect, CancelUpdate

LEMMA CancelRecordedStep ==
    ASSUME DesksInvariant, CancelRecorded, [SystemNext]_systemVars
    PROVE  CancelRecorded'
<1> SUFFICES ASSUME NEW r \in Runs, cancelledAt'[r] # NULL
             PROVE  cancelledAt'[r] \in Nat /\ cancelledAt'[r] <= now' /\ run'[r].cancel
  BY DEF CancelRecorded
<1>a. now \in Nat /\ RetryInvariant /\ [Next]_vars
  BY SystemStep DEF DesksInvariant, HolderInvariant, RetryInvariant, TypeOK
<1>b. now' \in Nat /\ now <= now'
  BY <1>a, TimePasses
<1>1. CASE cancelledAt'[r] = cancelledAt[r]
  BY <1>a, <1>b, <1>1, FlagStays DEF CancelRecorded
<1>2. CASE cancelledAt'[r] = now /\ run'[r].cancel /\ now' = now
  BY <1>a, <1>2
<1> QED BY <1>1, <1>2, RecordsStay

LEMMA CancelTimedStep ==
    ASSUME CancelInvariant, [SystemNext]_systemVars, NEW w \in Runners
    PROVE  CancelTimed(w)'
<1> USE DEF CancelTimed, Is
<1>0. SUFFICES ASSUME desk'[w].phase = "working", cancelledAt'[desk'[w].run] # NULL
              PROVE  /\ desk'[w].since <= Larger(cancelledAt'[desk'[w].run], desk'[w].claimed) + Delay
                                           + desk'[w].misses * Round
                     /\ desk'[w].reply = "ok" => granted'[w] <= cancelledAt'[desk'[w].run]
  BY DEF Larger, Delay, Round
<1> DEFINE r == desk'[w].run
<1>a. /\ DesksInvariant /\ TimersInvariant /\ CancelRecorded /\ CancelTimed(w) /\ Timed(w)
      /\ desk[w] \in Desk /\ desk \in [Runners -> Desk]
      /\ now \in Nat /\ granted \in [Runners -> Nat] /\ gate \subseteq Runners \X Runs \X Nat
      /\ desk[w].since \in Nat /\ desk[w].misses \in Nat /\ desk[w].claimed \in Nat
  BY DEF CancelInvariant, TimersInvariant, DesksInvariant, DeskTypeOK, HolderInvariant,
         RetryInvariant, TypeOK, Desk
<1>b. DesksInvariant' /\ TimersInvariant' /\ Timed(w)' /\ r \in Runs
  <2>1. TimersInvariant'
    BY <1>a, TimersNext
  <2>2. DesksAssigned'
    BY <2>1 DEF TimersInvariant, DesksInvariant
  <2> QED BY <1>0, <2>1, <2>2 DEF TimersInvariant, DesksAssigned
<1>c. /\ HeartbeatInterval \in Nat /\ HeartbeatTimeout \in Nat /\ ClaimTimeout \in Nat
      /\ Round \in Nat /\ Round = HeartbeatInterval + HeartbeatTimeout
      /\ Delay \in Nat /\ ClaimTimeout <= Delay /\ HeartbeatTimeout <= Delay
  BY TimersAssumption, TimersTyped DEF Round
<1>d. /\ now' \in Nat /\ desk'[w].since \in Nat /\ desk'[w].claimed \in Nat
      /\ desk'[w].misses \in Nat /\ granted'[w] \in Nat
      /\ cancelledAt'[r] \in Nat
  <2>1. CancelRecorded'
    BY <1>a, CancelRecordedStep
  <2>2. now' \in Nat /\ desk'[w] \in Desk /\ granted'[w] \in Nat
    BY <1>b DEF DesksInvariant, DeskTypeOK, HolderInvariant, RetryInvariant, TypeOK
  <2> QED BY <1>0, <1>b, <2>1, <2>2 DEF CancelRecorded, Desk
<1>e. desk'[w].misses * Round \in Nat
  BY <1>0, <1>b, <1>d, MissesFit DEF Timed
<1>1. ASSUME cancelledAt[r] = NULL, cancelledAt'[r] = now, now' = now, desk' = desk, granted' = granted
      PROVE  /\ desk'[w].since <= Larger(cancelledAt'[r], desk'[w].claimed) + Delay
                                   + desk'[w].misses * Round
             /\ desk'[w].reply = "ok" => granted'[w] <= cancelledAt'[r]
  BY <1>0, <1>a, <1>b, <1>c, <1>d, <1>e, <1>1 DEF Timed, Larger
<1>2. ASSUME cancelledAt'[r] = cancelledAt[r]
      PROVE  /\ desk'[w].since <= Larger(cancelledAt'[r], desk'[w].claimed) + Delay
                                   + desk'[w].misses * Round
             /\ desk'[w].reply = "ok" => granted'[w] <= cancelledAt'[r]
  <2> DEFINE c == cancelledAt[r]
             Goal == /\ desk'[w].since <= Larger(c, desk'[w].claimed) + Delay
                                           + desk'[w].misses * Round
                     /\ desk'[w].reply = "ok" => granted'[w] <= c
  <2> SUFFICES Goal
    BY <1>2
  <2>0. c \in Nat /\ c # NULL /\ c <= now /\ run[r].cancel
    BY <1>0, <1>2, <1>a, <1>b, <1>d DEF CancelRecorded
  <2>1. ASSUME desk'[w] = desk[w], granted'[w] = granted[w]
        PROVE  Goal
    BY <1>0, <1>a, <2>0, <2>1
  <2>2. ASSUME NEW g \in gate, g[1] = w, Assign(g), now' = now
        PROVE  Goal
    <3>1. /\ desk[w].phase = "claiming"
          /\ desk'[w] = [desk[w] EXCEPT !.phase = "working", !.since = now]
      BY <1>a, <2>2 DEF Assign
    <3>2. /\ desk'[w].since = now /\ desk'[w].claimed = desk[w].claimed
          /\ desk'[w].reply = desk[w].reply
      BY <1>a, <3>1 DEF Desk
    <3>3. desk'[w].reply = "none" /\ now <= desk'[w].claimed + ClaimTimeout
      BY <1>a, <3>1, <3>2 DEF Timed
    <3> QED BY <1>a, <1>c, <1>d, <1>e, <2>0, <3>2, <3>3 DEF Larger
  <2>3. ASSUME NEW t \in Stamps, HeartbeatReaches(w, t)
        PROVE  Goal
    <3>1. /\ desk'[w] = [desk[w] EXCEPT !.reply = IF run[desk[w].run].cancel THEN "cancel" ELSE "ok"]
          /\ desk[w].phase = "working"
      BY <1>a, <2>3 DEF HeartbeatReaches
    <3>2. /\ desk'[w].since = desk[w].since /\ desk'[w].claimed = desk[w].claimed
          /\ desk'[w].misses = desk[w].misses /\ desk[w].run = r
      BY <1>a, <3>1 DEF Desk
    <3>3. desk'[w].reply = "cancel"
      BY <1>a, <2>0, <3>1, <3>2 DEF Desk
    <3> QED BY <1>a, <2>0, <3>1, <3>2, <3>3
  <2>4. ASSUME NEW t \in Stamps, HeartbeatRefused(w, t)
        PROVE  Goal
    <3>1. desk'[w] = [desk[w] EXCEPT !.reply = "refused"] /\ desk[w].phase = "working"
      BY <1>a, <2>4 DEF HeartbeatRefused
    <3>2. /\ desk'[w].since = desk[w].since /\ desk'[w].claimed = desk[w].claimed
          /\ desk'[w].misses = desk[w].misses /\ desk[w].run = r /\ desk'[w].reply = "refused"
      BY <1>a, <3>1 DEF Desk
    <3> QED BY <1>a, <2>0, <3>1, <3>2
  <2>5. ASSUME desk[w].phase = "working", desk'[w] = Missed(desk[w]), now' = now
        PROVE  Goal
    <3>1. desk[w].misses < MissLimit
      BY <1>a, <2>5 DEF Timed
    <3>2. Missed(desk[w]) # Settle(desk[w], "failed")
      BY <1>0, <1>a, <2>5, DeskMoves DEF Results
    <3>3. /\ desk'[w].run = desk[w].run /\ desk'[w].claimed = desk[w].claimed
          /\ desk'[w].reply = "none" /\ desk'[w].since = now
          /\ desk'[w].misses = desk[w].misses + 1
      BY <1>a, <2>5, <3>1, <3>2, MissMoves
    <3>4. desk[w].since <= Larger(c, desk[w].claimed) + Delay + desk[w].misses * Round
      BY <1>a, <2>0, <2>5, <3>3
    <3>5. /\ desk[w].misses * Round \in Nat
          /\ desk'[w].misses * Round = desk[w].misses * Round + Round
      BY <1>a, <3>1, <3>3, MissesFit
    <3>6. now <= desk[w].since + Round
      BY <1>a, <2>5 DEF Timed
    <3> QED BY <1>a, <1>c, <1>d, <2>0, <3>3, <3>4, <3>5, <3>6 DEF Larger
  <2>6. ASSUME HeartbeatAnswered(w), now' = now
        PROVE  Goal
    <3>1. /\ desk[w].phase = "working" /\ desk[w].reply \in {"ok", "cancel", "refused"}
          /\ desk'[w] = AfterReply(desk[w])
      BY <1>a, <2>6 DEF HeartbeatAnswered, Desk
    <3>2. desk[w].reply # "cancel"
      BY <1>0, <1>a, <3>1, DeskMoves DEF AfterReply, Results
    <3>3. CASE desk[w].reply = "refused"
      BY <2>5, <2>6, <3>1, <3>3 DEF AfterReply, AfterRefusal
    <3>4. CASE desk[w].reply = "ok"
      <4>1. desk'[w] = Renewed(desk[w])
        BY <3>1, <3>4 DEF AfterReply
      <4>2. /\ desk'[w].since = now /\ desk'[w].reply = "none" /\ desk[w].run = r
            /\ desk'[w].claimed = desk[w].claimed
        BY <1>a, <4>1, DeskMoves
      <4>3. granted[w] <= c
        BY <1>a, <2>0, <3>1, <3>4, <4>2
      <4>4. granted[w] \in Nat /\ now <= granted[w] + HeartbeatTimeout
        BY <1>a, <1>c, <3>1, <3>4 DEF Timed
      <4> QED BY <1>a, <1>c, <1>d, <1>e, <2>0, <4>2, <4>3, <4>4 DEF Larger
    <3> QED BY <3>1, <3>2, <3>3, <3>4
  <2>7. ASSUME HeartbeatMissed(w), now' = now
        PROVE  Goal
    BY <1>a, <2>5, <2>7 DEF HeartbeatMissed
  <2>8. ASSUME \/ \E q \in Runs, t \in Stamps : Claim(w, q, t)
               \/ GiveUpClaim(w) \/ ThreadEnds(w)
               \/ \E t \in Stamps : Report(w, t)
        PROVE  desk'[w].phase # "working"
    <3>1. CASE ThreadEnds(w)
      BY <1>a, <3>1, DeskMoves DEF ThreadEnds, Results
    <3>2. CASE GiveUpClaim(w) \/ \E t \in Stamps : Report(w, t)
      BY <1>a, <3>2 DEF GiveUpClaim, Report, IdleDesk
    <3>3. ASSUME NEW q \in Runs, NEW t \in Stamps, Claim(w, q, t) PROVE desk'[w].phase = "claiming"
      BY <1>a, <3>3 DEF Claim, IdleDesk
    <3> QED BY <2>8, <3>1, <3>2, <3>3
  <2> HIDE DEF Goal
  <2>9. CASE DeskWaits(w)
    BY <2>1, <2>9 DEF DeskWaits
  <2> QED BY <1>0, <1>a, <2>2, <2>3, <2>4, <2>6, <2>7, <2>8, <2>9, DeskActsOrWaits DEF DeskActs
<1> QED BY <1>a, <1>b, <1>1, <1>2, RecordsStay

\* A cancellation, once recorded, stops the desktop that executes the run,
\* whatever the network does, for any timers.
THEOREM CancellationsStopDesktops == SystemSpec => []CancelStopsInTime
<1>1. SystemInit => CancelInvariant
  <2> SUFFICES ASSUME SystemInit PROVE CancelInvariant
    OBVIOUS
  <2>1. CancelRecorded
    BY DEF SystemInit, CancelRecorded
  <2>2. \A w \in Runners : CancelTimed(w)
    BY DEF SystemInit, CancelTimed, Is, IdleDesk
  <2> QED BY <2>1, <2>2, TimersInit DEF CancelInvariant
<1>2. CancelInvariant /\ [SystemNext]_systemVars => CancelInvariant'
  BY TimersNext, CancelRecordedStep, CancelTimedStep DEF CancelInvariant, TimersInvariant
<1>3. CancelInvariant => CancelStopsInTime
  <2> SUFFICES ASSUME CancelInvariant, NEW w \in Runners, Is(w, "working"),
                      cancelledAt[desk[w].run] # NULL
               PROVE  now <= Larger(cancelledAt[desk[w].run], desk[w].claimed) + OverrunBound
    BY DEF CancelStopsInTime
  <2>1. /\ Timed(w) /\ CancelTimed(w) /\ now \in Nat /\ desk[w] \in Desk
        /\ desk[w].run \in Runs
    BY DEF CancelInvariant, TimersInvariant, DesksInvariant, DesksAssigned, DeskTypeOK,
           HolderInvariant, RetryInvariant, TypeOK, Is
  <2>a. desk[w].since \in Nat /\ desk[w].misses \in Nat /\ desk[w].claimed \in Nat
    BY <2>1 DEF Desk
  <2>2. cancelledAt[desk[w].run] \in Nat
    BY <2>1 DEF CancelInvariant, CancelRecorded
  <2>3. desk[w].misses * Round \in Nat /\ desk[w].misses * Round + Round <= MissTime
    BY <2>1, <2>a, MissesFit DEF Timed
  <2> QED BY <2>1, <2>a, <2>2, <2>3, TimersTyped DEF Timed, CancelTimed, Larger
<1> QED BY <1>1, <1>2, <1>3, PTL DEF SystemSpec

-----------------------------------------------------------------------------
(* Two desktops and one run.                                                *)

Busy(w) == desk[w].phase \in {"claiming", "working"}
Current(w) == desk[w].attempt = run[desk[w].run].attempt

\* The desktop of the current attempt: its lease in the table is the one it
\* was granted last, up to the error of the stamp.
GrantInTable(v) ==
    Busy(v) /\ Current(v) /\ run[desk[v].run].lease # NULL =>
        granted[v] + LeaseMs <= run[desk[v].run].lease + MaxSkew

\* The desktop of an attempt that is over: its lease was found expired.
GrantExpired(v) ==
    Busy(v) /\ (desk[v].attempt < run[desk[v].run].attempt \/ run[desk[v].run].status = "queued") =>
        granted[v] + LeaseMs < now + 2 * MaxSkew

\* ... before the next desktop claimed the run.
ClaimedAfter(v, w) ==
    Busy(v) /\ Busy(w) /\ desk[v].run = desk[w].run /\ desk[v].attempt < desk[w].attempt =>
        granted[v] + LeaseMs < desk[w].claimed + 2 * MaxSkew

OverlapInvariant ==
    /\ TimersInvariant
    /\ \A v \in Runners : GrantInTable(v) /\ GrantExpired(v)
    /\ \A v, w \in Runners : ClaimedAfter(v, w)

\* A busy desktop has just claimed, has just been granted a renewal, or is
\* about the same claim with the same grant as before.
LEMMA GrantMoves ==
    ASSUME DesksInvariant, [SystemNext]_systemVars, NEW v \in Runners, Busy(v)'
    PROVE  \/ \E r \in Runs, t \in Stamps : Claim(v, r, t)
           \/ /\ \E t \in Stamps : HeartbeatReaches(v, t)
              /\ Busy(v) /\ desk'[v].run = desk[v].run /\ desk'[v].attempt = desk[v].attempt
              /\ desk'[v].claimed = desk[v].claimed
           \/ /\ Busy(v) /\ desk'[v].run = desk[v].run /\ desk'[v].attempt = desk[v].attempt
              /\ desk'[v].claimed = desk[v].claimed /\ granted'[v] = granted[v]
<1> USE DEF Busy
<1> DEFINE Kept == /\ Busy(v) /\ desk'[v].run = desk[v].run /\ desk'[v].attempt = desk[v].attempt
                   /\ desk'[v].claimed = desk[v].claimed
<1>a. /\ desk[v] \in Desk /\ desk \in [Runners -> Desk] /\ now \in Nat
      /\ gate \subseteq Runners \X Runs \X Nat
  BY DEF DesksInvariant, DeskTypeOK, HolderInvariant, RetryInvariant, TypeOK
<1>1. CASE DeskWaits(v)
  BY <1>1 DEF DeskWaits
<1>2. CASE GiveUpClaim(v) \/ \E t \in Stamps : Report(v, t)
  BY <1>a, <1>2 DEF GiveUpClaim, Report, IdleDesk
<1>3. ASSUME NEW g \in gate, g[1] = v, Assign(g) PROVE Kept /\ granted'[v] = granted[v]
  BY <1>a, <1>3 DEF Assign, Is, Desk
<1>4. ASSUME NEW t \in Stamps, HeartbeatReaches(v, t) PROVE Kept
  BY <1>a, <1>4 DEF HeartbeatReaches, Is, Desk
<1>5. ASSUME NEW t \in Stamps, HeartbeatRefused(v, t) PROVE Kept /\ granted'[v] = granted[v]
  BY <1>a, <1>5 DEF HeartbeatRefused, Is, Desk
<1>6. ASSUME desk[v].phase = "working", desk'[v] = Missed(desk[v]) PROVE Kept
  <2>1. CASE OutOfMisses(desk[v].misses + 1)
    BY <1>a, <1>6, <2>1, DeskMoves DEF Missed, Results
  <2>2. CASE ~OutOfMisses(desk[v].misses + 1)
    BY <1>a, <1>6, <2>2 DEF Missed, Desk
  <2> QED BY <2>1, <2>2
<1>7. CASE HeartbeatAnswered(v)
  <2>1. /\ desk[v].reply \in {"ok", "cancel", "refused"} /\ desk[v].phase = "working"
        /\ granted'[v] = granted[v]
    BY <1>a, <1>7 DEF HeartbeatAnswered, Desk, Is
  <2>2. desk'[v] = AfterReply(desk[v])
    BY <1>a, <1>7 DEF HeartbeatAnswered
  <2> QED BY <1>a, <1>6, <2>1, <2>2, DeskMoves DEF AfterReply, AfterRefusal, Results
<1>8. CASE HeartbeatMissed(v)
  BY <1>a, <1>6, <1>8 DEF HeartbeatMissed, Is
<1>9. CASE ThreadEnds(v)
  BY <1>a, <1>9, DeskMoves DEF ThreadEnds, Is, Results
<1> QED BY <1>1, <1>2, <1>3, <1>4, <1>5, <1>7, <1>8, <1>9, DeskActsOrWaits DEF DeskActs

\* What a claim and a granted heartbeat leave in the table.
LEMMA GrantWritten ==
    ASSUME DesksInvariant, NEW v \in Runners, NEW t \in Stamps
    PROVE  /\ \A r \in Runs : Claim(v, r, t) =>
                /\ run[r].status = "queued" /\ now' = now
                /\ run'[r].attempt = run[r].attempt + 1
                /\ run'[r].status = "running" /\ run'[r].lease = t + LeaseMs
                /\ desk'[v].run = r /\ desk'[v].attempt = run[r].attempt + 1
                /\ desk'[v].claimed = now /\ granted'[v] = now
           /\ HeartbeatReaches(v, t) =>
                LET r == desk[v].run IN
                /\ r \in Runs /\ run[r].attempt = desk[v].attempt
                /\ run'[r].attempt = run[r].attempt
                /\ run'[r].status = "running" /\ run'[r].lease = t + LeaseMs
                /\ granted'[v] = now /\ now' = now
<1>a. /\ run \in [Runs -> Row] /\ now \in Nat /\ desk \in [Runners -> Desk]
      /\ granted \in [Runners -> Nat]
  BY DEF DesksInvariant, DeskTypeOK, HolderInvariant, RetryInvariant, TypeOK
<1>1. ASSUME NEW r \in Runs, Claim(v, r, t)
      PROVE  /\ run[r].status = "queued" /\ now' = now
             /\ run'[r].attempt = run[r].attempt + 1
             /\ run'[r].status = "running" /\ run'[r].lease = t + LeaseMs
             /\ desk'[v].run = r /\ desk'[v].attempt = run[r].attempt + 1
             /\ desk'[v].claimed = now /\ granted'[v] = now
  <2>1. run[r].status = "queued" /\ now' = now /\ run'[r] = ClaimedRow(run[r], v, t)
        /\ granted'[v] = now
    BY <1>a, <1>1 DEF Claim, ClaimDesktop
  <2>2. /\ desk'[v].run = r /\ desk'[v].attempt = run[r].attempt + 1 /\ desk'[v].claimed = now
    BY <1>a, <1>1 DEF Claim, NextAttempt, IdleDesk
  <2> QED BY <1>a, <2>1, <2>2, RowFields, StampsAreTimes
<1>2. ASSUME HeartbeatReaches(v, t)
      PROVE  /\ desk[v].run \in Runs /\ run[desk[v].run].attempt = desk[v].attempt
             /\ run'[desk[v].run].attempt = run[desk[v].run].attempt
             /\ run'[desk[v].run].status = "running" /\ run'[desk[v].run].lease = t + LeaseMs
             /\ granted'[v] = now /\ now' = now
  <2>1. desk[v].run \in Runs
    BY <1>2 DEF HeartbeatReaches, Is, DesksInvariant, DesksAssigned
  <2>2. /\ run' = [run EXCEPT ![desk[v].run].lease = t + LeaseMs] /\ now' = now
        /\ Fenced(run[desk[v].run], v, desk[v].attempt, t)
    BY <1>2 DEF HeartbeatReaches, HeartbeatDesktop, GrantedLease
  <2>3. granted'[v] = now
    BY <1>a, <1>2 DEF HeartbeatReaches
  <2> QED BY <1>a, <2>1, <2>2, <2>3 DEF Fenced, Row
<1> QED BY <1>1, <1>2

LEMMA GrantStep ==
    ASSUME OverlapInvariant, [SystemNext]_systemVars, NEW v \in Runners
    PROVE  GrantInTable(v)' /\ GrantExpired(v)'
<1> SUFFICES ASSUME Busy(v)' PROVE GrantInTable(v)' /\ GrantExpired(v)'
  BY DEF GrantInTable, GrantExpired
<1> DEFINE r == desk'[v].run
<1>a. /\ TimersInvariant /\ DesksInvariant /\ GrantInTable(v) /\ GrantExpired(v)
      /\ RetryInvariant /\ [Next]_vars
      /\ run \in [Runs -> Row] /\ now \in Nat /\ granted[v] \in Nat /\ granted[v] <= now
      /\ LeaseMs \in Nat /\ MaxSkew \in Nat /\ desk[v] \in Desk
  BY SystemStep, SkewAssumption
     DEF OverlapInvariant, TimersInvariant, DesksInvariant, DeskTypeOK, HolderInvariant,
         RetryInvariant, TypeOK, Timed
<1>b. DesksInvariant' /\ r \in Runs /\ run' \in [Runs -> Row] /\ now' \in Nat /\ now <= now'
  <2>1. DesksInvariant'
    BY <1>a, DesksNext
  <2>2. r \in Runs /\ run' \in [Runs -> Row] /\ now' \in Nat
    BY <2>1 DEF DesksInvariant, DesksAssigned, Busy, HolderInvariant, RetryInvariant, TypeOK
  <2> QED BY <1>a, <2>1, <2>2, TimePasses
<1>1. ASSUME NEW t \in Stamps, now' = now, granted'[v] = now,
             run'[r].lease = t + LeaseMs, run'[r].status = "running",
             run'[r].attempt = desk'[v].attempt
      PROVE  GrantInTable(v)' /\ GrantExpired(v)'
  <2>1. t \in Nat /\ now <= t + MaxSkew
    BY <1>a, StampsAreTimes
  <2>2. run'[r].attempt \in Nat
    BY <1>b DEF Row
  <2> QED BY <1>a, <1>1, <2>1, <2>2 DEF GrantInTable, GrantExpired
<1>2. ASSUME NEW q \in Runs, NEW t \in Stamps, Claim(v, q, t)
      PROVE  GrantInTable(v)' /\ GrantExpired(v)'
  BY <1>1, <1>2, <1>a, GrantWritten
<1>3. ASSUME NEW t \in Stamps, HeartbeatReaches(v, t), desk'[v].run = desk[v].run,
             desk'[v].attempt = desk[v].attempt
      PROVE  GrantInTable(v)' /\ GrantExpired(v)'
  BY <1>1, <1>3, <1>a, GrantWritten
<1>4. ASSUME Busy(v), desk'[v].run = desk[v].run, desk'[v].attempt = desk[v].attempt,
             granted'[v] = granted[v]
      PROVE  GrantInTable(v)' /\ GrantExpired(v)'
  <2> DEFINE a == desk[v].attempt
  <2>1. /\ a \in Nat /\ 1 <= a /\ a <= run[r].attempt /\ run[r].attempt \in Nat
        /\ run[r] \in Row /\ run'[r] \in Row /\ run[r].lease \in Times
    <3>1. desk[v].attempt \in 1 .. MaxAttempts /\ desk[v].attempt <= run[desk[v].run].attempt
      BY <1>4, <1>a DEF DesksInvariant, DesksAssigned, Busy
    <3>2. run[r] \in Row /\ run'[r] \in Row
      BY <1>a, <1>b
    <3>3. run[r].attempt \in Nat /\ run[r].lease \in Times
      BY <3>2 DEF Row
    <3> QED BY <1>4, <3>1, <3>2, <3>3
  <2>2. a = run[r].attempt /\ run[r].lease # NULL => granted[v] + LeaseMs <= run[r].lease + MaxSkew
    BY <1>4, <1>a DEF GrantInTable, Current
  <2>3. a < run[r].attempt \/ run[r].status = "queued" => granted[v] + LeaseMs < now + 2 * MaxSkew
    BY <1>4, <1>a DEF GrantExpired
  <2> SUFFICES /\ a = run'[r].attempt /\ run'[r].lease # NULL =>
                      granted[v] + LeaseMs <= run'[r].lease + MaxSkew
               /\ a < run'[r].attempt \/ run'[r].status = "queued" =>
                      granted[v] + LeaseMs < now' + 2 * MaxSkew
    BY <1>4 DEF GrantInTable, GrantExpired, Current
  <2>4. ASSUME NEW w \in Runners, NEW t \in Stamps, ClaimDesktop(w, r, t)
        PROVE  run'[r].attempt = run[r].attempt + 1 /\ run[r].status = "queued"
    BY <1>a, <1>b, <2>4, RowFields, StampsAreTimes DEF ClaimDesktop
  <2>5. ASSUME NEW w \in Runners, NEW b \in 1 .. MaxAttempts, NEW t \in Stamps,
               HeartbeatDesktop(w, r, b, t)
        PROVE  /\ run'[r].attempt = run[r].attempt /\ run'[r].status = run[r].status
               /\ run'[r].lease = t + LeaseMs /\ now <= t + MaxSkew /\ t \in Nat
    BY <1>a, <1>b, <2>1, <2>5, StampsAreTimes DEF HeartbeatDesktop, GrantedLease, Row
  <2>6. CASE Ungranted(r)
    <3>1. run[r].status # "absent"
      BY <1>a, <1>b, <2>1 DEF RetryInvariant, AbsentIsFresh, AbsentRow
    <3>2. CASE run'[r].status = "queued" /\ run[r].lease # NULL /\ run[r].lease < now + MaxSkew
      BY <1>a, <1>b, <2>1, <2>2, <2>3, <2>6, <3>2 DEF Ungranted, Times, NULL
    <3> QED BY <1>a, <1>b, <2>1, <2>2, <2>3, <2>6, <3>1, <3>2 DEF Ungranted
  <2> HIDE DEF a, r
  <2>7. RowMoves(r)
    BY <1>a, <1>b, RowLeaseStep
  <2>8. CASE \E w \in Runners, t \in Stamps : ClaimDesktop(w, r, t)
    BY <1>a, <1>b, <2>1, <2>3, <2>4, <2>8
  <2>9. CASE \E w \in Runners, b \in 1 .. MaxAttempts, t \in Stamps : HeartbeatDesktop(w, r, b, t)
    BY <1>a, <1>b, <2>1, <2>3, <2>5, <2>9
  <2> QED BY <2>6, <2>7, <2>8, <2>9 DEF RowMoves
<1> QED BY <1>2, <1>3, <1>4, <1>a, GrantMoves

LEMMA ClaimedAfterStep ==
    ASSUME OverlapInvariant, [SystemNext]_systemVars, NEW v \in Runners, NEW w \in Runners
    PROVE  ClaimedAfter(v, w)'
<1> SUFFICES ASSUME Busy(v)', Busy(w)', desk'[v].run = desk'[w].run,
                    desk'[v].attempt < desk'[w].attempt
             PROVE  granted'[v] + LeaseMs < desk'[w].claimed + 2 * MaxSkew
  BY DEF ClaimedAfter
<1> DEFINE r == desk'[v].run
<1>a. /\ DesksInvariant /\ GrantExpired(v) /\ ClaimedAfter(v, w)
      /\ run \in [Runs -> Row] /\ desk \in [Runners -> Desk]
  BY DEF OverlapInvariant, TimersInvariant, DesksInvariant, DeskTypeOK, HolderInvariant,
         RetryInvariant, TypeOK
<1>b. /\ desk'[v].attempt \in Nat /\ desk'[w].attempt \in Nat /\ r \in Runs
      /\ run'[r].attempt \in Nat /\ desk'[w].attempt <= run'[r].attempt
      /\ v # w
  <2>1. DesksAssigned' /\ run' \in [Runs -> Row] /\ desk' \in [Runners -> Desk]
    BY <1>a, DesksNext DEF DesksInvariant, DeskTypeOK, HolderInvariant, RetryInvariant, TypeOK
  <2>2. /\ desk'[v].attempt \in 1 .. MaxAttempts /\ desk'[w].attempt \in 1 .. MaxAttempts
        /\ r \in Runs /\ desk'[w].attempt <= run'[r].attempt
    BY <2>1 DEF DesksAssigned, Busy
  <2>3. run'[r] \in Row
    BY <2>1, <2>2
  <2> QED BY <2>2, <2>3 DEF Row
<1>1. ~ \E q \in Runs, t \in Stamps : Claim(v, q, t)
  <2>1. ASSUME NEW q \in Runs, NEW t \in Stamps, Claim(v, q, t)
        PROVE  desk'[v].attempt = run'[r].attempt
    BY <1>a, <2>1, GrantWritten
  <2> QED BY <1>b, <2>1
<1>2. ASSUME NEW t \in Stamps, HeartbeatReaches(v, t), desk'[v].run = desk[v].run,
             desk'[v].attempt = desk[v].attempt
      PROVE  FALSE
  <2>1. desk'[v].attempt = run'[r].attempt
    BY <1>a, <1>2, GrantWritten
  <2> QED BY <1>b, <2>1
<1>3. /\ Busy(v) /\ desk'[v].run = desk[v].run /\ desk'[v].attempt = desk[v].attempt
      /\ granted'[v] = granted[v]
  BY <1>1, <1>2, <1>a, GrantMoves
<1>4. ASSUME NEW q \in Runs, NEW t \in Stamps, Claim(w, q, t)
      PROVE  granted'[v] + LeaseMs < desk'[w].claimed + 2 * MaxSkew
  <2>1. run[r].status = "queued" /\ desk'[w].claimed = now
    BY <1>a, <1>4, GrantWritten
  <2> QED BY <1>3, <1>a, <2>1 DEF GrantExpired
<1>5. ASSUME Busy(w), desk'[w].run = desk[w].run, desk'[w].attempt = desk[w].attempt,
             desk'[w].claimed = desk[w].claimed
      PROVE  granted'[v] + LeaseMs < desk'[w].claimed + 2 * MaxSkew
  BY <1>3, <1>5, <1>a DEF ClaimedAfter
<1> QED BY <1>4, <1>5, <1>a, GrantMoves

\* Two desktops execute the same run at the same time only for as long as
\* the bound on an overrun exceeds the lease, plus the error of two stamps,
\* for any timers, lease and skew.
THEOREM OverlapsAreShort == SystemSpec => []OverlapIsShort
<1>1. SystemInit => OverlapInvariant
  <2> SUFFICES ASSUME SystemInit PROVE OverlapInvariant
    OBVIOUS
  <2>1. \A v \in Runners : ~Busy(v)
    BY DEF SystemInit, Busy, IdleDesk
  <2> QED BY <2>1, TimersInit DEF OverlapInvariant, GrantInTable, GrantExpired, ClaimedAfter
<1>2. OverlapInvariant /\ [SystemNext]_systemVars => OverlapInvariant'
  BY TimersNext, GrantStep, ClaimedAfterStep DEF OverlapInvariant
<1>3. OverlapInvariant => OverlapIsShort
  <2> SUFFICES ASSUME OverlapInvariant, NEW v \in Runners, NEW w \in Runners,
                      Is(v, "working"), Is(w, "working"),
                      desk[v].run = desk[w].run, desk[v].attempt < desk[w].attempt
               PROVE  now + LeaseMs < desk[w].claimed + OverrunBound + 2 * MaxSkew
    BY DEF OverlapIsShort
  <2>1. granted[v] + LeaseMs < desk[w].claimed + 2 * MaxSkew
    BY DEF OverlapInvariant, ClaimedAfter, Busy, Is
  <2>2. now <= granted[v] + OverrunBound
    BY WorkIsTimed DEF OverlapInvariant
  <2>3. now \in Nat /\ granted[v] \in Nat /\ desk[w] \in Desk
    BY DEF OverlapInvariant, TimersInvariant, DesksInvariant, DeskTypeOK, HolderInvariant,
           RetryInvariant, TypeOK
  <2>4. desk[w].claimed \in Nat
    BY <2>3 DEF Desk
  <2> QED BY <2>1, <2>2, <2>3, <2>4, SkewAssumption, TimersTyped
<1> QED BY <1>1, <1>2, <1>3, PTL DEF SystemSpec

-----------------------------------------------------------------------------
(* No result while a desktop works.                                         *)

\* A run that succeeded has no lease any more, nor has one a cancellation
\* read as succeeded.
SuccessIsOver ==
    /\ \A r \in Runs : run[r].status = "succeeded" => run[r].lease = NULL
    /\ \A x \in cancelling : x.status = "succeeded" => Inert(x.run)

\* The desktop works, or the assignment that makes it work is on its way.
Assigned(w) == Is(w, "working") \/ <<w, desk[w].run, desk[w].attempt>> \in gate

Unreported(w) ==
    Assigned(w) /\ Current(w) =>
        /\ run[desk[w].run].status # "succeeded"
        /\ \A x \in cancelling : x.run = desk[w].run => x.status # "succeeded"

ResultInvariant == DesksInvariant /\ SuccessIsOver /\ \A w \in Runners : Unreported(w)

\* A cancellation that has read the row has read the status it has.
LEMMA CancellingMoves ==
    ASSUME [Next]_vars, NEW x \in cancelling', x \notin cancelling
    PROVE  x.run \in Runs /\ x.status = run[x.run].status
<1>1. ASSUME NEW c \in Cancellations, NEW r \in Runs, CancelSelect(c, r)
      PROVE  x.run \in Runs /\ x.status = run[x.run].status
  BY <1>1 DEF CancelSelect
<1>2. ASSUME NEW w \in Runners, NEW r \in Runs, RunnerStep(w, r) PROVE cancelling' = cancelling
  BY <1>2 DEF RunnerStep, ClaimDesktop, ReclaimDesktop, HeartbeatDesktop, AppendDesktopEvent,
              Complete
<1>3. ASSUME NEW p \in Replicas, TickStep(p) \/ TickAbort(p) PROVE cancelling' = cancelling
  BY <1>3 DEF TickStep, RecoverSelect, RecoverUpdate, ExpireSelect, ExpireUpdate, TickEnd, TickAbort
<1>4. ASSUME NEW g \in gate, PassGate(g) \/ FailGate(g) \/ LoseGate(g)
      PROVE  cancelling' = cancelling
  BY <1>4 DEF PassGate, FailGate, LoseGate
<1>5. ASSUME NEW y \in cancelling, CancelUpdate(y) PROVE cancelling' \subseteq cancelling
  BY <1>5 DEF CancelUpdate
<1>6. CASE \/ \E r \in Runs, t \in Stamps, window \in ClaimWindows : Dispatch(r, t, window)
           \/ \E r \in Runs : SkipDenied(r) \/ LoseDenied(r)
           \/ Clock \/ UNCHANGED vars
  BY <1>6 DEF Dispatch, SkipDenied, LoseDenied, Clock, vars
<1> QED BY <1>1, <1>2, <1>3, <1>4, <1>5, <1>6 DEF Next

\* Whatever stands in the table as succeeded is over, and so is whatever a
\* cancellation is about to write back as succeeded.
LEMMA SuccessIsOverStep ==
    ASSUME RetryInvariant, SuccessIsOver, [Next]_vars
    PROVE  SuccessIsOver'
<1>a. run \in [Runs -> Row]
      /\ cancelling \subseteq [id : Cancellations, run : Runs, status : Statuses \ {"absent"}]
  BY DEF RetryInvariant, TypeOK
<1>b. \A r \in Runs : run[r].status = "succeeded" => Inert(r)
  BY DEF SuccessIsOver, Inert
<1>1. ASSUME NEW r \in Runs, run'[r].status = "succeeded" PROVE run'[r].lease = NULL
  <2>1. ASSUME Inert(r) PROVE run'[r].lease = NULL
    <3>1. Inert(r)'
      BY <2>1, InertStep
    <3> QED BY <3>1 DEF Inert
  <2>2. ASSUME NEW w \in Runners, NEW a \in 1 .. MaxAttempts, NEW t \in Stamps,
               Complete(w, r, a, "succeeded", t)
        PROVE  run'[r].lease = NULL
    BY <1>a, <2>2, RowFields DEF Complete, Terminal
  <2>3. ASSUME NEW x \in cancelling, x.run = r, x.status = "succeeded" PROVE run'[r].lease = NULL
    BY <2>1, <2>3 DEF SuccessIsOver
  <2>4. Succeeds(r)
    BY <1>1, RowLeaseStep DEF RowMoves
  <2> QED BY <1>b, <2>1, <2>2, <2>3, <2>4 DEF Succeeds
<1>2. ASSUME NEW x \in cancelling', x.status = "succeeded" PROVE Inert(x.run)'
  <2>1. CASE x \in cancelling
    <3>1. x.run \in Runs /\ Inert(x.run)
      BY <1>a, <1>2, <2>1 DEF SuccessIsOver
    <3> QED BY <3>1, InertStep DEF Inert
  <2>2. CASE x \notin cancelling
    <3>1. x.run \in Runs /\ Inert(x.run)
      BY <1>2, <1>b, <2>2, CancellingMoves
    <3> QED BY <3>1, InertStep DEF Inert
  <2> QED BY <2>1, <2>2
<1> QED BY <1>1, <1>2 DEF SuccessIsOver

\* A row turns to "succeeded" when the desktop of its attempt reports, or
\* when a cancellation writes back what it read.
LEMMA SuccessReported ==
    ASSUME DesksInvariant, [SystemNext]_systemVars, NEW r \in Runs,
           run'[r].status = "succeeded", run[r].status # "succeeded"
    PROVE  \/ \E v \in Runners :
                /\ desk'[v].phase = "idle" /\ gate' = gate /\ Is(v, "settling")
                /\ <<v, r, run[r].attempt>> \in assigned
           \/ \E x \in cancelling : x.run = r /\ x.status = "succeeded"
<1>a. /\ run \in [Runs -> Row] /\ run[r] \in Row /\ now \in Nat /\ desk \in [Runners -> Desk]
      /\ gate \subseteq Runners \X Runs \X Nat /\ RetryInvariant
      /\ cancelling \subseteq [id : Cancellations, run : Runs, status : Statuses \ {"absent"}]
  BY DEF DesksInvariant, DeskTypeOK, HolderInvariant, RetryInvariant, TypeOK
<1>b. SkippedRow(run[r]).status # "succeeded" /\ ExpiredRow(run[r]).status # "succeeded"
      /\ \A x : RecoveredRow(run[r], x).status # "succeeded"
  <2>1. SkippedRow(run[r]).status # "succeeded"
    BY <1>a DEF SkippedRow, Row
  <2>2. ExpiredRow(run[r]).status # "succeeded"
    BY <1>a DEF ExpiredRow, Row
  <2>3. \A x : RecoveredRow(run[r], x).status # "succeeded"
    BY <1>a DEF RecoveredRow, Row
  <2> QED BY <2>1, <2>2, <2>3
<1>c. run'[r] # run[r]
  OBVIOUS
<1>1. ASSUME NEW q \in Runs, NEW t \in Stamps, NEW window \in ClaimWindows, Dispatch(q, t, window)
      PROVE  FALSE
  <2>1. CASE q = r
    <3>1. run'[r].status \in {"skipped", "queued"}
      BY <1>a, <1>1, <2>1 DEF Dispatch, AbsentRow
    <3> QED BY <3>1
  <2>2. CASE q # r
    BY <1>a, <1>c, <1>1, <2>2 DEF Dispatch
  <2> QED BY <2>1, <2>2
<1>2. CASE DenStep
  <2>1. ASSUME NEW p \in Replicas, RecoverUpdate(p) PROVE FALSE
    <3>1. PICK x \in tick[p].rows :
            run' = run \/ run' = [run EXCEPT ![x.run] = RecoveredRow(run[x.run], x)]
      BY <2>1 DEF RecoverUpdate, Earliest
    <3> QED BY <1>a, <1>b, <1>c, <3>1
  <2>2. ASSUME NEW p \in Replicas, ExpireUpdate(p) PROVE FALSE
    <3>1. PICK x \in tick[p].rows :
            run' = run \/ run' = [run EXCEPT ![x.run] = ExpiredRow(run[x.run])]
      BY <2>2 DEF ExpireUpdate, Earliest
    <3> QED BY <1>a, <1>b, <1>c, <3>1
  <2>3. ASSUME NEW q \in Runs, SkipDenied(q) PROVE FALSE
    BY <1>a, <1>b, <1>c, <2>3 DEF SkipDenied
  <2>4. CASE \/ \E q \in Runs : LoseDenied(q)
             \/ \E c \in Cancellations, q \in Runs : CancelSelect(c, q)
             \/ \E p \in Replicas : \/ \E t \in Stamps : RecoverSelect(p, t)
                                    \/ ExpireSelect(p) \/ TickEnd(p) \/ TickAbort(p)
    BY <1>c, <2>4 DEF LoseDenied, CancelSelect, RecoverSelect, ExpireSelect, TickEnd, TickAbort
  <2> QED BY <1>1, <1>2, <2>1, <2>2, <2>3, <2>4 DEF DenStep, TickStep
<1>3. ASSUME NEW v \in Runners, DeskStep(v)
      PROVE  /\ desk'[v].phase = "idle" /\ gate' = gate /\ Is(v, "settling")
             /\ <<v, r, run[r].attempt>> \in assigned
  <2>1. ASSUME NEW q \in Runs, NEW t \in Stamps, Claim(v, q, t) PROVE FALSE
    <3>1. run' = [run EXCEPT ![q] = ClaimedRow(run[q], v, t)]
      BY <2>1 DEF Claim, ClaimDesktop
    <3>2. CASE q = r
      BY <1>a, <3>1, <3>2, RowFields, StampsAreTimes
    <3>3. CASE q # r
      BY <1>a, <1>c, <3>1, <3>3
    <3> QED BY <3>2, <3>3
  <2>2. ASSUME NEW t \in Stamps, HeartbeatReaches(v, t) PROVE FALSE
    <3>1. run' = [run EXCEPT ![desk[v].run].lease = GrantedLease(t)]
      BY <2>2 DEF HeartbeatReaches, HeartbeatDesktop
    <3> QED BY <1>a, <3>1 DEF Row
  <2>3. ASSUME NEW t \in Stamps, Report(v, t)
        PROVE  /\ desk'[v].phase = "idle" /\ gate' = gate /\ Is(v, "settling")
               /\ <<v, r, run[r].attempt>> \in assigned
    <3>1. Complete(v, desk[v].run, desk[v].attempt, desk[v].result, t)
      BY <1>c, <2>3 DEF Report, vars
    <3>2. desk[v].run = r
      BY <1>a, <1>c, <3>1 DEF Complete
    <3>3. <<v, r, desk[v].attempt>> \in assigned /\ run[r].attempt = desk[v].attempt /\ gate' = gate
      BY <3>1, <3>2 DEF Complete, Fenced
    <3>4. desk'[v].phase = "idle" /\ Is(v, "settling")
      BY <1>a, <2>3 DEF Report, IdleDesk
    <3> QED BY <3>3, <3>4
  <2>4. CASE \/ GiveUpClaim(v) \/ \E t \in Stamps : HeartbeatRefused(v, t)
             \/ HeartbeatAnswered(v) \/ HeartbeatMissed(v) \/ ThreadEnds(v)
    BY <1>c, <2>4 DEF GiveUpClaim, HeartbeatRefused, HeartbeatAnswered, HeartbeatMissed,
                      ThreadEnds, vars
  <2> QED BY <1>3, <2>1, <2>2, <2>3, <2>4 DEF DeskStep
<1>4. ASSUME NEW g \in gate, Assign(g) \/ Refuse(g) PROVE FALSE
  BY <1>a, <1>b, <1>c, <1>4 DEF Assign, Refuse, PassGate, FailGate, LoseGate
<1>5. ASSUME NEW x \in cancelling, RecordCancel(x) PROVE x.run = r /\ x.status = "succeeded"
  <2>1. run' = [run EXCEPT ![x.run] = CancelledRow(run[x.run], x.status)]
    BY <1>5 DEF RecordCancel, CancelUpdate
  <2>2. x.run = r
    BY <1>a, <1>c, <2>1
  <2>3. run'[r] = CancelledRow(run[r], x.status)
    BY <1>a, <2>1, <2>2
  <2> QED BY <1>a, <2>2, <2>3 DEF CancelledRow, Row
<1>6. CASE Tock \/ UNCHANGED systemVars
  BY <1>c, <1>6 DEF Tock, Clock, systemVars, vars
<1> QED BY <1>2, <1>3, <1>4, <1>5, <1>6 DEF SystemNext

\* Only a claim brings an assignment on its way.
LEMMA AssignedMoves ==
    ASSUME DesksInvariant, [SystemNext]_systemVars, NEW w \in Runners, Assigned(w)'
    PROVE  \/ \E r \in Runs, t \in Stamps : Claim(w, r, t)
           \/ Assigned(w) /\ desk'[w].run = desk[w].run /\ desk'[w].attempt = desk[w].attempt
<1>a. DesksInvariant' /\ gate \subseteq Runners \X Runs \X Nat
  BY DesksNext DEF DesksInvariant, HolderInvariant, RetryInvariant, TypeOK
<1>1. ASSUME NEW g \in gate', g[1] = w, g \notin gate
      PROVE  \E r \in Runs, t \in Stamps : Claim(w, r, t)
  <2>1. ASSUME NEW v \in Runners, DeskStep(v)
        PROVE  \E r \in Runs, t \in Stamps : Claim(w, r, t)
    <3>1. ASSUME NEW r \in Runs, NEW t \in Stamps, Claim(v, r, t) PROVE v = w
      BY <1>1, <3>1 DEF Claim, ClaimDesktop
    <3>2. CASE \/ GiveUpClaim(v) \/ HeartbeatAnswered(v) \/ HeartbeatMissed(v) \/ ThreadEnds(v)
               \/ \E t \in Stamps : HeartbeatReaches(v, t) \/ HeartbeatRefused(v, t) \/ Report(v, t)
      BY <1>1, <3>2 DEF GiveUpClaim, HeartbeatReaches, HeartbeatDesktop, HeartbeatRefused, Report,
                        Complete, HeartbeatAnswered, HeartbeatMissed, ThreadEnds, vars
    <3> QED BY <2>1, <3>1, <3>2 DEF DeskStep
  <2>2. CASE DenStep
    BY <1>1, <2>2 DEF DenStep, Dispatch, SkipDenied, LoseDenied, CancelSelect, TickStep,
                      RecoverSelect, RecoverUpdate, ExpireSelect, ExpireUpdate, TickEnd, TickAbort
  <2>3. ASSUME NEW h \in gate, Assign(h) \/ Refuse(h) PROVE FALSE
    BY <1>1, <2>3 DEF Assign, Refuse, PassGate, FailGate, LoseGate
  <2>4. ASSUME NEW x \in cancelling, RecordCancel(x) PROVE FALSE
    BY <1>1, <2>4 DEF RecordCancel, CancelUpdate
  <2>5. CASE Tock \/ UNCHANGED systemVars
    BY <1>1, <2>5 DEF Tock, Clock, systemVars, vars
  <2> QED BY <2>1, <2>2, <2>3, <2>4, <2>5 DEF SystemNext
<1>2. desk'[w].phase \in {"claiming", "working"}
  <2>1. CASE Is(w, "working")'
    BY <2>1 DEF Is
  <2>2. CASE <<w, desk'[w].run, desk'[w].attempt>> \in gate'
    BY <1>a, <2>2 DEF DesksInvariant, GateClaimed, Is
  <2> QED BY <2>1, <2>2 DEF Assigned
<1>3. \/ \E r \in Runs, t \in Stamps : Claim(w, r, t)
      \/ /\ desk'[w].run = desk[w].run /\ desk'[w].attempt = desk[w].attempt
         /\ desk'[w].phase = desk[w].phase \/ \E g \in gate : g[1] = w /\ Assign(g)
  BY <1>2, DeskKeepsClaim
<1>4. ASSUME NEW g \in gate, g[1] = w, Assign(g) PROVE Assigned(w)
  <2>1. g = <<w, desk[w].run, desk[w].attempt>>
    BY <1>a, <1>4 DEF Assign, Holding
  <2> QED BY <2>1 DEF Assigned
<1>5. ASSUME desk'[w].phase = desk[w].phase, desk'[w].run = desk[w].run,
             desk'[w].attempt = desk[w].attempt,
             ~ \E r \in Runs, t \in Stamps : Claim(w, r, t)
      PROVE  Assigned(w)
  BY <1>1, <1>5 DEF Assigned, Is
<1> QED BY <1>3, <1>4, <1>5

LEMMA UnreportedStep ==
    ASSUME ResultInvariant, [SystemNext]_systemVars, NEW w \in Runners
    PROVE  Unreported(w)'
<1> DEFINE r == desk'[w].run
<1> SUFFICES ASSUME Assigned(w)', Current(w)'
             PROVE  /\ run'[r].status # "succeeded"
                    /\ \A x \in cancelling' : x.run = r => x.status # "succeeded"
  BY DEF Unreported
<1>a. DesksInvariant /\ SuccessIsOver /\ Unreported(w) /\ HolderInvariant /\ [Next]_vars
      /\ run \in [Runs -> Row]
  BY SystemStep DEF ResultInvariant, DesksInvariant, HolderInvariant, RetryInvariant, TypeOK
<1>1. ASSUME NEW q \in Runs, NEW t \in Stamps, Claim(w, q, t)
      PROVE  /\ run'[r].status # "succeeded"
             /\ \A x \in cancelling' : x.run = r => x.status # "succeeded"
  <2>1. q = r /\ run[r].status = "queued" /\ run'[r].status = "running"
    BY <1>a, <1>1, GrantWritten
  <2>2. cancelling' = cancelling
    BY <1>1 DEF Claim, ClaimDesktop
  <2> QED BY <1>a, <2>1, <2>2 DEF SuccessIsOver, Inert
<1>2. ASSUME Assigned(w), desk'[w].run = desk[w].run, desk'[w].attempt = desk[w].attempt
      PROVE  /\ run'[r].status # "succeeded"
             /\ \A x \in cancelling' : x.run = r => x.status # "succeeded"
  <2>1. desk[w].phase \in {"claiming", "working"}
    BY <1>a, <1>2 DEF Assigned, Is, DesksInvariant, GateClaimed
  <2>2. r \in Runs /\ desk[w].attempt <= run[r].attempt /\ desk[w].attempt \in 1 .. MaxAttempts
    BY <1>a, <1>2, <2>1 DEF DesksInvariant, DesksAssigned
  <2>3. run[r].attempt \in Nat
    BY <1>a, <2>2 DEF Row
  <2>4. run[r].attempt = desk[w].attempt
    BY <1>a, <1>2, <2>2, <2>3, AttemptGrows DEF Current
  <2>5. /\ run[r].status # "succeeded"
        /\ \A x \in cancelling : x.run = r => x.status # "succeeded"
    BY <1>a, <1>2, <2>4 DEF Unreported, Current
  <2>6. <<w, r, run[r].attempt>> \in Holders
    BY <1>a, <1>2, <2>2, <2>4 DEF Assigned, Is, Holders, DesksInvariant, DesksAssigned
  <2>7. ASSUME NEW v \in Runners, Is(v, "settling"), <<v, r, run[r].attempt>> \in assigned
        PROVE  FALSE
    <3>1. v = w
      BY <1>a, <2>6, <2>7 DEF HolderInvariant, AttemptExclusive, Holders
    <3> QED BY <2>1, <2>7, <3>1 DEF Is
  <2>8. run'[r].status # "succeeded"
    BY <1>a, <2>2, <2>5, <2>7, SuccessReported
  <2>9. \A x \in cancelling' : x.run = r => x.status # "succeeded"
    BY <1>a, <2>5, CancellingMoves
  <2> QED BY <2>8, <2>9
<1> QED BY <1>a, <1>1, <1>2, AssignedMoves

\* While a desktop executes the current attempt of a run, neither another
\* desktop's report nor a cancellation has recorded the run as succeeded.
THEOREM NoEarlyResult == SystemSpec => []NoResultWhileWorking
<1>1. SystemInit => ResultInvariant
  <2> SUFFICES ASSUME SystemInit PROVE ResultInvariant
    OBVIOUS
  <2>1. SuccessIsOver
    BY DEF SystemInit, Init, SuccessIsOver, AbsentRow
  <2>2. \A w \in Runners : ~Assigned(w)
    BY DEF SystemInit, Init, Assigned, Is, IdleDesk
  <2> QED BY <2>1, <2>2, DesksInit DEF ResultInvariant, Unreported
<1>2. ResultInvariant /\ [SystemNext]_systemVars => ResultInvariant'
  BY DesksNext, SystemStep, SuccessIsOverStep, UnreportedStep
     DEF ResultInvariant, DesksInvariant, HolderInvariant
<1>3. ResultInvariant => NoResultWhileWorking
  BY DEF ResultInvariant, NoResultWhileWorking, Unreported, Assigned, Current
<1> QED BY <1>1, <1>2, <1>3, PTL DEF SystemSpec
=============================================================================
