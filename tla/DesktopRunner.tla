---------------------------- MODULE DesktopRunner ----------------------------
(***************************************************************************)
(* The automation runner of the desktop's main process: the generations it *)
(* makes of the credentials the renderer hands it, the polling cycle of    *)
(* each generation, the phases of an assignment with its heartbeats, and   *)
(* the hooks that reconfigure, wake and stop it.                           *)
(*                                                                         *)
(* Source: apps/desktop/electron/automation-runner.mjs.                    *)
(*                                                                         *)
(* The process has one thread, so what runs between two awaits is one      *)
(* step: the operators below turn the runner's state into the one its next *)
(* await leaves.  Den and the local server are their answers.              *)
(***************************************************************************)
EXTENDS Integers, Sequences

CONSTANTS
    Credentials,     \* base URL and token
    NoCredential,    \* configure(null), or a credential that is not allowed here
    MissLimit,       \* heartbeatMissLimit
    MaxCalls         \* configure calls                     (bound)

ASSUME CredentialsAssumption == NoCredential \notin Credentials
ASSUME LimitsAssumption == MissLimit \in Nat \ {0} /\ MaxCalls \in Nat

VARIABLES
    runner,          \* the closure of createDesktopAutomationRunner
    wanted,          \* what the last accepted configure call asked for
    calls            \* configure calls so far

vars == <<runner, wanted, calls>>

\* Requests of an assignment that heartbeats accompany, and all its phases.
Reporting == {"user", "assistant", "usage"}
Working == Reporting \cup {"execute"}
Settling == {"terminal", "complete"}
Claiming == {"claim", "claimCommand"}
Command == {"createCommand", "completeCommand"}
ActivePhases == Working \cup Settling \cup Command
\* A request to Den is in flight; "last" is one of a retired generation.
Awaited == {"poll", "last", "completeCommand"} \cup Claiming \cup Reporting \cup Settling
Phases == {"none", "poll", "last"} \cup Claiming \cup ActivePhases

Generation == [credential : Credentials, retired : BOOLEAN, cycle : Phases,
               loop : {"awaiting", "waiting", "done"}, tries : 1 .. 2,
               misses : 0 .. MissLimit, aborted : BOOLEAN, probe : {"none", "sent", "late"}]

\* connectLoop starts at once, and its first poll is sent before it yields.
NewGeneration(c) ==
    [credential |-> c, retired |-> FALSE, cycle |-> "poll", loop |-> "awaiting",
     tries |-> 1, misses |-> 0, aborted |-> FALSE, probe |-> "none"]

Runner == [current : Nat, pending : Credentials \cup {NoCredential}, stopped : BOOLEAN,
           rejected : SUBSET Credentials, gens : Seq(Generation)]

-----------------------------------------------------------------------------
(* Generations: controller and active.controller are aborted by retire.     *)

NoGeneration == 0

IsCurrent(s, g) == ~s.stopped /\ s.current = g /\ ~s.gens[g].retired

LeaveRunning(gen) == [gen EXCEPT !.retired = TRUE]       \* mutant
\* Its signal ends the wait of the loop and aborts the thread and whatever
\* request is in flight.  Such a request fails, or its answer was already
\* on the way; no other request follows, so the answer still matters only
\* where it is a rejection, and "last" forgets which request it was.
LeaveBehind(gen) ==
    [gen EXCEPT !.retired = TRUE,
                !.cycle = IF @ \in Awaited THEN "last" ELSE @,
                !.loop = IF @ = "waiting" THEN "done" ELSE @,
                !.aborted = @ \/ gen.cycle = "execute",
                !.probe = IF @ = "sent" THEN "late" ELSE @,
                !.misses = 0, !.tries = 1]

Retire(s, g) ==
    IF s.gens[g].retired THEN s
    ELSE [s EXCEPT !.gens[g] = LeaveBehind(@),
                   !.current = IF @ = g THEN NoGeneration ELSE @]

RetireCurrent(s) == IF s.current = NoGeneration THEN s ELSE Retire(s, s.current)

Activate(s, c) ==
    LET t == RetireCurrent(s)
    IN IF c = NoCredential \/ s.stopped THEN t
       ELSE [t EXCEPT !.gens = Append(@, NewGeneration(c)), !.current = Len(t.gens) + 1]

TakePending(s) == Activate([s EXCEPT !.pending = NoCredential], s.pending)

ActivatePending(s, g) ==
    IF IsCurrent(s, g) /\ s.pending # NoCredential THEN TakePending(s) ELSE s

\* A rejection concerns the credential: it also retires a newer generation
\* that uses the same one, and drops it where it waits to be activated.  The
\* early return of a second rejection is left out: the rest repeats itself.
Holds(s, c) == s.current # NoGeneration /\ s.gens[s.current].credential = c

KeepPending(s, c) == s                   \* mutant
DropPending(s, c) == IF s.pending = c THEN [s EXCEPT !.pending = NoCredential] ELSE s

RejectCredential(s, g) ==
    LET c == s.gens[g].credential
        own == Retire([s EXCEPT !.rejected = @ \cup {c}], g)
        both == IF Holds(own, c) THEN RetireCurrent(own) ELSE own
        left == DropPending(both, c)
    IN IF Holds(s, c) /\ left.pending # NoCredential THEN TakePending(left) ELSE left

-----------------------------------------------------------------------------
(* The polling cycle (reconcile) and the loop around it (connectLoop).      *)

\* The cycle settles: a configuration that waited is activated, and a loop
\* that awaited the cycle waits or ends.
LoopGivesUp(s, g) == "done"              \* mutant
LoopAfter(s, g) == IF IsCurrent(s, g) THEN "waiting" ELSE "done"

EndCycle(s, g) ==
    LET t == ActivatePending([s EXCEPT !.gens[g].cycle = "none"], g)
    IN [t EXCEPT !.gens[g].loop = IF @ = "awaiting" THEN LoopAfter(t, g) ELSE @]

\* A request is sent by the current generation only.
Send(s, g, phase) == [s EXCEPT !.gens[g].cycle = phase, !.gens[g].tries = 1]
NextRequest(s, g, phase) == IF IsCurrent(s, g) THEN Send(s, g, phase) ELSE EndCycle(s, g)

\* The heartbeats stop: one that is in flight no longer matters to the run.
StopHeartbeats(s, g) ==
    [s EXCEPT !.gens[g].probe = IF @ = "sent" THEN "late" ELSE @,
              !.gens[g].misses = 0, !.gens[g].aborted = FALSE]

\* The assignment is over: a waiting configuration first, then the next poll.
EndAssignmentKeepsPending(s, g) ==       \* mutant
    NextRequest([s EXCEPT !.gens[g].cycle = "none", !.gens[g].tries = 1], g, "poll")
EndAssignment(s, g) ==
    NextRequest(ActivatePending([s EXCEPT !.gens[g].cycle = "none", !.gens[g].tries = 1], g),
                g, "poll")

\* The next step of an assignment; every one of them fails at once when the
\* generation has retired, down to the end of the assignment.
Proceed(s, g, phase) ==
    LET t == IF phase \in Settling THEN StopHeartbeats(s, g) ELSE s
    IN IF IsCurrent(s, g) THEN Send(t, g, phase) ELSE EndAssignment(StopHeartbeats(t, g), g)

StartAssignment(s, g) == Proceed(s, g, "user")

\* What a request that failed leads to, by the step that sent it: terminal
\* event and completion are sent once more, and the first never skips the
\* second.
Retries(s, g) ==
    s.gens[g].cycle \in Settling /\ s.gens[g].tries = 1 /\ IsCurrent(s, g)

FailRequest(s, g) ==
    IF Retries(s, g) THEN [s EXCEPT !.gens[g].tries = 2]
    ELSE CASE s.gens[g].cycle \in Reporting -> Proceed(s, g, "terminal")
           [] s.gens[g].cycle = "terminal" -> Proceed(s, g, "complete")
           [] s.gens[g].cycle = "complete" -> EndAssignment(s, g)
           [] OTHER -> EndCycle(s, g)

-----------------------------------------------------------------------------
(* Answers.                                                                 *)

Step(s) == runner' = s /\ UNCHANGED <<wanted, calls>>
In(g, phase) == runner.gens[g].cycle = phase

\* An item of work, or nothing to do.
PollAnswered(g) ==
    /\ In(g, "poll")
    /\ \/ \E phase \in Claiming : Step(NextRequest(runner, g, phase))
       \/ Step(EndCycle(runner, g))

\* The claim brings an assignment, or none.
ClaimAnswered(g) ==
    /\ In(g, "claim")
    /\ Step(StartAssignment(runner, g)) \/ Step(EndCycle(runner, g))

CommandClaimed(g) ==
    /\ In(g, "claimCommand")
    /\ Step([runner EXCEPT !.gens[g].cycle = "createCommand"])

\* Another desktop was faster (409), or no assignment came.
CommandLost(g) ==
    /\ In(g, "claimCommand")
    /\ Step(NextRequest(runner, g, "poll")) \/ Step(EndCycle(runner, g))

\* The local server created the session, or did not: both are reported.
CommandCreated(g) ==
    /\ In(g, "createCommand")
    /\ Step(NextRequest(runner, g, "completeCommand"))

CommandCompleted(g) ==
    /\ In(g, "completeCommand")
    /\ Step(EndAssignment(runner, g))

\* The user event is stored: the thread runs, unless the run was aborted.
UserEventStored(g) ==
    /\ In(g, "user")
    /\ IF runner.gens[g].aborted THEN Step(Proceed(runner, g, "terminal"))
       ELSE Step([runner EXCEPT !.gens[g].cycle = "execute"])

\* The thread answered, with a text or with completed tools alone.
ThreadFinished(g) ==
    /\ In(g, "execute") /\ ~runner.gens[g].aborted
    /\ \E phase \in {"assistant", "usage"} : Step(Proceed(runner, g, phase))

\* It failed, ran out of time, or its signal was aborted.
ThreadFailed(g) ==
    /\ In(g, "execute")
    /\ Step(Proceed(runner, g, "terminal"))

ReportStored(g) ==
    \/ In(g, "assistant") /\ Step(Proceed(runner, g, "usage"))
    \/ In(g, "usage") /\ Step(Proceed(runner, g, "terminal"))
    \/ In(g, "terminal") /\ Step(Proceed(runner, g, "complete"))
    \/ In(g, "complete") /\ Step(EndAssignment(runner, g))

\* A timeout, a lost connection, an error status, an aborted signal.
RequestFailed(g) ==
    /\ runner.gens[g].cycle \in Awaited
    /\ Step(FailRequest(runner, g))

\* 401 or 403: the credential is rejected, then the request fails.
RequestUnauthorized(g) ==
    /\ runner.gens[g].cycle \in Awaited
    /\ Step(FailRequest(RejectCredential(runner, g), g))

Answer(g) ==
    \/ PollAnswered(g) \/ ClaimAnswered(g)
    \/ CommandClaimed(g) \/ CommandLost(g) \/ CommandCreated(g) \/ CommandCompleted(g)
    \/ UserEventStored(g) \/ ThreadFinished(g) \/ ThreadFailed(g) \/ ReportStored(g)
    \/ RequestFailed(g) \/ RequestUnauthorized(g)

-----------------------------------------------------------------------------
(* Heartbeats: the next one is armed when the last has settled.             *)

HeartbeatSent(g) ==
    /\ runner.gens[g].cycle \in Working /\ ~runner.gens[g].aborted
    /\ runner.gens[g].probe = "none" /\ IsCurrent(runner, g)
    /\ Step([runner EXCEPT !.gens[g].probe = "sent"])

HeartbeatAccepted(g) ==
    /\ runner.gens[g].probe = "sent"
    /\ Step([runner EXCEPT !.gens[g].probe = "none", !.gens[g].misses = 0])

HeartbeatCancels(g) ==
    /\ runner.gens[g].probe = "sent"
    /\ Step([runner EXCEPT !.gens[g].probe = "none", !.gens[g].misses = 0,
                           !.gens[g].aborted = TRUE])

OutOfMissesLater(misses) == misses > MissLimit       \* mutant
OutOfMisses(misses) == misses >= MissLimit

HeartbeatMissed(g) ==
    /\ runner.gens[g].probe = "sent"
    /\ Step([runner EXCEPT !.gens[g].probe = "none", !.gens[g].misses = @ + 1,
                           !.gens[g].aborted = @ \/ OutOfMisses(runner.gens[g].misses + 1)])

HeartbeatLate(g) ==
    /\ runner.gens[g].probe = "late"
    /\ Step([runner EXCEPT !.gens[g].probe = "none"])

HeartbeatUnauthorized(g) ==
    /\ runner.gens[g].probe # "none"
    /\ Step(RejectCredential([runner EXCEPT !.gens[g].probe = "none"], g))

HeartbeatSettles(g) ==
    \/ HeartbeatAccepted(g) \/ HeartbeatCancels(g) \/ HeartbeatMissed(g)
    \/ HeartbeatLate(g) \/ HeartbeatUnauthorized(g)

-----------------------------------------------------------------------------
(* The loop's timer, and the calls of the main process.                     *)

StartCycle(s, g) == IF s.gens[g].cycle = "none" THEN Send(s, g, "poll") ELSE s

LoopTurn(g) ==
    /\ runner.gens[g].loop = "waiting"
    /\ Step([StartCycle(runner, g) EXCEPT !.gens[g].loop = "awaiting"])

Wake ==
    /\ runner.current # NoGeneration
    /\ runner.gens[runner.current].cycle = "none"
    /\ Step(StartCycle(runner, runner.current))

\* A rotation waits for the assignment of the current generation.
BusyOnceActive(s) ==                     \* mutant
    s.current # NoGeneration /\ s.gens[s.current].cycle \in ActivePhases
Busy(s) ==
    s.current # NoGeneration /\ s.gens[s.current].cycle \in ActivePhases \cup Claiming

Configured(s, c) ==
    IF c # NoCredential /\ Holds(s, c) THEN [s EXCEPT !.pending = NoCredential]
    ELSE IF c # NoCredential /\ Busy(s) THEN [s EXCEPT !.pending = c]
    ELSE Activate([s EXCEPT !.pending = NoCredential], c)

Configure(c) ==
    /\ calls < MaxCalls
    /\ calls' = calls + 1
    /\ IF c \in runner.rejected THEN UNCHANGED <<runner, wanted>>
       ELSE runner' = Configured(runner, c) /\ wanted' = c

Stop ==
    /\ ~runner.stopped
    /\ Step(RetireCurrent([runner EXCEPT !.stopped = TRUE, !.pending = NoCredential]))

-----------------------------------------------------------------------------
Init ==
    /\ runner = [current |-> NoGeneration, pending |-> NoCredential, stopped |-> FALSE,
                 rejected |-> {}, gens |-> <<>>]
    /\ wanted = NoCredential
    /\ calls = 0

Next ==
    \/ \E g \in DOMAIN runner.gens :
         Answer(g) \/ HeartbeatSent(g) \/ HeartbeatSettles(g) \/ LoopTurn(g)
    \/ \E c \in Credentials \cup {NoCredential} : Configure(c)
    \/ Wake
    \/ Stop

Spec == Init /\ [][Next]_vars

\* Every request has a timeout, the thread a deadline, and the loop's wait a
\* timer.  The creation of a thread has none of its own: that the local
\* server answers it is an assumption.  So is that a desktop which claims
\* remote sessions again and again does not lose every one to another.
Fairness ==
    \A g \in 1 .. MaxCalls :
        /\ WF_vars(g \in DOMAIN runner.gens /\ Answer(g))
        /\ SF_vars(g \in DOMAIN runner.gens /\ CommandClaimed(g))
        /\ WF_vars(g \in DOMAIN runner.gens /\ HeartbeatSettles(g))
        /\ WF_vars(g \in DOMAIN runner.gens /\ LoopTurn(g))
FairSpec == Spec /\ Fairness

-----------------------------------------------------------------------------
(* Properties.                                                              *)

\* The closure keeps its shape: current names a generation, and each
\* generation its credential, cycle, loop and heartbeat.
TypeOK ==
    /\ runner \in Runner /\ runner.current \in 0 .. Len(runner.gens)
    /\ wanted \in Credentials \cup {NoCredential}
    /\ calls \in Nat

\* A credential Den has rejected is neither in use nor waiting to be used,
\* whichever generation the rejection reached first.
RejectedStaysOut ==
    /\ runner.pending \notin runner.rejected
    /\ runner.current # NoGeneration =>
         runner.gens[runner.current].credential \notin runner.rejected

\* Rotation, rejection and shutdown never leave two assignments executing:
\* one that has not been aborted belongs to the current generation.
OneExecution ==
    \A g \in DOMAIN runner.gens :
        runner.gens[g].cycle \in Working /\ ~runner.gens[g].aborted => runner.current = g

\* A claim in flight or an assignment is given up only when its credential
\* is rejected, the user signs out, or the desktop stops, never for a new
\* credential.
AssignmentSurvivesRotation ==
    [][\A g \in DOMAIN runner.gens :
         /\ runner.gens[g].cycle \in Claiming \cup ActivePhases
         /\ runner'.gens[g].cycle # "none"
         /\ ~runner.gens[g].retired /\ runner'.gens[g].retired
         => \/ runner'.rejected # runner.rejected
            \/ runner'.stopped \/ wanted' = NoCredential]_vars

\* The runner settles on the credential it was last given: a rotation that
\* waited for an assignment is never forgotten.
LatestConfigurationWins ==
    <>[](\/ runner.stopped \/ wanted \in runner.rejected
         \/ wanted = NoCredential /\ runner.current = NoGeneration
         \/ wanted # NoCredential /\ Holds(runner, wanted))

\* A generation in use polls again and again: no assignment, whatever its
\* requests answer, keeps the runner from its next poll for ever.
RunnerKeepsPolling ==
    \A g \in 1 .. MaxCalls :
        []<>(runner.current # g \/ runner.gens[g].cycle = "poll")
=============================================================================
