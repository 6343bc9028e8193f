---------------------------- MODULE RunLifecycle ----------------------------
(***************************************************************************)
(* What a run of an automation promises, without leases, clocks, sweeps or *)
(* requests: an occurrence waits for a desktop, is attempted by one holder *)
(* at a time and a bounded number of times, and once over stays over.      *)
(* AutomationRuns implements it.                                           *)
(***************************************************************************)
EXTENDS Integers

CONSTANTS Runs, Runners, NoOwner, MaxAttempts

VARIABLES
    phase,     \* of each run: absent, waiting, working or over
    tries,     \* attempts begun
    holder     \* the desktop whose attempt is in progress

vars == <<phase, tries, holder>>

\* An occurrence either waits for a desktop or, when another one is in
\* progress, is recorded as over at once.
Dispatch(r) ==
    /\ phase[r] = "absent"
    /\ \E p \in {"waiting", "over"} : phase' = [phase EXCEPT ![r] = p]
    /\ UNCHANGED <<tries, holder>>

Attempt(r, w) ==
    /\ phase[r] = "waiting" /\ tries[r] < MaxAttempts
    /\ phase' = [phase EXCEPT ![r] = "working"]
    /\ tries' = [tries EXCEPT ![r] = @ + 1]
    /\ holder' = [holder EXCEPT ![r] = w]

\* The holder disappeared, and another attempt is left.
Return(r) ==
    /\ phase[r] = "working" /\ tries[r] < MaxAttempts
    /\ phase' = [phase EXCEPT ![r] = "waiting"]
    /\ holder' = [holder EXCEPT ![r] = NoOwner]
    /\ UNCHANGED tries

Finish(r) ==
    /\ phase[r] \in {"waiting", "working"}
    /\ phase' = [phase EXCEPT ![r] = "over"]
    /\ holder' = [holder EXCEPT ![r] = NoOwner]
    /\ UNCHANGED tries

Init ==
    /\ phase = [r \in Runs |-> "absent"]
    /\ tries = [r \in Runs |-> 0]
    /\ holder = [r \in Runs |-> NoOwner]

Next ==
    \E r \in Runs :
        \/ Dispatch(r) \/ Return(r) \/ Finish(r)
        \/ \E w \in Runners : Attempt(r, w)

Spec == Init /\ [][Next]_vars
=============================================================================
