---------------------- MODULE AutomationScheduleProofs ----------------------
(***************************************************************************)
(* Theorems about AutomationSchedule, for every value of its constants.    *)
(***************************************************************************)
EXTENDS AutomationSchedule, WellFoundedInduction, TLAPS

\* The search of nextAutomationOccurrence finds the least later occurrence,
\* and answers NULL only when there is none.
LEMMA NextOccurrenceIsLeast ==
    ASSUME NEW S \in SUBSET Nat, NEW after \in Int
    PROVE  /\ NextOccurrence(S, after) \in Times
           /\ NextOccurrence(S, after) = NULL => \A d \in S : d <= after
           /\ NextOccurrence(S, after) # NULL =>
                /\ NextOccurrence(S, after) \in S
                /\ NextOccurrence(S, after) > after
                /\ \A d \in S : d > after => NextOccurrence(S, after) <= d
<1> DEFINE later == {d \in S : d > after}
<1>1. CASE later = {}
  BY <1>1 DEF NextOccurrence, NULL, Times
<1>2. CASE later # {}
  <2> DEFINE before == {ss \in Nat \X Nat : ss[1] < ss[2]}
  <2>0. IsWellFoundedOn(before, Nat)
    BY NatLessThanWellFounded, Zenon DEF OpToRel
  <2>1. PICK x \in later : \A y \in later : ~ (<<y, x>> \in before)
    BY <1>2, <2>0, WFMin
  <2>2. \A y \in later : x <= y
    <3> SUFFICES ASSUME NEW y \in later PROVE x <= y
      OBVIOUS
    <3>1. x \in Nat /\ y \in Nat /\ ~ (<<y, x>> \in before)
      BY <2>1
    <3> QED BY <3>1
  <2>3. NextOccurrence(S, after) = CHOOSE d \in later : \A e \in later : d <= e
    BY <1>2 DEF NextOccurrence
  <2>4. NextOccurrence(S, after) \in later /\ \A e \in later : NextOccurrence(S, after) <= e
    BY <2>2, <2>3
  <2>5. /\ NextOccurrence(S, after) \in S /\ NextOccurrence(S, after) > after
        /\ \A d \in S : d > after => NextOccurrence(S, after) <= d
    BY <2>4
  <2>6. NextOccurrence(S, after) \in Nat
    BY <2>5
  <2>7. NextOccurrence(S, after) # NULL
    BY <2>6 DEF NULL
  <2> QED BY <2>5, <2>6, <2>7 DEF Times
<1> QED BY <1>1, <1>2

LEMMA NextOccurrenceTyped ==
    ASSUME NEW x \in Item \cup {NoItem}, NEW t \in Nat
    PROVE  NextOccurrence(x.schedule, t) \in Times /\ NextDue(x, t) \in Times
<1>1. x.schedule \in SUBSET Nat /\ x.due \in Int
  <2>1. CASE x \in Item
    <3>1. x.schedule \in Schedules /\ x.due \in Times
      BY <2>1 DEF Item
    <3>2. x.schedule \in SUBSET Nat
      BY <3>1, SchedulesAssumption
    <3>3. x.due \in Int
      BY <3>1 DEF Times, NULL
    <3> QED BY <3>2, <3>3
  <2>2. CASE x = NoItem
    BY <2>2 DEF NoItem, NULL
  <2> QED BY <2>1, <2>2
<1>2. t \in Int
  OBVIOUS
<1> QED BY <1>1, <1>2, NextOccurrenceIsLeast DEF NextDue

\* desktopClaimDeadline leaves at least the minimum window, and reaches past
\* the next occurrence only where the minimum window does.
LEMMA ClaimDeadlineBounds ==
    ASSUME NEW t \in Nat, NEW window \in Nat, NEW next \in Times
    PROVE  /\ ClaimDeadline(t, window, next) \in Nat
           /\ ClaimDeadline(t, window, next) >= t + Least(window, MinWindow)
           /\ (next # NULL /\ t + Least(window, MinWindow) <= next)
                => ClaimDeadline(t, window, next) <= next
BY ScheduleBounds DEF ClaimDeadline, Least, Greatest, Times, NULL

LEMMA ClaimedRowTyped ==
    ASSUME NEW d \in Times, NEW v \in Nat, NEW deadline \in Nat
    PROVE  ClaimedRow(d, v, deadline) \in Row
BY DEF ClaimedRow, Row, Times

-----------------------------------------------------------------------------
LEMMA ScheduleTypeInit == Init => TypeOK
<1> SUFFICES ASSUME Init PROVE TypeOK
  OBVIOUS
<1>1. PICK S \in Schedules :
        auto = [state |-> "active", rev |-> 1, schedule |-> S, due |-> NextOccurrence(S, 0)]
  BY DEF Init
<1>2. NextOccurrence(S, 0) \in Times
  BY SchedulesAssumption, NextOccurrenceIsLeast
<1>3. auto \in AutomationRow
  BY <1>1, <1>2 DEF AutomationRow, States
<1>4. run \in [Runs -> Row]
  BY DEF Init, AbsentRow, Row, Times
<1>5. tick \in [Replicas -> [phase : {"idle", "claim", "deny"}, at : Nat,
                             item : Item \cup {NoItem}, run : Runs \cup {NoRun}]]
  BY DEF Init, IdleTick
<1> QED BY <1>3, <1>4, <1>5 DEF Init, TypeOK

LEMMA ScheduleTypeNext == TypeOK /\ [Next]_vars => TypeOK'
<1> SUFFICES ASSUME TypeOK, [Next]_vars PROVE TypeOK'
  OBVIOUS
<1> DEFINE Ticks == [phase : {"idle", "claim", "deny"}, at : Nat,
                     item : Item \cup {NoItem}, run : Runs \cup {NoRun}]
<1>a. /\ now \in Nat /\ script \in Kinds /\ auto \in AutomationRow /\ run \in [Runs -> Row]
      /\ tick \in [Replicas -> Ticks] /\ pending \subseteq Request
      /\ attention \subseteq Nat /\ requests \subseteq Requests
      /\ artifact \subseteq {"active", "needs_attention"} /\ crashes \in Nat
  BY DEF TypeOK
<1>b. ReadItem \in Item /\ auto.rev \in Nat
  BY <1>a DEF ReadItem, Item, AutomationRow
<1>c. IdleTick \in Ticks
  BY DEF IdleTick
<1>d. ASSUME NEW v \in Nat PROVE Marked(auto, v) \in AutomationRow
  BY <1>a DEF Marked, AutomationRow, States, Times
<1> HIDE DEF Ticks
<1>1. ASSUME NEW p \in Replicas, TickList(p) PROVE TypeOK'
  <2>1. [phase |-> "claim", at |-> now, item |-> ReadItem, run |-> NoRun] \in Ticks
    BY <1>a, <1>b DEF Ticks
  <2>2. tick' \in [Replicas -> Ticks]
    BY <1>1, <1>a, <2>1 DEF TickList
  <2> QED BY <1>1, <1>a, <2>2 DEF TickList, TypeOK, Ticks
<1>2. ASSUME NEW p \in Replicas, TickDrop(p) \/ TickAbort(p) PROVE TypeOK'
  <2>1. tick' \in [Replicas -> Ticks]
    BY <1>2, <1>a, <1>c DEF TickDrop, TickAbort
  <2>2. CASE TickDrop(p)
    BY <2>2, <1>a, <2>1 DEF TickDrop, TypeOK, Ticks
  <2>3. CASE TickAbort(p)
    BY <2>3, <1>a, <2>1 DEF TickAbort, TypeOK, Ticks
  <2> QED BY <1>2, <2>2, <2>3
<1>3. ASSUME NEW p \in Replicas, NEW r \in Runs, NEW refused \in BOOLEAN,
             TickClaim(p, r, refused)
      PROVE  TypeOK'
  <2> DEFINE item == tick[p].item
             next == NextDue(item, tick[p].at)
  <2>1. item \in Item \cup {NoItem} /\ tick[p].at \in Nat
    BY <1>a DEF Ticks
  <2>2. next \in Times
    BY <2>1, NextOccurrenceTyped
  <2>3. item.due \in Times /\ item.rev \in Nat
    BY <2>1 DEF Item, NoItem, Times
  <2>4. ClaimDeadline(tick[p].at, Window, next) \in Nat
    BY <2>1, <2>2, ScheduleBounds, ClaimDeadlineBounds
  <2>5. ClaimedRow(item.due, item.rev, ClaimDeadline(tick[p].at, Window, next)) \in Row
    BY <2>3, <2>4, ClaimedRowTyped
  <2>6. run' \in [Runs -> Row]
    BY <1>3, <1>a, <2>5 DEF TickClaim
  <2>7. auto' \in AutomationRow
    BY <1>3, <1>a, <2>2 DEF TickClaim, AutomationRow
  <2>8. [tick[p] EXCEPT !.phase = "deny", !.run = r] \in Ticks
    BY <1>a DEF Ticks
  <2>9. tick' \in [Replicas -> Ticks]
    BY <1>3, <1>a, <1>c, <2>8 DEF TickClaim
  <2> QED BY <1>3, <1>a, <2>6, <2>7, <2>9 DEF TickClaim, TypeOK, Ticks
<1>4. ASSUME NEW p \in Replicas, TickDeny(p) PROVE TypeOK'
  <2>1. tick[p].item.rev \in Nat
    BY <1>a DEF Ticks, Item, NoItem
  <2>2. \A q \in Runs : SkippedRow(run[q]) \in Row
    BY <1>a DEF SkippedRow, Row
  <2>3. run' \in [Runs -> Row]
    BY <1>4, <1>a, <2>2 DEF TickDeny
  <2>4. tick' \in [Replicas -> Ticks]
    BY <1>4, <1>a, <1>c DEF TickDeny
  <2> QED BY <1>4, <1>a, <2>1, <2>3, <2>4 DEF TickDeny, TypeOK, Ticks
<1>5. ASSUME Refuse PROVE TypeOK'
  BY <1>5, <1>a, <1>b DEF Refuse, TypeOK, Ticks
<1>6. ASSUME NEW v \in attention, MarkNeedsAttention(v) PROVE TypeOK'
  BY <1>6, <1>a, <1>d DEF MarkNeedsAttention, TypeOK, Ticks
<1>7. ASSUME NEW c \in Requests, RunNowRead(c) PROVE TypeOK'
  <2>1. \A op \in {"run", "refuse"} :
          [id |-> c, op |-> op, item |-> ReadItem, target |-> "active", at |-> now] \in Request
    BY <1>a, <1>b DEF Request, States
  <2>2. pending' \subseteq Request
    BY <1>7, <1>a, <2>1 DEF RunNowRead
  <2> QED BY <1>7, <1>a, <2>2 DEF RunNowRead, TypeOK, Ticks
<1>8. ASSUME NEW c \in Requests, NEW target \in {"active", "inactive", "archived"},
             SetStateRead(c, target)
      PROVE  TypeOK'
  <2>1. [id |-> c, op |-> "set", item |-> ReadItem, target |-> target, at |-> now] \in Request
    BY <1>a, <1>b DEF Request, States
  <2> QED BY <1>8, <1>a, <2>1 DEF SetStateRead, TypeOK, Ticks
<1>9. ASSUME NEW c \in Requests, NEW S \in Schedules, Update(c, S) PROVE TypeOK'
  <2>1. NextOccurrence(S, now) \in Times
    BY <1>a, SchedulesAssumption, NextOccurrenceIsLeast
  <2>2. auto' \in AutomationRow
    BY <1>9, <1>b, <2>1 DEF Update, AutomationRow, States
  <2> QED BY <1>9, <1>a, <2>2 DEF Update, TypeOK, Ticks
<1>10. ASSUME NEW x \in pending, NEW r \in Runs, RunNowClaim(x, r) PROVE TypeOK'
  <2>1. x.item.due \in Times /\ x.item.rev \in Nat
    BY <1>a DEF Request, Item
  <2>2. ClaimDeadline(now, MinWindow, x.item.due) \in Nat
    BY <1>a, <2>1, ScheduleBounds, ClaimDeadlineBounds
  <2>3. ClaimedRow(NULL, x.item.rev, ClaimDeadline(now, MinWindow, x.item.due)) \in Row
    BY <2>1, <2>2, ClaimedRowTyped DEF Times
  <2>4. run' \in [Runs -> Row]
    BY <1>10, <1>a, <2>3 DEF RunNowClaim
  <2>5. auto' \in AutomationRow
    BY <1>10, <1>a, <2>1 DEF RunNowClaim, AutomationRow
  <2> QED BY <1>10, <1>a, <2>4, <2>5 DEF RunNowClaim, TypeOK, Ticks
<1>11. ASSUME NEW x \in pending, NEW r \in Runs, RunNowRecord(x, r) PROVE TypeOK'
  <2>1. [AbsentRow EXCEPT !.status = "skipped", !.rev = auto.rev] \in Row
    BY <1>b DEF AbsentRow, Row, Times
  <2>2. run' \in [Runs -> Row]
    BY <1>11, <1>a, <2>1 DEF RunNowRecord
  <2> QED BY <1>11, <1>a, <2>2 DEF RunNowRecord, TypeOK, Ticks
<1>12. ASSUME NEW x \in pending, RunNowRefuse(x) PROVE TypeOK'
  <2>1. x.item.rev \in Nat /\ [x EXCEPT !.op = "record"] \in Request
    BY <1>a DEF Request, Item
  <2> QED BY <1>12, <1>a, <1>d, <2>1 DEF RunNowRefuse, TypeOK, Ticks
<1>13. ASSUME NEW x \in pending, SetStateWrite(x) PROVE TypeOK'
  <2>1. x.item \in Item /\ x.at \in Nat /\ x.target \in States
    BY <1>a DEF Request, States
  <2>2. NextOccurrence(x.item.schedule, x.at) \in Times
    BY <2>1, NextOccurrenceTyped
  <2>3. auto' \in AutomationRow
    BY <1>13, <1>a, <2>1, <2>2 DEF SetStateWrite, AutomationRow, Times
  <2> QED BY <1>13, <1>a, <2>3 DEF SetStateWrite, TypeOK, Ticks
<1>14. ASSUME NEW r \in Runs, RunStep(r) PROVE TypeOK'
  <2>1. run' \in [Runs -> Row]
    BY <1>14, <1>a DEF RunStep, RunStart, RunRequeue, RunExpire, RunRefused, RunEnd, Row
  <2>2. run[r].rev \in Nat
    BY <1>a DEF Row
  <2>3. attention' \subseteq Nat /\ artifact' \subseteq {"active", "needs_attention"}
    BY <1>14, <1>a, <2>2 DEF RunStep, RunStart, RunRequeue, RunExpire, RunRefused, RunEnd
  <2>4. UNCHANGED <<now, script, auto, tick, requests, pending, crashes>>
    BY <1>14 DEF RunStep, RunStart, RunRequeue, RunExpire, RunRefused, RunEnd
  <2> QED BY <1>a, <2>1, <2>3, <2>4 DEF TypeOK, Ticks
<1>15. ASSUME NEW s \in artifact, ArtifactWrite(s) PROVE TypeOK'
  <2>1. auto' \in AutomationRow
    BY <1>15, <1>a DEF ArtifactWrite, AutomationRow, States
  <2> QED BY <1>15, <1>a, <2>1 DEF ArtifactWrite, TypeOK, Ticks
<1>16. CASE Clock
  BY <1>16, <1>a DEF Clock, TypeOK, Ticks
<1>17. CASE UNCHANGED vars
  BY <1>17, <1>a DEF vars, TypeOK, Ticks
<1> QED
  BY <1>1, <1>2, <1>3, <1>4, <1>5, <1>6, <1>7, <1>8, <1>9, <1>10, <1>11, <1>12, <1>13, <1>14,
     <1>15, <1>16, <1>17 DEF Next, TickStep, UserRead, UserWrite

\* The automation row, its runs and every pending handler keep their types:
\* in particular the next due time that ticks, edits and manual runs write
\* is always an instant or NULL.
THEOREM ScheduleTypeCorrect == Spec => []TypeOK
<1>1. Init => TypeOK
  BY ScheduleTypeInit
<1>2. TypeOK /\ [Next]_vars => TypeOK'
  BY ScheduleTypeNext
<1> QED BY <1>1, <1>2, PTL DEF Spec

-----------------------------------------------------------------------------
(* Dispatched once.                                                         *)

\* A row nobody inserted has no occurrence.
AbsentHasNoSlot == \A r \in Runs : run[r].status = "absent" => run[r].scheduledFor = NULL

OnceInvariant == TypeOK /\ AbsentHasNoSlot /\ OccurrenceOnce

\* Only the claim of a tick gives a row its occurrence.
LEMMA SlotStep ==
    ASSUME OnceInvariant, [Next]_vars
    PROVE  \/ \E p \in Replicas, r \in Runs, refused \in BOOLEAN : TickClaim(p, r, refused)
           \/ /\ \A r \in Runs : run'[r].scheduledFor = run[r].scheduledFor
              /\ AbsentHasNoSlot'
<1> DEFINE Kept == (\A r \in Runs : run'[r].scheduledFor = run[r].scheduledFor)
                   /\ AbsentHasNoSlot'
<1>a. run \in [Runs -> Row] /\ AbsentHasNoSlot
  BY DEF OnceInvariant, TypeOK
<1>1. ASSUME run' = run PROVE Kept
  BY <1>1, <1>a DEF AbsentHasNoSlot
<1>2. ASSUME NEW p \in Replicas, TickList(p) \/ TickDrop(p) \/ TickAbort(p) PROVE Kept
  BY <1>1, <1>2 DEF TickList, TickDrop, TickAbort
<1>3. ASSUME NEW p \in Replicas, TickDeny(p) PROVE Kept
  BY <1>3, <1>a DEF TickDeny, SkippedRow, AbsentHasNoSlot, Row
<1>4. ASSUME \/ Refuse
             \/ \E v \in attention : MarkNeedsAttention(v)
             \/ \E c \in Requests : UserRead(c)
             \/ \E x \in pending : RunNowRefuse(x) \/ SetStateWrite(x)
             \/ \E s \in artifact : ArtifactWrite(s)
             \/ Clock
             \/ UNCHANGED vars
      PROVE  Kept
  BY <1>1, <1>4 DEF Refuse, MarkNeedsAttention, UserRead, RunNowRead, SetStateRead, Update,
                    RunNowRefuse, SetStateWrite, ArtifactWrite, Clock, vars
<1>5. ASSUME NEW x \in pending, NEW r \in Runs, RunNowClaim(x, r) PROVE Kept
  <2>1. CASE run' = run
    BY <1>1, <2>1
  <2>2. CASE run' = [run EXCEPT ![r] = ClaimedRow(NULL, x.item.rev,
                                            ClaimDeadline(now, MinWindow, x.item.due))]
    <3>1. run[r].scheduledFor = NULL
      BY <1>5, <1>a DEF RunNowClaim, Fresh, AbsentHasNoSlot
    <3>2. run'[r].scheduledFor = NULL /\ \A q \in Runs \ {r} : run'[q] = run[q]
      BY <2>2, <1>a DEF ClaimedRow
    <3> QED BY <3>1, <3>2, <1>a DEF AbsentHasNoSlot
  <2> QED BY <1>5, <2>1, <2>2 DEF RunNowClaim
<1>6. ASSUME NEW x \in pending, NEW r \in Runs, RunNowRecord(x, r) PROVE Kept
  <2>1. run[r].scheduledFor = NULL
    BY <1>6, <1>a DEF RunNowRecord, Fresh, AbsentHasNoSlot
  <2>2. CASE run' = run
    BY <1>1, <2>2
  <2>3. CASE run' = [run EXCEPT ![r] = [AbsentRow EXCEPT !.status = "skipped", !.rev = auto.rev]]
    BY <2>1, <2>3, <1>a DEF AbsentRow, AbsentHasNoSlot
  <2> QED BY <1>6, <2>2, <2>3 DEF RunNowRecord
<1>7. ASSUME NEW r \in Runs, RunStep(r) PROVE Kept
  BY <1>7, <1>a DEF RunStep, RunStart, RunRequeue, RunExpire, RunRefused, RunEnd,
                    AbsentHasNoSlot, Row
<1> QED
  BY <1>2, <1>3, <1>4, <1>5, <1>6, <1>7 DEF Next, TickStep, UserWrite

LEMMA OnceInit == Init => OnceInvariant
<1> SUFFICES ASSUME Init PROVE OnceInvariant
  OBVIOUS
<1>1. TypeOK
  BY ScheduleTypeInit
<1>2. \A r \in Runs : run[r].scheduledFor = NULL
  BY DEF Init, AbsentRow
<1> QED BY <1>1, <1>2 DEF OnceInvariant, AbsentHasNoSlot, OccurrenceOnce

LEMMA OnceNext == OnceInvariant /\ [Next]_vars => OnceInvariant'
<1> SUFFICES ASSUME OnceInvariant, [Next]_vars PROVE OnceInvariant'
  OBVIOUS
<1>1. TypeOK'
  BY ScheduleTypeNext DEF OnceInvariant
<1>2. ASSUME NEW p \in Replicas, NEW r \in Runs, NEW refused \in BOOLEAN,
             TickClaim(p, r, refused)
      PROVE  AbsentHasNoSlot' /\ OccurrenceOnce'
  <2>1. /\ run \in [Runs -> Row]
        /\ run'[r].scheduledFor = tick[p].item.due /\ run'[r].status # "absent"
        /\ \A q \in Runs \ {r} : run'[q] = run[q]
    BY <1>2 DEF TickClaim, ClaimedRow, OnceInvariant, TypeOK
  <2>2. AbsentHasNoSlot'
    BY <2>1 DEF OnceInvariant, AbsentHasNoSlot
  <2>3. ASSUME NEW q \in Runs \ {r}, run[q].scheduledFor # NULL
        PROVE  run[q].scheduledFor # tick[p].item.due
    BY <1>2, <2>3 DEF TickClaim, Duplicate, OnceInvariant, AbsentHasNoSlot
  <2>4. OccurrenceOnce'
    BY <2>1, <2>3 DEF OnceInvariant, OccurrenceOnce
  <2> QED BY <2>2, <2>4
<1>3. ASSUME \A r \in Runs : run'[r].scheduledFor = run[r].scheduledFor
      PROVE  OccurrenceOnce'
  BY <1>3 DEF OnceInvariant, OccurrenceOnce
<1> QED BY <1>1, <1>2, <1>3, SlotStep DEF OnceInvariant

\* No occurrence is dispatched twice: the duplicate check inside the claim
\* transaction suffices, whatever stale next due times are written.
THEOREM OccurrencesDispatchedOnce == Spec => []OccurrenceOnce
<1>1. Init => OnceInvariant
  BY OnceInit
<1>2. OnceInvariant /\ [Next]_vars => OnceInvariant'
  BY OnceNext
<1>3. OnceInvariant => OccurrenceOnce
  BY DEF OnceInvariant
<1> QED BY <1>1, <1>2, <1>3, PTL DEF Spec

-----------------------------------------------------------------------------
(* Refusals.                                                                *)

RefusalInvariant == TypeOK /\ (~ script => artifact = {})

\* What an automation executes is fixed when it is created.
LEMMA ScriptIsFixed == [Next]_vars => script' = script
<1> SUFFICES ASSUME [Next]_vars PROVE script' = script
  OBVIOUS
<1>1. ASSUME NEW p \in Replicas, TickStep(p) \/ TickAbort(p) PROVE script' = script
  BY <1>1 DEF TickStep, TickList, TickDrop, TickDeny, TickClaim, TickAbort
<1>2. ASSUME NEW c \in Requests, UserRead(c) PROVE script' = script
  BY <1>2 DEF UserRead, RunNowRead, SetStateRead, Update
<1>3. ASSUME NEW x \in pending, UserWrite(x) PROVE script' = script
  BY <1>3 DEF UserWrite, RunNowClaim, RunNowRecord, RunNowRefuse, SetStateWrite
<1>4. ASSUME NEW r \in Runs, RunStep(r) PROVE script' = script
  BY <1>4 DEF RunStep, RunStart, RunRequeue, RunExpire, RunRefused, RunEnd
<1>5. ASSUME \/ Refuse
             \/ \E v \in attention : MarkNeedsAttention(v)
             \/ \E s \in artifact : ArtifactWrite(s)
             \/ Clock
             \/ UNCHANGED vars
      PROVE  script' = script
  BY <1>5 DEF Refuse, MarkNeedsAttention, ArtifactWrite, Clock, vars
<1> QED BY <1>1, <1>2, <1>3, <1>4, <1>5 DEF Next

LEMMA RefusalNext == RefusalInvariant /\ [Next]_vars => RefusalInvariant'
<1> SUFFICES ASSUME RefusalInvariant, [Next]_vars PROVE RefusalInvariant'
  OBVIOUS
<1>1. TypeOK'
  BY ScheduleTypeNext DEF RefusalInvariant
<1>2. ASSUME ~ script PROVE artifact' = {}
  <2>1. artifact = {}
    BY <1>2 DEF RefusalInvariant
  <2>2. ASSUME NEW r \in Runs, RunStep(r) PROVE artifact' = artifact
    BY <1>2, <2>2 DEF RunStep, RunStart, RunRequeue, RunExpire, RunRefused, RunEnd
  <2>3. ASSUME NEW p \in Replicas, TickStep(p) \/ TickAbort(p) PROVE artifact' = artifact
    BY <2>3 DEF TickStep, TickList, TickDrop, TickDeny, TickClaim, TickAbort
  <2>4. ASSUME \/ Refuse
               \/ \E v \in attention : MarkNeedsAttention(v)
               \/ \E c \in Requests : UserRead(c)
               \/ \E x \in pending : UserWrite(x)
               \/ Clock
               \/ UNCHANGED vars
        PROVE  artifact' = artifact
    BY <2>4 DEF Refuse, MarkNeedsAttention, UserRead, RunNowRead, SetStateRead, Update, UserWrite,
                RunNowClaim, RunNowRecord, RunNowRefuse, SetStateWrite, Clock, vars
  <2> QED BY <2>1, <2>2, <2>3, <2>4 DEF Next
<1> QED BY <1>1, <1>2, ScriptIsFixed DEF RefusalInvariant

LEMMA RefusalStep ==
    ASSUME ~ script, RefusalInvariant, [Next]_vars,
           auto.state = "active", auto'.state = "needs_attention"
    PROVE  auto.rev \in Refused
<1>a. auto \in AutomationRow /\ pending \subseteq Request /\ artifact = {}
  BY DEF RefusalInvariant, TypeOK
<1>b. auto' # auto
  OBVIOUS
<1>1. ASSUME NEW v \in attention, MarkNeedsAttention(v) PROVE auto.rev \in Refused
  BY <1>1, <1>b DEF MarkNeedsAttention, Marked, Refused
<1>2. ASSUME NEW x \in pending, RunNowRefuse(x) PROVE auto.rev \in Refused
  <2>1. auto.rev = x.item.rev /\ x.op = "refuse"
    BY <1>2, <1>b DEF RunNowRefuse, Marked
  <2> QED BY <2>1 DEF Refused
<1>3. ASSUME NEW x \in pending, SetStateWrite(x) PROVE FALSE
  <2>1. auto'.state = x.target
    BY <1>3, <1>a DEF SetStateWrite, AutomationRow
  <2> QED BY <2>1, <1>a DEF Request
<1>4. ASSUME NEW c \in Requests, UserRead(c) PROVE FALSE
  BY <1>4, <1>b DEF UserRead, RunNowRead, SetStateRead, Update
<1>5. ASSUME NEW x \in pending, NEW r \in Runs, RunNowClaim(x, r) \/ RunNowRecord(x, r) PROVE FALSE
  BY <1>5, <1>a, <1>b DEF RunNowClaim, RunNowRecord, AutomationRow
<1>6. ASSUME NEW p \in Replicas, TickStep(p) \/ TickAbort(p) PROVE FALSE
  BY <1>6, <1>a, <1>b DEF TickStep, TickList, TickDrop, TickDeny, TickClaim, TickAbort, AutomationRow
<1>7. ASSUME NEW r \in Runs, RunStep(r) PROVE FALSE
  BY <1>7, <1>b DEF RunStep, RunStart, RunRequeue, RunExpire, RunRefused, RunEnd
<1>8. ASSUME Refuse \/ Clock \/ UNCHANGED vars PROVE FALSE
  BY <1>8, <1>b DEF Refuse, Clock, vars
<1> QED BY <1>1, <1>2, <1>3, <1>4, <1>5, <1>6, <1>7, <1>8, <1>a DEF Next, UserWrite

\* A desktop automation is stopped only on behalf of its current revision:
\* an edit made while a refusal was under way always survives it.
THEOREM RefusalsAreCurrent == Spec => AttentionIsCurrent
<1>1. Init => RefusalInvariant
  BY ScheduleTypeInit DEF RefusalInvariant, Init
<1>2. RefusalInvariant /\ [Next]_vars => RefusalInvariant'
  BY RefusalNext
<1>3. RefusalInvariant /\ [Next]_vars =>
        [~ script /\ auto.state = "active" /\ auto'.state = "needs_attention"
         => auto.rev \in Refused]_vars
  BY RefusalStep
<1> QED BY <1>1, <1>2, <1>3, PTL DEF Spec, AttentionIsCurrent

-----------------------------------------------------------------------------
(* Paused and archived automations.                                         *)

\* The step of DormantUnscheduled.
PutBack ==
    \E x \in pending : /\ x.op = "run" /\ pending' = pending \ {x}
                       /\ auto' = [auto EXCEPT !.due = x.item.due]
                       /\ auto.state = "inactive"

LEMMA DormantStep ==
    ASSUME TypeOK, [Next]_vars, Dormant(auto')
    PROVE  (Dormant(auto) /\ auto' = auto) \/ PutBack
<1>a. auto \in AutomationRow /\ artifact \subseteq {"active", "needs_attention"}
  BY DEF TypeOK
<1>b. auto'.state \in {"inactive", "archived"} /\ auto'.due # NULL
  BY DEF Dormant
<1>1. ASSUME auto' = auto PROVE Dormant(auto) /\ auto' = auto
  BY <1>1
<1>2. ASSUME NEW p \in Replicas, NEW r \in Runs, NEW refused \in BOOLEAN,
             TickClaim(p, r, refused)
      PROVE  FALSE
  BY <1>2, <1>a, <1>b DEF TickClaim, CanRun, AutomationRow
<1>3. ASSUME NEW p \in Replicas, TickList(p) \/ TickDrop(p) \/ TickDeny(p) \/ TickAbort(p)
      PROVE  auto' = auto
  BY <1>3 DEF TickList, TickDrop, TickDeny, TickAbort
<1>4. ASSUME NEW v, auto' = Marked(auto, v) PROVE auto' = auto
  BY <1>4, <1>a, <1>b DEF Marked, AutomationRow
<1>5. ASSUME NEW c \in Requests, UserRead(c) PROVE auto' = auto
  BY <1>5, <1>a, <1>b DEF UserRead, RunNowRead, SetStateRead, Update
<1>6. ASSUME NEW x \in pending, SetStateWrite(x) PROVE FALSE
  BY <1>6, <1>a, <1>b DEF SetStateWrite, AutomationRow
<1>7. ASSUME NEW x \in pending, NEW r \in Runs, RunNowClaim(x, r) PROVE auto' = auto \/ PutBack
  <2>1. CASE auto' = auto
    BY <2>1
  <2>2. CASE auto.state \in {"active", "inactive"} /\ auto' = [auto EXCEPT !.due = x.item.due]
    <3>1. auto'.state = auto.state
      BY <2>2, <1>a DEF AutomationRow
    <3>2. auto.state = "inactive"
      BY <2>2, <3>1, <1>b
    <3> QED BY <2>2, <3>2, <1>7 DEF RunNowClaim, PutBack
  <2> QED BY <1>7, <2>1, <2>2 DEF RunNowClaim
<1>8. ASSUME NEW x \in pending, NEW r \in Runs, RunNowRecord(x, r) PROVE auto' = auto
  BY <1>8 DEF RunNowRecord
<1>9. ASSUME NEW r \in Runs, RunStep(r) PROVE auto' = auto
  BY <1>9 DEF RunStep, RunStart, RunRequeue, RunExpire, RunRefused, RunEnd
<1>10. ASSUME NEW s \in artifact, ArtifactWrite(s) PROVE FALSE
  BY <1>10, <1>a, <1>b DEF ArtifactWrite, AutomationRow
<1>11. ASSUME Refuse \/ Clock \/ UNCHANGED vars PROVE auto' = auto
  BY <1>11 DEF Refuse, Clock, vars
<1>12. ASSUME NEW x \in pending, RunNowRefuse(x) PROVE auto' = auto
  BY <1>12, <1>4 DEF RunNowRefuse
<1>13. ASSUME NEW v \in attention, MarkNeedsAttention(v) PROVE auto' = auto
  BY <1>13, <1>4 DEF MarkNeedsAttention
<1>14. auto' = auto \/ PutBack
  BY <1>2, <1>3, <1>5, <1>6, <1>7, <1>8, <1>9, <1>10, <1>11, <1>12, <1>13
     DEF Next, TickStep, UserWrite
<1> QED BY <1>1, <1>14

\* Only a manual run, claimed while its automation is paused, leaves a
\* dormant automation with a due time, although setState and the script
\* results write its row unconditionally.
THEOREM DormantStaysUnscheduled == Spec => DormantUnscheduled
<1>1. TypeOK /\ [Next]_vars =>
        [Dormant(auto') => (Dormant(auto) /\ auto' = auto) \/ PutBack]_vars
  BY DormantStep
<1>2. TypeOK /\ [Next]_vars =>
        [Dormant(auto') => \/ Dormant(auto) /\ auto' = auto
                           \/ \E x \in pending :
                                /\ x.op = "run" /\ pending' = pending \ {x}
                                /\ auto' = [auto EXCEPT !.due = x.item.due]
                                /\ auto.state = "inactive"]_vars
  BY <1>1 DEF PutBack
<1> QED BY <1>2, ScheduleTypeCorrect, PTL DEF Spec, DormantUnscheduled

-----------------------------------------------------------------------------
(* The latest occurrence.                                                   *)

\* Every occurrence before t has a run.
AllBefore(t) == \A d \in auto.schedule : 0 < d /\ d < t => Recorded(d)

\* Nobody edits the automation, and everything before the next due time
\* and before an occurrence a tick is about to claim has a run.
GapInvariant ==
    /\ OnceInvariant /\ pending = {}
    /\ auto.due # NULL => AllBefore(auto.due)
    /\ \A p \in Replicas : tick[p].phase = "claim" =>
         tick[p].item.schedule = auto.schedule /\ tick[p].item.due \in Nat
         /\ AllBefore(tick[p].item.due)

LEMMA GapNext ==
    ASSUME Requests = {}, GapInvariant, [Next]_vars
    PROVE  GapInvariant'
<1>a. /\ OnceInvariant /\ TypeOK /\ pending = {}
      /\ auto \in AutomationRow /\ run \in [Runs -> Row]
      /\ auto.schedule \in SUBSET Nat
  BY SchedulesAssumption DEF GapInvariant, OnceInvariant, TypeOK, AutomationRow
<1>b. tick \in [Replicas -> [phase : {"idle", "claim", "deny"}, at : Nat,
                             item : Item \cup {NoItem}, run : Runs \cup {NoRun}]]
  BY <1>a DEF TypeOK
<1>1. OnceInvariant'
  BY <1>a, OnceNext
<1>2. pending' = {} /\ auto'.schedule = auto.schedule
  <2>1. ~ \E c \in Requests : UserRead(c)
    OBVIOUS
  <2>2. ~ \E x \in pending : UserWrite(x)
    BY <1>a
  <2>3. ASSUME NEW p \in Replicas, TickStep(p) \/ TickAbort(p)
        PROVE  pending' = pending /\ auto'.schedule = auto.schedule
    BY <2>3, <1>a DEF TickStep, TickList, TickDrop, TickDeny, TickClaim, TickAbort, AutomationRow
  <2>4. ASSUME NEW r \in Runs, RunStep(r)
        PROVE  pending' = pending /\ auto'.schedule = auto.schedule
    BY <2>4 DEF RunStep, RunStart, RunRequeue, RunExpire, RunRefused, RunEnd
  <2>5. ASSUME \/ Refuse
               \/ \E v \in attention : MarkNeedsAttention(v)
               \/ \E s \in artifact : ArtifactWrite(s)
               \/ Clock
               \/ UNCHANGED vars
        PROVE  pending' = pending /\ auto'.schedule = auto.schedule
    BY <2>5, <1>a DEF Refuse, MarkNeedsAttention, Marked, ArtifactWrite, Clock, vars, AutomationRow
  <2> QED BY <2>1, <2>2, <2>3, <2>4, <2>5, <1>a DEF Next
<1>3. ASSUME NEW p \in Replicas, NEW r \in Runs, NEW refused \in BOOLEAN,
             TickClaim(p, r, refused)
      PROVE  GapInvariant'
  <2>0. PICK due : due = tick[p].item.due
    OBVIOUS
  <2>00. PICK next : next = NextOccurrence(auto.schedule, due)
    OBVIOUS
  <2>1. due \in Nat /\ AllBefore(due) /\ tick[p].item.schedule = auto.schedule
    BY <1>3, <2>0 DEF TickClaim, GapInvariant
  <2>2. /\ run'[r].scheduledFor = due /\ auto'.due = next
        /\ \A q \in Runs \ {r} : run'[q] = run[q]
        /\ \A q \in Replicas : tick'[q].phase = "claim" => tick'[q] = tick[q]
    BY <1>3, <1>a, <1>b, <2>0, <2>00, <2>1
       DEF TickClaim, ClaimedRow, NextDue, IdleTick, AutomationRow
  <2>3. run[r].scheduledFor = NULL
    BY <1>3, <1>a DEF TickClaim, Fresh, OnceInvariant, AbsentHasNoSlot
  <2>4. Recorded(due)'
    BY <2>2 DEF Recorded
  <2>5. ASSUME NEW d \in auto.schedule, Recorded(d) PROVE Recorded(d)'
    <3>1. d # NULL
      BY <1>a DEF NULL
    <3>2. PICK q \in Runs : run[q].scheduledFor = d
      BY <2>5 DEF Recorded
    <3>3. q # r
      BY <3>1, <3>2, <2>3
    <3> QED BY <3>2, <3>3, <2>2 DEF Recorded
  <2>7. ASSUME next # NULL, NEW d \in auto.schedule, 0 < d, d < next PROVE Recorded(d)'
    <3>a. d \in Nat /\ due \in Int
      BY <2>1, <1>a
    <3>b. next \in auto.schedule
      BY <2>00, <2>7, <1>a, <3>a, NextOccurrenceIsLeast
    <3>0. next \in Nat /\ d \in Nat /\ due \in Int
      BY <3>a, <3>b, <1>a
    <3>1. CASE d < due
      BY <3>1, <2>1, <2>5, <2>7 DEF AllBefore
    <3>2. CASE d = due
      BY <3>2, <2>4
    <3>3. CASE d > due
      <4>1. next <= d
        BY <3>3, <3>0, <2>00, <2>7, <1>a, NextOccurrenceIsLeast
      <4> QED BY <4>1, <3>0, <2>7
    <3> QED BY <3>0, <3>1, <3>2, <3>3, <2>1
  <2>8. \A q \in Replicas : tick'[q].phase = "claim" =>
          /\ tick'[q].item.schedule = auto'.schedule /\ tick'[q].item.due \in Nat
          /\ \A d \in auto'.schedule : 0 < d /\ d < tick'[q].item.due => Recorded(d)'
    <3> SUFFICES ASSUME NEW q \in Replicas, tick'[q].phase = "claim"
                 PROVE  /\ tick'[q].item.schedule = auto'.schedule /\ tick'[q].item.due \in Nat
                        /\ \A d \in auto'.schedule :
                             0 < d /\ d < tick'[q].item.due => Recorded(d)'
      OBVIOUS
    <3>1. tick'[q] = tick[q]
      BY <2>2
    <3>2. /\ tick[q].item.schedule = auto.schedule /\ tick[q].item.due \in Nat
          /\ AllBefore(tick[q].item.due)
      BY <3>1 DEF GapInvariant
    <3>3. \A d \in auto'.schedule : 0 < d /\ d < tick'[q].item.due => Recorded(d)'
      BY <3>1, <3>2, <2>5, <1>2 DEF AllBefore
    <3> QED BY <3>1, <3>2, <3>3, <1>2
  <2>9. auto'.due # NULL => \A d \in auto'.schedule : 0 < d /\ d < auto'.due => Recorded(d)'
    BY <2>2, <2>7, <1>2
  <2> QED BY <1>1, <1>2, <2>8, <2>9 DEF GapInvariant, AllBefore
<1>4. ASSUME \A r \in Runs : run'[r].scheduledFor = run[r].scheduledFor,
             auto'.due # NULL => auto'.due = auto.due,
             \A q \in Replicas : tick'[q].phase = "claim" =>
               tick'[q] = tick[q]
               \/ (tick'[q].item = ReadItem /\ auto.due # NULL /\ auto' = auto)
      PROVE  GapInvariant'
  <2>1. \A d : Recorded(d) => Recorded(d)'
    BY <1>4 DEF Recorded
  <2>2. auto'.due # NULL => \A d \in auto'.schedule : 0 < d /\ d < auto'.due => Recorded(d)'
    BY <2>1, <1>2, <1>4 DEF GapInvariant, AllBefore
  <2>3. ASSUME NEW q \in Replicas, tick'[q].phase = "claim"
        PROVE  tick'[q].item.schedule = auto'.schedule /\ tick'[q].item.due \in Nat
               /\ \A d \in auto'.schedule : 0 < d /\ d < tick'[q].item.due => Recorded(d)'
    <3>1. CASE tick'[q] = tick[q]
      BY <3>1, <2>1, <2>3, <1>2 DEF GapInvariant, AllBefore
    <3>2. CASE tick'[q].item = ReadItem /\ auto.due # NULL /\ auto' = auto
      <4>1. tick'[q].item.schedule = auto.schedule /\ tick'[q].item.due = auto.due
        BY <3>2 DEF ReadItem
      <4>2. auto.due \in Nat
        BY <3>2, <1>a DEF AutomationRow, Times
      <4> QED BY <3>2, <4>1, <4>2, <2>1 DEF GapInvariant, AllBefore
    <3> QED BY <3>1, <3>2, <2>3, <1>4
  <2> QED BY <1>1, <1>2, <2>2, <2>3 DEF GapInvariant, AllBefore
<1>5. ASSUME \A r \in Runs : run'[r].scheduledFor = run[r].scheduledFor PROVE GapInvariant'
  <2>1. ASSUME NEW p \in Replicas, TickList(p) PROVE GapInvariant'
    <3>1. auto' = auto /\ \A q \in Replicas : tick'[q].phase = "claim" =>
            tick'[q] = tick[q] \/ (tick'[q].item = ReadItem /\ auto.due # NULL)
      BY <2>1, <1>b DEF TickList
    <3> QED BY <3>1, <1>4, <1>5
  <2>2. ASSUME NEW p \in Replicas, TickDrop(p) \/ TickDeny(p) \/ TickAbort(p) PROVE GapInvariant'
    <3>1. auto' = auto /\ \A q \in Replicas : tick'[q].phase = "claim" => tick'[q] = tick[q]
      BY <2>2, <1>b DEF TickDrop, TickDeny, TickAbort, IdleTick
    <3> QED BY <3>1, <1>4, <1>5
  <2>3. ASSUME UNCHANGED tick, auto'.due # NULL => auto'.due = auto.due PROVE GapInvariant'
    BY <2>3, <1>4, <1>5
  <2>4. ASSUME NEW r \in Runs, RunStep(r) PROVE GapInvariant'
    BY <2>3, <2>4 DEF RunStep, RunStart, RunRequeue, RunExpire, RunRefused, RunEnd
  <2>5. ASSUME NEW v \in attention, MarkNeedsAttention(v) PROVE GapInvariant'
    BY <2>3, <2>5, <1>a DEF MarkNeedsAttention, Marked, AutomationRow
  <2>6. ASSUME NEW s \in artifact, ArtifactWrite(s) PROVE GapInvariant'
    BY <2>3, <2>6, <1>a DEF ArtifactWrite, AutomationRow
  <2>7. ASSUME Refuse \/ Clock \/ UNCHANGED vars PROVE GapInvariant'
    BY <2>3, <2>7 DEF Refuse, Clock, vars
  <2> QED BY <2>1, <2>2, <2>4, <2>5, <2>6, <2>7, <1>3, <1>a DEF Next, TickStep
<1> QED BY <1>3, <1>5, <1>a, SlotStep

\* Left to the scheduler alone, replicas that list, claim, stall and crash in
\* any order always leave a run for the latest occurrence that has come: the
\* schedule advances from the claimed occurrence, never from the clock.
THEOREM LatestOccurrenceIsKept ==
    ASSUME Requests = {} PROVE Spec => []LatestOccurrenceKept
<1>1. Init => GapInvariant
  <2> SUFFICES ASSUME Init PROVE GapInvariant
    OBVIOUS
  <2>1. PICK S \in Schedules :
          auto = [state |-> "active", rev |-> 1, schedule |-> S, due |-> NextOccurrence(S, 0)]
    BY DEF Init
  <2>2. S \in SUBSET Nat
    BY SchedulesAssumption
  <2>3. auto.due # NULL => \A d \in auto.schedule : ~ (0 < d /\ d < auto.due)
    <3> SUFFICES ASSUME NextOccurrence(S, 0) # NULL, NEW d \in S, 0 < d
                 PROVE  ~ (d < NextOccurrence(S, 0))
      BY <2>1
    <3>1. NextOccurrence(S, 0) <= d /\ NextOccurrence(S, 0) \in Nat
      BY <2>2, NextOccurrenceIsLeast DEF Times
    <3> QED BY <3>1, <2>2
  <2>4. \A r \in Runs : run[r].scheduledFor = NULL
    BY DEF Init, AbsentRow
  <2>6. \A p \in Replicas : tick[p].phase # "claim"
    BY DEF Init, IdleTick
  <2> QED BY <2>3, <2>6, OnceInit DEF GapInvariant, AllBefore, Init
<1>2. GapInvariant /\ [Next]_vars => GapInvariant'
  BY GapNext
<1>3. GapInvariant => LatestOccurrenceKept
  BY DEF GapInvariant, AllBefore, LatestOccurrenceKept
<1> QED BY <1>1, <1>2, <1>3, PTL DEF Spec
=============================================================================
