-------------------------- MODULE CloudTurnsProofs --------------------------
(***************************************************************************)
(* Proofs about the turns that CloudRuns submits: what a run recorded as   *)
(* succeeded rests on, what an execution that interrupted its turn may     *)
(* still report, and how many native threads a run's instructions reach.   *)
(* Any number of runs, processes, crashes and cancellations; where it      *)
(* matters that a run is cancelled at most once, the theorem says so.      *)
(***************************************************************************)
EXTENDS CloudRunsProofs

\* An execution past its claim whose process the row still names.
Mine(e) == e.stage # "claim" /\ run[e.run].owner = e.proc

\* The thread an execution creates, if it creates one.
OwnThread(e) == <<e.proc, e.run, e.attempt>>

\* Users cancel at most once.
Once == \A c, d \in Cancellations : c = d

\* A second cancellation can write "running" over the row of a run that the
\* first one wrote "cancelled", and a receipt may have been passed over by then.
Excused(r) == run[r].cancel = TRUE /\ ~Once

\* A row succeeded, or did when a cancellation read it that will write that back.
Done(r) ==
    run[r].status = "succeeded" \/ \E x \in cancelling : x.run = r /\ x.status = "succeeded"

\* The turn of its receipt has a reply and no error.
Replied == {"answered", "cut"}
Real(r) == receipt[r] # NoThread /\ thread[receipt[r]] \in Replied

\* An execution past its claim, and one that has only a failure to report.
AtWork(e) == e.stage # "claim"
GivenUp(e) == e.stage = "deliver" /\ e.result = "failed"

-----------------------------------------------------------------------------
(* The invariant.                                                           *)

\* An execution has no thread before it reads the receipt and has one while
\* it works on it; it has a result only to deliver.
WellThreaded(e) ==
    /\ e.stage \in {"claim", "access", "read"} => e.thread = NoThread
    /\ e.stage \in {"send", "wait", "stop", "abort"} => e.thread # NoThread
    /\ e.stage # "deliver" => e.result = "none"

\* What it delivers as a success, its thread has replied.
ResultEarned(e) ==
    e.result = "succeeded" => e.thread # NoThread /\ thread[e.thread] \in Replied

\* Before it submits anything, the thread it would create does not exist.
NotCreated(e) ==
    e.stage \in {"access", "read", "prepare"} =>
        \A th \in Threads : th = OwnThread(e) => thread[th] = "none"

\* The owner works on the thread of the receipt.
OnReceipt(e) == Mine(e) /\ e.thread # NoThread => receipt[e.run] = e.thread

\* A run that has an owner at work is running, or was cancelled under it.
OwnerRuns(e) == Mine(e) => run[e.run].status = "running" \/ run[e.run].cancel = TRUE

\* An owner about to create a thread has read that there is no receipt.
NoReceiptYet(e) ==
    /\ Mine(e) /\ e.stage = "prepare" /\ e.thread = NoThread
    /\ run[e.run].status = "running"
    => receipt[e.run] = NoThread \/ Excused(e.run)

TurnsOf(e) ==
    /\ WellThreaded(e) /\ ResultEarned(e) /\ NotCreated(e)
    /\ OnReceipt(e) /\ OwnerRuns(e) /\ NoReceiptYet(e)

\* Threads belong to attempts already begun, and to the receipt.
ThreadBegun(th) == thread[th] # "none" => th[3] <= run[th[2]].attempt
ThreadStored(th) == thread[th] # "none" => receipt[th[2]] = th \/ Excused(th[2])

\* A run that is done has no lease and no owner at work, so nobody claims
\* it, renews it or gives it another receipt; an agent's has its turn.
Closed(r) ==
    Done(r) =>
        /\ run[r].lease = NULL /\ run[r].status \notin {"absent", "queued"}
        /\ \A e \in exec : e.run = r => ~Mine(e)
        /\ r \notin scripts => Real(r)

\* With one cancellation the flag is set when it is over.
OneCancel ==
    Once => /\ requests # {} => cancelling = {}
            /\ \A x, y \in cancelling : x = y
            /\ \A r \in Runs : run[r].cancel = TRUE => requests = {} /\ cancelling = {}

\* A run's executions and its receipt are about threads of that run.
OfRun ==
    /\ \A r \in Runs : receipt[r] # NoThread => receipt[r][2] = r
    /\ \A e \in exec : e.thread # NoThread => e.thread[2] = e.run

\* In its first attempt a run has one execution at work, and none once it
\* has succeeded.
Alone(r) ==
    /\ run[r].attempt = 0 => \A e \in exec : e.run = r => ~AtWork(e)
    /\ run[r].attempt <= 1 =>
         \A e, f \in exec : e.run = r /\ f.run = r /\ AtWork(e) /\ AtWork(f) => e = f
Settled(r) ==
    run[r].attempt <= 1 /\ Done(r) => \A e \in exec : e.run = r => ~AtWork(e)

\* So the one that interrupted its turn has only that failure to report.
HasCut(r) == \E th \in Threads : th[2] = r /\ thread[th] = "cut"
Uncut(r) ==
    run[r].attempt <= 1 /\ HasCut(r) =>
        /\ ~Done(r)
        /\ \A e \in exec : e.run = r /\ AtWork(e) => GivenUp(e)

Firsts == OfRun /\ \A r \in Runs : Alone(r) /\ Settled(r) /\ Uncut(r)

Turns ==
    /\ \A e \in exec : TurnsOf(e)
    /\ \A th \in Threads : ThreadBegun(th) /\ ThreadStored(th)
    /\ \A r \in Runs : Closed(r)
    /\ OneCancel
    /\ Firsts

-----------------------------------------------------------------------------
(* The steps that create no thread, begin no attempt and write back no      *)
(* cancellation: what they may do, and that they keep the invariant.        *)

ThreadMoves ==
    \A th \in Threads :
        \/ thread'[th] = thread[th]
        \/ thread[th] \in {"idle", "running"} /\ thread'[th] \in Submitted

\* Only an execution at work interrupts a turn, and then gives up.
Interrupts ==
    \A th \in Threads :
        thread'[th] = "cut" /\ thread[th] # "cut" =>
            /\ run' = run
            /\ \E e \in exec :
                 /\ AtWork(e) /\ e.thread = th
                 /\ \A g \in exec' : g.proc = e.proc /\ g.run = e.run /\ AtWork(g) => GivenUp(g)

\* The row keeps its state; a lease is at most renewed.
RowStays(r) ==
    /\ run'[r].owner = run[r].owner /\ run'[r].status = run[r].status
    /\ run'[r].lease = run[r].lease \/ run[r].lease # NULL

\* The row is inserted, requeued, failed by a sweep, or skipped.
RowLeaves(r) ==
    /\ run'[r].owner = NoOwner /\ run'[r].lease = NULL
    /\ run'[r].status \notin {"absent", "succeeded"}
    /\ run'[r].status = "queued" => run[r].lease # NULL \/ run[r].status = "absent"

\* An execution at work that has not given up is over.
Finishes(r) ==
    \E e \in exec : /\ e.run = r /\ AtWork(e) /\ ~GivenUp(e)
                    /\ \A g \in exec' : g.proc = e.proc /\ g.run = r => ~AtWork(g)

\* The owner's execution reports its result and is over.
RowEnds(r) ==
    /\ run'[r].owner = run[r].owner /\ run'[r].lease = NULL /\ run'[r].status \in Terminal
    /\ \A g \in exec' : g.run = r => ~Mine(g)'
    /\ run'[r].status = "succeeded" /\ r \notin scripts => Real(r)
    /\ run'[r].status = "succeeded" => Finishes(r)

RowMoves(r) ==
    /\ run'[r].attempt = run[r].attempt /\ run'[r].cancel = run[r].cancel
    /\ RowStays(r) \/ RowLeaves(r) \/ RowEnds(r)

\* An execution goes on: it may read the receipt, and earn a result.
GoesOn(e, g) ==
    /\ g.proc = e.proc /\ g.run = e.run /\ g.attempt = e.attempt
    /\ e.stage # "claim" /\ g.stage # "claim"
    /\ g.stage \in {"access", "read", "prepare"} => e.stage \in {"access", "read", "prepare"}
    /\ g.thread = e.thread \/ g.thread = NoThread \/ g.thread = receipt[e.run]
    /\ g.stage = "prepare" /\ g.thread = NoThread /\ run[e.run].status = "running"
         => receipt[e.run] = NoThread
    /\ WellThreaded(g) /\ ResultEarned(g)
    /\ GivenUp(e) => GivenUp(g)

Begun(g) == g.stage = "claim" /\ g.thread = NoThread /\ g.result = "none"

CancelMoves ==
    \/ requests' = requests /\ cancelling' = cancelling
    \/ run' = run /\ \E c \in Cancellations, r \in Runs : CancelSelect(c, r)

Carried ==
    /\ receipt' = receipt /\ scripts' = scripts /\ ThreadMoves /\ Interrupts
    /\ \A r \in Runs : RowMoves(r)
    /\ \A g \in exec' : g \in exec \/ Begun(g) \/ \E e \in exec : GoesOn(e, g)
    /\ CancelMoves

\* What the invariants above say of types.
LEMMA CloudTyped ==
    ASSUME CloudInvariant
    PROVE  /\ run \in [Runs -> Row]
           /\ receipt \in [Runs -> Threads \cup {NoThread}]
           /\ thread \in [Threads -> ThreadStates]
           /\ NoThread \notin Threads
           /\ \A e \in exec : /\ e \in Execution /\ e.proc \in Runners /\ e.run \in Runs
                              /\ e.attempt \in Nat /\ e.stage \in Stages
                              /\ e.thread \in Threads \cup {NoThread}
                              /\ e.result \in {"none", "succeeded", "failed"}
           /\ \A e \in exec : Mine(e) => run[e.run].attempt = e.attempt
           /\ \A e, f \in exec : e.proc = f.proc /\ e.run = f.run => e = f
<1>1. NoThread \notin Threads
  BY DEF NoThread, Threads
<1>2. \A e \in exec : /\ e \in Execution /\ e.proc \in Runners /\ e.run \in Runs
                      /\ e.attempt \in Nat /\ e.stage \in Stages
                      /\ e.thread \in Threads \cup {NoThread}
                      /\ e.result \in {"none", "succeeded", "failed"}
  BY DEF CloudInvariant, Executing, Execution
<1>3. /\ \A e \in exec : Mine(e) => run[e.run].attempt = e.attempt
      /\ \A e, f \in exec : e.proc = f.proc /\ e.run = f.run => e = f
  BY DEF CloudInvariant, Executing, OwnersAttempt, OneExecutionEach, Mine
<1> QED BY <1>1, <1>2, <1>3 DEF CloudInvariant, RetryInvariant, TypeOK, WorkersTyped

\* A thread that has replied stays as it is, one that does not exist is not
\* made.
LEMMA ThreadsGoOn ==
    ASSUME ThreadMoves, NEW th \in Threads
    PROVE  /\ thread[th] \in Replied => thread'[th] = thread[th]
           /\ thread[th] = "none" => thread'[th] = "none"
           /\ thread'[th] # "none" => thread[th] # "none"
BY DEF ThreadMoves, Replied

\* An owner at work after the step was one before, and its row stays.
LEMMA OwnersStay ==
    ASSUME CloudInvariant, CloudInvariant', Carried, NEW g \in exec', Mine(g)'
    PROVE  /\ RowStays(g.run)
           /\ \E e \in exec : /\ e = g \/ GoesOn(e, g)
                              /\ Mine(e) /\ e.run = g.run
<1>1. g.run \in Runs /\ g.proc \in Runners
  BY CloudTyped DEF CloudInvariant, Executing, Execution
<1>2. g.stage # "claim" /\ run'[g.run].owner = g.proc
  BY DEF Mine
<1>3. RowStays(g.run)
  <2>1. ~RowLeaves(g.run)
    BY <1>1, <1>2, RunnersAssumption DEF RowLeaves
  <2>2. ~RowEnds(g.run)
    BY DEF RowEnds
  <2> QED BY <1>1, <2>1, <2>2 DEF Carried, RowMoves
<1>4. run[g.run].owner = g.proc
  BY <1>2, <1>3 DEF RowStays
<1>5. CASE g \in exec
  BY <1>2, <1>3, <1>4, <1>5 DEF Mine
<1>6. CASE \E e \in exec : GoesOn(e, g)
  <2>1. PICK e \in exec : GoesOn(e, g)
    BY <1>6
  <2>2. Mine(e) /\ e.run = g.run
    BY <1>4, <2>1 DEF GoesOn, Mine
  <2> QED BY <1>3, <2>1, <2>2
<1> QED BY <1>2, <1>5, <1>6 DEF Carried, Begun

LEMMA CarriesExecutions ==
    ASSUME CloudInvariant, CloudInvariant', Turns, Carried, NEW g \in exec'
    PROVE  TurnsOf(g)'
<1>1. /\ g.run \in Runs /\ g.proc \in Runners /\ g.thread \in Threads \cup {NoThread}
      /\ receipt' = receipt /\ ThreadMoves /\ NoThread \notin Threads
  BY CloudTyped DEF CloudInvariant, Executing, Execution, Carried
<1>2. WellThreaded(g)
  BY DEF Carried, Begun, GoesOn, Turns, TurnsOf, WellThreaded
<1>3. ResultEarned(g)
  BY DEF Carried, Begun, GoesOn, Turns, TurnsOf, ResultEarned
<1>4. ResultEarned(g)'
  BY <1>1, <1>3, ThreadsGoOn DEF ResultEarned
<1>5. NotCreated(g)'
  <2> SUFFICES ASSUME g.stage \in {"access", "read", "prepare"},
                      NEW th \in Threads, th = OwnThread(g)
               PROVE  thread'[th] = "none"
    BY DEF NotCreated
  <2>1. PICK e \in exec : /\ e.stage \in {"access", "read", "prepare"}
                          /\ OwnThread(e) = OwnThread(g)
    BY DEF Carried, Begun, GoesOn, OwnThread
  <2>2. thread[th] = "none"
    BY <2>1 DEF Turns, TurnsOf, NotCreated
  <2> QED BY <1>1, <2>2, ThreadsGoOn
<1>6. OnReceipt(g)' /\ OwnerRuns(g)' /\ NoReceiptYet(g)'
  <2>1. CASE ~Mine(g)'
    BY <2>1 DEF OnReceipt, OwnerRuns, NoReceiptYet
  <2>2. CASE Mine(g)'
    <3>1. PICK e \in exec : /\ e = g \/ GoesOn(e, g)
                            /\ Mine(e) /\ e.run = g.run
      BY <2>2, OwnersStay
    <3>2. /\ run'[g.run].status = run[g.run].status /\ run'[g.run].cancel = run[g.run].cancel
      BY <1>1, <2>2, OwnersStay DEF RowStays, Carried, RowMoves
    <3>3. OnReceipt(e) /\ OwnerRuns(e) /\ NoReceiptYet(e)
      BY DEF Turns, TurnsOf
    <3>4. OnReceipt(g)'
      BY <1>1, <3>1, <3>3 DEF OnReceipt, GoesOn
    <3>5. OwnerRuns(g)'
      BY <3>1, <3>2, <3>3 DEF OwnerRuns
    <3>6. NoReceiptYet(g)'
      <4>1. Excused(g.run) = Excused(g.run)'
        BY <3>2 DEF Excused, Once
      <4>2. CASE e = g
        BY <1>1, <3>1, <3>2, <3>3, <4>1, <4>2 DEF NoReceiptYet
      <4>3. CASE GoesOn(e, g)
        BY <1>1, <3>1, <3>2, <4>3 DEF NoReceiptYet, GoesOn
      <4> QED BY <3>1, <4>2, <4>3
    <3> QED BY <3>4, <3>5, <3>6
  <2> QED BY <2>1, <2>2
<1> QED BY <1>2, <1>4, <1>5, <1>6 DEF TurnsOf, WellThreaded

LEMMA CarriesThreads ==
    ASSUME CloudInvariant, Turns, Carried, NEW th \in Threads
    PROVE  ThreadBegun(th)' /\ ThreadStored(th)'
<1>1. th[2] \in Runs
  BY DEF Threads
<1>2. /\ run'[th[2]].attempt = run[th[2]].attempt
      /\ run'[th[2]].cancel = run[th[2]].cancel
  BY <1>1 DEF Carried, RowMoves
<1>3. thread'[th] # "none" => thread[th] # "none"
  BY ThreadsGoOn DEF Carried
<1>4. ThreadBegun(th) /\ ThreadStored(th)
  BY DEF Turns
<1>5. ThreadBegun(th)'
  BY <1>2, <1>3, <1>4 DEF ThreadBegun
<1>6. ThreadStored(th)'
  BY <1>2, <1>3, <1>4 DEF ThreadStored, Excused, Once, Carried
<1> QED BY <1>5, <1>6

\* A run is done by a report of its owner, and only so.
LEMMA DoneGrows ==
    ASSUME Carried, NEW r \in Runs, Done(r)', ~Done(r)
    PROVE  run'[r].status = "succeeded" /\ RowEnds(r)
<1>1. run'[r].status = "succeeded"
  <2>1. CASE cancelling' = cancelling
    BY <2>1 DEF Done
  <2>2. ASSUME run' = run, NEW c \in Cancellations, NEW q \in Runs, CancelSelect(c, q)
        PROVE  FALSE
    <3>1. cancelling' = cancelling \cup {[id |-> c, run |-> q, status |-> run[q].status]}
      BY <2>2 DEF CancelSelect
    <3> QED BY <2>2, <3>1 DEF Done
  <2> QED BY <2>1, <2>2 DEF Carried, CancelMoves
<1> QED BY <1>1 DEF Carried, RowMoves, RowStays, RowLeaves, Done

LEMMA CarriesRows ==
    ASSUME CloudInvariant, CloudInvariant', Turns, Carried, NEW r \in Runs
    PROVE  Closed(r)'
<1> SUFFICES ASSUME Done(r)'
             PROVE  /\ run'[r].lease = NULL /\ run'[r].status \notin {"absent", "queued"}
                    /\ \A g \in exec' : g.run = r => ~Mine(g)'
                    /\ r \notin scripts => Real(r)'
  BY DEF Closed, Carried
<1>1. RowMoves(r) /\ Closed(r)
  BY DEF Carried, Turns
<1>2. Real(r) => Real(r)'
  BY CloudTyped, ThreadsGoOn DEF Real, Carried
<1>3. CASE Done(r)
  <2>1. /\ run[r].lease = NULL /\ run[r].status \notin {"absent", "queued"}
        /\ \A e \in exec : e.run = r => ~Mine(e)
        /\ r \notin scripts => Real(r)
    BY <1>1, <1>3 DEF Closed
  <2>2. run'[r].lease = NULL /\ run'[r].status \notin {"absent", "queued"}
    BY <1>1, <2>1 DEF RowMoves, RowStays, RowLeaves, RowEnds, Terminal
  <2>3. \A g \in exec' : g.run = r => ~Mine(g)'
    BY <2>1, OwnersStay
  <2> QED BY <1>2, <2>1, <2>2, <2>3
<1>4. CASE ~Done(r)
  BY <1>2, <1>4, DoneGrows DEF RowEnds
<1> QED BY <1>3, <1>4

LEMMA CarriesCancellations ==
    ASSUME CloudInvariant, Turns, Carried
    PROVE  OneCancel'
<1> SUFFICES ASSUME Once
             PROVE  /\ requests' # {} => cancelling' = {}
                    /\ \A x, y \in cancelling' : x = y
                    /\ \A r \in Runs : run'[r].cancel = TRUE => requests' = {} /\ cancelling' = {}
  BY DEF OneCancel, Once
<1>1. /\ requests # {} => cancelling = {}
      /\ \A x, y \in cancelling : x = y
      /\ \A r \in Runs : run[r].cancel = TRUE => requests = {} /\ cancelling = {}
  BY DEF Turns, OneCancel
<1>2. \A r \in Runs : run'[r].cancel = run[r].cancel
  BY DEF Carried, RowMoves
<1>3. CASE requests' = requests /\ cancelling' = cancelling
  BY <1>1, <1>2, <1>3
<1>4. ASSUME NEW c \in Cancellations, NEW q \in Runs, CancelSelect(c, q)
      PROVE  /\ requests' = {} /\ requests # {}
             /\ cancelling' = {[id |-> c, run |-> q, status |-> run[q].status]}
  <2>1. requests \subseteq Cancellations
    BY DEF CloudInvariant, RetryInvariant, TypeOK
  <2> QED BY <1>1, <1>4, <2>1 DEF CancelSelect, Once
<1>5. CASE \E c \in Cancellations, q \in Runs : CancelSelect(c, q)
  BY <1>1, <1>2, <1>4, <1>5
<1> QED BY <1>3, <1>5 DEF Carried, CancelMoves

\* What keeps the part of the invariant about first attempts: executions at
\* work only go on, an interruption is the interrupter's, and a success ends
\* an execution that has not given up.
FirstMoves ==
    /\ \A r \in Runs : run'[r].attempt = run[r].attempt
    /\ \A g \in exec' : AtWork(g) =>
         \E e \in exec : /\ e.proc = g.proc /\ e.run = g.run /\ AtWork(e)
                         /\ GivenUp(e) => GivenUp(g)
    /\ Interrupts
    /\ \A r \in Runs : Done(r)' => Done(r) \/ (run' # run /\ Finishes(r))

LEMMA FirstsKept ==
    ASSUME CloudInvariant, CloudInvariant', Firsts, FirstMoves, OfRun'
    PROVE  Firsts'
<1> SUFFICES ASSUME NEW r \in Runs PROVE Alone(r)' /\ Settled(r)' /\ Uncut(r)'
  BY DEF Firsts
<1>1. /\ run'[r].attempt = run[r].attempt /\ OfRun
      /\ Alone(r) /\ Settled(r) /\ Uncut(r)
  BY DEF Firsts, FirstMoves
<1>2. ASSUME NEW g \in exec', g.run = r, AtWork(g)
      PROVE  \E e \in exec : /\ e.proc = g.proc /\ e.run = r /\ AtWork(e)
                             /\ GivenUp(e) => GivenUp(g)
  BY <1>2 DEF FirstMoves
<1>3. \A g, h \in exec' : g.proc = h.proc /\ g.run = h.run => g = h
  BY DEF CloudInvariant, Executing, OneExecutionEach
<1>4. Alone(r)'
  <2>1. run[r].attempt = 0 => \A g \in exec' : g.run = r => ~AtWork(g)
    BY <1>1, <1>2 DEF Alone
  <2>2. ASSUME run[r].attempt <= 1, NEW g \in exec', NEW h \in exec',
               g.run = r, h.run = r, AtWork(g), AtWork(h)
        PROVE  g = h
    <3>1. PICK e \in exec : e.proc = g.proc /\ e.run = r /\ AtWork(e)
      BY <1>2, <2>2
    <3>2. PICK f \in exec : f.proc = h.proc /\ f.run = r /\ AtWork(f)
      BY <1>2, <2>2
    <3>3. e = f
      BY <1>1, <2>2, <3>1, <3>2 DEF Alone
    <3> QED BY <1>3, <2>2, <3>1, <3>2, <3>3
  <2> QED BY <1>1, <2>1, <2>2 DEF Alone, AtWork
<1>5. ASSUME run[r].attempt <= 1, Finishes(r) PROVE \A g \in exec' : g.run = r => ~AtWork(g)
  <2>1. PICK e \in exec : /\ e.run = r /\ AtWork(e)
                          /\ \A g \in exec' : g.proc = e.proc /\ g.run = r => ~AtWork(g)
    BY <1>5 DEF Finishes
  <2> SUFFICES ASSUME NEW g \in exec', g.run = r, AtWork(g) PROVE FALSE
    OBVIOUS
  <2>2. PICK f \in exec : f.proc = g.proc /\ f.run = r /\ AtWork(f)
    BY <1>2
  <2>3. f = e
    BY <1>1, <1>5, <2>1, <2>2 DEF Alone
  <2> QED BY <2>1, <2>2, <2>3
<1>6. Settled(r)'
  <2> SUFFICES ASSUME run[r].attempt <= 1, Done(r)', NEW g \in exec', g.run = r
               PROVE  ~AtWork(g)
    BY <1>1 DEF Settled, AtWork
  <2>1. CASE Done(r)
    BY <1>1, <1>2, <2>1 DEF Settled
  <2>2. CASE Finishes(r)
    BY <1>5, <2>2
  <2> QED BY <2>1, <2>2 DEF FirstMoves
<1>7. Uncut(r)'
  <2> SUFFICES ASSUME run[r].attempt <= 1, NEW th \in Threads, th[2] = r, thread'[th] = "cut"
               PROVE  /\ ~Done(r)'
                      /\ \A g \in exec' : g.run = r /\ AtWork(g) => GivenUp(g)
    BY <1>1 DEF Uncut, HasCut, AtWork, GivenUp, Threads
  <2>1. CASE thread[th] = "cut"
    <3>1. ~Done(r) /\ \A e \in exec : e.run = r /\ AtWork(e) => GivenUp(e)
      BY <1>1, <2>1 DEF Uncut, HasCut
    <3>2. ~Finishes(r)
      BY <3>1 DEF Finishes
    <3> QED BY <1>2, <3>1, <3>2 DEF FirstMoves
  <2>2. CASE thread[th] # "cut"
    <3>1. /\ run' = run
          /\ \E e \in exec :
               /\ AtWork(e) /\ e.thread = th
               /\ \A g \in exec' : g.proc = e.proc /\ g.run = e.run /\ AtWork(g) => GivenUp(g)
      BY <2>2 DEF FirstMoves, Interrupts
    <3>2. PICK e \in exec :
               /\ AtWork(e) /\ e.thread = th
               /\ \A g \in exec' : g.proc = e.proc /\ g.run = e.run /\ AtWork(g) => GivenUp(g)
      BY <3>1
    <3>3. e.run = r
      BY <1>1, <3>2 DEF OfRun, NoThread, Threads
    <3>4. ~Done(r)'
      BY <1>1, <3>1, <3>2, <3>3 DEF Settled, FirstMoves
    <3>5. ASSUME NEW g \in exec', g.run = r, AtWork(g) PROVE GivenUp(g)
      <4>1. PICK f \in exec : f.proc = g.proc /\ f.run = r /\ AtWork(f)
        BY <1>2, <3>5
      <4>2. f = e
        BY <1>1, <3>2, <3>3, <4>1 DEF Alone
      <4> QED BY <3>2, <3>3, <3>5, <4>1, <4>2
    <3> QED BY <3>4, <3>5
  <2> QED BY <2>1, <2>2
<1> QED BY <1>4, <1>6, <1>7

LEMMA CarriesFirsts ==
    ASSUME CloudInvariant, CloudInvariant', Turns, Carried
    PROVE  Firsts'
<1>1. \A g \in exec' : AtWork(g) =>
        \E e \in exec : /\ e.proc = g.proc /\ e.run = g.run /\ AtWork(e)
                        /\ GivenUp(e) => GivenUp(g)
  BY DEF Carried, Begun, GoesOn, AtWork
<1>2. \A r \in Runs : Done(r)' => Done(r) \/ (run' # run /\ Finishes(r))
  BY DoneGrows DEF RowEnds, Done
<1>3. FirstMoves
  BY <1>1, <1>2 DEF FirstMoves, Carried, RowMoves
<1>4. OfRun'
  <2>1. receipt' = receipt /\ OfRun /\ \A e \in exec : e.run \in Runs
    BY CloudTyped DEF Carried, Turns, Firsts
  <2>2. ASSUME NEW g \in exec', g.thread # NoThread PROVE g.thread[2] = g.run
    <3>1. CASE g \in exec
      BY <2>1, <2>2, <3>1 DEF OfRun
    <3>2. ASSUME NEW e \in exec, GoesOn(e, g) PROVE g.thread[2] = g.run
      <4>1. g.run = e.run /\ (g.thread = e.thread \/ g.thread = receipt[e.run])
        BY <2>2, <3>2 DEF GoesOn
      <4> QED BY <2>1, <2>2, <4>1 DEF OfRun
    <3> QED BY <2>2, <3>1, <3>2 DEF Carried, Begun
  <2> QED BY <2>1, <2>2 DEF OfRun
<1> QED BY <1>3, <1>4, FirstsKept DEF Turns

LEMMA CarriesTurns ==
    ASSUME CloudInvariant, CloudInvariant', Turns, Carried
    PROVE  Turns'
BY CarriesExecutions, CarriesThreads, CarriesRows, CarriesCancellations, CarriesFirsts
   DEF Turns, Threads

-----------------------------------------------------------------------------
(* The three steps that are none of these.                                  *)

\* No statement but a cancellation sets the flag, and it writes back the
\* status it read.
LEMMA FlagsKept ==
    ASSUME NEW row \in Row
    PROVE  /\ \A w \in Runners, t \in Nat : ClaimedRow(row, w, t).cancel = row.cancel
           /\ SkippedRow(row).cancel = row.cancel
           /\ \A status \in Terminal : CompletedRow(row, status).cancel = row.cancel
           /\ \A x \in Snapshot : RecoveredRow(row, x).cancel = row.cancel
           /\ \A read \in Statuses : /\ CancelledRow(row, read).cancel = TRUE
                                     /\ CancelledRow(row, read).status
                                          = IF read = "queued" THEN "cancelled" ELSE read
<1>1. \A w \in Runners, t \in Nat : ClaimedRow(row, w, t).cancel = row.cancel
  BY DEF ClaimedRow, Row
<1>2. SkippedRow(row).cancel = row.cancel
  BY DEF SkippedRow, Row
<1>3. \A status \in Terminal : CompletedRow(row, status).cancel = row.cancel
  BY DEF CompletedRow, Row
<1>4. \A x \in Snapshot : RecoveredRow(row, x).cancel = row.cancel
  BY DEF RecoveredRow, Row
<1>5. \A read \in Statuses : /\ CancelledRow(row, read).cancel = TRUE
                             /\ CancelledRow(row, read).status
                                  = IF read = "queued" THEN "cancelled" ELSE read
  BY DEF CancelledRow, Row
<1> QED BY <1>1, <1>2, <1>3, <1>4, <1>5

LEMMA CancelTurns ==
    ASSUME CloudInvariant, CloudInvariant', Turns, NEW x \in cancelling, CancelUpdate(x),
           UNCHANGED cloudVars
    PROVE  Turns'
<1> DEFINE row == CancelledRow(run[x.run], x.status)
<1>1. x.run \in Runs /\ x.status \in Statuses \ {"absent"} /\ run[x.run] \in Row
  BY CloudTyped DEF CloudInvariant, RetryInvariant, TypeOK
<1>2. /\ row.owner = run[x.run].owner /\ row.lease = run[x.run].lease
      /\ row.attempt = run[x.run].attempt /\ row.status \notin {"absent", "queued"}
      /\ row.cancel = TRUE /\ (row.status = "succeeded" <=> x.status = "succeeded")
  BY <1>1, RowFields, FlagsKept
<1>3. /\ exec' = exec /\ receipt' = receipt /\ thread' = thread /\ scripts' = scripts
      /\ requests' = requests /\ cancelling' = cancelling \ {x}
  BY DEF cloudVars, CancelUpdate
<1>4. run'[x.run] = row /\ \A q \in Runs \ {x.run} : run'[q] = run[q]
  BY <1>1, CloudTyped DEF CancelUpdate
<1> HIDE DEF row
<1>5. \A r \in Runs : /\ run'[r].owner = run[r].owner /\ run'[r].attempt = run[r].attempt
                      /\ run'[r].lease = run[r].lease
                      /\ run'[r].cancel = TRUE \/ run'[r] = run[r]
                      /\ Excused(r) => Excused(r)'
  BY <1>2, <1>4 DEF Excused, Once
<1>6. \A g \in exec : g.run \in Runs /\ TurnsOf(g)
  BY CloudTyped DEF Turns
<1>7. ASSUME NEW g \in exec PROVE TurnsOf(g)'
  <2>1. Mine(g)' = Mine(g)
    BY <1>5, <1>6 DEF Mine
  <2>2. WellThreaded(g)' /\ ResultEarned(g)' /\ NotCreated(g)' /\ OnReceipt(g)'
    BY <1>3, <1>6, <2>1
       DEF TurnsOf, WellThreaded, ResultEarned, NotCreated, OnReceipt
  <2>3. OwnerRuns(g)'
    BY <1>5, <1>6, <2>1 DEF TurnsOf, OwnerRuns
  <2>4. NoReceiptYet(g)'
    <3> SUFFICES ASSUME Mine(g), g.stage = "prepare", g.thread = NoThread,
                        run'[g.run].status = "running"
                 PROVE  receipt[g.run] = NoThread \/ Excused(g.run)'
      BY <1>3, <2>1 DEF NoReceiptYet
    <3>1. NoReceiptYet(g) /\ OwnerRuns(g)
      BY <1>6 DEF TurnsOf
    <3>2. CASE run'[g.run] = run[g.run]
      BY <1>5, <1>6, <3>1, <3>2 DEF NoReceiptYet
    <3>3. CASE run'[g.run].cancel = TRUE /\ ~Once
      BY <3>3 DEF Excused, Once
    <3>4. CASE Once
      <4>1. run[g.run].cancel # TRUE
        BY <1>6, <3>4 DEF Turns, OneCancel
      <4>2. run[g.run].status = "running"
        BY <3>1, <4>1 DEF OwnerRuns
      <4> QED BY <3>1, <3>4, <4>2 DEF NoReceiptYet, Excused
    <3> QED BY <1>5, <1>6, <3>2, <3>3, <3>4
  <2> QED BY <2>2, <2>3, <2>4 DEF TurnsOf
<1>8. ASSUME NEW th \in Threads PROVE ThreadBegun(th)' /\ ThreadStored(th)'
  <2>1. th[2] \in Runs /\ ThreadBegun(th) /\ ThreadStored(th)
    BY DEF Threads, Turns
  <2> QED BY <1>3, <1>5, <2>1 DEF ThreadBegun, ThreadStored
<1>9. ASSUME NEW r \in Runs PROVE Closed(r)'
  <2>1. Done(r)' => Done(r)
    BY <1>2, <1>3, <1>4 DEF Done
  <2>2. \A g \in exec : g.run = r => Mine(g)' = Mine(g)
    BY <1>5, <1>6 DEF Mine
  <2>3. run'[r].status \in {run[r].status, row.status}
    BY <1>4
  <2>4. Closed(r) /\ Real(r)' = Real(r)
    BY <1>3 DEF Turns, Real
  <2> QED BY <1>2, <1>3, <1>5, <2>1, <2>2, <2>3, <2>4 DEF Closed
<1>10. OneCancel'
  BY <1>3 DEF Turns, OneCancel, Once
<1>11. Firsts'
  <2>1. Interrupts
    BY <1>3 DEF Interrupts
  <2>2. \A r \in Runs : Done(r)' => Done(r)
    BY <1>2, <1>3, <1>4 DEF Done
  <2>3. FirstMoves
    BY <1>3, <1>5, <2>1, <2>2 DEF FirstMoves
  <2>4. OfRun'
    BY <1>3 DEF OfRun, Turns, Firsts
  <2> QED BY <2>3, <2>4, FirstsKept DEF Turns
<1> QED BY <1>3, <1>7, <1>8, <1>9, <1>10, <1>11 DEF Turns, Threads

\* What the execution that claims a run does next.
Claiming(e) == [At(e, "access") EXCEPT !.attempt = NextAttempt(run[e.run])]

LEMMA ClaimTurns ==
    ASSUME CloudInvariant, CloudInvariant', Turns, NEW e \in exec, NEW t \in Stamps,
           ClaimCloud(e, t), run[e.run].status = "queued",
           SetRow(e, ClaimedRow(run[e.run], e.proc, t)), Move(e, Claiming(e))
    PROVE  Turns'
<1> DEFINE row == ClaimedRow(run[e.run], e.proc, t)
<1> PICK f : f = Claiming(e)
  OBVIOUS
<1>1. /\ e \in Execution /\ e.run \in Runs /\ e.proc \in Runners /\ run[e.run] \in Row
      /\ run[e.run].attempt \in Nat /\ t \in Nat /\ e.stage = "claim"
  BY CloudTyped, StampsAreTimes DEF Row, ClaimCloud, CloudInvariant, RetryInvariant, TypeOK
<1>2. /\ row.owner = e.proc /\ row.attempt = run[e.run].attempt + 1 /\ row.status = "running"
      /\ row.cancel = run[e.run].cancel
  <2>1. /\ row.owner = e.proc /\ row.attempt = run[e.run].attempt + 1
        /\ row.status = "running"
    BY <1>1, RowFields
  <2>2. row.cancel = run[e.run].cancel
    BY <1>1, FlagsKept
  <2> QED BY <2>1, <2>2
<1>3. /\ receipt' = receipt /\ thread' = thread /\ scripts' = scripts
      /\ requests' = requests /\ cancelling' = cancelling
      /\ exec' = (exec \ {e}) \cup {f}
  BY DEF ClaimCloud, RunKept, WorkerKept, Move
<1>4. run'[e.run] = row /\ \A q \in Runs \ {e.run} : run'[q] = run[q]
  BY <1>1, CloudTyped DEF SetRow
<1>5. /\ f.stage = "access" /\ f.proc = e.proc /\ f.run = e.run
      /\ f.attempt = run[e.run].attempt + 1 /\ f.thread = e.thread /\ f.result = e.result
  <2> DEFINE d == At(e, "access")
  <2>1. /\ d.stage = "access" /\ d.proc = e.proc /\ d.run = e.run
        /\ d.thread = e.thread /\ d.result = e.result /\ d \in Execution
    BY <1>1 DEF At, Execution, Stages
  <2>2. f = [d EXCEPT !.attempt = NextAttempt(run[e.run])]
    BY DEF Claiming
  <2> HIDE DEF d
  <2> QED BY <2>1, <2>2 DEF Execution, NextAttempt
<1> HIDE DEF row
<1>6. \A r \in Runs : /\ run'[r].cancel = run[r].cancel
                      /\ Excused(r)' = Excused(r)
  BY <1>2, <1>4 DEF Excused, Once
<1>7. TurnsOf(f)'
  <2>1. f.thread = NoThread /\ f.result = "none"
    BY <1>1, <1>5 DEF Turns, TurnsOf, WellThreaded
  <2>2. NotCreated(f)'
    <3> SUFFICES ASSUME NEW th \in Threads, th = OwnThread(f) PROVE thread[th] = "none"
      BY <1>3 DEF NotCreated
    <3>1. th[2] = e.run /\ th[3] = run[e.run].attempt + 1
      BY <1>5 DEF OwnThread
    <3> QED BY <1>1, <3>1 DEF Turns, ThreadBegun
  <2>3. OwnerRuns(f)'
    BY <1>2, <1>4, <1>5 DEF OwnerRuns
  <2> QED BY <1>5, <2>1, <2>2, <2>3
          DEF TurnsOf, WellThreaded, ResultEarned, OnReceipt, NoReceiptYet
<1>8. ASSUME NEW g \in exec \ {e} PROVE TurnsOf(g)'
  <2>1. g.run \in Runs /\ TurnsOf(g) /\ (g.run = e.run => g.proc # e.proc)
    BY CloudTyped DEF Turns
  <2>2. WellThreaded(g)' /\ ResultEarned(g)' /\ NotCreated(g)'
    BY <1>3, <2>1 DEF TurnsOf, WellThreaded, ResultEarned, NotCreated
  <2>3. CASE g.run = e.run
    <3>1. ~Mine(g)'
      BY <1>2, <1>4, <2>1, <2>3 DEF Mine
    <3> QED BY <2>2, <3>1 DEF TurnsOf, OnReceipt, OwnerRuns, NoReceiptYet
  <2>4. CASE g.run # e.run
    <3>1. run'[g.run] = run[g.run] /\ Mine(g)' = Mine(g)
      BY <1>4, <2>1, <2>4 DEF Mine
    <3>2. OnReceipt(g)' /\ OwnerRuns(g)'
      BY <1>3, <2>1, <3>1 DEF TurnsOf, OnReceipt, OwnerRuns
    <3>3. NoReceiptYet(g)'
      BY <1>3, <1>6, <2>1, <3>1 DEF TurnsOf, NoReceiptYet
    <3> QED BY <2>2, <3>2, <3>3 DEF TurnsOf
  <2> QED BY <2>3, <2>4
<1>9. ASSUME NEW th \in Threads PROVE ThreadBegun(th)' /\ ThreadStored(th)'
  <2>1. th[2] \in Runs /\ th[3] \in Nat /\ ThreadBegun(th) /\ ThreadStored(th)
    BY DEF Threads, Turns
  <2>2. ThreadBegun(th)'
    BY <1>1, <1>2, <1>3, <1>4, <2>1 DEF ThreadBegun
  <2>3. ThreadStored(th)'
    BY <1>3, <1>6, <2>1 DEF ThreadStored
  <2> QED BY <2>2, <2>3
<1>10. ASSUME NEW r \in Runs PROVE Closed(r)'
  <2>1. Closed(r)
    BY DEF Turns
  <2>2. CASE r = e.run
    <3>1. ~Done(r)
      BY <2>1, <2>2 DEF Closed
    <3>2. ~Done(r)'
      BY <1>2, <1>3, <1>4, <2>2, <3>1 DEF Done
    <3> QED BY <3>2 DEF Closed
  <2>3. CASE r # e.run
    <3>1. run'[r] = run[r] /\ Done(r)' = Done(r) /\ Real(r)' = Real(r)
      BY <1>3, <1>4, <2>3 DEF Done, Real
    <3>2. \A g \in exec' : g.run = r => g \in exec /\ Mine(g)' = Mine(g)
      BY <1>3, <1>5, <2>3, <3>1 DEF Mine
    <3> QED BY <1>3, <2>1, <3>1, <3>2 DEF Closed
  <2> QED BY <2>2, <2>3
<1>11. OneCancel'
  BY <1>3, <1>6 DEF Turns, OneCancel, Once
<1>12. Firsts'
  <2>1. Firsts /\ Closed(e.run) /\ f.thread = NoThread
    BY <1>1, <1>5 DEF Turns, TurnsOf, WellThreaded
  <2>2. OfRun'
    BY <1>3, <1>5, <2>1 DEF OfRun, Firsts
  <2>3. ASSUME NEW r \in Runs, r # e.run PROVE Alone(r)' /\ Settled(r)' /\ Uncut(r)'
    <3>1. run'[r] = run[r] /\ Done(r)' = Done(r) /\ HasCut(r)' = HasCut(r)
      BY <1>3, <1>4, <2>3 DEF Done, HasCut, Threads
    <3>2. \A g \in exec' : g.run = r => g \in exec
      BY <1>3, <1>5, <2>3
    <3>3. Alone(r) /\ Settled(r) /\ Uncut(r)
      BY <2>1 DEF Firsts
    <3> QED BY <3>1, <3>2, <3>3 DEF Alone, Settled, Uncut, AtWork, GivenUp
  <2>4. Alone(e.run)' /\ Settled(e.run)' /\ Uncut(e.run)'
    <3>1. run'[e.run].attempt = run[e.run].attempt + 1
      BY <1>2, <1>4
    <3>2. CASE run[e.run].attempt # 0
      BY <1>1, <3>1, <3>2 DEF Alone, Settled, Uncut
    <3>3. CASE run[e.run].attempt = 0
      <4>1. \A g \in exec' : g.run = e.run /\ AtWork(g) => g = f
        BY <1>1, <1>3, <2>1, <3>3 DEF Firsts, Alone
      <4>2. ~Done(e.run)'
        <5>1. ~Done(e.run)
          BY <2>1 DEF Closed
        <5> QED BY <1>2, <1>3, <1>4, <5>1 DEF Done
      <4>3. ~HasCut(e.run)'
        <5> SUFFICES ASSUME NEW th \in Threads, th[2] = e.run, thread[th] = "cut" PROVE FALSE
          BY <1>3 DEF HasCut, Threads
        <5>1. th[3] <= run[e.run].attempt
          BY DEF Turns, ThreadBegun
        <5>2. th[3] \in 1 .. MaxAttempts
          BY DEF Threads
        <5> QED BY <3>3, <5>1, <5>2, AttemptsAssumption
      <4> QED BY <3>1, <3>3, <4>1, <4>2, <4>3 DEF Alone, Settled, Uncut, AtWork
    <3> QED BY <3>2, <3>3
  <2> QED BY <2>1, <2>2, <2>3, <2>4 DEF Firsts
<1> QED BY <1>3, <1>7, <1>8, <1>9, <1>10, <1>11, <1>12 DEF Turns, Threads

\* What the execution that creates a thread does next.
Sending(e) == [At(e, "send") EXCEPT !.thread = OwnThread(e)]

LEMMA AdmitTurns ==
    ASSUME CloudInvariant, CloudInvariant', Turns, NEW e \in exec, Admit(e), Admits(e)
    PROVE  Turns'
<1> PICK f : f = Sending(e)
  OBVIOUS
<1> DEFINE own == OwnThread(e)
<1>1. /\ e \in Execution /\ e.run \in Runs /\ e.proc \in Runners /\ e.attempt \in Nat
      /\ e.stage = "prepare" /\ e.thread = NoThread
      /\ run[e.run].owner = e.proc /\ run[e.run].status = "running"
      /\ Mine(e) /\ run[e.run].attempt = e.attempt
  <2>1. e.stage = "prepare" /\ e.thread = NoThread
        /\ run[e.run].owner = e.proc /\ run[e.run].status = "running"
    BY DEF Admit, Admits
  <2>2. Mine(e)
    BY <2>1 DEF Mine
  <2> QED BY <2>1, <2>2, CloudTyped
<1>2. /\ run' = run /\ scripts' = scripts
      /\ requests' = requests /\ cancelling' = cancelling
      /\ receipt' = [receipt EXCEPT ![e.run] = own]
      /\ thread' = [thread EXCEPT ![own] = "idle"]
      /\ exec' = (exec \ {e}) \cup {f}
  BY DEF Admit, RowsKept, RunKept, Move, Sending, OwnThread
<1>3. own \in Threads /\ own[1] = e.proc /\ own[2] = e.run /\ own[3] = e.attempt
  <2>1. e.attempt <= MaxAttempts
    BY <1>1 DEF CloudInvariant, RetryInvariant, AttemptBound
  <2>2. e.attempt >= 1
    BY <1>1 DEF CloudInvariant, Executing, AttemptBegun
  <2> QED BY <1>1, <2>1, <2>2, AttemptsAssumption DEF Threads, OwnThread
<1>4. /\ f.stage = "send" /\ f.proc = e.proc /\ f.run = e.run
      /\ f.thread = own /\ f.result = e.result
  <2> DEFINE d == At(e, "send")
  <2>1. /\ d.stage = "send" /\ d.proc = e.proc /\ d.run = e.run
        /\ d.thread = e.thread /\ d.result = e.result /\ d \in Execution
    BY <1>1 DEF At, Execution, Stages
  <2>2. f = [d EXCEPT !.thread = own]
    BY DEF Sending
  <2> HIDE DEF d, own
  <2> QED BY <2>1, <2>2 DEF Execution
<1>5. TurnsOf(e)
  BY DEF Turns
<1>6. thread[own] = "none" /\ own # NoThread
  BY <1>1, <1>3, <1>5, CloudTyped DEF TurnsOf, NotCreated
<1>7. receipt[e.run] = NoThread \/ Excused(e.run)
  BY <1>1, <1>5 DEF TurnsOf, NoReceiptYet
<1> HIDE DEF own
<1>8. /\ receipt'[e.run] = own /\ \A q \in Runs \ {e.run} : receipt'[q] = receipt[q]
      /\ thread'[own] = "idle" /\ \A th \in Threads \ {own} : thread'[th] = thread[th]
  BY <1>1, <1>2, <1>3, CloudTyped
<1>9. \A th \in Threads : thread[th] \in Replied => thread'[th] = thread[th]
  BY <1>6, <1>8 DEF Replied
<1>10. TurnsOf(f)'
  <2>1. f.result = "none"
    BY <1>1, <1>4, <1>5 DEF TurnsOf, WellThreaded
  <2>2. OwnerRuns(f)'
    BY <1>1, <1>2, <1>4 DEF OwnerRuns
  <2>3. OnReceipt(f)'
    BY <1>4, <1>8 DEF OnReceipt
  <2> QED BY <1>4, <1>6, <2>1, <2>2, <2>3
          DEF TurnsOf, WellThreaded, ResultEarned, NotCreated, NoReceiptYet
<1>11. ASSUME NEW g \in exec \ {e} PROVE TurnsOf(g)'
  <2>1. /\ g.run \in Runs /\ TurnsOf(g) /\ ~(g.run = e.run /\ g.proc = e.proc)
        /\ g.thread \in Threads \cup {NoThread}
    BY CloudTyped DEF Turns
  <2>2. WellThreaded(g)' /\ ResultEarned(g)'
    BY <1>9, <2>1 DEF TurnsOf, WellThreaded, ResultEarned
  <2>3. OwnThread(g) # own
    BY <2>1, <1>3 DEF OwnThread
  <2>4. NotCreated(g)'
    BY <1>8, <2>1, <2>3 DEF TurnsOf, NotCreated
  <2>5. Mine(g)' = Mine(g) /\ (Mine(g) => g.run # e.run)
    BY <1>1, <1>2, <2>1 DEF Mine
  <2>6. OnReceipt(g)' /\ OwnerRuns(g)'
    BY <1>2, <1>8, <2>1, <2>5 DEF TurnsOf, OnReceipt, OwnerRuns
  <2>7. NoReceiptYet(g)'
    BY <1>2, <1>8, <2>1, <2>5 DEF TurnsOf, NoReceiptYet, Excused, Once
  <2> QED BY <2>2, <2>4, <2>6, <2>7 DEF TurnsOf
<1>12. ASSUME NEW th \in Threads PROVE ThreadBegun(th)' /\ ThreadStored(th)'
  <2>1. th[2] \in Runs /\ ThreadBegun(th) /\ ThreadStored(th)
    BY DEF Threads, Turns
  <2>2. CASE th = own
    BY <1>1, <1>2, <1>3, <1>8, <2>2 DEF ThreadBegun, ThreadStored
  <2>3. CASE th # own
    <3>1. ThreadBegun(th)'
      BY <1>2, <1>8, <2>1, <2>3 DEF ThreadBegun
    <3>2. ASSUME thread[th] # "none", th[2] = e.run PROVE Excused(e.run)
      BY <1>7, <2>1, <3>2, CloudTyped DEF ThreadStored
    <3>3. ThreadStored(th)'
      BY <1>2, <1>8, <2>1, <2>3, <3>2 DEF ThreadStored, Excused, Once
    <3> QED BY <3>1, <3>3
  <2> QED BY <2>2, <2>3
<1>13. ASSUME NEW r \in Runs PROVE Closed(r)'
  <2>1. Closed(r) /\ Done(r)' = Done(r)
    BY <1>2 DEF Turns, Done
  <2>2. CASE r = e.run
    <3>1. ~Done(r)
      BY <1>1, <2>1, <2>2 DEF Closed
    <3> QED BY <2>1, <3>1 DEF Closed
  <2>3. CASE r # e.run
    <3>1. Real(r) => Real(r)'
      BY <1>8, <1>9, <2>3, CloudTyped DEF Real
    <3>2. \A g \in exec' : g.run = r => g \in exec /\ Mine(g)' = Mine(g)
      BY <1>2, <1>4, <2>3 DEF Mine
    <3> QED BY <1>2, <2>1, <3>1, <3>2 DEF Closed
  <2> QED BY <2>2, <2>3
<1>14. OneCancel'
  BY <1>2 DEF Turns, OneCancel, Once
<1>15. Firsts'
  <2>1. Interrupts
    BY <1>8 DEF Interrupts
  <2>2. \A r \in Runs : Done(r)' => Done(r)
    BY <1>2 DEF Done
  <2>3. \A g \in exec' : AtWork(g) =>
          \E d \in exec : /\ d.proc = g.proc /\ d.run = g.run /\ AtWork(d)
                          /\ GivenUp(d) => GivenUp(g)
    BY <1>1, <1>2, <1>4 DEF AtWork, GivenUp
  <2>4. FirstMoves
    BY <1>2, <2>1, <2>2, <2>3 DEF FirstMoves
  <2>5. OfRun'
    BY <1>2, <1>3, <1>4, <1>8 DEF OfRun, Turns, Firsts
  <2> QED BY <2>4, <2>5, FirstsKept DEF Turns
<1> QED BY <1>2, <1>10, <1>11, <1>12, <1>13, <1>14, <1>15 DEF Turns, Threads

-----------------------------------------------------------------------------
(* Every other step is carried.                                             *)

LEMMA RowsStay == ASSUME run' = run PROVE \A r \in Runs : RowMoves(r)
BY DEF RowMoves, RowStays

LEMMA OneRowMoves ==
    ASSUME run \in [Runs -> Row], NEW r \in Runs, NEW row, run' = [run EXCEPT ![r] = row],
           row.attempt = run[r].attempt, row.cancel = run[r].cancel,
           RowStays(r) \/ RowLeaves(r) \/ RowEnds(r)
    PROVE  \A q \in Runs : RowMoves(q)
BY DEF RowMoves, RowStays

\* A report by an execution that is over with it.
LEMMA ReportRows ==
    ASSUME CloudInvariant, NEW e \in exec, NEW t \in Stamps, NEW status \in Terminal,
           Report(e, status, t), Over(e), e.stage # "claim",
           status = "succeeded" /\ Mine(e) => e.run \in scripts \/ Real(e.run),
           status = "succeeded" => ~GivenUp(e)
    PROVE  \A r \in Runs : RowMoves(r)
<1>1. run \in [Runs -> Row] /\ e.run \in Runs /\ run[e.run] \in Row
  BY CloudTyped
<1>2. CASE ~Owned(e, t)
  BY <1>2, RowsStay DEF Report
<1>3. CASE Owned(e, t)
  <2> DEFINE row == CompletedRow(run[e.run], status)
  <2>1. /\ row.status = status /\ row.owner = run[e.run].owner /\ row.lease = NULL
        /\ row.attempt = run[e.run].attempt
    BY <1>1, RowFields
  <2>2. row.cancel = run[e.run].cancel
    BY <1>1, FlagsKept
  <2>3. run' = [run EXCEPT ![e.run] = row]
    BY <1>3 DEF Report, SetRow
  <2>4. run[e.run].owner = e.proc /\ Mine(e)
    BY <1>3 DEF Owned, Fenced, Mine
  <2> HIDE DEF row
  <2>5. run'[e.run] = row
    BY <1>1, <2>3
  <2>6. ASSUME NEW g \in exec', g.run = e.run PROVE ~Mine(g)'
    <3>1. g \in exec /\ g # e
      BY DEF Over
    <3>2. g.proc # e.proc
      BY <2>6, <3>1, CloudTyped
    <3> QED BY <2>1, <2>4, <2>5, <2>6, <3>2 DEF Mine
  <2>7. status = "succeeded" => Finishes(e.run)
    <3>1. \A g \in exec' : g.proc = e.proc /\ g.run = e.run => ~AtWork(g)
      BY CloudTyped DEF Over
    <3> QED BY <3>1 DEF Finishes, AtWork
  <2>8. RowEnds(e.run)
    BY <2>1, <2>4, <2>5, <2>6, <2>7 DEF RowEnds
  <2> QED BY <1>1, <2>1, <2>2, <2>3, <2>8, OneRowMoves
<1> QED BY <1>2, <1>3

LEMMA RenewRows ==
    ASSUME CloudInvariant, NEW e \in exec, NEW t \in Stamps, NEW seq, Watched(e, t),
           \/ Renew(e, t)
           \/ SetRow(e, [run[e.run] EXCEPT !.lease = GrantedLease(t), !.seq = seq])
    PROVE  \A r \in Runs : RowMoves(r)
<1>1. run \in [Runs -> Row] /\ e.run \in Runs /\ run[e.run] \in Row
  BY CloudTyped
<1>2. run[e.run].lease # NULL
  BY DEF Watched, Owned, Fenced, LeaseLive
<1>3. ASSUME NEW row, run' = [run EXCEPT ![e.run] = row],
             row.attempt = run[e.run].attempt, row.cancel = run[e.run].cancel,
             row.owner = run[e.run].owner, row.status = run[e.run].status
      PROVE  \A r \in Runs : RowMoves(r)
  <2>1. run'[e.run] = row
    BY <1>1, <1>3
  <2>2. RowStays(e.run)
    BY <1>2, <1>3, <2>1 DEF RowStays
  <2> QED BY <1>1, <1>3, <2>2, OneRowMoves
<1>4. CASE Renew(e, t)
  <2> DEFINE row == [run[e.run] EXCEPT !.lease = GrantedLease(t)]
  <2>1. /\ row.attempt = run[e.run].attempt /\ row.cancel = run[e.run].cancel
        /\ row.owner = run[e.run].owner /\ row.status = run[e.run].status
    BY <1>1 DEF Row
  <2>2. run' = [run EXCEPT ![e.run] = row]
    BY <1>4 DEF Renew, SetRow
  <2> HIDE DEF row
  <2> QED BY <1>3, <2>1, <2>2
<1>5. CASE SetRow(e, [run[e.run] EXCEPT !.lease = GrantedLease(t), !.seq = seq])
  <2> DEFINE row == [run[e.run] EXCEPT !.lease = GrantedLease(t), !.seq = seq]
  <2>1. /\ row.attempt = run[e.run].attempt /\ row.cancel = run[e.run].cancel
        /\ row.owner = run[e.run].owner /\ row.status = run[e.run].status
    BY <1>1 DEF Row
  <2>2. run' = [run EXCEPT ![e.run] = row]
    BY <1>5 DEF SetRow
  <2> HIDE DEF row
  <2> QED BY <1>3, <2>1, <2>2
<1> QED BY <1>4, <1>5

LEMMA DenyRows ==
    ASSUME CloudInvariant, NEW e \in exec, DenyAccess(e)
    PROVE  \A r \in Runs : RowMoves(r)
<1> DEFINE row == SkippedRow(run[e.run])
<1>1. run \in [Runs -> Row] /\ e.run \in Runs /\ run[e.run] \in Row
  BY CloudTyped
<1>2. run' = [run EXCEPT ![e.run] = row]
  BY DEF DenyAccess, SetRow
<1>3. row.cancel = run[e.run].cancel
  BY <1>1, FlagsKept
<1>4. CASE run[e.run].status \in Active
  <2>1. /\ row.status = "skipped" /\ row.owner = NoOwner /\ row.lease = NULL
        /\ row.attempt = run[e.run].attempt
    BY <1>1, <1>4, RowFields
  <2> HIDE DEF row
  <2>2. RowLeaves(e.run)
    BY <1>1, <1>2, <2>1 DEF RowLeaves
  <2> QED BY <1>1, <1>2, <1>3, <2>1, <2>2, OneRowMoves
<1>5. CASE run[e.run].status \notin Active
  <2>1. row = run[e.run]
    BY <1>1, <1>5, RowFields
  <2>2. run' = run
    BY <1>1, <1>2, <2>1
  <2> QED BY <2>2, RowsStay
<1> QED BY <1>4, <1>5

LEMMA SweepRows ==
    ASSUME CloudInvariant, NEW p \in Runners, Sweep(p)
    PROVE  \A r \in Runs : RowMoves(r)
<1>1. /\ p \in Replicas /\ run \in [Runs -> Row]
      /\ tick \in [Replicas -> [phase : {"idle", "recover", "expire"}, at : Nat,
                                rows : SUBSET Snapshot]]
  BY CloudAssumption DEF CloudInvariant, RetryInvariant, TypeOK
<1>2. CASE \E t \in Stamps : RecoverSelect(p, t)
  BY <1>2, RowsStay DEF RecoverSelect
<1>3. CASE RecoverUpdate(p)
  <2>1. PICK x \in tick[p].rows :
          \/ run' = run
          \/ /\ run' = [run EXCEPT ![x.run] = RecoveredRow(run[x.run], x)]
             /\ StillExpired(run[x.run], x, tick[p].at)
    BY <1>3 DEF RecoverUpdate, Earliest
  <2>2. x \in Snapshot /\ x.run \in Runs
    BY <1>1, <2>1 DEF Snapshot
  <2>3. CASE /\ run' = [run EXCEPT ![x.run] = RecoveredRow(run[x.run], x)]
             /\ StillExpired(run[x.run], x, tick[p].at)
    <3> DEFINE row == RecoveredRow(run[x.run], x)
    <3>1. run[x.run] \in Row /\ run[x.run].lease # NULL
      BY <1>1, <2>2, <2>3 DEF StillExpired, LeaseExpired
    <3>2. /\ row.status \in {"queued", "failed"} /\ row.owner = NoOwner /\ row.lease = NULL
          /\ row.attempt = run[x.run].attempt
      BY <2>2, <3>1, RowFields
    <3>3. row.cancel = run[x.run].cancel
      BY <2>2, <3>1, FlagsKept
    <3>4. run' = [run EXCEPT ![x.run] = row]
      BY <2>3
    <3> HIDE DEF row
    <3>5. run'[x.run] = row
      BY <1>1, <2>2, <3>4
    <3>6. RowLeaves(x.run)
      BY <3>1, <3>2, <3>5 DEF RowLeaves
    <3> QED BY <1>1, <2>2, <3>2, <3>3, <3>4, <3>6, OneRowMoves
  <2> QED BY <2>1, <2>3, RowsStay
<1> QED BY <1>2, <1>3 DEF Sweep

LEMMA DispatchRows ==
    ASSUME CloudInvariant, NEW p \in Runners, NEW r \in Runs, DispatchCloud(p, r)
    PROVE  \A q \in Runs : RowMoves(q)
<1> DEFINE row == [run[r] EXCEPT !.status = "queued"]
<1>1. run \in [Runs -> Row] /\ run[r] \in Row
  BY CloudTyped
<1>2. run[r].owner = NoOwner /\ run[r].lease = NULL /\ run[r].status = "absent"
  BY DEF DispatchCloud, CloudInvariant, RetryInvariant, AbsentIsFresh, AbsentRow
<1>3. /\ row.status = "queued" /\ row.owner = run[r].owner /\ row.lease = run[r].lease
      /\ row.attempt = run[r].attempt /\ row.cancel = run[r].cancel
  BY <1>1 DEF Row
<1>4. run' = [run EXCEPT ![r] = row]
  BY <1>1 DEF DispatchCloud
<1> HIDE DEF row
<1>5. run'[r] = row
  BY <1>1, <1>4
<1>6. RowLeaves(r)
  BY <1>2, <1>3, <1>5 DEF RowLeaves
<1> QED BY <1>1, <1>3, <1>4, <1>6, OneRowMoves

(* What the executions do.                                                  *)

LEMMA StageFields ==
    ASSUME NEW e \in Execution, NEW s \in Stages
    PROVE  /\ At(e, s) \in Execution /\ At(e, s).stage = s
           /\ At(e, s).proc = e.proc /\ At(e, s).run = e.run /\ At(e, s).attempt = e.attempt
           /\ At(e, s).thread = e.thread /\ At(e, s).result = e.result
BY DEF At, Execution

\* An execution that only moves from one stage to another, or fails.
LEMMA StageGoesOn ==
    ASSUME CloudInvariant, Turns, NEW e \in exec, e.stage \notin {"claim", "deliver"}
    PROVE  /\ e.stage = "access" => GoesOn(e, At(e, "read"))
           /\ e.thread # NoThread =>
                \A s \in {"send", "wait", "stop", "abort"} : GoesOn(e, At(e, s))
           /\ GoesOn(e, Failed(e))
<1>1. e \in Execution /\ e.result = "none" /\ WellThreaded(e)
  BY CloudTyped DEF Turns, TurnsOf, WellThreaded
<1>2. e.stage = "access" => GoesOn(e, At(e, "read"))
  BY <1>1, StageFields DEF Stages, GoesOn, WellThreaded, ResultEarned, GivenUp
<1>3. ASSUME e.thread # NoThread, NEW s \in {"send", "wait", "stop", "abort"}
      PROVE  GoesOn(e, At(e, s))
  <2>1. s \in Stages
    BY DEF Stages
  <2> QED BY <1>1, <1>3, <2>1, StageFields DEF GoesOn, WellThreaded, ResultEarned, GivenUp
<1>4. GoesOn(e, Failed(e))
  <2> DEFINE d == At(e, "deliver")
  <2>1. /\ d \in Execution /\ d.stage = "deliver" /\ d.proc = e.proc /\ d.run = e.run
        /\ d.attempt = e.attempt /\ d.thread = e.thread
    BY <1>1, StageFields DEF Stages
  <2>2. Failed(e) = [d EXCEPT !.result = "failed"]
    BY DEF Failed
  <2> HIDE DEF d
  <2>3. /\ Failed(e).stage = "deliver" /\ Failed(e).proc = e.proc /\ Failed(e).run = e.run
        /\ Failed(e).attempt = e.attempt /\ Failed(e).thread = e.thread
        /\ Failed(e).result = "failed"
    BY <2>1, <2>2 DEF Execution
  <2> QED BY <2>3 DEF GoesOn, WellThreaded, ResultEarned, GivenUp
<1> QED BY <1>2, <1>3, <1>4

ExecutionsGoOn == \A g \in exec' : g \in exec \/ Begun(g) \/ \E e \in exec : GoesOn(e, g)

LEMMA MovesGoOn ==
    ASSUME NEW e \in exec, NEW f, GoesOn(e, f), Move(e, f)
    PROVE  ExecutionsGoOn
BY DEF Move, ExecutionsGoOn

LEMMA StartsGoOn ==
    ASSUME NEW p, NEW rows, exec' = exec \cup Started(p, rows)
    PROVE  ExecutionsGoOn
<1> DEFINE entry(r) == [proc |-> p, run |-> r, attempt |-> 0, stage |-> "claim",
                        thread |-> NoThread, sent |-> 0, result |-> "none"]
<1>1. \A f \in Started(p, rows) : \E r \in rows : f = entry(r)
  BY DEF Started
<1>2. \A r : Begun(entry(r))
  BY DEF Begun
<1> HIDE DEF entry
<1> QED BY <1>1, <1>2 DEF ExecutionsGoOn

\* A step of an execution that writes no row and creates no thread.
LEMMA QuietCarried ==
    ASSUME RowsKept, UNCHANGED receipt, ThreadMoves, Interrupts, ExecutionsGoOn
    PROVE  Carried
BY RowsStay DEF RowsKept, RunKept, CancelMoves, Carried, ExecutionsGoOn

\* A step that writes at most rows, and touches no worker.
LEMMA RowsCarried ==
    ASSUME receipt' = receipt, thread' = thread, scripts' = scripts,
           requests' = requests, cancelling' = cancelling,
           \A r \in Runs : RowMoves(r), ExecutionsGoOn
    PROVE  Carried
BY DEF ThreadMoves, Interrupts, CancelMoves, Carried, ExecutionsGoOn

LEMMA ExecCarried ==
    ASSUME CloudInvariant, Turns, NEW e \in exec, ExecStep(e),
           ~(Admit(e) /\ Admits(e)),
           \A t \in Stamps : ClaimCloud(e, t) => run' = run /\ Over(e)
    PROVE  Carried
<1>1. /\ e \in Execution /\ e.run \in Runs /\ run[e.run] \in Row
      /\ thread \in [Threads -> ThreadStates] /\ e.thread \in Threads \cup {NoThread}
      /\ TurnsOf(e) /\ WellThreaded(e) /\ NoThread \notin Threads
  BY CloudTyped DEF Turns, TurnsOf
<1>2. Over(e) \/ exec' = exec => ExecutionsGoOn
  BY DEF Over, ExecutionsGoOn
<1>3. ASSUME NEW t \in Stamps, ClaimCloud(e, t) PROVE Carried
  BY <1>2, <1>3, RowsStay, RowsCarried DEF ClaimCloud, RunKept, WorkerKept
<1>4. ASSUME NEW t \in Stamps, EndScript(e, t) PROVE Carried
  <2>1. PICK result \in {"succeeded", "failed"} : Report(e, result, t)
    BY <1>4 DEF EndScript
  <2>2. \A r \in Runs : RowMoves(r)
    BY <1>4, <2>1, ReportRows DEF EndScript, Terminal, GivenUp
  <2> QED BY <1>2, <1>4, <2>2, RowsCarried DEF EndScript, RunKept, WorkerKept
<1>5. ASSUME NEW t \in Stamps, FirstMonitor(e, t) PROVE Carried
  <2>1. CASE Watched(e, t) /\ Renew(e, t) /\ Move(e, At(e, "read"))
    <3>1. \A r \in Runs : RowMoves(r)
      BY <2>1, RenewRows
    <3>2. ExecutionsGoOn
      BY <1>5, <2>1, StageGoesOn, MovesGoOn DEF FirstMonitor
    <3> QED BY <1>5, <3>1, <3>2, RowsCarried DEF FirstMonitor, RunKept, WorkerKept
  <2>2. CASE Report(e, "cancelled", t) /\ Over(e)
    <3>1. \A r \in Runs : RowMoves(r)
      BY <1>5, <2>2, ReportRows DEF FirstMonitor, Terminal
    <3> QED BY <1>2, <1>5, <2>2, <3>1, RowsCarried DEF FirstMonitor, RunKept, WorkerKept
  <2> QED BY <1>5, <2>1, <2>2 DEF FirstMonitor
<1>6. ASSUME NEW t \in Stamps, DeliverEvent(e, t) PROVE Carried
  <2> DEFINE f == [e EXCEPT !.sent = e.sent + 1]
  <2>1. CASE /\ Watched(e, t)
             /\ SetRow(e, [run[e.run] EXCEPT !.lease = GrantedLease(t), !.seq = e.sent + 1])
             /\ Move(e, f)
    <3>1. \A r \in Runs : RowMoves(r)
      BY <2>1, RenewRows
    <3>2. /\ f.proc = e.proc /\ f.run = e.run /\ f.attempt = e.attempt /\ f.stage = e.stage
          /\ f.thread = e.thread /\ f.result = e.result /\ e.stage = "deliver"
      BY <1>1, <1>6 DEF Execution, DeliverEvent
    <3> HIDE DEF f
    <3>3. GoesOn(e, f)
      BY <1>1, <3>2 DEF GoesOn, TurnsOf, WellThreaded, ResultEarned, GivenUp
    <3>4. ExecutionsGoOn
      BY <2>1, <3>3, MovesGoOn
    <3> QED BY <1>6, <3>1, <3>4, RowsCarried DEF DeliverEvent, WorkerKept
  <2>2. CASE Over(e) /\ UNCHANGED run
    BY <1>2, <1>6, <2>2, RowsStay, RowsCarried DEF DeliverEvent, WorkerKept
  <2> QED BY <1>6, <2>1, <2>2 DEF DeliverEvent
<1>7. ASSUME NEW t \in Stamps, CompleteCloud(e, t) PROVE Carried
  <2>1. e.result \in Terminal
    BY <1>1, <1>7 DEF CompleteCloud, Execution, Terminal, CloudInvariant, Executing, ResultKnown
  <2>2. e.result = "succeeded" /\ Mine(e) => Real(e.run)
    BY <1>1 DEF TurnsOf, ResultEarned, OnReceipt, Real
  <2>3. \A r \in Runs : RowMoves(r)
    BY <1>7, <2>1, <2>2, ReportRows DEF CompleteCloud, GivenUp
  <2> QED BY <1>2, <1>7, <2>3, RowsCarried DEF CompleteCloud, RunKept, WorkerKept
<1>8. CASE DenyAccess(e)
  BY <1>2, <1>8, DenyRows, RowsCarried DEF DenyAccess, RunKept, WorkerKept
<1>9. WorkerKept => ThreadMoves /\ Interrupts /\ receipt' = receipt
  BY DEF WorkerKept, ThreadMoves, Interrupts
<1>10. CASE ReadReceipt(e)
  <2> DEFINE d == At(e, "prepare")
             th == IF run[e.run].status = "running" THEN receipt[e.run] ELSE NoThread
             f == [d EXCEPT !.thread = th]
  <2>1. /\ d \in Execution /\ d.proc = e.proc /\ d.run = e.run /\ d.attempt = e.attempt
        /\ d.stage = "prepare" /\ d.result = e.result
    BY <1>1, StageFields DEF Stages
  <2>2. /\ f.proc = e.proc /\ f.run = e.run /\ f.attempt = e.attempt
        /\ f.stage = "prepare" /\ f.result = e.result /\ f.thread = th
    <3> HIDE DEF d, th
    <3> QED BY <2>1 DEF Execution
  <2>3. Move(e, f) /\ e.stage = "read"
    BY <1>10 DEF ReadReceipt
  <2> HIDE DEF f
  <2>4. e.result = "none"
    BY <1>1, <2>3 DEF WellThreaded
  <2>5. GoesOn(e, f)
    BY <2>2, <2>3, <2>4 DEF GoesOn, WellThreaded, ResultEarned, GivenUp
  <2>6. ExecutionsGoOn
    BY <2>3, <2>5, MovesGoOn
  <2> QED BY <1>9, <1>10, <2>6, QuietCarried DEF ReadReceipt
<1>11. CASE FailEarly(e)
  <2>1. ExecutionsGoOn
    BY <1>11, StageGoesOn, MovesGoOn DEF FailEarly
  <2> QED BY <1>9, <1>11, <2>1, QuietCarried DEF FailEarly
<1>12. CASE Admit(e) /\ ~Admits(e)
  <2>1. ExecutionsGoOn
    BY <1>12, StageGoesOn, MovesGoOn DEF Admit
  <2> QED BY <1>9, <1>12, <2>1, QuietCarried DEF Admit
<1>13. CASE Adopt(e)
  <2>1. ExecutionsGoOn
    BY <1>13, StageGoesOn, MovesGoOn DEF Adopt
  <2> QED BY <1>9, <1>13, <2>1, QuietCarried DEF Adopt
<1>14. CASE RefuseTurn(e)
  <2>1. e.thread # NoThread
    BY <1>1, <1>14 DEF RefuseTurn, WellThreaded
  <2>2. Move(e, Failed(e)) \/ Move(e, At(e, "stop"))
    BY <1>14 DEF RefuseTurn
  <2>3. ExecutionsGoOn
    BY <1>14, <2>1, <2>2, StageGoesOn, MovesGoOn DEF RefuseTurn
  <2> QED BY <1>9, <1>14, <2>3, QuietCarried DEF RefuseTurn
<1>15. CASE SendTurn(e)
  <2>1. e.thread # NoThread
    BY <1>1, <1>15 DEF SendTurn, WellThreaded
  <2>2. ExecutionsGoOn
    BY <1>15, <2>1, StageGoesOn, MovesGoOn DEF SendTurn
  <2>3. ThreadMoves /\ Interrupts
    BY <1>1, <1>15 DEF SendTurn, ThreadMoves, Interrupts, Submitted, ThreadStates
  <2> QED BY <1>15, <2>2, <2>3, QuietCarried DEF SendTurn
<1>16. CASE ObserveTurn(e)
  <2> DEFINE d == At(e, "deliver")
             out == Outcome(thread[e.thread])
             f == [d EXCEPT !.result = out]
  <2>1. /\ d \in Execution /\ d.proc = e.proc /\ d.run = e.run /\ d.attempt = e.attempt
        /\ d.stage = "deliver" /\ d.thread = e.thread
    BY <1>1, StageFields DEF Stages
  <2>2. /\ f.proc = e.proc /\ f.run = e.run /\ f.attempt = e.attempt
        /\ f.stage = "deliver" /\ f.result = out /\ f.thread = e.thread
    <3> HIDE DEF d, out
    <3> QED BY <2>1 DEF Execution
  <2>3. Move(e, f) /\ e.stage = "wait" /\ e.thread # NoThread
    BY <1>1, <1>16 DEF ObserveTurn, WellThreaded
  <2>4. out = "succeeded" => thread[e.thread] \in Replied
    BY DEF Outcome, Replied
  <2> HIDE DEF f, out
  <2>5. GoesOn(e, f)
    BY <2>2, <2>3, <2>4 DEF GoesOn, WellThreaded, ResultEarned, GivenUp
  <2>6. ExecutionsGoOn
    BY <2>3, <2>5, MovesGoOn
  <2> QED BY <1>9, <1>16, <2>6, QuietCarried DEF ObserveTurn
<1>17. CASE Interrupt(e)
  <2>1. e.thread # NoThread
    BY <1>1, <1>17 DEF Interrupt, WellThreaded
  <2>2. ExecutionsGoOn
    BY <1>17, <2>1, StageGoesOn, MovesGoOn DEF Interrupt
  <2> QED BY <1>9, <1>17, <2>2, QuietCarried DEF Interrupt
<1>18. CASE StopTurn(e)
  <2>1. ExecutionsGoOn
    BY <1>2, <1>18, StageGoesOn, MovesGoOn DEF StopTurn
  <2>2. ThreadMoves
    BY <1>1, <1>18 DEF StopTurn, ThreadMoves, Submitted, ThreadStates
  <2>3. Interrupts
    <3> SUFFICES ASSUME NEW th \in Threads, thread'[th] = "cut", thread[th] # "cut"
                 PROVE  /\ AtWork(e) /\ e.thread = th
                        /\ \A g \in exec' : g.proc = e.proc /\ g.run = e.run /\ AtWork(g)
                                           => GivenUp(g)
      BY <1>18 DEF StopTurn, RowsKept, Interrupts
    <3>1. e.thread = th
      BY <1>1, <1>18 DEF StopTurn
    <3>2. AtWork(e)
      BY <1>18 DEF StopTurn, AtWork
    <3>3. GivenUp(Failed(e))
      <4>1. At(e, "deliver") \in Execution /\ At(e, "deliver").stage = "deliver"
        BY <1>1, StageFields DEF Stages
      <4> QED BY <4>1 DEF Failed, GivenUp, Execution
    <3>4. ASSUME NEW g \in exec', g.proc = e.proc, g.run = e.run PROVE g = Failed(e)
      <4>1. \A f \in exec : f.proc = e.proc /\ f.run = e.run => f = e
        BY CloudTyped
      <4> QED BY <1>18, <3>4, <4>1 DEF StopTurn, Move, Over
    <3> QED BY <3>1, <3>2, <3>3, <3>4
  <2> QED BY <1>18, <2>1, <2>2, <2>3, QuietCarried DEF StopTurn
<1> QED BY <1>3, <1>4, <1>5, <1>6, <1>7, <1>8, <1>10, <1>11, <1>12, <1>13, <1>14, <1>15, <1>16,
           <1>17, <1>18 DEF ExecStep

LEMMA CancelCarried ==
    ASSUME NEW c \in Cancellations, NEW r \in Runs, CancelSelect(c, r), UNCHANGED cloudVars
    PROVE  Carried
<1>1. run' = run /\ receipt' = receipt /\ thread' = thread /\ scripts' = scripts /\ exec' = exec
  BY DEF CancelSelect, cloudVars
<1>2. CancelMoves
  BY <1>1 DEF CancelMoves
<1> QED BY <1>1, <1>2, RowsStay DEF Carried, ThreadMoves, Interrupts

LEMMA TurnsNext ==
    ASSUME CloudInvariant, CloudInvariant', Turns, [CloudNext]_cloudSystem
    PROVE  Turns'
<1>1. ASSUME receipt' = receipt, thread' = thread, scripts' = scripts, run' = run,
             requests' = requests, cancelling' = cancelling, exec' \subseteq exec
      PROVE  Turns'
  BY <1>1, RowsStay, RowsCarried, CarriesTurns DEF ExecutionsGoOn
<1>2. ASSUME NEW p \in Runners, NEW e \in exec, e.proc = p, ExecStep(e) PROVE Turns'
  <2>1. CASE Admit(e) /\ Admits(e)
    BY <2>1, AdmitTurns
  <2>2. ASSUME NEW t \in Stamps, ClaimCloud(e, t), ~(run' = run /\ Over(e)) PROVE Turns'
    BY <2>2, ClaimTurns DEF ClaimCloud, Claiming
  <2>3. CASE /\ ~(Admit(e) /\ Admits(e))
             /\ \A t \in Stamps : ClaimCloud(e, t) => run' = run /\ Over(e)
    BY <1>2, <2>3, ExecCarried, CarriesTurns
  <2> QED BY <2>1, <2>2, <2>3
<1>3. ASSUME NEW p \in Runners, Sweep(p) PROVE Turns'
  <2>1. /\ receipt' = receipt /\ thread' = thread /\ scripts' = scripts /\ exec' = exec
        /\ requests' = requests /\ cancelling' = cancelling
    BY <1>3 DEF Sweep, RecoverSelect, RecoverUpdate, cloudVars
  <2> QED BY <1>3, <2>1, SweepRows, RowsCarried, CarriesTurns DEF ExecutionsGoOn
<1>4. ASSUME NEW p \in Runners, StartQueued(p) PROVE Turns'
  <2>1. ExecutionsGoOn
    BY <1>4, StartsGoOn DEF StartQueued
  <2> QED BY <1>4, <2>1, RowsStay, RowsCarried, CarriesTurns DEF StartQueued
<1>5. ASSUME NEW p \in Runners, NEW r \in Runs, DispatchCloud(p, r) PROVE Turns'
  <2>1. ExecutionsGoOn
    BY <1>5, StartsGoOn DEF DispatchCloud
  <2> QED BY <1>5, <2>1, DispatchRows, RowsCarried, CarriesTurns DEF DispatchCloud
<1>6. ASSUME NEW e \in exec, NEW t \in Stamps, Monitor(e, t) PROVE Turns'
  <2>1. /\ receipt' = receipt /\ thread' = thread /\ scripts' = scripts
        /\ requests' = requests /\ cancelling' = cancelling
    BY <1>6 DEF Monitor, RunKept, WorkerKept
  <2>2. CASE Watched(e, t) /\ Renew(e, t) /\ UNCHANGED exec
    BY <2>1, <2>2, RenewRows, RowsCarried, CarriesTurns DEF ExecutionsGoOn
  <2>3. CASE run' = run /\ e.stage \in {"send", "wait"} /\ Move(e, At(e, "abort"))
    <3>1. e.thread # NoThread
      BY <2>3 DEF Turns, TurnsOf, WellThreaded
    <3>2. ExecutionsGoOn
      BY <2>3, <3>1, StageGoesOn, MovesGoOn
    <3> QED BY <2>1, <2>3, <3>2, RowsStay, RowsCarried, CarriesTurns
  <2>4. CASE run' = run /\ Over(e)
    BY <1>1, <2>1, <2>4 DEF Over
  <2> QED BY <1>6, <2>2, <2>3, <2>4 DEF Monitor
<1>7. ASSUME NEW th \in Threads, TurnEnds(th) PROVE Turns'
  <2>1. ThreadMoves /\ Interrupts
    BY <1>7, CloudTyped DEF TurnEnds, ThreadMoves, Interrupts, Submitted, ThreadStates
  <2>2. Carried
    BY <1>7, <2>1, RowsStay DEF TurnEnds, vars, Carried, CancelMoves
  <2> QED BY <2>2, CarriesTurns
<1>8. CASE UserStep
  BY <1>8, CancelCarried, CarriesTurns, CancelTurns DEF UserStep
<1>9. ASSUME NEW p \in Runners, ProcessStep(p) PROVE Turns'
  BY <1>2, <1>3, <1>4, <1>9 DEF ProcessStep
<1>10. ASSUME NEW p \in Alive,
              (TickAbort(p) /\ UNCHANGED cloudVars) \/ Crash(p)
       PROVE  Turns'
  BY <1>1, <1>10 DEF TickAbort, Crash, cloudVars
<1>11. ASSUME NEW e \in exec, Throw(e) PROVE Turns'
  BY <1>1, <1>11 DEF Throw, Over
<1>12. CASE CloudClock
  BY <1>1, <1>12 DEF CloudClock, Clock, cloudVars
<1>13. CASE UNCHANGED cloudSystem
  BY <1>1, <1>13 DEF cloudSystem, vars, cloudVars
<1> QED BY <1>5, <1>6, <1>7, <1>8, <1>9, <1>10, <1>11, <1>12, <1>13 DEF CloudNext, Alive

LEMMA TurnsInit == CloudInit => Turns
<1> SUFFICES ASSUME CloudInit PROVE Turns
  OBVIOUS
<1>1. \A r \in Runs : ~Done(r) /\ run[r].cancel = FALSE
  BY DEF CloudInit, Init, AbsentRow, Done
<1>2. \A th \in Threads : thread[th] = "none"
  BY DEF CloudInit
<1>3. \A th \in Threads : ThreadBegun(th) /\ ThreadStored(th)
  BY <1>2 DEF ThreadBegun, ThreadStored
<1>4. \A r \in Runs : Closed(r)
  BY <1>1 DEF Closed
<1>5. OneCancel
  BY <1>1 DEF OneCancel, CloudInit, Init
<1>6. Firsts
  <2>1. OfRun
    BY DEF CloudInit, OfRun
  <2>2. \A r \in Runs : ~HasCut(r)
    BY <1>2 DEF HasCut
  <2> QED BY <2>1, <2>2 DEF CloudInit, Firsts, Alone, Settled, Uncut
<1> QED BY <1>3, <1>4, <1>5, <1>6 DEF Turns, CloudInit

CloudTurns == CloudInvariant /\ Turns

LEMMA CloudTurnsAlways == CloudSpec => []CloudTurns
<1>1. CloudInit => CloudTurns
  BY CloudInvariantInit, TurnsInit DEF CloudTurns
<1>2. CloudTurns /\ [CloudNext]_cloudSystem => CloudTurns'
  BY CloudInvariantNext, TurnsNext DEF CloudTurns
<1> QED BY <1>1, <1>2, PTL DEF CloudSpec

-----------------------------------------------------------------------------
(* The theorems.                                                            *)

\* A run of an agent is recorded as succeeded only on the thread of its
\* stored receipt, with a reply and no error; and while it is in its first
\* attempt, not on a turn that an execution interrupted.  Nothing that
\* happens to the row or its workers afterwards, late cancellations that
\* write the status back included, takes that away.
THEOREM SuccessesAreAnswered == CloudSpec => []SuccessIsAnswered
<1>1. CloudTurns => SuccessIsAnswered
  <2> SUFFICES ASSUME CloudTurns, NEW r \in Runs \ scripts, run[r].status = "succeeded"
               PROVE  /\ receipt[r] # NoThread
                      /\ \/ thread[receipt[r]] = "answered"
                         \/ thread[receipt[r]] = "cut" /\ run[r].attempt > 1
    BY DEF SuccessIsAnswered
  <2>1. /\ Done(r) /\ Real(r) /\ run[r].attempt \in Nat
        /\ receipt[r] \in Threads \cup {NoThread}
    BY CloudTyped DEF CloudTurns, Turns, Closed, Done, Row
  <2>2. CASE thread[receipt[r]] = "cut"
    <3>1. HasCut(r)
      BY <2>1, <2>2 DEF CloudTurns, Turns, Firsts, OfRun, HasCut, Real
    <3>2. ~(run[r].attempt <= 1)
      BY <2>1, <3>1 DEF CloudTurns, Turns, Firsts, Uncut
    <3> QED BY <2>1, <2>2, <3>2 DEF Real
  <2> QED BY <2>1, <2>2 DEF Real, Replied
<1> QED BY <1>1, CloudTurnsAlways, PTL

\* Only one thread of a run is ever sent its instructions, whatever crashes,
\* expires or is taken over, unless the run was cancelled.
TurnOnceUnlessCancelled ==
    \A x, y \in Threads :
        /\ x[2] = y[2]
        /\ thread[x] \in Submitted /\ thread[y] \in Submitted
        => x = y \/ run[x[2]].cancel = TRUE

\* For any number of cancellations, a second thread is a cancelled run's: an
\* execution passes over a stored receipt only where it reads a row whose
\* status a cancellation wrote under its owner.
THEOREM TurnsAreSubmittedOnce == CloudSpec => []TurnOnceUnlessCancelled
<1>1. CloudTurns => TurnOnceUnlessCancelled
  BY DEF CloudTurns, Turns, ThreadStored, Excused, TurnOnceUnlessCancelled, Submitted
<1> QED BY <1>1, CloudTurnsAlways, PTL

\* When a run is cancelled once at most, it never has a second thread: the
\* receipt is stored before the turn is submitted, and the executions that
\* take the run over read it.
THEOREM OneTurnPerRun == ASSUME Once PROVE CloudSpec => []TurnOnce
<1>1. CloudTurns => TurnOnce
  BY DEF CloudTurns, Turns, ThreadStored, Excused, TurnOnce, Submitted
<1> QED BY <1>1, CloudTurnsAlways, PTL
=============================================================================
