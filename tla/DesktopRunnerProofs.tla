------------------------- MODULE DesktopRunnerProofs -------------------------
(***************************************************************************)
(* What holds of the desktop runner for every set of credentials, any miss *)
(* limit and any number of generations: its types, that a rejected         *)
(* credential stays out of use, that no two assignments execute, and that  *)
(* a rotation cuts none short.                                             *)
(*                                                                         *)
(* The invariant Good says of the closure that its generations have their  *)
(* shape and are sound, that the generation which has not retired is the   *)
(* current one, that there is none once the runner has stopped, and that   *)
(* no rejected credential is in use or waiting.  A generation is sound     *)
(* when its misses fit its heartbeats and, once it has retired, when what  *)
(* it still does is harmless: its thread is aborted, its requests lead     *)
(* nowhere, its loop will not turn.                                        *)
(*                                                                         *)
(* Every operator of the model takes a good state to a good one; rejection *)
(* and shutdown do so although the states between their statements are not *)
(* good.  The polling cycle moves further: a generation that it retires    *)
(* was, and is left, without a request or an assignment.                   *)
(***************************************************************************)
EXTENDS DesktopRunner, TLAPS

\* What a generation may still be doing once it has retired.
LeftOver(y) ==
    /\ y.cycle \in {"none", "last", "execute", "createCommand"}
    /\ y.cycle = "execute" => y.aborted
    /\ y.loop # "waiting" /\ y.probe # "sent"

\* A run that is out of misses has been aborted and sends no heartbeat.
Sound(y) ==
    /\ y.misses = MissLimit => y.aborted
    /\ y.probe = "sent" => y.misses # MissLimit
    /\ y.retired => LeftOver(y)

Gen == {y \in Generation : Sound(y)}

Shape == [current : Nat, pending : Credentials \cup {NoCredential}, stopped : BOOLEAN,
          rejected : SUBSET Credentials, gens : Seq(Gen)]

Shaped(s) == s \in Shape /\ s.current \in 0 .. Len(s.gens)

\* The current generation has not retired, and every other one has.
Alone(s) == \A h \in 1 .. Len(s.gens) : s.gens[h].retired <=> s.current # h

Awake(s) == s.stopped => s.current = NoGeneration

\* The two halves of RejectedStaysOut, of any state of the closure.
Clean(s) ==
    /\ s.pending \notin s.rejected
    /\ s.current # NoGeneration => s.gens[s.current].credential \notin s.rejected

Good(s) == Shaped(s) /\ Alone(s) /\ Awake(s) /\ Clean(s)

\* Generations are never forgotten, so a step may go on naming its own.
Grows(s, t) == Good(t) /\ Len(s.gens) <= Len(t.gens)

\* No generation retires with something under way, or stirs again.
Rests(y) == y.retired /\ y.cycle = "none"
Spares(s, t) ==
    \A h \in 1 .. Len(s.gens) :
        /\ Rests(s.gens[h]) => Rests(t.gens[h])
        /\ ~s.gens[h].retired => ~t.gens[h].retired \/ Rests(t.gens[h])

Moves(s, t) == Grows(s, t) /\ Spares(s, t) /\ t.rejected = s.rejected

-----------------------------------------------------------------------------
(* Replacing one generation.                                                *)

LEMMA GenOf ==
    ASSUME NEW s, Shaped(s), NEW g \in 1 .. Len(s.gens)
    PROVE  /\ s \in Shape /\ s.gens \in Seq(Gen) /\ Len(s.gens) \in Nat
           /\ s.gens[g] \in Gen /\ s.gens[g] \in Generation /\ Sound(s.gens[g])
<1>1. s \in Shape /\ s.gens \in Seq(Gen)
  BY DEF Shaped, Shape
<1>2. s.gens[g] \in Gen /\ Len(s.gens) \in Nat
  BY <1>1
<1> QED
  BY <1>1, <1>2 DEF Gen

\* Replacing one generation touches nothing else.
LEMMA TouchShaped ==
    ASSUME NEW s, Shaped(s), NEW g \in 1 .. Len(s.gens), NEW x \in Gen,
           NEW t, t = [s EXCEPT !.gens[g] = x]
    PROVE  /\ Shaped(t) /\ Len(t.gens) = Len(s.gens) /\ t.gens[g] = x
           /\ t.current = s.current /\ t.pending = s.pending
           /\ t.rejected = s.rejected /\ t.stopped = s.stopped
           /\ \A h \in 1 .. Len(s.gens) : h # g => t.gens[h] = s.gens[h]
<1>1. t.gens = [s.gens EXCEPT ![g] = x] /\ s.gens \in Seq(Gen)
  BY DEF Shaped, Shape
<1>2. t.gens \in Seq(Gen) /\ Len(t.gens) = Len(s.gens)
  BY <1>1
<1>3. t \in Shape
  BY <1>2 DEF Shaped, Shape
<1>4. \A h \in 1 .. Len(s.gens) : t.gens[h] = IF h = g THEN x ELSE s.gens[h]
  BY <1>1
<1>5. /\ t.current = s.current /\ t.pending = s.pending
      /\ t.rejected = s.rejected /\ t.stopped = s.stopped
  BY DEF Shaped, Shape
<1> QED
  BY <1>2, <1>3, <1>4, <1>5 DEF Shaped

\* A change that spares the credential and the retirement of a generation,
\* and gives it nothing to do if it rests, is a move.
Touches(y, x) ==
    x.credential = y.credential /\ x.retired = y.retired /\ (Rests(y) => x.cycle = "none")

LEMMA TouchMoves ==
    ASSUME NEW s, Good(s), NEW g \in 1 .. Len(s.gens), NEW x \in Gen,
           Touches(s.gens[g], x), NEW t, t = [s EXCEPT !.gens[g] = x]
    PROVE  /\ Moves(s, t) /\ t.gens[g] = x /\ Len(t.gens) = Len(s.gens)
           /\ t.current = s.current /\ t.stopped = s.stopped
<1>1. Shaped(s) /\ Alone(s) /\ Awake(s) /\ Clean(s)
  BY DEF Good
<1>2. /\ Shaped(t) /\ Len(t.gens) = Len(s.gens) /\ t.gens[g] = x
      /\ t.current = s.current /\ t.pending = s.pending
      /\ t.rejected = s.rejected /\ t.stopped = s.stopped
      /\ \A h \in 1 .. Len(s.gens) : h # g => t.gens[h] = s.gens[h]
  BY <1>1, TouchShaped
<1>3. x.credential = s.gens[g].credential /\ x.retired = s.gens[g].retired
      /\ (Rests(s.gens[g]) => Rests(x))
  BY DEF Touches, Rests
<1>4. Alone(t) /\ Awake(t)
  BY <1>1, <1>2, <1>3 DEF Alone, Awake
<1>5. Clean(t)
  BY <1>1, <1>2, <1>3 DEF Clean, Shaped, NoGeneration
<1>6. Len(s.gens) \in Nat
  BY <1>1, GenOf
<1>7. Spares(s, t)
  BY <1>2, <1>3 DEF Spares
<1> QED
  BY <1>1, <1>2, <1>4, <1>5, <1>6, <1>7 DEF Good, Grows, Moves

LEMMA MovesAgain ==
    ASSUME NEW s, NEW u, NEW t, Good(s), Moves(s, u), Moves(u, t)
    PROVE  Moves(s, t)
<1>1. Len(s.gens) \in Nat /\ Len(u.gens) \in Nat /\ Len(t.gens) \in Nat
  BY DEF Moves, Grows, Good, Shaped, Shape
<1>2. Good(t) /\ Len(s.gens) <= Len(u.gens) /\ Len(u.gens) <= Len(t.gens)
  BY DEF Moves, Grows
<1>3. 1 .. Len(s.gens) \subseteq 1 .. Len(u.gens)
  BY <1>1, <1>2
<1>4. Spares(s, t)
  <2> SUFFICES ASSUME NEW h \in 1 .. Len(s.gens)
               PROVE  /\ Rests(s.gens[h]) => Rests(t.gens[h])
                      /\ ~s.gens[h].retired => ~t.gens[h].retired \/ Rests(t.gens[h])
    BY DEF Spares
  <2>1. h \in 1 .. Len(u.gens)
    BY <1>3
  <2>2. /\ Rests(s.gens[h]) => Rests(u.gens[h])
        /\ ~s.gens[h].retired => ~u.gens[h].retired \/ Rests(u.gens[h])
    BY DEF Moves, Spares
  <2>3. /\ Rests(u.gens[h]) => Rests(t.gens[h])
        /\ ~u.gens[h].retired => ~t.gens[h].retired \/ Rests(t.gens[h])
    BY <2>1 DEF Moves, Spares
  <2> QED
    BY <2>2, <2>3
<1> QED
  BY <1>1, <1>2, <1>4 DEF Moves, Grows

\* A step that names a generation may go on naming it.
LEMMA StillThere ==
    ASSUME NEW s, NEW t, Good(s), Grows(s, t), NEW g \in 1 .. Len(s.gens)
    PROVE  Good(t) /\ g \in 1 .. Len(t.gens)
  BY DEF Grows, Good, Shaped, Shape

LEMMA StaysPut ==
    ASSUME NEW s, Good(s)
    PROVE  Moves(s, s)
  BY DEF Moves, Grows, Spares, Good, Shaped, Shape

-----------------------------------------------------------------------------
(* Retiring.                                                                *)

\* A generation left behind is sound, and keeps its credential.
LEMMA LeftBehind ==
    ASSUME NEW y \in Gen
    PROVE  /\ LeaveBehind(y) \in Gen /\ LeaveBehind(y).credential = y.credential
           /\ LeaveBehind(y).retired = TRUE
           /\ y.cycle = "none" => LeaveBehind(y).cycle = "none"
<1> DEFINE cycle == IF y.cycle \in Awaited THEN "last" ELSE y.cycle
           loop == IF y.loop = "waiting" THEN "done" ELSE y.loop
           aborted == y.aborted \/ y.cycle = "execute"
           probe == IF y.probe = "sent" THEN "late" ELSE y.probe
           x == [credential |-> y.credential, retired |-> TRUE, cycle |-> cycle, loop |-> loop,
                 tries |-> 1, misses |-> 0, aborted |-> aborted, probe |-> probe]
<1>0. y \in Generation
  BY DEF Gen
<1>1. cycle \in {"none", "last", "execute", "createCommand"} /\ (cycle = "execute" => aborted)
  <2>1. y.cycle \in Phases
    BY <1>0 DEF Generation
  <2> QED
    BY <2>1 DEF Phases, Awaited, ActivePhases, Working, Settling, Command, Claiming, Reporting
<1>2. loop \in {"awaiting", "done"} /\ probe \in {"none", "late"}
  BY <1>0 DEF Generation
<1>3. aborted \in BOOLEAN /\ y.credential \in Credentials
  <2>1. y.aborted \in BOOLEAN /\ y.credential \in Credentials
    BY <1>0 DEF Generation
  <2> QED
    BY <2>1
<1>4. LeaveBehind(y) = x
  <2>1. LeaveBehind(y) = [y EXCEPT !.retired = TRUE, !.cycle = cycle, !.loop = loop,
                                   !.aborted = aborted, !.probe = probe, !.misses = 0, !.tries = 1]
    BY Zenon DEF LeaveBehind
  <2> HIDE DEF cycle, loop, aborted, probe
  <2> QED
    BY <2>1, <1>0 DEF Generation
<1>5. y.cycle = "none" => cycle = "none"
  BY DEF Awaited, Claiming, Reporting, Settling
<1> HIDE DEF cycle, loop, aborted, probe
<1>6. cycle \in Phases
  BY <1>1 DEF Phases, ActivePhases, Working, Command
<1>7. x \in Generation
  BY <1>1, <1>2, <1>3, <1>6, LimitsAssumption DEF Generation
<1>8. Sound(x)
  BY <1>1, <1>2, LimitsAssumption DEF Sound, LeftOver
<1> QED
  BY <1>4, <1>5, <1>7, <1>8 DEF Gen

\* Retiring the current generation leaves none, and nothing else changes.
LEMMA RetireCurrentShaped ==
    ASSUME NEW s, Shaped(s), Alone(s), NEW t, t = RetireCurrent(s)
    PROVE  /\ Shaped(t) /\ Alone(t) /\ t.current = NoGeneration
           /\ Len(t.gens) = Len(s.gens) /\ t.pending = s.pending
           /\ t.rejected = s.rejected /\ t.stopped = s.stopped
           /\ \A h \in 1 .. Len(s.gens) : h # s.current => t.gens[h] = s.gens[h]
           /\ \A h \in 1 .. Len(s.gens) :
                /\ t.gens[h].credential = s.gens[h].credential
                /\ s.gens[h].cycle = "none" => t.gens[h].cycle = "none"
<1>1. CASE s.current = NoGeneration
  BY <1>1 DEF RetireCurrent
<1>2. CASE s.current # NoGeneration
  <2> DEFINE g == s.current
  <2>1. g \in 1 .. Len(s.gens) /\ s \in Shape
    BY <1>2 DEF Shaped, NoGeneration
  <2>2. s.gens[g] \in Gen /\ s.gens[g].retired # TRUE
    <3>1. s.gens[g] \in Gen
      BY <2>1, GenOf
    <3>2. ~s.gens[g].retired
      BY <2>1 DEF Alone
    <3> QED
      BY <3>1, <3>2
  <2> DEFINE x == LeaveBehind(s.gens[g])
             u == [s EXCEPT !.gens[g] = x]
  <2>3. /\ x \in Gen /\ x.credential = s.gens[g].credential /\ x.retired = TRUE
        /\ s.gens[g].cycle = "none" => x.cycle = "none"
    BY <2>2, LeftBehind
  <2>4. ~s.gens[g].retired
    BY <2>1 DEF Alone
  <2>5. t = [s EXCEPT !.gens[g] = x, !.current = NoGeneration]
    BY <1>2, <2>4 DEF RetireCurrent, Retire
  <2>6. t = [u EXCEPT !.current = NoGeneration]
    BY <2>1, <2>5 DEF Shape
  <2> HIDE DEF x
  <2>7. /\ Shaped(u) /\ Len(u.gens) = Len(s.gens) /\ u.gens[g] = x
        /\ u.current = s.current /\ u.pending = s.pending
        /\ u.rejected = s.rejected /\ u.stopped = s.stopped
        /\ \A h \in 1 .. Len(s.gens) : h # g => u.gens[h] = s.gens[h]
    BY <2>1, <2>3, TouchShaped
  <2> HIDE DEF u
  <2>8. /\ t.gens = u.gens /\ t.pending = u.pending /\ t.rejected = u.rejected
        /\ t.stopped = u.stopped /\ t.current = NoGeneration /\ t \in Shape
    BY <2>6, <2>7 DEF Shaped, Shape, NoGeneration
  <2>9. Shaped(t)
    <3>1. 0 \in 0 .. Len(t.gens)
      BY <2>8 DEF Shape
    <3> QED
      BY <3>1, <2>8 DEF Shaped, NoGeneration
  <2>10. Alone(t)
    <3> SUFFICES ASSUME NEW h \in 1 .. Len(t.gens)
                 PROVE  t.gens[h].retired /\ t.current # h
      BY DEF Alone
    <3>1. CASE h = g
      BY <3>1, <2>1, <2>3, <2>7, <2>8 DEF NoGeneration
    <3>2. CASE h # g
      <4>1. s.gens[h].retired /\ t.gens[h] = s.gens[h]
        BY <3>2, <2>7, <2>8 DEF Alone
      <4> QED
        BY <4>1, <2>8 DEF NoGeneration
    <3> QED
      BY <3>1, <3>2
  <2> QED
    BY <2>3, <2>7, <2>8, <2>9, <2>10
<1> QED
  BY <1>1, <1>2

LEMMA RetireCurrentGrows ==
    ASSUME NEW s, Good(s), NEW t, t = RetireCurrent(s)
    PROVE  /\ Grows(s, t) /\ t.rejected = s.rejected /\ t.current = NoGeneration
           /\ Len(t.gens) = Len(s.gens)
           /\ s.current = NoGeneration \/ s.gens[s.current].cycle = "none" => Spares(s, t)
<1>1. Shaped(s) /\ Alone(s) /\ Awake(s) /\ Clean(s) /\ Len(s.gens) \in Nat
  BY DEF Good, Shaped, Shape
<1>2. /\ Shaped(t) /\ Alone(t) /\ t.current = NoGeneration
      /\ Len(t.gens) = Len(s.gens) /\ t.pending = s.pending
      /\ t.rejected = s.rejected /\ t.stopped = s.stopped
      /\ \A h \in 1 .. Len(s.gens) : h # s.current => t.gens[h] = s.gens[h]
      /\ \A h \in 1 .. Len(s.gens) : s.gens[h].cycle = "none" => t.gens[h].cycle = "none"
  BY <1>1, RetireCurrentShaped
<1>3. Good(t)
  BY <1>1, <1>2 DEF Good, Awake, Clean
<1>4. ASSUME s.current = NoGeneration \/ s.gens[s.current].cycle = "none"
      PROVE  Spares(s, t)
  <2> SUFFICES ASSUME NEW h \in 1 .. Len(s.gens)
               PROVE  /\ Rests(s.gens[h]) => Rests(t.gens[h])
                      /\ ~s.gens[h].retired => ~t.gens[h].retired \/ Rests(t.gens[h])
    BY DEF Spares
  <2>1. CASE h # s.current
    BY <2>1, <1>2
  <2>2. CASE h = s.current
    <3>1. t.gens[h].cycle = "none" /\ t.gens[h].retired
      BY <2>2, <1>2, <1>4 DEF NoGeneration, Alone
    <3> QED
      BY <3>1 DEF Rests
  <2> QED
    BY <2>1, <2>2
<1> QED
  BY <1>1, <1>2, <1>3, <1>4 DEF Grows

-----------------------------------------------------------------------------
(* A new generation is good when its credential is clean; it takes the      *)
(* place of the current one, which had better be done.                      *)

Idle(s) == s.current = NoGeneration \/ s.gens[s.current].cycle = "none"

LEMMA ActivateGrows ==
    ASSUME NEW s, Good(s), NEW c \in Credentials \cup {NoCredential}, c \notin s.rejected,
           NEW t, t = Activate(s, c)
    PROVE  Grows(s, t) /\ t.rejected = s.rejected /\ (Idle(s) => Spares(s, t))
<1> DEFINE u == RetireCurrent(s)
<1>1. /\ Grows(s, u) /\ u.rejected = s.rejected /\ u.current = NoGeneration
      /\ Len(u.gens) = Len(s.gens) /\ (Idle(s) => Spares(s, u))
  BY RetireCurrentGrows DEF Idle
<1>2. u.stopped = s.stopped
  BY RetireCurrentShaped DEF Good
<1> HIDE DEF u
<1>3. CASE c = NoCredential \/ s.stopped
  BY <1>1, <1>3 DEF Activate, u
<1>4. CASE c # NoCredential /\ ~s.stopped
  <2> DEFINE n == Len(u.gens) + 1
             q == Append(u.gens, NewGeneration(c))
  <2>1. t = [u EXCEPT !.gens = q, !.current = n]
    BY <1>4 DEF Activate, u
  <2>2. u \in Shape /\ u.gens \in Seq(Gen) /\ Len(u.gens) \in Nat
    BY <1>1 DEF Grows, Good, Shaped, Shape
  <2>3. NewGeneration(c) \in Gen /\ NewGeneration(c).credential = c
        /\ NewGeneration(c).retired = FALSE
    <3>1. NewGeneration(c) \in Generation
      BY <1>4, LimitsAssumption DEF NewGeneration, Generation, Phases
    <3>2. Sound(NewGeneration(c))
      BY LimitsAssumption DEF NewGeneration, Sound
    <3> QED
      BY <3>1, <3>2 DEF NewGeneration, Gen
  <2>4. /\ q \in Seq(Gen) /\ Len(q) = n /\ q[n] = NewGeneration(c) /\ n \in Nat \ {0}
        /\ \A h \in 1 .. Len(u.gens) : q[h] = u.gens[h] /\ h # n
        /\ \A h \in 1 .. n : h # n => h \in 1 .. Len(u.gens)
    BY <2>2, <2>3
  <2> HIDE DEF n, q
  <2>5. /\ t.gens = q /\ t.current = n /\ t.pending = u.pending /\ t.rejected = u.rejected
        /\ t.stopped = u.stopped /\ t \in Shape
    BY <2>1, <2>2, <2>4 DEF Shape
  <2>6. Shaped(t)
    BY <2>4, <2>5 DEF Shaped
  <2>7. Clean(t) /\ Awake(t)
    BY <1>1, <1>2, <1>4, <2>3, <2>4, <2>5 DEF Clean, Awake, Grows, Good
  <2>8. Alone(t)
    <3> SUFFICES ASSUME NEW h \in 1 .. n
                 PROVE  q[h].retired <=> n # h
      BY <2>4, <2>5 DEF Alone
    <3>1. CASE h = n
      BY <3>1, <2>3, <2>4
    <3>2. CASE h # n
      <4>1. h \in 1 .. Len(u.gens) /\ q[h] = u.gens[h]
        BY <3>2, <2>4
      <4>2. u.gens[h].retired
        BY <4>1, <1>1 DEF Grows, Good, Alone, NoGeneration
      <4> QED
        BY <3>2, <4>1, <4>2
    <3> QED
      BY <3>1, <3>2
  <2>9. Len(s.gens) <= Len(t.gens)
    BY <1>1, <2>2, <2>4, <2>5 DEF n
  <2>10. Idle(s) => Spares(s, t)
    BY <1>1, <2>4, <2>5 DEF Spares
  <2> QED
    BY <1>1, <2>5, <2>6, <2>7, <2>8, <2>9, <2>10 DEF Grows, Good
<1> QED
  BY <1>3, <1>4

LEMMA NoPendingMoves ==
    ASSUME NEW s, Good(s), NEW t, t = [s EXCEPT !.pending = NoCredential]
    PROVE  /\ Moves(s, t) /\ t.rejected = s.rejected /\ t.current = s.current
           /\ t.gens = s.gens /\ t.pending = NoCredential /\ t.stopped = s.stopped
<1>1. s \in Shape /\ s.current \in 0 .. Len(s.gens) /\ Len(s.gens) \in Nat
  BY DEF Good, Shaped, Shape
<1>2. /\ t \in Shape /\ t.rejected = s.rejected /\ t.current = s.current
      /\ t.gens = s.gens /\ t.pending = NoCredential /\ t.stopped = s.stopped
  BY <1>1 DEF Shape
<1>3. NoCredential \notin t.rejected
  BY <1>2, CredentialsAssumption DEF Shape
<1>4. Good(t)
  BY <1>1, <1>2, <1>3 DEF Good, Shaped, Alone, Awake, Clean
<1>5. Spares(s, t)
  BY <1>2 DEF Spares
<1> QED
  BY <1>1, <1>2, <1>4, <1>5 DEF Grows, Moves

LEMMA TakePendingGrows ==
    ASSUME NEW s, Good(s), NEW t, t = TakePending(s)
    PROVE  Grows(s, t) /\ t.rejected = s.rejected /\ (Idle(s) => Spares(s, t))
<1> DEFINE u == [s EXCEPT !.pending = NoCredential]
<1>1. /\ Moves(s, u) /\ Good(u) /\ u.rejected = s.rejected /\ u.gens = s.gens
      /\ u.current = s.current
  BY NoPendingMoves DEF Moves, Grows
<1>2. s.pending \in Credentials \cup {NoCredential} /\ s.pending \notin s.rejected
  BY DEF Good, Shaped, Shape, Clean
<1>3. t = Activate(u, s.pending)
  BY DEF TakePending
<1> HIDE DEF u
<1>4. Grows(u, t) /\ t.rejected = u.rejected /\ (Idle(u) => Spares(u, t))
  BY <1>1, <1>2, <1>3, ActivateGrows
<1> QED
  BY <1>1, <1>4 DEF Grows, Idle, Spares

\* A configuration that waited is activated when the generation is done.
LEMMA ActivatePendingMoves ==
    ASSUME NEW s, Good(s), NEW g, s.gens[g].cycle = "none", NEW t, t = ActivatePending(s, g)
    PROVE  Moves(s, t)
<1>1. CASE IsCurrent(s, g) /\ s.pending # NoCredential
  <2>1. t = TakePending(s) /\ Idle(s)
    BY <1>1 DEF ActivatePending, IsCurrent, Idle
  <2> QED
    BY <2>1, TakePendingGrows DEF Moves
<1>2. CASE ~(IsCurrent(s, g) /\ s.pending # NoCredential)
  BY <1>2, StaysPut DEF ActivatePending
<1> QED
  BY <1>1, <1>2

\* The rejected credential leaves every place it could be used from; one
\* that was rejected before is in none of them, and nothing happens.
LEMMA RejectGrows ==
    ASSUME NEW s, Good(s), NEW g \in 1 .. Len(s.gens), NEW t, t = RejectCredential(s, g)
    PROVE  Grows(s, t) /\ (t.rejected # s.rejected \/ t = s)
<1> DEFINE c == s.gens[g].credential
           r == [s EXCEPT !.rejected = @ \cup {c}]
           own == Retire(r, g)
           both == IF Holds(own, c) THEN RetireCurrent(own) ELSE own
           left == DropPending(both, c)
<1>1. /\ s \in Shape /\ s.current \in 0 .. Len(s.gens) /\ Len(s.gens) \in Nat
      /\ c \in Credentials /\ Shaped(s) /\ Alone(s) /\ Awake(s) /\ Clean(s)
  <2>1. Shaped(s) /\ Alone(s) /\ Awake(s) /\ Clean(s) /\ s.current \in 0 .. Len(s.gens)
    BY DEF Good, Shaped
  <2>2. s.gens[g] \in Generation /\ Len(s.gens) \in Nat /\ s \in Shape
    BY <2>1, GenOf
  <2> QED
    BY <2>1, <2>2 DEF Generation
<1>2. /\ r \in Shape /\ r.rejected = s.rejected \cup {c} /\ r.current = s.current
      /\ r.gens = s.gens /\ r.pending = s.pending /\ r.stopped = s.stopped
  BY <1>1 DEF Shape
<1>3. Shaped(r) /\ Alone(r)
  BY <1>1, <1>2 DEF Shaped, Alone
<1>4. t = IF Holds(s, c) /\ left.pending # NoCredential THEN TakePending(left) ELSE left
  BY DEF RejectCredential
<1>5. g = s.current => own = RetireCurrent(r)
  BY <1>1, <1>2 DEF RetireCurrent, NoGeneration
<1>6. g # s.current => own = r
  BY <1>1, <1>2 DEF Alone, Retire
<1>7. r = [s EXCEPT !.rejected = s.rejected \cup {c}]
  BY DEF r
<1> HIDE DEF r
<1>8. /\ Shaped(own) /\ Alone(own) /\ Len(own.gens) = Len(s.gens)
      /\ own.pending = s.pending /\ own.rejected = s.rejected \cup {c}
      /\ own.stopped = s.stopped /\ own.current \in {s.current, NoGeneration}
      /\ \A h \in 1 .. Len(s.gens) : own.gens[h].credential = s.gens[h].credential
  BY <1>2, <1>3, <1>5, <1>6, RetireCurrentShaped
<1> HIDE DEF own
<1>9. /\ Shaped(both) /\ Alone(both) /\ Len(both.gens) = Len(s.gens)
      /\ both.pending = s.pending /\ both.rejected = s.rejected \cup {c}
      /\ both.stopped = s.stopped /\ both.current \in {s.current, NoGeneration}
      /\ both.current # NoGeneration => both.gens[both.current].credential \notin both.rejected
  <2>1. CASE ~Holds(own, c)
    <3>1. both = own
      BY <2>1
    <3>2. own.current # NoGeneration =>
            /\ own.current = s.current /\ own.current \in 1 .. Len(s.gens)
            /\ own.gens[own.current].credential = s.gens[s.current].credential
      BY <1>1, <1>8 DEF NoGeneration
    <3>3. own.current # NoGeneration => own.gens[own.current].credential # c
      BY <2>1 DEF Holds
    <3>4. s.current # NoGeneration => s.gens[s.current].credential \notin s.rejected
      BY <1>1 DEF Clean
    <3> QED
      BY <3>1, <3>2, <3>3, <3>4, <1>8
  <2>2. CASE Holds(own, c)
    <3>1. both = RetireCurrent(own)
      BY <2>2
    <3> QED
      BY <3>1, <1>8, RetireCurrentShaped
  <2> QED
    BY <2>1, <2>2
<1>10. Good(left) /\ Len(left.gens) = Len(s.gens) /\ left.rejected = s.rejected \cup {c}
  <2> HIDE DEF both
  <2>1. CASE both.pending = c
    <3>1. left = [both EXCEPT !.pending = NoCredential]
      BY <2>1 DEF DropPending
    <3>2. /\ left \in Shape /\ left.pending = NoCredential /\ left.current = both.current
          /\ left.gens = both.gens /\ left.rejected = both.rejected
          /\ left.stopped = both.stopped
      BY <3>1, <1>9 DEF Shaped, Shape
    <3>3. NoCredential \notin left.rejected
      BY <3>2, CredentialsAssumption DEF Shape
    <3>4. Shaped(left) /\ Alone(left)
      BY <3>2, <1>9 DEF Shaped, Alone
    <3>5. Awake(left) /\ Clean(left)
      BY <3>2, <3>3, <1>1, <1>9 DEF Awake, Clean
    <3> QED
      BY <3>2, <3>4, <3>5, <1>9 DEF Good
  <2>2. CASE both.pending # c
    <3>1. left = both
      BY <2>2 DEF DropPending
    <3>2. Awake(both) /\ Clean(both)
      BY <2>2, <1>1, <1>9 DEF Awake, Clean
    <3> QED
      BY <3>1, <3>2, <1>9 DEF Good
  <2> QED
    BY <2>1, <2>2
<1>11. ASSUME c \in s.rejected PROVE t = s
  <2>1. r = s
    BY <1>1, <1>7, <1>11 DEF Shape
  <2>2. g # s.current
    BY <1>1, <1>11 DEF Clean, NoGeneration
  <2>3. own = s
    BY <1>6, <2>1, <2>2
  <2>4. ~Holds(s, c)
    BY <1>1, <1>11 DEF Clean, Holds
  <2>5. both = s
    BY <2>3, <2>4
  <2>6. left = s
    BY <2>5, <1>1, <1>11 DEF Clean, DropPending
  <2> QED
    BY <2>4, <2>6, <1>4
<1> HIDE DEF left
<1>12. Grows(left, t) /\ t.rejected = left.rejected
  BY <1>4, <1>10, TakePendingGrows, StaysPut DEF Moves
<1>13. Grows(s, t)
  BY <1>10, <1>12 DEF Grows
<1>14. c \notin s.rejected => t.rejected # s.rejected
  BY <1>10, <1>12
<1> QED
  BY <1>11, <1>13, <1>14

-----------------------------------------------------------------------------
(* The polling cycle.                                                       *)

Rework(y, phase, n) == [y EXCEPT !.cycle = phase, !.tries = n]

LEMMA Reworked ==
    ASSUME NEW y \in Generation, NEW phase \in Phases, NEW n \in 1 .. 2,
           NEW x, x = Rework(y, phase, n)
    PROVE  /\ x \in Generation /\ x.cycle = phase /\ x.tries = n
           /\ x.credential = y.credential /\ x.retired = y.retired /\ x.loop = y.loop
           /\ x.misses = y.misses /\ x.aborted = y.aborted /\ x.probe = y.probe
<1>1. [y EXCEPT !.cycle = phase] \in Generation
  BY DEF Generation
<1>2. \A z \in Generation : [z EXCEPT !.tries = n] \in Generation
  BY DEF Generation
<1>3. x = [[y EXCEPT !.cycle = phase] EXCEPT !.tries = n]
  BY DEF Generation, Rework
<1>4. x \in Generation
  BY <1>1, <1>2, <1>3
<1>5. /\ x.cycle = phase /\ x.tries = n
      /\ x.credential = y.credential /\ x.retired = y.retired /\ x.loop = y.loop
      /\ x.misses = y.misses /\ x.aborted = y.aborted /\ x.probe = y.probe
  BY DEF Generation, Rework
<1> QED
  BY <1>4, <1>5

\* What the generation in use does next; it need not be sound once retired.
LEMMA SendMoves ==
    ASSUME NEW s, Good(s), NEW g \in 1 .. Len(s.gens), IsCurrent(s, g),
           NEW phase \in Phases, NEW t, t = Send(s, g, phase)
    PROVE  Moves(s, t)
<1> DEFINE y == s.gens[g]
           x == Rework(y, phase, 1)
<1>1. y \in Generation /\ Sound(y) /\ s.gens \in Seq(Gen) /\ s \in Shape
  BY GenOf DEF Good
<1>2. ~y.retired
  BY DEF IsCurrent
<1>3. /\ x \in Generation /\ x.credential = y.credential /\ x.retired = y.retired
      /\ x.misses = y.misses /\ x.aborted = y.aborted /\ x.probe = y.probe
  <2>1. 1 \in 1 .. 2
    OBVIOUS
  <2> QED
    BY <1>1, <2>1, Reworked
<1>4. t = [s EXCEPT !.gens[g] = x]
  BY <1>1 DEF Shape, Send, Rework
<1> HIDE DEF x
<1>6. Sound(x) /\ Touches(y, x)
  BY <1>1, <1>2, <1>3 DEF Sound, Touches, Rests
<1>5. x \in Gen
  BY <1>3, <1>6 DEF Gen
<1> QED
  BY <1>4, <1>5, <1>6, TouchMoves

\* Nothing is under way: a retired generation may come to that at any time.
LEMMA NoneMoves ==
    ASSUME NEW s, Good(s), NEW g \in 1 .. Len(s.gens),
           NEW t, t = [s EXCEPT !.gens[g].cycle = "none"]
    PROVE  Moves(s, t) /\ t.gens[g].cycle = "none"
<1> DEFINE y == s.gens[g]
           x == [y EXCEPT !.cycle = "none"]
<1>1. y \in Generation /\ Sound(y) /\ s.gens \in Seq(Gen) /\ s \in Shape
  BY GenOf DEF Good
<1>2. x \in Generation /\ Touches(y, x) /\ x.cycle = "none"
  BY <1>1 DEF Generation, Touches, Phases
<1>3. Sound(x)
  BY <1>1 DEF Generation, Sound, LeftOver
<1>4. t = [s EXCEPT !.gens[g] = x]
  BY <1>1 DEF Shape
<1> HIDE DEF x
<1>5. x \in Gen
  BY <1>2, <1>3 DEF Gen
<1>6. Moves(s, t)
  BY <1>2, <1>4, <1>5, TouchMoves
<1>7. t.gens[g] = x
  BY <1>1, <1>4 DEF Shape
<1> QED
  BY <1>2, <1>6, <1>7

LEMMA LoopMoves ==
    ASSUME NEW s, Good(s), NEW g \in 1 .. Len(s.gens),
           NEW l \in {"awaiting", "waiting", "done"}, l = "waiting" => ~s.gens[g].retired,
           NEW t, t = [s EXCEPT !.gens[g].loop = l]
    PROVE  Moves(s, t)
<1> DEFINE y == s.gens[g]
           x == [y EXCEPT !.loop = l]
<1>1. y \in Generation /\ Sound(y) /\ s.gens \in Seq(Gen) /\ s \in Shape
  BY GenOf DEF Good
<1>2. x \in Generation /\ Touches(y, x)
  BY <1>1 DEF Generation, Touches, Rests
<1>3. Sound(x)
  BY <1>1 DEF Generation, Sound, LeftOver
<1>4. t = [s EXCEPT !.gens[g] = x]
  BY <1>1 DEF Shape
<1> HIDE DEF x
<1>5. x \in Gen
  BY <1>2, <1>3 DEF Gen
<1> QED
  BY <1>2, <1>4, <1>5, TouchMoves

LEMMA EndCycleMoves ==
    ASSUME NEW s, Good(s), NEW g \in 1 .. Len(s.gens), NEW t, t = EndCycle(s, g)
    PROVE  Moves(s, t)
<1> DEFINE u == [s EXCEPT !.gens[g].cycle = "none"]
           v == ActivatePending(u, g)
           l == IF v.gens[g].loop = "awaiting" THEN LoopAfter(v, g) ELSE v.gens[g].loop
<1>1. Moves(s, u) /\ u.gens[g].cycle = "none"
  BY NoneMoves
<1>2. t = [v EXCEPT !.gens[g].loop = l]
  BY DEF EndCycle
<1> HIDE DEF u
<1>3. Moves(u, v)
  BY <1>1, ActivatePendingMoves DEF Moves, Grows
<1> HIDE DEF v
<1>4. Good(v) /\ g \in 1 .. Len(v.gens) /\ Moves(s, v)
  <2>1. Moves(s, v)
    BY <1>1, <1>3, MovesAgain
  <2> QED
    BY <2>1, StillThere DEF Moves
<1>5. l \in {"awaiting", "waiting", "done"} /\ (l = "waiting" => ~v.gens[g].retired)
  <2>1. v.gens[g] \in Generation /\ Sound(v.gens[g])
    BY <1>4, GenOf DEF Good
  <2> QED
    BY <2>1 DEF Generation, Sound, LeftOver, LoopAfter, IsCurrent
<1> HIDE DEF l
<1>6. Moves(v, t)
  BY <1>2, <1>4, <1>5, LoopMoves
<1> QED
  BY <1>4, <1>6, MovesAgain

LEMMA NextRequestMoves ==
    ASSUME NEW s, Good(s), NEW g \in 1 .. Len(s.gens), NEW phase \in Phases,
           NEW t, t = NextRequest(s, g, phase)
    PROVE  Moves(s, t)
<1>1. CASE IsCurrent(s, g)
  BY <1>1, SendMoves DEF NextRequest
<1>2. CASE ~IsCurrent(s, g)
  BY <1>2, EndCycleMoves DEF NextRequest
<1> QED
  BY <1>1, <1>2

\* The end of an assignment, once nothing is under way any more.
LEMMA AssignmentOverMoves ==
    ASSUME NEW s, NEW u, NEW t, Good(s), NEW g \in 1 .. Len(s.gens), Moves(s, u),
           u.gens[g].cycle = "none", t = NextRequest(ActivatePending(u, g), g, "poll")
    PROVE  Moves(s, t)
<1> DEFINE v == ActivatePending(u, g)
<1>1. Moves(u, v)
  BY ActivatePendingMoves DEF Moves, Grows
<1> HIDE DEF v
<1>2. Good(v) /\ g \in 1 .. Len(v.gens) /\ Moves(s, v)
  <2>1. Moves(s, v)
    BY <1>1, MovesAgain
  <2> QED
    BY <2>1, StillThere DEF Moves
<1>3. t = NextRequest(v, g, "poll") /\ "poll" \in Phases
  BY DEF v, Phases
<1>4. Moves(v, t)
  BY <1>2, <1>3, NextRequestMoves
<1> QED
  BY <1>2, <1>4, MovesAgain

LEMMA EndAssignmentMoves ==
    ASSUME NEW s, Good(s), NEW g \in 1 .. Len(s.gens), NEW t, t = EndAssignment(s, g)
    PROVE  Moves(s, t)
<1> DEFINE y == s.gens[g]
           x == Rework(y, "none", 1)
           u == [s EXCEPT !.gens[g].cycle = "none", !.gens[g].tries = 1]
<1>1. y \in Generation /\ Sound(y) /\ s.gens \in Seq(Gen) /\ s \in Shape
  BY GenOf DEF Good
<1>2. /\ x \in Generation /\ x.cycle = "none" /\ x.loop = y.loop
      /\ x.credential = y.credential /\ x.retired = y.retired
      /\ x.misses = y.misses /\ x.aborted = y.aborted /\ x.probe = y.probe
  <2>1. 1 \in 1 .. 2 /\ "none" \in Phases
    BY DEF Phases
  <2> QED
    BY <1>1, <2>1, Reworked
<1>3. Sound(x) /\ Touches(y, x)
  <2> HIDE DEF x
  <2> QED
    BY <1>1, <1>2 DEF Sound, LeftOver, Touches
<1>4. u = [s EXCEPT !.gens[g] = x]
  BY <1>1 DEF Shape, Rework
<1>5. t = NextRequest(ActivatePending(u, g), g, "poll")
  BY DEF EndAssignment
<1> HIDE DEF x, u
<1>6. x \in Gen
  BY <1>2, <1>3 DEF Gen
<1>7. Moves(s, u) /\ u.gens[g] = x
  BY <1>3, <1>4, <1>6, TouchMoves
<1> QED
  BY <1>2, <1>5, <1>7, AssignmentOverMoves

\* The heartbeats of the run in progress stop.
Quiet(y) == [y EXCEPT !.probe = IF @ = "sent" THEN "late" ELSE @,
                      !.misses = 0, !.aborted = FALSE]

LEMMA ShapedRunner ==
    ASSUME NEW s, Shaped(s)
    PROVE  s \in Runner
<1>1. Gen \subseteq Generation
  BY DEF Gen
<1>2. s.gens \in Seq(Generation)
  BY <1>1 DEF Shaped, Shape
<1> QED
  BY <1>2 DEF Shaped, Shape, Runner

LEMMA QuietIs ==
    ASSUME NEW s \in Runner, NEW g \in 1 .. Len(s.gens)
    PROVE  /\ StopHeartbeats(s, g) = [s EXCEPT !.gens[g] = Quiet(s.gens[g])]
           /\ Quiet(s.gens[g]) \in Generation
           /\ Quiet(s.gens[g]).retired = s.gens[g].retired
           /\ Quiet(s.gens[g]).credential = s.gens[g].credential
           /\ Quiet(s.gens[g]).cycle = s.gens[g].cycle
           /\ Quiet(s.gens[g]).loop = s.gens[g].loop
           /\ Quiet(s.gens[g]).probe # "sent" /\ Quiet(s.gens[g]).misses = 0
           /\ Quiet(Quiet(s.gens[g])) = Quiet(s.gens[g])
<1> DEFINE y == s.gens[g]
           p == IF y.probe = "sent" THEN "late" ELSE y.probe
           x == [y EXCEPT !.probe = p, !.misses = 0, !.aborted = FALSE]
<1>1. y \in Generation /\ s.gens \in Seq(Generation)
  <2>1. s.gens \in Seq(Generation)
    BY DEF Runner
  <2> QED
    BY <2>1
<1>2. p \in {"none", "late"}
  BY <1>1 DEF Generation
<1>3. Quiet(y) = x
  BY Zenon DEF Quiet
<1>4. StopHeartbeats(s, g) = [s EXCEPT !.gens[g].probe = p, !.gens[g].misses = 0,
                                       !.gens[g].aborted = FALSE]
  BY DEF StopHeartbeats
<1> HIDE DEF p
<1>5. StopHeartbeats(s, g) = [s EXCEPT !.gens[g] = x]
  <2>1. \A h \in 1 .. Len(s.gens) : h \in DOMAIN s.gens
    BY <1>1
  <2> QED
    BY <1>1, <1>4, <2>1 DEF Runner, Generation
<1>6. /\ x.retired = y.retired /\ x.credential = y.credential /\ x.cycle = y.cycle
      /\ x.loop = y.loop /\ x.probe = p /\ x.misses = 0 /\ x.aborted = FALSE
  BY <1>1 DEF Generation
<1>7. x \in Generation
  <2>1. [y EXCEPT !.probe = p] \in Generation
    BY <1>1, <1>2 DEF Generation
  <2>2. 0 \in 0 .. MissLimit
    BY LimitsAssumption
  <2>3. \A z \in Generation : [z EXCEPT !.misses = 0] \in Generation
    BY <2>2 DEF Generation
  <2>4. \A z \in Generation : [z EXCEPT !.aborted = FALSE] \in Generation
    BY DEF Generation
  <2>5. x = [[[y EXCEPT !.probe = p] EXCEPT !.misses = 0] EXCEPT !.aborted = FALSE]
    BY <1>1 DEF Generation
  <2> QED
    BY <2>1, <2>3, <2>4, <2>5
<1>8. Quiet(x) = x
  <2> HIDE DEF x
  <2>1. x = [x EXCEPT !.probe = x.probe, !.misses = x.misses, !.aborted = x.aborted]
    BY <1>7 DEF Generation
  <2>2. (IF x.probe = "sent" THEN "late" ELSE x.probe) = x.probe
    BY <1>2, <1>6
  <2> QED
    BY <2>1, <2>2, <1>6 DEF Quiet
<1> QED
  BY <1>2, <1>3, <1>5, <1>6, <1>7, <1>8

LEMMA StopHeartbeatsMoves ==
    ASSUME NEW s, Good(s), NEW g \in 1 .. Len(s.gens), IsCurrent(s, g),
           NEW t, t = StopHeartbeats(s, g)
    PROVE  Moves(s, t) /\ IsCurrent(t, g)
<1> DEFINE x == Quiet(s.gens[g])
<1>1. /\ t = [s EXCEPT !.gens[g] = x] /\ x \in Generation /\ Touches(s.gens[g], x)
      /\ x.probe # "sent" /\ x.misses = 0 /\ ~x.retired
  BY ShapedRunner, QuietIs DEF Good, IsCurrent, Touches, Rests
<1>2. Sound(x)
  BY <1>1, LimitsAssumption DEF Sound
<1> HIDE DEF x
<1>3. x \in Gen
  BY <1>1, <1>2 DEF Gen
<1>4. /\ Moves(s, t) /\ t.gens[g] = x /\ t.current = s.current /\ t.stopped = s.stopped
  BY <1>1, <1>3, TouchMoves
<1> QED
  BY <1>1, <1>4 DEF IsCurrent

LEMMA StoppedRunner ==
    ASSUME NEW s, s \in Runner, NEW g \in 1 .. Len(s.gens)
    PROVE  /\ StopHeartbeats(s, g) \in Runner
           /\ StopHeartbeats(s, g).gens = [s.gens EXCEPT ![g] = Quiet(s.gens[g])]
           /\ StopHeartbeats(s, g) = [s EXCEPT !.gens = StopHeartbeats(s, g).gens]
<1> DEFINE w == StopHeartbeats(s, g)
           x == Quiet(s.gens[g])
           q == [s.gens EXCEPT ![g] = x]
<1>1. w = [s EXCEPT !.gens[g] = x] /\ x \in Generation
  BY QuietIs
<1> HIDE DEF x, w
<1>2. s.gens \in Seq(Generation)
  BY DEF Runner
<1>3. q \in Seq(Generation) /\ Len(q) = Len(s.gens) /\ q[g] = x
  BY <1>1, <1>2
<1>4. w = [s EXCEPT !.gens = q]
  BY <1>1 DEF Runner
<1> HIDE DEF q
<1>5. w \in Runner /\ w.gens = q
  BY <1>3, <1>4 DEF Runner
<1> QED
  BY <1>3, <1>4, <1>5 DEF q, x, w

\* They need not stop twice.
LEMMA StopTwice ==
    ASSUME NEW s \in Runner, NEW g \in 1 .. Len(s.gens)
    PROVE  StopHeartbeats(StopHeartbeats(s, g), g) = StopHeartbeats(s, g)
<1> DEFINE w == StopHeartbeats(s, g)
<1>0. w \in Runner /\ w.gens = [s.gens EXCEPT ![g] = Quiet(s.gens[g])]
  BY StoppedRunner
<1> HIDE DEF w
<1>1. g \in 1 .. Len(w.gens) /\ w.gens[g] = Quiet(s.gens[g])
  <2>1. s.gens \in Seq(Generation)
    BY DEF Runner
  <2> QED
    BY <1>0, <2>1
<1>2. Quiet(w.gens[g]) = w.gens[g]
  BY <1>1, QuietIs
<1>3. StopHeartbeats(w, g) = [w EXCEPT !.gens[g] = w.gens[g]]
  BY <1>0, <1>1, <1>2, QuietIs
<1>4. [w EXCEPT !.gens[g] = w.gens[g]] = w
  <2>1. w.gens \in Seq(Generation)
    BY <1>0 DEF Runner
  <2> QED
    BY <1>0, <2>1 DEF Runner
<1> QED
  BY <1>3, <1>4 DEF w

\* A run whose generation has retired stops its heartbeats and is over.
LEMMA DroppedMoves ==
    ASSUME NEW s, Good(s), NEW g \in 1 .. Len(s.gens),
           NEW t, t = EndAssignment(StopHeartbeats(s, g), g)
    PROVE  Moves(s, t)
<1> DEFINE y == s.gens[g]
           z == Quiet(y)
           x == Rework(z, "none", 1)
           w == StopHeartbeats(s, g)
           u == [w EXCEPT !.gens[g].cycle = "none", !.gens[g].tries = 1]
<1>1. y \in Generation /\ Sound(y) /\ s.gens \in Seq(Gen) /\ s \in Shape
  BY GenOf DEF Good
<1>2. /\ w = [s EXCEPT !.gens[g] = z] /\ z \in Generation
      /\ z.retired = y.retired /\ z.credential = y.credential /\ z.loop = y.loop
      /\ z.probe # "sent" /\ z.misses = 0
  BY ShapedRunner, QuietIs DEF Good
<1>3. t = NextRequest(ActivatePending(u, g), g, "poll")
  BY DEF EndAssignment
<1> HIDE DEF z, w
<1>4. /\ x \in Generation /\ x.cycle = "none" /\ x.loop = y.loop
      /\ x.credential = y.credential /\ x.retired = y.retired
      /\ x.misses = 0 /\ x.probe # "sent"
  <2>1. 1 \in 1 .. 2 /\ "none" \in Phases
    BY DEF Phases
  <2> QED
    BY <1>2, <2>1, Reworked
<1>5. Sound(x) /\ Touches(y, x)
  <2> HIDE DEF x
  <2> QED
    BY <1>1, <1>4, LimitsAssumption DEF Sound, LeftOver, Touches
<1>6. u = [s EXCEPT !.gens[g] = x]
  <2>0. /\ w \in Runner /\ w.gens = [s.gens EXCEPT ![g] = z]
        /\ w = [s EXCEPT !.gens = w.gens]
    BY ShapedRunner, StoppedRunner DEF Good, w, z
  <2>1. w.gens[g] = z /\ g \in 1 .. Len(w.gens)
    BY <1>1, <2>0
  <2>2. w.gens \in Seq(Generation)
    BY <2>0 DEF Runner
  <2>3. u = [w EXCEPT !.gens[g] = x]
    <3>1. w \in Runner /\ x = Rework(w.gens[g], "none", 1) /\ g \in 1 .. Len(w.gens)
      BY <2>0, <2>1
    <3> HIDE DEF x
    <3> QED
      BY <2>2, <3>1 DEF Runner, Rework
  <2>4. [w.gens EXCEPT ![g] = x] = [s.gens EXCEPT ![g] = x]
    BY <1>1, <2>0
  <2> HIDE DEF u, x
  <2>5. u = [w EXCEPT !.gens = [s.gens EXCEPT ![g] = x]]
    BY <2>3, <2>4
  <2> DEFINE q == [s.gens EXCEPT ![g] = x]
  <2> HIDE DEF q
  <2>6. u = [s EXCEPT !.gens = q]
    BY <2>0, <2>5, <1>1 DEF Shape, q
  <2> QED
    BY <2>6 DEF q
<1> HIDE DEF x, u
<1>7. x \in Gen
  BY <1>4, <1>5 DEF Gen
<1>8. Moves(s, u) /\ u.gens[g] = x
  BY <1>5, <1>6, <1>7, TouchMoves
<1> QED
  BY <1>3, <1>4, <1>8, AssignmentOverMoves

LEMMA ProceedMoves ==
    ASSUME NEW s, Good(s), NEW g \in 1 .. Len(s.gens), NEW phase \in Phases,
           NEW t, t = Proceed(s, g, phase)
    PROVE  Moves(s, t)
<1> DEFINE u == IF phase \in Settling THEN StopHeartbeats(s, g) ELSE s
<1>1. t = IF IsCurrent(s, g) THEN Send(u, g, phase)
          ELSE EndAssignment(StopHeartbeats(u, g), g)
  BY DEF Proceed
<1>2. CASE IsCurrent(s, g)
  <2>1. Moves(s, u) /\ IsCurrent(u, g)
    BY <1>2, StopHeartbeatsMoves, StaysPut
  <2> HIDE DEF u
  <2>2. Good(u) /\ g \in 1 .. Len(u.gens)
    BY <2>1, StillThere DEF Moves
  <2>3. Moves(u, t)
    BY <1>1, <1>2, <2>1, <2>2, SendMoves
  <2> QED
    BY <2>1, <2>3, MovesAgain
<1>3. CASE ~IsCurrent(s, g)
  <2>1. StopHeartbeats(u, g) = StopHeartbeats(s, g)
    BY ShapedRunner, StopTwice DEF Good
  <2>2. t = EndAssignment(StopHeartbeats(s, g), g)
    BY <1>1, <1>3, <2>1
  <2> QED
    BY <2>2, DroppedMoves
<1> QED
  BY <1>2, <1>3

LEMMA FailRequestMoves ==
    ASSUME NEW s, Good(s), NEW g \in 1 .. Len(s.gens), NEW t, t = FailRequest(s, g)
    PROVE  Moves(s, t)
<1>1. CASE Retries(s, g)
  <2> DEFINE y == s.gens[g]
             x == [y EXCEPT !.tries = 2]
  <2>1. y \in Generation /\ Sound(y) /\ s.gens \in Seq(Gen) /\ s \in Shape
    BY GenOf DEF Good
  <2>2. x \in Generation /\ Touches(y, x)
    BY <2>1 DEF Generation, Touches, Rests
  <2>3. Sound(x)
    BY <2>1 DEF Generation, Sound, LeftOver
  <2>4. t = [s EXCEPT !.gens[g] = x]
    BY <1>1, <2>1 DEF Shape, FailRequest
  <2> HIDE DEF x
  <2>5. x \in Gen
    BY <2>2, <2>3 DEF Gen
  <2> QED
    BY <2>2, <2>4, <2>5, TouchMoves
<1>2. CASE ~Retries(s, g)
  <2>1. \/ t = Proceed(s, g, "terminal") \/ t = Proceed(s, g, "complete")
        \/ t = EndAssignment(s, g) \/ t = EndCycle(s, g)
    BY <1>2 DEF FailRequest
  <2>2. "terminal" \in Phases /\ "complete" \in Phases
    BY DEF Phases, ActivePhases, Settling
  <2> QED
    BY <2>1, <2>2, ProceedMoves, EndAssignmentMoves, EndCycleMoves
<1> QED
  BY <1>1, <1>2

LEMMA StartCycleMoves ==
    ASSUME NEW s, Good(s), NEW g \in 1 .. Len(s.gens), IsCurrent(s, g),
           NEW t, t = StartCycle(s, g)
    PROVE  Moves(s, t)
<1>1. "poll" \in Phases
  BY DEF Phases
<1> QED
  BY <1>1, SendMoves, StaysPut DEF StartCycle

\* The generation in use is the one that has not retired.
LEMMA LiveIsCurrent ==
    ASSUME NEW s, Good(s), NEW g \in 1 .. Len(s.gens), ~s.gens[g].retired
    PROVE  IsCurrent(s, g)
  BY DEF Good, Alone, Awake, IsCurrent, NoGeneration

-----------------------------------------------------------------------------
(* The steps.                                                               *)

LEMMA RunnerInit == ASSUME Init PROVE Good(runner)
<1>1. runner = [current |-> NoGeneration, pending |-> NoCredential, stopped |-> FALSE,
                rejected |-> {}, gens |-> <<>>]
  BY DEF Init
<1>2. runner \in Shape /\ runner.current = 0 /\ Len(runner.gens) = 0
  BY <1>1 DEF Shape, NoGeneration
<1> QED
  BY <1>1, <1>2 DEF Good, Shaped, Alone, Awake, Clean, NoGeneration

\* A step moves, or a credential is rejected that was not before.
Goes(s, t) == Grows(s, t) /\ (Spares(s, t) \/ t.rejected # s.rejected)

LEMMA MovesGoes ==
    ASSUME NEW s, NEW t, Moves(s, t)
    PROVE  Goes(s, t)
  BY DEF Moves, Goes

\* A generation in one of these phases has not retired.
LEMMA InPhase ==
    ASSUME Good(runner), NEW g \in 1 .. Len(runner.gens),
           runner.gens[g].cycle \notin {"none", "last", "execute", "createCommand"}
    PROVE  ~runner.gens[g].retired
<1>1. Sound(runner.gens[g])
  BY GenOf DEF Good
<1> QED
  BY <1>1 DEF Sound, LeftOver

LEMMA CycleMoves ==
    ASSUME NEW s, Good(s), NEW g \in 1 .. Len(s.gens), NEW phase \in Phases,
           ~s.gens[g].retired, NEW t, t = [s EXCEPT !.gens[g].cycle = phase]
    PROVE  Moves(s, t)
<1> DEFINE y == s.gens[g]
           x == [y EXCEPT !.cycle = phase]
<1>1. y \in Generation /\ Sound(y) /\ s.gens \in Seq(Gen) /\ s \in Shape
  BY GenOf DEF Good
<1>2. x \in Generation /\ Touches(y, x)
  BY <1>1 DEF Generation, Touches, Rests
<1>3. Sound(x)
  BY <1>1 DEF Generation, Sound
<1>4. t = [s EXCEPT !.gens[g] = x]
  BY <1>1 DEF Shape
<1> HIDE DEF x
<1>5. x \in Gen
  BY <1>2, <1>3 DEF Gen
<1> QED
  BY <1>2, <1>4, <1>5, TouchMoves

LEMMA UnauthorizedGoes ==
    ASSUME Good(runner), NEW g \in 1 .. Len(runner.gens), RequestUnauthorized(g)
    PROVE  Goes(runner, runner')
<1> DEFINE s == RejectCredential(runner, g)
<1>1. Grows(runner, s) /\ (s.rejected # runner.rejected \/ s = runner)
  BY RejectGrows
<1>2. runner' = FailRequest(s, g)
  BY DEF RequestUnauthorized, Step
<1> HIDE DEF s
<1>3. Good(s) /\ g \in 1 .. Len(s.gens) /\ Len(runner.gens) \in Nat
  BY <1>1, StillThere DEF Good, Shaped, Shape
<1>4. Moves(s, runner')
  BY <1>2, <1>3, FailRequestMoves
<1>5. CASE s = runner
  BY <1>4, <1>5, MovesGoes
<1>6. CASE s.rejected # runner.rejected
  <2>1. runner'.rejected # runner.rejected
    BY <1>4, <1>6 DEF Moves
  <2>2. Len(runner.gens) <= Len(runner'.gens) /\ Good(runner')
    <3>1. Len(s.gens) \in Nat /\ Len(runner'.gens) \in Nat
      BY <1>3, <1>4 DEF Moves, Grows, Good, Shaped, Shape
    <3> QED
      BY <1>1, <1>3, <1>4, <3>1 DEF Moves, Grows
  <2> QED
    BY <2>1, <2>2 DEF Goes, Grows
<1> QED
  BY <1>1, <1>5, <1>6

LEMMA AnswerGoes ==
    ASSUME Good(runner), NEW g \in 1 .. Len(runner.gens), Answer(g)
    PROVE  Goes(runner, runner')
<1> USE MovesGoes
<1>1. /\ "poll" \in Phases /\ "usage" \in Phases /\ "terminal" \in Phases
      /\ "complete" \in Phases /\ "user" \in Phases /\ "execute" \in Phases
      /\ "assistant" \in Phases /\ "createCommand" \in Phases
      /\ "completeCommand" \in Phases /\ Claiming \subseteq Phases
  BY DEF Phases, ActivePhases, Working, Settling, Command, Reporting
<1>2. CASE PollAnswered(g)
  BY <1>1, <1>2, NextRequestMoves, EndCycleMoves DEF PollAnswered, Step
<1>3. CASE ClaimAnswered(g)
  BY <1>1, <1>3, ProceedMoves, EndCycleMoves DEF ClaimAnswered, StartAssignment, Step
<1>4. CASE CommandClaimed(g)
  BY <1>1, <1>4, InPhase, CycleMoves DEF CommandClaimed, Step, In
<1>5. CASE CommandLost(g)
  BY <1>1, <1>5, NextRequestMoves, EndCycleMoves DEF CommandLost, Step
<1>6. CASE CommandCreated(g)
  BY <1>1, <1>6, NextRequestMoves DEF CommandCreated, Step
<1>7. CASE CommandCompleted(g)
  BY <1>7, EndAssignmentMoves DEF CommandCompleted, Step
<1>8. CASE UserEventStored(g)
  BY <1>1, <1>8, ProceedMoves, InPhase, CycleMoves DEF UserEventStored, Step, In
<1>9. CASE ThreadFinished(g)
  BY <1>1, <1>9, ProceedMoves DEF ThreadFinished, Step
<1>10. CASE ThreadFailed(g)
  BY <1>1, <1>10, ProceedMoves DEF ThreadFailed, Step
<1>11. CASE ReportStored(g)
  BY <1>1, <1>11, ProceedMoves, EndAssignmentMoves DEF ReportStored, Step
<1>12. CASE RequestFailed(g)
  BY <1>12, FailRequestMoves DEF RequestFailed, Step
<1>13. CASE RequestUnauthorized(g)
  BY <1>13, UnauthorizedGoes
<1> QED
  BY <1>2, <1>3, <1>4, <1>5, <1>6, <1>7, <1>8, <1>9, <1>10, <1>11, <1>12, <1>13 DEF Answer

-----------------------------------------------------------------------------
(* Heartbeats.                                                              *)

Beat(y, p, n, b) == [y EXCEPT !.probe = p, !.misses = n, !.aborted = b]

LEMMA BeatMoves ==
    ASSUME NEW s, Good(s), NEW g \in 1 .. Len(s.gens), NEW p \in {"none", "sent", "late"},
           NEW n \in 0 .. MissLimit, NEW b \in BOOLEAN,
           n = MissLimit => b, p = "sent" => n # MissLimit,
           s.gens[g].retired => p # "sent" /\ (b \/ s.gens[g].cycle # "execute"),
           NEW t, t = [s EXCEPT !.gens[g] = Beat(s.gens[g], p, n, b)]
    PROVE  Moves(s, t)
<1> DEFINE y == s.gens[g]
           x == Beat(y, p, n, b)
<1>1. y \in Generation /\ Sound(y) /\ s.gens \in Seq(Gen) /\ s \in Shape
  BY GenOf DEF Good
<1>2. x \in Generation
  <2>1. [y EXCEPT !.probe = p] \in Generation
    BY <1>1 DEF Generation
  <2>2. \A z \in Generation : [z EXCEPT !.misses = n] \in Generation
    BY DEF Generation
  <2>3. \A z \in Generation : [z EXCEPT !.aborted = b] \in Generation
    BY DEF Generation
  <2>4. x = [[[y EXCEPT !.probe = p] EXCEPT !.misses = n] EXCEPT !.aborted = b]
    BY <1>1 DEF Generation, Beat
  <2> QED
    BY <2>1, <2>2, <2>3, <2>4
<1>3. /\ x.credential = y.credential /\ x.retired = y.retired /\ x.cycle = y.cycle
      /\ x.loop = y.loop /\ x.probe = p /\ x.misses = n /\ x.aborted = b
  BY <1>1 DEF Generation, Beat
<1> HIDE DEF x
<1>4. Sound(x) /\ Touches(y, x)
  BY <1>1, <1>3 DEF Sound, LeftOver, Touches, Rests
<1>5. x \in Gen
  BY <1>2, <1>4 DEF Gen
<1>6. t = [s EXCEPT !.gens[g] = x]
  BY DEF x
<1> QED
  BY <1>4, <1>5, <1>6, TouchMoves

LEMMA HeartbeatGoes ==
    ASSUME Good(runner), NEW g \in 1 .. Len(runner.gens),
           HeartbeatSent(g) \/ HeartbeatSettles(g)
    PROVE  Goes(runner, runner')
<1> DEFINE y == runner.gens[g]
<1>1. y \in Generation /\ Sound(y) /\ runner.gens \in Seq(Gen) /\ runner \in Shape
  BY GenOf DEF Good
<1>2. /\ y.misses \in 0 .. MissLimit /\ y.aborted \in BOOLEAN
      /\ 0 \in 0 .. MissLimit /\ MissLimit # 0
  BY <1>1, LimitsAssumption DEF Generation
<1>3. /\ y.misses = MissLimit => y.aborted
      /\ y.probe = "sent" => y.misses # MissLimit
      /\ y.retired => (y.cycle = "execute" => y.aborted) /\ y.probe # "sent"
  BY <1>1 DEF Sound, LeftOver
<1>4. \A p : [runner EXCEPT !.gens[g].probe = p]
             = [runner EXCEPT !.gens[g] = Beat(y, p, y.misses, y.aborted)]
  <2> SUFFICES ASSUME NEW p
               PROVE  [runner EXCEPT !.gens[g].probe = p]
                      = [runner EXCEPT !.gens[g] = Beat(y, p, y.misses, y.aborted)]
    OBVIOUS
  <2>1. [y EXCEPT !.probe = p] = Beat(y, p, y.misses, y.aborted)
    BY <1>1 DEF Generation, Beat
  <2> QED
    BY <1>1, <2>1 DEF Shape
<1>5. CASE HeartbeatSent(g)
  <2>1. runner' = [runner EXCEPT !.gens[g] = Beat(y, "sent", y.misses, y.aborted)]
    BY <1>4, <1>5 DEF HeartbeatSent, Step
  <2>2. ~y.retired /\ ~y.aborted
    BY <1>5 DEF HeartbeatSent, IsCurrent
  <2> QED
    BY <1>2, <1>3, <2>1, <2>2, BeatMoves, MovesGoes
<1>6. CASE HeartbeatAccepted(g)
  <2>1. runner' = [runner EXCEPT !.gens[g] = Beat(y, "none", 0, y.aborted)]
    <3>1. [y EXCEPT !.probe = "none", !.misses = 0] = Beat(y, "none", 0, y.aborted)
      BY <1>1 DEF Generation, Beat
    <3>2. runner' = [runner EXCEPT !.gens[g] = [y EXCEPT !.probe = "none", !.misses = 0]]
      BY <1>1, <1>6 DEF HeartbeatAccepted, Step, Shape
    <3> QED
      BY <3>1, <3>2
  <2> QED
    BY <1>2, <1>3, <2>1, BeatMoves, MovesGoes
<1>7. CASE HeartbeatCancels(g)
  <2>1. runner' = [runner EXCEPT !.gens[g] = Beat(y, "none", 0, TRUE)]
    BY <1>1, <1>7 DEF HeartbeatCancels, Step, Shape, Beat
  <2> QED
    BY <1>2, <1>3, <2>1, BeatMoves, MovesGoes
<1>8. CASE HeartbeatMissed(g)
  <2> DEFINE n == y.misses + 1
             b == y.aborted \/ OutOfMisses(n)
  <2>1. runner' = [runner EXCEPT !.gens[g].probe = "none", !.gens[g].misses = n,
                                 !.gens[g].aborted = b]
    BY <1>8 DEF HeartbeatMissed, Step
  <2>2. y.probe = "sent"
    BY <1>8 DEF HeartbeatMissed
  <2>3. n \in 0 .. MissLimit /\ (n = MissLimit => b) /\ b \in BOOLEAN /\ ~y.retired
    BY <1>2, <1>3, <2>2, LimitsAssumption DEF OutOfMisses
  <2> HIDE DEF n, b
  <2>4. runner' = [runner EXCEPT !.gens[g] = Beat(y, "none", n, b)]
    BY <1>1, <2>1 DEF Shape, Beat
  <2> QED
    BY <2>3, <2>4, BeatMoves, MovesGoes
<1>9. CASE HeartbeatLate(g)
  <2>1. runner' = [runner EXCEPT !.gens[g] = Beat(y, "none", y.misses, y.aborted)]
    BY <1>4, <1>9 DEF HeartbeatLate, Step
  <2> QED
    BY <1>2, <1>3, <2>1, BeatMoves, MovesGoes
<1>10. CASE HeartbeatUnauthorized(g)
  <2> DEFINE s == [runner EXCEPT !.gens[g].probe = "none"]
  <2>1. s = [runner EXCEPT !.gens[g] = Beat(y, "none", y.misses, y.aborted)]
    BY <1>4
  <2>2. runner' = RejectCredential(s, g)
    BY <1>10 DEF HeartbeatUnauthorized, Step
  <2> HIDE DEF s
  <2>3. Moves(runner, s)
    BY <1>2, <1>3, <2>1, BeatMoves
  <2>4. Good(s) /\ g \in 1 .. Len(s.gens) /\ s.rejected = runner.rejected
        /\ Len(runner.gens) <= Len(s.gens) /\ Len(runner.gens) \in Nat /\ Len(s.gens) \in Nat
    BY <2>3, StillThere DEF Moves, Grows, Good, Shaped, Shape
  <2>5. Grows(s, runner') /\ (runner'.rejected # s.rejected \/ runner' = s)
    BY <2>2, <2>4, RejectGrows
  <2>6. Grows(runner, runner')
    <3>1. Len(runner'.gens) \in Nat
      BY <2>5 DEF Grows, Good, Shaped, Shape
    <3> QED
      BY <2>4, <2>5, <3>1 DEF Grows
  <2> QED
    BY <2>3, <2>4, <2>5, <2>6 DEF Goes, Moves
<1> QED
  BY <1>5, <1>6, <1>7, <1>8, <1>9, <1>10 DEF HeartbeatSettles

-----------------------------------------------------------------------------
(* The loop's timer, and the calls of the main process.                     *)

LEMMA LoopTurnGoes ==
    ASSUME Good(runner), NEW g \in 1 .. Len(runner.gens), LoopTurn(g)
    PROVE  Goes(runner, runner')
<1> DEFINE s == StartCycle(runner, g)
<1>1. Sound(runner.gens[g])
  BY GenOf DEF Good
<1>2. IsCurrent(runner, g)
  BY <1>1, LiveIsCurrent DEF LoopTurn, Sound, LeftOver
<1>3. Moves(runner, s)
  BY <1>2, StartCycleMoves
<1>4. runner' = [s EXCEPT !.gens[g].loop = "awaiting"]
  BY DEF LoopTurn, Step
<1> HIDE DEF s
<1>5. Good(s) /\ g \in 1 .. Len(s.gens)
  BY <1>3, StillThere DEF Moves
<1>6. Moves(s, runner')
  BY <1>4, <1>5, LoopMoves
<1>7. Moves(runner, runner')
  BY <1>3, <1>6, MovesAgain
<1> QED
  BY <1>7, MovesGoes

LEMMA WakeGoes == ASSUME Good(runner), Wake PROVE Goes(runner, runner')
<1>1. runner.current \in 1 .. Len(runner.gens)
  BY DEF Wake, Good, Shaped, NoGeneration
<1>2. IsCurrent(runner, runner.current)
  BY <1>1, LiveIsCurrent DEF Good, Alone
<1> QED
  BY <1>1, <1>2, StartCycleMoves, MovesGoes DEF Wake, Step

\* A rejected credential is refused at the door, and a rotation waits for
\* a generation that is busy.
LEMMA ConfigureGrows ==
    ASSUME Good(runner), NEW c \in Credentials \cup {NoCredential}, Configure(c)
    PROVE  /\ Grows(runner, runner')
           /\ \/ runner'.gens = runner.gens
              \/ wanted' = NoCredential
              \/ ~Busy(runner)
<1>1. CASE c \in runner.rejected
  BY <1>1, StaysPut DEF Configure, Moves
<1>2. CASE c \notin runner.rejected
  <2> DEFINE u == [runner EXCEPT !.pending = NoCredential]
  <2>1. /\ Moves(runner, u) /\ Good(u) /\ u.rejected = runner.rejected
        /\ u.gens = runner.gens
    BY NoPendingMoves DEF Moves, Grows
  <2>2. wanted' = c /\ runner' = Configured(runner, c)
    BY <1>2 DEF Configure
  <2>3. CASE runner' = u
    BY <2>1, <2>3 DEF Moves
  <2>4. CASE runner' = [runner EXCEPT !.pending = c]
    <3>1. runner \in Shape /\ Len(runner.gens) \in Nat
      BY DEF Good, Shaped, Shape
    <3>2. /\ runner' \in Shape /\ runner'.pending = c /\ runner'.gens = runner.gens
          /\ runner'.current = runner.current /\ runner'.rejected = runner.rejected
          /\ runner'.stopped = runner.stopped
      BY <2>4, <3>1 DEF Shape
    <3>3. Good(runner')
      BY <3>2, <1>2 DEF Good, Shaped, Alone, Awake, Clean
    <3> QED
      BY <3>1, <3>2, <3>3 DEF Grows
  <2>5. CASE runner' = Activate(u, c) /\ (c = NoCredential \/ ~Busy(runner))
    <3>1. runner' = Activate(u, c) /\ c \notin u.rejected
      BY <2>1, <2>5, <1>2
    <3> HIDE DEF u
    <3>2. Grows(u, runner')
      BY <2>1, <3>1, ActivateGrows
    <3>3. Grows(runner, runner')
      BY <2>1, <3>2 DEF Grows
    <3> QED
      BY <2>2, <2>5, <3>3
  <2> QED
    BY <2>2, <2>3, <2>4, <2>5 DEF Configured
<1> QED
  BY <1>1, <1>2

LEMMA StopGrows == ASSUME Good(runner), Stop PROVE Grows(runner, runner') /\ runner'.stopped
<1> DEFINE s == [runner EXCEPT !.stopped = TRUE, !.pending = NoCredential]
<1>1. runner \in Shape /\ Len(runner.gens) \in Nat
  BY DEF Good, Shaped, Shape
<1>2. /\ s \in Shape /\ s.pending = NoCredential /\ s.gens = runner.gens
      /\ s.current = runner.current /\ s.rejected = runner.rejected /\ s.stopped = TRUE
  BY <1>1 DEF Shape
<1>3. NoCredential \notin s.rejected
  BY <1>2, CredentialsAssumption DEF Shape
<1>4. runner' = RetireCurrent(s)
  BY DEF Stop, Step
<1> HIDE DEF s
<1>5. Shaped(s) /\ Alone(s)
  BY <1>2 DEF Good, Shaped, Alone
<1>6. /\ Shaped(runner') /\ Alone(runner') /\ runner'.current = NoGeneration
      /\ Len(runner'.gens) = Len(s.gens) /\ runner'.pending = s.pending
      /\ runner'.rejected = s.rejected /\ runner'.stopped = s.stopped
  BY <1>4, <1>5, RetireCurrentShaped
<1>7. Good(runner')
  BY <1>2, <1>3, <1>6 DEF Good, Awake, Clean
<1> QED
  BY <1>1, <1>2, <1>6, <1>7 DEF Grows

\* Whatever happens, the state stays good, and a generation that retires
\* with something under way does so for one of the reasons named.
LEMMA RunnerNext ==
    ASSUME Good(runner), [Next]_vars
    PROVE  /\ Good(runner')
           /\ \/ Spares(runner, runner')
              \/ runner'.rejected # runner.rejected \/ runner'.stopped
              \/ wanted' = NoCredential \/ ~Busy(runner)
<1>1. ASSUME NEW g \in DOMAIN runner.gens,
             Answer(g) \/ HeartbeatSent(g) \/ HeartbeatSettles(g) \/ LoopTurn(g)
      PROVE  Goes(runner, runner')
  <2>1. g \in 1 .. Len(runner.gens)
    BY DEF Good, Shaped, Shape
  <2> QED
    BY <1>1, <2>1, AnswerGoes, HeartbeatGoes, LoopTurnGoes
<1>2. ASSUME NEW c \in Credentials \cup {NoCredential}, Configure(c)
      PROVE  /\ Good(runner')
             /\ Spares(runner, runner') \/ wanted' = NoCredential \/ ~Busy(runner)
  <2>1. runner'.gens = runner.gens => Spares(runner, runner')
    BY DEF Spares
  <2> QED
    BY <1>2, <2>1, ConfigureGrows DEF Grows
<1>3. CASE UNCHANGED vars
  <2>1. runner' = runner
    BY <1>3 DEF vars
  <2> QED
    BY <2>1, StaysPut DEF Moves, Grows
<1>4. CASE Wake
  BY <1>4, WakeGoes DEF Goes, Grows
<1>5. CASE Stop
  BY <1>5, StopGrows DEF Grows
<1> QED
  BY <1>1, <1>2, <1>3, <1>4, <1>5 DEF Next, Goes, Grows

-----------------------------------------------------------------------------
(* The theorems.                                                            *)

LEMMA RunnerInvariant == Spec => []Good(runner)
<1>1. Init => Good(runner)
  BY RunnerInit
<1>2. Good(runner) /\ [Next]_vars => Good(runner)'
  BY RunnerNext
<1> QED
  BY <1>1, <1>2, PTL DEF Spec

\* The closure keeps its shape, however many credentials it is handed: the
\* misses of a run never exceed the limit, as an aborted run sends no more
\* heartbeats.
THEOREM RunnerTyped == Spec => []TypeOK
<1> DEFINE Calls == wanted \in Credentials \cup {NoCredential} /\ calls \in Nat
<1>1. Init => Calls
  BY DEF Init
<1>2. Calls /\ [Next]_vars => Calls'
  <2> SUFFICES ASSUME Calls, [Next]_vars PROVE Calls'
    OBVIOUS
  <2>1. ASSUME NEW c \in Credentials \cup {NoCredential}, Configure(c) PROVE Calls'
    BY <2>1 DEF Configure
  <2>2. CASE UNCHANGED vars
    BY <2>2 DEF vars
  <2>3. CASE Wake \/ Stop
    BY <2>3 DEF Wake, Stop, Step
  <2>4. ASSUME NEW g \in DOMAIN runner.gens,
               Answer(g) \/ HeartbeatSent(g) \/ HeartbeatSettles(g) \/ LoopTurn(g)
        PROVE  UNCHANGED <<wanted, calls>>
    <3>1. CASE Answer(g)
      BY <3>1 DEF Answer, PollAnswered, ClaimAnswered, CommandClaimed, CommandLost,
                  CommandCreated, CommandCompleted, UserEventStored, ThreadFinished,
                  ThreadFailed, ReportStored, RequestFailed, RequestUnauthorized, Step
    <3>2. CASE HeartbeatSent(g) \/ LoopTurn(g)
      BY <3>2 DEF HeartbeatSent, LoopTurn, Step
    <3>3. CASE HeartbeatSettles(g)
      BY <3>3 DEF HeartbeatSettles, HeartbeatAccepted, HeartbeatCancels, HeartbeatMissed,
                  HeartbeatLate, HeartbeatUnauthorized, Step
    <3> QED
      BY <2>4, <3>1, <3>2, <3>3
  <2> QED
    BY <2>1, <2>2, <2>3, <2>4 DEF Next
<1>3. Good(runner) /\ Calls => TypeOK
  BY ShapedRunner DEF Good, Shaped, TypeOK
<1> HIDE DEF Calls
<1> QED
  BY <1>1, <1>2, <1>3, RunnerInvariant, PTL DEF Spec

\* A credential Den has rejected is never in use again, nor does it wait to
\* be used, for any number of credentials, generations and calls.
THEOREM RejectedCredentialsStayOut == Spec => []RejectedStaysOut
<1>1. Good(runner) => RejectedStaysOut
  BY DEF Good, Clean, RejectedStaysOut
<1> QED
  BY <1>1, RunnerInvariant, PTL

\* However often the runner is reconfigured, rejected or stopped, a run that
\* is not aborted is the current generation's: no two assignments execute.
THEOREM OneAssignmentExecutes == Spec => []OneExecution
<1>1. ASSUME Good(runner) PROVE OneExecution
  <2> SUFFICES ASSUME NEW g \in DOMAIN runner.gens,
                      runner.gens[g].cycle \in Working, ~runner.gens[g].aborted
               PROVE  runner.current = g
    BY DEF OneExecution
  <2>1. g \in 1 .. Len(runner.gens)
    BY <1>1 DEF Good, Shaped, Shape
  <2>2. Sound(runner.gens[g])
    BY <1>1, <2>1, GenOf DEF Good
  <2>3. ~runner.gens[g].retired
    BY <2>2 DEF Sound, LeftOver, Working, Reporting
  <2> QED
    BY <1>1, <2>1, <2>3 DEF Good, Alone
<1> QED
  BY <1>1, RunnerInvariant, PTL

\* A new credential never cuts short a claim or an assignment, from whatever
\* state it arrives: only rejection, sign-out and shutdown do.
THEOREM RotationsWait == Spec => AssignmentSurvivesRotation
<1> DEFINE Survival ==
             \A g \in DOMAIN runner.gens :
               /\ runner.gens[g].cycle \in Claiming \cup ActivePhases
               /\ runner'.gens[g].cycle # "none"
               /\ ~runner.gens[g].retired /\ runner'.gens[g].retired
               => \/ runner'.rejected # runner.rejected
                  \/ runner'.stopped \/ wanted' = NoCredential
<1>1. ASSUME Good(runner), [Next]_vars PROVE Survival
  <2> SUFFICES ASSUME NEW g \in DOMAIN runner.gens,
                      runner.gens[g].cycle \in Claiming \cup ActivePhases,
                      runner'.gens[g].cycle # "none",
                      ~runner.gens[g].retired, runner'.gens[g].retired
               PROVE  \/ runner'.rejected # runner.rejected
                      \/ runner'.stopped \/ wanted' = NoCredential
    OBVIOUS
  <2>1. g \in 1 .. Len(runner.gens)
    BY <1>1 DEF Good, Shaped, Shape
  <2>2. Busy(runner)
    BY <1>1, <2>1 DEF Good, Alone, Busy, NoGeneration
  <2>3. ~Spares(runner, runner')
    BY <2>1 DEF Spares, Rests
  <2> QED
    BY <1>1, <2>2, <2>3, RunnerNext
<1>2. Good(runner) /\ [Next]_vars => [Survival]_vars
  BY <1>1
<1> HIDE DEF Survival
<1>3. Spec => [][Survival]_vars
  BY <1>2, RunnerInvariant, PTL DEF Spec
<1> QED
  BY <1>3, PTL DEF AssignmentSurvivesRotation, Survival
=============================================================================
