------------------------- MODULE BootUnlockProofs --------------------------
(***************************************************************************)
(* For any schedule the configuration allows and any number of mishaps:    *)
(* the worker stays within its schedule, a run that gives up on a locked   *)
(* or a dark console has met that many mishaps, and HOME is not pressed    *)
(* into a game that was there when the round asked.                        *)
(***************************************************************************)
EXTENDS BootUnlock, Integers, TLAPS

-----------------------------------------------------------------------------
\* The frame of a console is complete, so the verdict follows its light and its screen.
LEMMA VerdictOfFrame ==
    ASSUME NEW c \in Console
    PROVE  screenClassify(frame(c)) = IF ~c.lit THEN "dark"
                                      ELSE IF c.screen \notin {"one", "three"} THEN "other"
                                      ELSE c.screen
<1> DEFINE fr == frame(c)
<1>1. /\ fr.complete = TRUE
      /\ fr.dark = ~c.lit
      /\ fr.rightFlat = (c.screen \in {"one", "three"})
      /\ fr.leftFlat = (c.screen = "three")
  BY DEF frame
<1>2. c.lit \in BOOLEAN
  BY DEF Console
<1> HIDE DEF fr
<1>3. CASE ~c.lit
  BY <1>1, <1>3 DEF screenClassify, fr
<1>4. CASE c.lit /\ c.screen \notin {"one", "three"}
  BY <1>1, <1>4 DEF screenClassify, fr
<1>5. CASE c.lit /\ c.screen \in {"one", "three"}
  BY <1>1, <1>5 DEF screenClassify, fr
<1>6. QED
  BY <1>3, <1>4, <1>5

\* What a press does to each console there is.
LEMMA PressFields ==
    ASSUME NEW c \in Console
    PROVE  /\ ~c.lit => pressHome(c) = [c EXCEPT !.lit = TRUE]
           /\ c.lit /\ c.screen = "one"
              => pressHome(c) = [c EXCEPT !.screen = IF c.locks THEN "three" ELSE "menu", !.count = 0]
           /\ c.lit /\ c.screen = "three" /\ c.count = 2
              => pressHome(c) = [c EXCEPT !.screen = "menu", !.count = 0]
           /\ c.lit /\ c.screen = "three" /\ c.count # 2
              => pressHome(c) = [c EXCEPT !.count = @ + 1]
           /\ c.lit /\ c.screen \notin {"one", "three"} => pressHome(c) = [c EXCEPT !.screen = "menu"]
<1>1. c.lit \in BOOLEAN
  BY DEF Console
<1>2. CASE ~c.lit
  BY <1>2 DEF pressHome
<1>3. CASE c.lit /\ c.screen = "one"
  BY <1>3 DEF pressHome
<1>4. CASE c.lit /\ c.screen = "three"
  BY <1>4 DEF pressHome
<1>5. CASE c.lit /\ c.screen \notin {"one", "three"}
  BY <1>5 DEF pressHome
<1>6. QED
  BY <1>1, <1>2, <1>3, <1>4, <1>5

\* A press leaves a console, lights it, never locks it, and opens no more than one step of it.
LEMMA PressEffect ==
    ASSUME NEW c \in Console
    PROVE  /\ pressHome(c) \in Console
           /\ pressHome(c).power = c.power
           /\ pressHome(c).app = c.app
           /\ pressHome(c).fresh = c.fresh
           /\ pressHome(c).locks = c.locks
           /\ pressHome(c).lit = TRUE
<1> DEFINE p == pressHome(c)
<1>1. /\ c.lit \in BOOLEAN /\ c.count \in 0 .. 2 /\ c.screen \in Screens
  BY DEF Console
<1>2. CASE ~c.lit
  <2>1. p = [c EXCEPT !.lit = TRUE]
    BY <1>2, PressFields
  <2> HIDE DEF p
  <2>2. QED
    BY <2>1 DEF Console, p
<1>3. CASE c.lit /\ c.screen = "one"
  <2>1. p = [c EXCEPT !.screen = IF c.locks THEN "three" ELSE "menu", !.count = 0]
    BY <1>3, PressFields
  <2> HIDE DEF p
  <2>2. (IF c.locks THEN "three" ELSE "menu") \in Screens /\ 0 \in 0 .. 2
    BY DEF Screens
  <2>3. p \in Console
    BY <1>1, <2>1, <2>2 DEF Console
  <2>4. p.power = c.power /\ p.app = c.app /\ p.fresh = c.fresh /\ p.locks = c.locks /\ p.lit = TRUE
    BY <1>1, <1>3, <2>1 DEF Console
  <2>5. QED
    BY <2>3, <2>4, SMTT(30) DEF p
<1>4. CASE c.lit /\ c.screen = "three" /\ c.count = 2
  <2>1. p = [c EXCEPT !.screen = "menu", !.count = 0]
    BY <1>4, PressFields
  <2> HIDE DEF p
  <2>2. "menu" \in Screens /\ 0 \in 0 .. 2
    BY DEF Screens
  <2>3. p \in Console
    BY <2>1, <2>2 DEF Console
  <2>4. p.power = c.power /\ p.app = c.app /\ p.fresh = c.fresh /\ p.locks = c.locks /\ p.lit = TRUE
    BY <1>1, <1>4, <2>1, SMTT(30) DEF Console
  <2>5. QED
    BY <2>3, <2>4, SMTT(30) DEF p
<1>5. CASE c.lit /\ c.screen = "three" /\ c.count # 2
  <2>1. p = [c EXCEPT !.count = @ + 1]
    BY <1>5, PressFields
  <2> HIDE DEF p
  <2>2. c.count + 1 \in 0 .. 2
    BY <1>1, <1>5
  <2>3. QED
    BY <1>5, <2>1, <2>2 DEF Console, p
<1>6. CASE c.lit /\ c.screen \notin {"one", "three"}
  <2>1. p = [c EXCEPT !.screen = "menu"]
    BY <1>6, PressFields
  <2> HIDE DEF p
  <2>2. QED
    BY <1>6, <2>1, SMTT(30) DEF Console, p, Screens
<1>7. QED
  BY <1>1, <1>2, <1>3, <1>4, <1>5, <1>6

\* The rounds a console needs are few.
LEMMA ToGoRange ==
    ASSUME NEW c \in Console
    PROVE  /\ dark(c) \in 0 .. 1 /\ locked(c) \in 0 .. 2 /\ toGo(c) \in 0 .. 3
           /\ toGo(c) = dark(c) + locked(c)
           /\ c.lit <=> dark(c) = 0
<1>1. c.lit \in BOOLEAN
  BY DEF Console
<1>2. dark(c) \in 0 .. 1 /\ (c.lit <=> dark(c) = 0)
  BY <1>1 DEF dark
<1>3. locked(c) \in 0 .. 2
  BY DEF locked
<1>4. QED
  BY <1>2, <1>3 DEF toGo

\* A press takes one round off a dark or plainly locked console, and never adds one.
LEMMA PressProgress ==
    ASSUME NEW c \in Console
    PROVE  /\ toGo(pressHome(c)) <= toGo(c)
           /\ toGo(c) <= toGo(pressHome(c)) + 1
           /\ ~c.lit \/ c.screen = "one" => toGo(pressHome(c)) = toGo(c) - 1
<1> DEFINE p == pressHome(c)
<1>1. /\ c.lit \in BOOLEAN /\ c.count \in 0 .. 2 /\ c.screen \in Screens /\ c.locks \in BOOLEAN
  BY DEF Console
<1>2. p \in Console /\ p.lit = TRUE /\ p.locks = c.locks
  BY PressEffect
<1>3. dark(p) = 0
  BY <1>2 DEF dark
<1>4. /\ ~c.lit => p.screen = c.screen
      /\ c.lit /\ c.screen = "one" => p.screen = IF c.locks THEN "three" ELSE "menu"
      /\ c.lit /\ c.screen = "three" => p.screen \in {"three", "menu"}
      /\ c.lit /\ c.screen \notin {"one", "three"} => p.screen = "menu"
  <2>1. CASE ~c.lit
    BY <2>1, PressFields DEF Console
  <2>2. CASE c.lit /\ c.screen = "one"
    BY <2>2, PressFields DEF Console
  <2>3. CASE c.lit /\ c.screen = "three" /\ c.count = 2
    BY <2>3, PressFields DEF Console
  <2>4. CASE c.lit /\ c.screen = "three" /\ c.count # 2
    BY <2>4, PressFields DEF Console
  <2>5. CASE c.lit /\ c.screen \notin {"one", "three"}
    BY <2>5, PressFields DEF Console
  <2>6. QED
    BY <2>1, <2>2, <2>3, <2>4, <2>5
<1> HIDE DEF p
<1>5. locked(p) <= locked(c) /\ locked(p) \in 0 .. 2 /\ locked(c) \in 0 .. 2
  BY <1>1, <1>2, <1>4 DEF locked
<1>6. c.lit => locked(c) <= locked(p) + 1
  BY <1>1, <1>2, <1>4 DEF locked
<1>7. ~c.lit => locked(c) = locked(p)
  BY <1>1, <1>2, <1>4 DEF locked
<1>8. c.lit /\ c.screen = "one" => locked(p) = locked(c) - 1
  BY <1>1, <1>2, <1>4 DEF locked
<1>9. dark(c) = IF c.lit THEN 0 ELSE 1
  BY DEF dark
<1>10. QED
  BY <1>1, <1>3, <1>5, <1>6, <1>7, <1>8, <1>9 DEF toGo, p

-----------------------------------------------------------------------------
\* The second half of GivesUpWithCause.
Cause ==
    w.pc \in {"consume", "finish", "end"}
    => /\ BurstSuffices /\ bu.reason = "rounds-exhausted" => w.ill + 3 >= MaxRounds
       /\ bu.reason = "display-stays-dark" => w.ill >= WakeAttempts

Budget == [ill : 0 .. MaxIll, events : 0 .. MaxEvents]

\* The parts of the invariant.
LEMMA Parts == IndInv <=> TypeOK /\ Cause /\ ThreadState /\ Accounted
BY DEF IndInv, GivesUpWithCause, Cause

\* The same after a step.
LEMMA PartsNext == TypeOK' /\ Cause' /\ ThreadState' /\ Accounted' => IndInv'
BY DEF IndInv, GivesUpWithCause, Cause

\* Mishaps and events come out of their budget.
LEMMA Spending ==
    ASSUME TypeOK, NEW i \in {0, 1}, NEW e \in {0, 1}, Spend(i, e)
    PROVE  left' \in Budget /\ left'.ill = left.ill - i /\ left.ill >= i
<1>1. left \in Budget
  BY DEF TypeOK, Budget
<1>2. /\ left.ill \in 0 .. MaxIll /\ left.events \in 0 .. MaxEvents
      /\ MaxIll \in Nat /\ MaxEvents \in Nat
  BY <1>1, ScheduleAssumption DEF Budget, ScheduleAssumption
<1>3. /\ left.ill >= i /\ left.events >= e
      /\ left' = [ill |-> left.ill - i, events |-> left.events - e]
  BY DEF Spend
<1>4. left.ill - i \in 0 .. MaxIll /\ left.events - e \in 0 .. MaxEvents
  BY <1>2, <1>3
<1>5. QED
  BY <1>3, <1>4 DEF Budget

\* The same, by the names the actions use.
LEMMA IllSpends ==
    ASSUME TypeOK
    PROVE  /\ Ill => left' \in Budget /\ left'.ill = left.ill - 1 /\ left.ill >= 1
           /\ Event => left' \in Budget /\ left'.ill = left.ill
           /\ NotIll => left' \in Budget /\ left'.ill = left.ill
<1>1. left \in Budget /\ left.ill \in Int
  BY ScheduleAssumption DEF TypeOK, Budget, ScheduleAssumption
<1>2. Ill => left' \in Budget /\ left'.ill = left.ill - 1 /\ left.ill >= 1
  BY Spending DEF Ill
<1>3. Event => left' \in Budget /\ left'.ill = left.ill
  BY <1>1, Spending DEF Event
<1>4. NotIll => left' \in Budget /\ left'.ill = left.ill
  BY <1>1 DEF NotIll
<1>5. QED
  BY <1>2, <1>3, <1>4

\* The fields of a well-typed state.
LEMMA Fields ==
    ASSUME TypeOK
    PROVE  /\ w.pc \in WorkerPcs /\ w.round \in 0 .. MaxRounds /\ w.burst \in 0 .. BurstPresses - 1
           /\ w.ill \in 0 .. MaxIll /\ w.verdict \in Verdicts
           /\ bu.wake \in 0 .. WakeAttempts
           /\ left.ill \in 0 .. MaxIll
           /\ con.count \in 0 .. 2 /\ con.lit \in BOOLEAN /\ con.screen \in Screens
           /\ MaxIll \in Nat /\ MaxRounds \in Nat /\ MaxRounds >= 1
           /\ BurstPresses \in Nat /\ BurstPresses >= 1
           /\ WakeAttempts \in Nat
<1>1. /\ MaxIll \in Nat /\ MaxRounds \in Nat /\ MaxRounds >= 1 /\ BurstPresses \in Nat
      /\ BurstPresses >= 1 /\ WakeAttempts \in Nat
  BY ScheduleAssumption DEF ScheduleAssumption
<1>2. QED
  BY <1>1 DEF TypeOK, Worker, Agent, Console

\* A console that boots shows the plain lock screen.
LEMMA BootConsole ==
    ASSUME NEW locks \in BOOLEAN
    PROVE  lockedConsole(locks) \in Console /\ lockedConsole(locks).power = "booting"
BY DEF lockedConsole, Console, Screens

\* The console at its first boot.
LEMMA InitInv == Init => IndInv
<1> SUFFICES ASSUME Init PROVE IndInv
  OBVIOUS
<1> USE ScheduleAssumption DEF ScheduleAssumption
<1>1. PICK locks \in BOOLEAN, lit \in BOOLEAN : con = [lockedConsole(locks) EXCEPT !.lit = lit]
  BY DEF Init
<1>2. con \in Console /\ con.power = "booting"
  <2>1. lockedConsole(locks) \in Console /\ lockedConsole(locks).power = "booting"
    BY BootConsole
  <2>2. QED
    BY <1>1, <2>1 DEF Console
<1>3. w = noWorker /\ bu = freshAgent /\ main = "idle" /\ left = [ill |-> MaxIll, events |-> MaxEvents]
  BY DEF Init
<1>4. w \in Worker /\ w.pc = "off" /\ w.ill = 0 /\ w.burst = 0
  BY <1>3 DEF noWorker, Worker, WorkerPcs, Verdicts
<1>5. bu \in Agent
  BY <1>3 DEF freshAgent, Agent, Reasons, Modes
<1>6. sd \in [ini : Inis, arm : BOOLEAN]
  <2>1. sd \in [ini : {[text("armed", MaxRounds) EXCEPT !.file = "absent"]}, arm : BOOLEAN]
    BY DEF Init
  <2>2. [text("armed", MaxRounds) EXCEPT !.file = "absent"] \in Inis
    BY DEF text, Inis, Modes
  <2>3. QED
    BY <2>1, <2>2
<1>7. TypeOK
  BY <1>2, <1>3, <1>4, <1>5, <1>6 DEF TypeOK
<1>8. ThreadState
  <2>1. left.ill + w.ill <= MaxIll
    BY <1>3, <1>4
  <2>2. QED
    BY <1>3, <1>4, <2>1 DEF ThreadState
<1>9. Accounted
  BY <1>4 DEF Accounted, RoundsAccounted
<1>10. Cause
  BY <1>4 DEF Cause
<1>11. QED
  BY <1>7, <1>8, <1>9, <1>10, Parts

\* A step that leaves the agent, its thread and the console alone keeps what relates them.
LEMMA Aside ==
    ASSUME IndInv, UNCHANGED <<w, con, bu>>, left' \in Budget, left'.ill <= left.ill,
           sd' \in [ini : Inis, arm : BOOLEAN], main' \in {"idle", "start", "reset"}
    PROVE  IndInv'
<1>1. TypeOK /\ Cause /\ ThreadState /\ Accounted
  BY Parts
<1>2. TypeOK'
  BY <1>1 DEF TypeOK, Budget
<1>3. Cause'
  BY <1>1 DEF Cause
<1>4. ThreadState'
  <2>1. left'.ill + w'.ill <= MaxIll
    <3>1. left'.ill \in Int /\ left.ill \in Int /\ w.ill \in Int /\ MaxIll \in Int
      BY <1>1, Fields, ScheduleAssumption DEF Budget, ScheduleAssumption
    <3>2. left.ill + w.ill <= MaxIll
      BY <1>1 DEF ThreadState
    <3>3. QED
      BY <3>1, <3>2
  <2>2. QED
    BY <1>1, <2>1 DEF ThreadState
<1>5. Accounted'
  BY <1>1 DEF Accounted, RoundsAccounted, toGo, toGoAfter, dark, locked, pressHome
<1>6. QED
  BY <1>2, <1>3, <1>4, <1>5, PartsNext

-----------------------------------------------------------------------------
\* The thread begins: the console needs at most three rounds, and no mishap is owed yet.
LEMMA StartInv == IndInv /\ con.power = "on" /\ Start => IndInv'
<1> SUFFICES ASSUME IndInv, con.power = "on", Start PROVE IndInv'
  OBVIOUS
<1>1. TypeOK /\ Cause /\ ThreadState /\ Accounted
  BY Parts
<1>2. /\ left' \in Budget /\ left'.ill <= left.ill /\ left'.ill \in 0 .. MaxIll
  <2>1. Ill \/ NotIll
    BY DEF Start
  <2>2. QED
    BY <1>1, <2>1, IllSpends, Fields DEF Budget
<1>3. /\ w' \in Worker /\ w'.ill = w.ill /\ w'.round = w.round /\ w'.burst = w.burst
      /\ w'.verdict = w.verdict
      /\ \/ w'.pc = "round"
         \/ w'.pc = "end" /\ bu'.reason = "no-memory"
  BY <1>1 DEF Start, TypeOK, Worker, WorkerPcs, Agent
<1>4. /\ bu' \in Agent /\ bu'.wake = bu.wake /\ bu'.created = bu.created
  BY <1>1 DEF Start, TypeOK, Agent, Reasons
<1>5. TypeOK'
  BY <1>1, <1>2, <1>3, <1>4 DEF Start, TypeOK, Budget
<1>6. Cause'
  BY <1>3 DEF Cause
<1>7. ThreadState'
  <2>1. left'.ill + w'.ill <= MaxIll
    BY <1>1, <1>2, <1>3, Fields DEF ThreadState
  <2>2. QED
    BY <1>1, <1>3, <1>4, <2>1 DEF Start, ThreadState
<1>8. Accounted'
  <2>1. con' = con /\ con \in Console
    BY <1>1 DEF Start, TypeOK
  <2>2. w.round = 0 /\ bu.wake = 0
    BY <1>1 DEF Start, Accounted, RoundsAccounted
  <2>3. toGo(con) \in 0 .. 3 /\ dark(con) \in 0 .. 1
    BY <2>1, ToGoRange
  <2>4. toGo(con)' = toGo(con) /\ dark(con)' = dark(con)
    BY <2>1 DEF toGo, dark, locked
  <2>5. (BurstSuffices => w'.round + toGo(con)' <= 3 + w'.ill) /\ bu'.wake + dark(con)' <= 1 + w'.ill
    BY <1>1, <1>3, <1>4, <2>2, <2>3, <2>4, Fields
  <2>6. QED
    BY <1>3, <2>5 DEF Accounted, RoundsAccounted
<1>9. QED
  BY <1>5, <1>6, <1>7, <1>8, PartsNext

\* What a decision leaves: the worker only moves on, the agent only names a reason.
LEMMA Decision ==
    ASSUME TypeOK, NEW reason \in Reasons, Decide(reason)
    PROVE  /\ w' \in Worker /\ w'.pc = "consume" /\ w'.ill = w.ill /\ w'.round = w.round
           /\ w'.burst = w.burst /\ w'.verdict = w.verdict
           /\ bu' \in Agent /\ bu'.reason = reason /\ bu'.wake = bu.wake /\ bu'.created = bu.created
<1>1. w \in Worker /\ bu \in Agent
  BY DEF TypeOK
<1>2. w' = [w EXCEPT !.pc = "consume"] /\ bu' = [bu EXCEPT !.reason = reason]
  BY DEF Decide
<1>3. w' \in Worker /\ w'.pc = "consume" /\ w'.ill = w.ill /\ w'.round = w.round
      /\ w'.burst = w.burst /\ w'.verdict = w.verdict
  BY <1>1, <1>2 DEF Worker, WorkerPcs
<1>4. bu' \in Agent /\ bu'.reason = reason /\ bu'.wake = bu.wake /\ bu'.created = bu.created
  BY <1>1, <1>2 DEF Agent
<1>5. QED
  BY <1>3, <1>4

\* The top of a round.  When the rounds are used up, the mishaps account for all but three.
LEMMA RoundInv == IndInv /\ con.power = "on" /\ Round => IndInv'
<1> SUFFICES ASSUME IndInv, con.power = "on", Round PROVE IndInv'
  OBVIOUS
<1>1. TypeOK /\ Cause /\ ThreadState /\ Accounted
  BY Parts
<1>2. /\ left' \in Budget /\ left'.ill <= left.ill /\ left'.ill \in 0 .. MaxIll
  <2>1. Ill \/ NotIll
    BY DEF Round
  <2>2. QED
    BY <1>1, <2>1, IllSpends, Fields DEF Budget
<1>3. con \in Console /\ con' = [con EXCEPT !.fresh = FALSE]
  BY <1>1 DEF Round, TypeOK
<1>4. /\ con' \in Console /\ con'.power = "on" /\ con'.app = con.app /\ con'.screen = con.screen
      /\ con'.lit = con.lit /\ con'.locks = con.locks
  BY <1>3 DEF Console
<1>5. dark(con)' = dark(con) /\ locked(con)' = locked(con) /\ toGo(con)' = toGo(con)
  BY <1>4 DEF dark, locked, toGo
<1>6. w.pc = "round" /\ w.burst = 0
  BY <1>1 DEF Round, ThreadState
<1>7. (BurstSuffices => w.round + toGo(con) <= 3 + w.ill) /\ bu.wake + dark(con) <= 1 + w.ill
  BY <1>1, <1>6 DEF Accounted, RoundsAccounted
<1>8. ASSUME NEW reason \in Reasons, Decide(reason), reason # "display-stays-dark",
             reason = "rounds-exhausted" => w.round = MaxRounds
      PROVE  IndInv'
  <2>1. /\ w' \in Worker /\ w'.pc = "consume" /\ w'.ill = w.ill /\ w'.round = w.round
        /\ w'.burst = w.burst /\ w'.verdict = w.verdict
        /\ bu' \in Agent /\ bu'.reason = reason /\ bu'.wake = bu.wake /\ bu'.created = bu.created
    BY <1>1, <1>8, Decision
  <2>2. TypeOK'
    BY <1>1, <1>2, <1>4, <2>1 DEF Round, TypeOK, Budget
  <2>3. Cause'
    <3>1. BurstSuffices /\ reason = "rounds-exhausted" => w.ill + 3 >= MaxRounds
      BY <1>1, <1>3, <1>7, <1>8, Fields, ToGoRange
    <3>2. QED
      BY <1>8, <2>1, <3>1 DEF Cause
  <2>4. ThreadState'
    <3>1. left'.ill + w'.ill <= MaxIll
      BY <1>1, <1>2, <2>1, Fields DEF ThreadState
    <3>2. bu.created
      BY <1>1, <1>6 DEF ThreadState
    <3>3. QED
      BY <1>4, <1>6, <2>1, <3>1, <3>2 DEF ThreadState
  <2>5. Accounted'
    BY <2>1 DEF Accounted, RoundsAccounted
  <2>6. QED
    BY <2>2, <2>3, <2>4, <2>5, PartsNext
<1>9. ASSUME NEW blind \in BOOLEAN, w.round < MaxRounds, con.app => blind,
             w' = [w EXCEPT !.pc = "look", !.blind = blind], UNCHANGED bu
      PROVE  IndInv'
  <2>1. /\ w' \in Worker /\ w'.pc = "look" /\ w'.ill = w.ill /\ w'.round = w.round
        /\ w'.burst = w.burst /\ w'.verdict = w.verdict
    BY <1>1, <1>9 DEF TypeOK, Worker, WorkerPcs
  <2>2. TypeOK'
    BY <1>1, <1>2, <1>4, <1>9, <2>1 DEF Round, TypeOK, Budget
  <2>3. Cause'
    BY <2>1 DEF Cause
  <2>4. ThreadState'
    <3>1. left'.ill + w'.ill <= MaxIll
      BY <1>1, <1>2, <2>1, Fields DEF ThreadState
    <3>2. bu.created
      BY <1>1, <1>6 DEF ThreadState
    <3>3. QED
      BY <1>4, <1>6, <1>9, <2>1, <3>1, <3>2 DEF ThreadState
  <2>5. Accounted'
    BY <1>5, <1>7, <1>9, <2>1 DEF Accounted, RoundsAccounted
  <2>6. QED
    BY <2>2, <2>3, <2>4, <2>5, PartsNext
<1>10. {"rounds-exhausted", "deadline", "application-running"} \subseteq Reasons
  BY DEF Reasons
<1>11. QED
  BY <1>8, <1>9, <1>10 DEF Round

\* bootUnlockLook.  A verdict of dark is either true, and costs the round that lights the
\* console, or a failed capture, and is a mishap.
LEMMA LookInv == IndInv /\ con.power = "on" /\ Look => IndInv'
<1> SUFFICES ASSUME IndInv, con.power = "on", Look PROVE IndInv'
  OBVIOUS
<1>1. TypeOK /\ Cause /\ ThreadState /\ Accounted
  BY Parts
<1>2. con \in Console /\ con' = [con EXCEPT !.count = 0]
  BY <1>1 DEF Look, TypeOK
<1>3. /\ con' \in Console /\ con'.power = "on" /\ con'.app = con.app /\ con'.screen = con.screen
      /\ con'.lit = con.lit /\ con'.locks = con.locks /\ con'.fresh = con.fresh /\ con'.count = 0
  BY <1>2 DEF Console
<1>4. dark(con)' = dark(con) /\ locked(con)' = locked(con) /\ toGo(con)' = toGo(con)
  BY <1>3 DEF dark, locked, toGo
<1>5. w.pc = "look" /\ w.burst = 0 /\ bu.created /\ w.round < MaxRounds /\ (con.app => con.fresh \/ w.blind)
  BY <1>1 DEF Look, ThreadState
<1>6. (BurstSuffices => w.round + toGo(con) <= 3 + w.ill) /\ bu.wake + dark(con) <= 1 + w.ill
  BY <1>1, <1>5 DEF Accounted, RoundsAccounted
<1> DEFINE seen == screenClassify(frame(con))
<1>7. seen = IF ~con.lit THEN "dark" ELSE IF con.screen \notin {"one", "three"} THEN "other" ELSE con.screen
  BY <1>2, VerdictOfFrame
<1> HIDE DEF seen
<1>8. seen \in Verdicts
  BY <1>1, <1>7, Fields DEF Verdicts, Screens
<1>9. PICK v \in Verdicts, n \in {0, 1} :
          /\ w' \in Worker /\ w'.pc = "act" /\ w'.verdict = v /\ w'.ill = w.ill + n
          /\ w'.round = w.round /\ w'.burst = 0 /\ w'.blind = w.blind
          /\ left' \in Budget /\ left'.ill = left.ill - n
          /\ \/ n = 0 /\ v = seen
             \/ n = 1 /\ v \in {"dark", "unknown"}
  <2>1. CASE w' = [w EXCEPT !.pc = "act", !.verdict = seen] /\ NotIll
    <3>1. /\ w' \in Worker /\ w'.pc = "act" /\ w'.verdict = seen /\ w'.ill = w.ill
          /\ w'.round = w.round /\ w'.burst = 0 /\ w'.blind = w.blind
      BY <1>1, <1>5, <1>8, <2>1 DEF TypeOK, Worker, WorkerPcs
    <3>2. left' \in Budget /\ left'.ill = left.ill
      BY <1>1, <2>1, IllSpends
    <3>3. w.ill = w.ill + 0 /\ left.ill = left.ill - 0
      BY <1>1, Fields
    <3>4. QED
      BY <1>8, <3>1, <3>2, <3>3
  <2>2. ASSUME NEW v \in {"dark", "unknown"}, w' = hurt([w EXCEPT !.pc = "act", !.verdict = v]), Ill
        PROVE  /\ v \in Verdicts
               /\ w' \in Worker /\ w'.pc = "act" /\ w'.verdict = v /\ w'.ill = w.ill + 1
               /\ w'.round = w.round /\ w'.burst = 0 /\ w'.blind = w.blind
               /\ left' \in Budget /\ left'.ill = left.ill - 1
    <3> DEFINE u == [w EXCEPT !.pc = "act", !.verdict = v]
    <3>1. v \in Verdicts
      BY DEF Verdicts
    <3>2. /\ u \in Worker /\ u.pc = "act" /\ u.verdict = v /\ u.ill = w.ill
          /\ u.round = w.round /\ u.burst = 0 /\ u.blind = w.blind
      BY <1>1, <1>5, <3>1 DEF TypeOK, Worker, WorkerPcs
    <3> HIDE DEF u
    <3>3. w' = [u EXCEPT !.ill = u.ill + 1]
      BY <2>2 DEF hurt, u
    <3>4. left' \in Budget /\ left'.ill = left.ill - 1 /\ left.ill >= 1
      BY <1>1, <2>2, IllSpends
    <3>5. u.ill + 1 \in 0 .. MaxIll
      BY <1>1, <3>2, <3>4, Fields DEF ThreadState
    <3>6. /\ w' \in Worker /\ w'.pc = "act" /\ w'.verdict = v /\ w'.ill = w.ill + 1
          /\ w'.round = w.round /\ w'.burst = 0 /\ w'.blind = w.blind
      BY <3>2, <3>3, <3>5 DEF Worker
    <3>7. QED
      BY <3>1, <3>4, <3>6
  <2>3. QED
    BY <2>1, <2>2 DEF Look, seen
<1>10. TypeOK'
  BY <1>1, <1>3, <1>9 DEF Look, TypeOK, Budget
<1>11. Cause'
  BY <1>9 DEF Cause
<1>12. v = "three" => n = 0 /\ con.lit /\ con.screen = "three"
  BY <1>7, <1>9
<1>13. ThreadState'
  <2>1. left'.ill + w'.ill <= MaxIll
    BY <1>1, <1>9, Fields DEF ThreadState
  <2>2. bu' = bu
    BY DEF Look
  <2>3. QED
    BY <1>3, <1>5, <1>9, <1>12, <2>1, <2>2 DEF ThreadState
<1>14. Accounted'
  <2>1. bu' = bu
    BY DEF Look
  <2>2. dark(con) \in 0 .. 1 /\ toGo(con) \in 0 .. 3 /\ (con.lit <=> dark(con) = 0)
        /\ toGo(con) = dark(con) + locked(con) /\ locked(con) \in 0 .. 2
    BY <1>2, ToGoRange
  <2>3. bu'.wake + dark(con)' <= 1 + w'.ill
    BY <1>1, <1>4, <1>6, <1>9, <2>1, <2>2, Fields
  <2>4. v = "dark" => bu'.wake <= w'.ill
    <3>1. v = "dark" => n = 1 \/ dark(con) = 1
      <4>1. v = "dark" /\ n = 0 => ~con.lit
        <5>1. con.lit => seen # "dark"
          BY <1>7
        <5>2. n = 0 => v = seen
          BY <1>9
        <5>3. QED
          BY <5>1, <5>2
      <4>2. QED
        BY <2>2, <4>1
    <3>2. QED
      BY <1>1, <1>6, <1>9, <2>1, <2>2, <3>1, Fields
  <2>5. BurstSuffices => (v \in {"dark", "one"} => w'.round + 1 + toGo(pressHome(con')) <= 3 + w'.ill)
    <3>1. /\ toGo(pressHome(con')) <= toGo(con')
          /\ ~con'.lit \/ con'.screen = "one" => toGo(pressHome(con')) = toGo(con') - 1
      BY <1>3, PressProgress
    <3>2. toGo(con') = toGo(con)
      BY <1>3 DEF toGo, dark, locked
    <3>3. pressHome(con') \in Console
      BY <1>3, PressEffect
    <3>4. toGo(pressHome(con')) \in 0 .. 3
      BY <3>3, ToGoRange
    <3>5. CASE n = 0
      <4>1. v \in {"dark", "one"} => ~con'.lit \/ con'.screen = "one"
        BY <1>3, <1>7, <1>9, <3>5
      <4>2. QED
        BY <1>1, <1>6, <1>9, <2>2, <3>1, <3>2, <3>4, <3>5, <4>1, Fields
    <3>6. CASE n = 1
      BY <1>1, <1>6, <1>9, <2>2, <3>1, <3>2, <3>4, <3>6, Fields
    <3>7. QED
      BY <3>5, <3>6
  <2>6. v \in {"dark", "one"} => toGoAfter(w, con)' = toGo(pressHome(con'))
    BY <1>9 DEF toGoAfter, toGo, dark, locked, pressHome
  <2>7. BurstSuffices /\ v = "three" => toGoAfter(w, con)' = 0
    <3>1. SUFFICES ASSUME BurstSuffices, v = "three" PROVE toGoAfter(w, con)' = 0
      OBVIOUS
    <3>2. con'.screen = "three" /\ con'.count = 0 /\ dark(con)' = 0 /\ w'.burst = 0
      BY <1>3, <1>4, <1>9, <1>12, <2>2, <3>1
    <3>3. con'.count + (BurstPresses - w'.burst) >= 3 + dark(con)'
      BY <1>1, <3>1, <3>2, Fields DEF BurstSuffices
    <3>4. QED
      BY <1>9, <3>1, <3>2, <3>3 DEF toGoAfter
  <2>8. BurstSuffices => (v = "three" => w'.round + 1 + 0 <= 3 + w'.ill)
    <3>1. v = "three" => toGo(con) >= 1 /\ n = 0
      <4>1. con.screen = "three" => locked(con) = 1
        BY DEF locked
      <4>2. QED
        BY <1>12, <2>2, <4>1
    <3>2. QED
      BY <1>1, <1>6, <1>9, <2>2, <3>1, Fields
  <2>9. QED
    BY <1>9, <2>3, <2>4, <2>5, <2>6, <2>7, <2>8 DEF Accounted, RoundsAccounted
<1>15. QED
  BY <1>10, <1>11, <1>13, <1>14, PartsNext

\* A verdict that ends the run.  A console that stays dark has met a mishap for every wake press.
LEMMA ActStopInv == IndInv /\ con.power = "on" /\ ActStop => IndInv'
<1> SUFFICES ASSUME IndInv, con.power = "on", ActStop PROVE IndInv'
  OBVIOUS
<1>1. TypeOK /\ Cause /\ ThreadState /\ Accounted
  BY Parts
<1>2. PICK reason \in Reasons :
          /\ Decide(reason) /\ reason # "rounds-exhausted"
          /\ reason = "display-stays-dark" => w.verdict = "dark" /\ bu.wake >= WakeAttempts
  BY DEF ActStop, Reasons
<1>3. /\ w' \in Worker /\ w'.pc = "consume" /\ w'.ill = w.ill /\ w'.round = w.round
      /\ w'.burst = w.burst /\ w'.verdict = w.verdict
      /\ bu' \in Agent /\ bu'.reason = reason /\ bu'.wake = bu.wake /\ bu'.created = bu.created
  BY <1>1, <1>2, Decision
<1>4. w.pc = "act" /\ UNCHANGED <<sd, main, con, left>>
  BY DEF ActStop
<1>5. TypeOK'
  BY <1>1, <1>3, <1>4 DEF TypeOK
<1>6. Cause'
  <2>1. reason = "display-stays-dark" => w.ill >= WakeAttempts
    <3>1. w.verdict = "dark" => bu.wake <= w.ill
      BY <1>1, <1>4 DEF Accounted, RoundsAccounted
    <3>2. QED
      BY <1>1, <1>2, <3>1, Fields
  <2>2. QED
    BY <1>2, <1>3, <2>1 DEF Cause
<1>7. ThreadState'
  <2>1. w.burst = 0
    BY <1>1, <1>4 DEF ThreadState, ActStop
  <2>2. QED
    BY <1>1, <1>3, <1>4, <2>1 DEF ThreadState
<1>8. Accounted'
  BY <1>3 DEF Accounted, RoundsAccounted
<1>9. QED
  BY <1>5, <1>6, <1>7, <1>8, PartsNext

\* The outcomes of bootUnlockPressHome: the console takes the press, or the press is a mishap.
PressOutcome(next, n) ==
    /\ w' \in Worker /\ w'.pc = next.pc /\ w'.round = next.round /\ w'.burst = next.burst
    /\ w'.verdict = next.verdict /\ w'.blind = next.blind /\ w'.ill = w.ill + n
    /\ left' \in Budget /\ left'.ill + w'.ill <= MaxIll
    /\ n = 0 => con' = pressHome(con)
    /\ n = 1 => con' = con
    /\ con' \in Console /\ con'.power = con.power /\ con'.app = con.app /\ con'.fresh = con.fresh

\* Press has no other outcome.
LEMMA PressStep ==
    ASSUME TypeOK, ThreadState, NEW next \in Worker, next.ill = w.ill, Press(next)
    PROVE  \E n \in {0, 1} : PressOutcome(next, n)
<1>1. con \in Console /\ left.ill + w.ill <= MaxIll
  BY DEF TypeOK, ThreadState
<1>2. CASE con' = pressHome(con) /\ w' = next /\ NotIll
  <2>1. left' \in Budget /\ left'.ill = left.ill
    BY <1>2, IllSpends
  <2>2. w'.ill = w.ill + 0 /\ left'.ill + w'.ill <= MaxIll
    BY <1>1, <1>2, <2>1, Fields
  <2>3. con' \in Console /\ con'.power = con.power /\ con'.app = con.app /\ con'.fresh = con.fresh
    BY <1>1, <1>2, PressEffect
  <2>4. PressOutcome(next, 0)
    BY <1>2, <2>1, <2>2, <2>3 DEF PressOutcome
  <2>5. QED
    BY <2>4
<1>3. CASE UNCHANGED con /\ w' = hurt(next) /\ Ill
  <2>1. left' \in Budget /\ left'.ill = left.ill - 1 /\ left.ill >= 1
    BY <1>3, IllSpends
  <2>2. next.ill + 1 \in 0 .. MaxIll /\ left'.ill + (next.ill + 1) <= MaxIll
    BY <1>1, <2>1, Fields
  <2>3. w' = [next EXCEPT !.ill = next.ill + 1]
    BY <1>3 DEF hurt
  <2>4. /\ w' \in Worker /\ w'.pc = next.pc /\ w'.round = next.round /\ w'.burst = next.burst
        /\ w'.verdict = next.verdict /\ w'.blind = next.blind /\ w'.ill = next.ill + 1
    BY <2>2, <2>3 DEF Worker
  <2>5. PressOutcome(next, 1)
    BY <1>1, <1>3, <2>1, <2>2, <2>4 DEF PressOutcome
  <2>6. QED
    BY <2>5
<1>4. QED
  BY <1>2, <1>3 DEF Press

\* A press that ends the round: what the worker had decided on has reached the console, or it
\* has met a mishap.
LEMMA RoundEnds ==
    ASSUME IndInv, con.power = "on", w.pc = "act", NEW next \in Worker, next.ill = w.ill,
           NEW n \in {0, 1}, PressOutcome(next, n),
           next.pc = "round", next.round = w.round + 1, next.burst = 0,
           toGo(pressHome(con)) <= toGoAfter(w, con), w.verdict \in {"dark", "one", "three"},
           bu' \in Agent, bu'.created = bu.created,
           bu'.wake = bu.wake \/ (w.verdict = "dark" /\ bu'.wake = bu.wake + 1),
           UNCHANGED <<sd, main>>
    PROVE  IndInv'
<1>1. TypeOK /\ Cause /\ ThreadState /\ Accounted
  BY Parts
<1>2. /\ w' \in Worker /\ w'.pc = "round" /\ w'.round = w.round + 1 /\ w'.burst = 0
      /\ w'.ill = w.ill + n
      /\ left' \in Budget /\ left'.ill + w'.ill <= MaxIll
      /\ n = 0 => con' = pressHome(con)
      /\ n = 1 => con' = con
      /\ con' \in Console /\ con'.power = "on"
  BY DEF PressOutcome
<1>3. con \in Console /\ pressHome(con) \in Console
  BY <1>1, PressEffect DEF TypeOK
<1>4. TypeOK'
  BY <1>1, <1>2 DEF TypeOK, Budget
<1>5. Cause'
  BY <1>2 DEF Cause
<1>6. ThreadState'
  <2>1. bu.created
    BY <1>1 DEF ThreadState
  <2>2. QED
    BY <1>2, <2>1 DEF ThreadState
<1>7. Accounted'
  <2>1. (BurstSuffices => w.round + 1 + toGoAfter(w, con) <= 3 + w.ill) /\ bu.wake + dark(con) <= 1 + w.ill
    BY <1>1 DEF Accounted, RoundsAccounted
  <2>2. w.verdict = "dark" => bu.wake <= w.ill
    BY <1>1 DEF Accounted, RoundsAccounted
  <2>3. toGo(con) <= toGo(pressHome(con)) + 1
    BY <1>3, PressProgress
  <2>4. /\ toGo(con) \in 0 .. 3 /\ toGo(pressHome(con)) \in 0 .. 3 /\ dark(con) \in 0 .. 1
        /\ dark(pressHome(con)) = 0
    <3>1. pressHome(con).lit = TRUE
      BY <1>3, PressEffect
    <3>2. QED
      BY <1>3, <3>1, ToGoRange
  <2>5. toGoAfter(w, con) \in Int
    BY <1>1, <1>3, <2>4, ToGoRange DEF toGoAfter
  <2>6. CASE n = 0
    <3>1. con' = pressHome(con)
      BY <1>2, <2>6
    <3>2. toGo(con)' = toGo(pressHome(con)) /\ dark(con)' = dark(pressHome(con))
      BY <3>1
    <3>3. BurstSuffices => w'.round + toGo(con)' <= 3 + w'.ill
      BY <1>1, <1>2, <2>1, <2>4, <2>5, <2>6, <3>2, Fields
    <3>4. bu'.wake + dark(con)' <= 1 + w'.ill
      BY <1>1, <1>2, <2>1, <2>2, <2>4, <2>6, <3>2, Fields
    <3>5. QED
      BY <1>2, <3>3, <3>4 DEF Accounted, RoundsAccounted
  <2>7. CASE n = 1
    <3>1. con' = con
      BY <1>2, <2>7
    <3>2. toGo(con)' = toGo(con) /\ dark(con)' = dark(con)
      BY <3>1
    <3>3. BurstSuffices => w'.round + toGo(con)' <= 3 + w'.ill
      BY <1>1, <1>2, <2>1, <2>3, <2>4, <2>5, <2>7, <3>2, Fields
    <3>4. bu'.wake + dark(con)' <= 1 + w'.ill
      BY <1>1, <1>2, <2>1, <2>2, <2>4, <2>7, <3>2, Fields
    <3>5. QED
      BY <1>2, <3>3, <3>4 DEF Accounted, RoundsAccounted
  <2>8. QED
    BY <2>6, <2>7
<1>8. QED
  BY <1>4, <1>5, <1>6, <1>7, PartsNext

\* The press that wakes the display, and the one against the plain lock screen.
LEMMA ActWakeInv == IndInv /\ con.power = "on" /\ ActWake => IndInv'
<1> SUFFICES ASSUME IndInv, con.power = "on", ActWake PROVE IndInv'
  OBVIOUS
<1> DEFINE next == [w EXCEPT !.pc = "round", !.round = w.round + 1]
<1>1. TypeOK /\ ThreadState
  BY Parts
<1>2. /\ w.pc = "act" /\ w.verdict = "dark" /\ bu.wake < WakeAttempts
      /\ Press(next) /\ bu' = [bu EXCEPT !.wake = bu.wake + 1] /\ UNCHANGED <<sd, main>>
  BY DEF ActWake
<1>3. w.round + 1 \in 0 .. MaxRounds /\ w.burst = 0
  BY <1>1, <1>2, Fields DEF ThreadState
<1>4. next \in Worker /\ next.ill = w.ill /\ next.pc = "round" /\ next.round = w.round + 1 /\ next.burst = 0
  BY <1>1, <1>3 DEF TypeOK, Worker, WorkerPcs
<1> HIDE DEF next
<1>5. PICK n \in {0, 1} : PressOutcome(next, n)
  BY <1>1, <1>2, <1>4, PressStep
<1>6. bu' \in Agent /\ bu'.created = bu.created /\ bu'.wake = bu.wake + 1
  <2>1. bu.wake + 1 \in 0 .. WakeAttempts
    BY <1>1, <1>2, Fields
  <2>2. QED
    BY <1>1, <1>2, <2>1 DEF TypeOK, Agent
<1>7. toGo(pressHome(con)) <= toGoAfter(w, con)
  <2>1. toGoAfter(w, con) = toGo(pressHome(con))
    BY <1>2 DEF toGoAfter
  <2>2. toGo(pressHome(con)) \in 0 .. 3
    BY <1>1, PressEffect, ToGoRange DEF TypeOK
  <2>3. QED
    BY <2>1, <2>2
<1>8. QED
  BY <1>2, <1>4, <1>5, <1>6, <1>7, RoundEnds

\* One press against the plain lock screen.
LEMMA ActOneInv == IndInv /\ con.power = "on" /\ ActOne => IndInv'
<1> SUFFICES ASSUME IndInv, con.power = "on", ActOne PROVE IndInv'
  OBVIOUS
<1> DEFINE next == [w EXCEPT !.pc = "round", !.round = w.round + 1, !.pressed = TRUE]
<1>1. TypeOK /\ ThreadState
  BY Parts
<1>2. /\ w.pc = "act" /\ w.verdict = "one"
      /\ Press(next) /\ UNCHANGED <<sd, bu, main>>
  BY DEF ActOne
<1>3. w.round + 1 \in 0 .. MaxRounds /\ w.burst = 0
  BY <1>1, <1>2, Fields DEF ThreadState
<1>4. next \in Worker /\ next.ill = w.ill /\ next.pc = "round" /\ next.round = w.round + 1 /\ next.burst = 0
  BY <1>1, <1>3 DEF TypeOK, Worker, WorkerPcs
<1> HIDE DEF next
<1>5. PICK n \in {0, 1} : PressOutcome(next, n)
  BY <1>1, <1>2, <1>4, PressStep
<1>6. bu' \in Agent /\ bu' = bu
  BY <1>1, <1>2 DEF TypeOK
<1>7. toGo(pressHome(con)) <= toGoAfter(w, con)
  <2>1. toGoAfter(w, con) = toGo(pressHome(con))
    BY <1>2 DEF toGoAfter
  <2>2. toGo(pressHome(con)) \in 0 .. 3
    BY <1>1, PressEffect, ToGoRange DEF TypeOK
  <2>3. QED
    BY <2>1, <2>2
<1>8. QED
  BY <1>2, <1>4, <1>5, <1>6, <1>7, RoundEnds

\* A press of a burst, on a console that is past the plain lock screen.
LEMMA BurstPress ==
    ASSUME NEW c \in Console, c.screen # "one"
    PROVE  LET p == pressHome(c) IN
           /\ p.screen # "one" /\ dark(p) = 0
           /\ ~c.lit => p.screen = c.screen /\ p.count = c.count
           /\ c.lit /\ c.screen = "three" /\ c.count = 2 => p.screen = "menu"
           /\ c.lit /\ c.screen = "three" /\ c.count # 2 => p.screen = "three" /\ p.count = c.count + 1
           /\ c.screen # "three" => p.screen # "three"
           /\ locked(c) \in 0 .. 1 /\ (locked(c) = 1 <=> c.screen = "three")
           /\ locked(p) \in 0 .. 1 /\ (locked(p) = 1 <=> p.screen = "three")
<1> DEFINE p == pressHome(c)
<1>1. c.lit \in BOOLEAN /\ c.count \in 0 .. 2 /\ p \in Console /\ p.lit = TRUE
  BY PressEffect DEF Console
<1>2. /\ p.screen # "one"
      /\ ~c.lit => p.screen = c.screen /\ p.count = c.count
      /\ c.lit /\ c.screen = "three" /\ c.count = 2 => p.screen = "menu"
      /\ c.lit /\ c.screen = "three" /\ c.count # 2 => p.screen = "three" /\ p.count = c.count + 1
      /\ c.screen # "three" => p.screen # "three"
  <2>1. CASE ~c.lit
    BY <2>1, PressFields DEF Console
  <2>2. CASE c.lit /\ c.screen = "three" /\ c.count = 2
    BY <2>2, PressFields DEF Console
  <2>3. CASE c.lit /\ c.screen = "three" /\ c.count # 2
    BY <2>3, PressFields DEF Console
  <2>4. CASE c.lit /\ c.screen \notin {"one", "three"}
    BY <2>4, PressFields DEF Console
  <2>5. QED
    BY <2>1, <2>2, <2>3, <2>4
<1> HIDE DEF p
<1>3. dark(p) = 0
  BY <1>1 DEF dark
<1>4. locked(c) \in 0 .. 1 /\ (locked(c) = 1 <=> c.screen = "three")
  BY DEF locked
<1>5. locked(p) \in 0 .. 1 /\ (locked(p) = 1 <=> p.screen = "three")
  BY <1>2 DEF locked
<1>6. QED
  BY <1>2, <1>3, <1>4, <1>5 DEF p

\* The burst against the second lock screen.  Three presses in a row open it, and a burst has three.
LEMMA ActThreeInv == IndInv /\ con.power = "on" /\ ActThree => IndInv'
<1> SUFFICES ASSUME IndInv, con.power = "on", ActThree PROVE IndInv'
  OBVIOUS
<1> DEFINE last == w.burst = BurstPresses - 1
           next == [w EXCEPT !.pc = IF last THEN "round" ELSE "act",
                             !.burst = IF last THEN 0 ELSE w.burst + 1,
                             !.round = IF last THEN w.round + 1 ELSE w.round, !.pressed = TRUE]
           pressed == pressHome(con)
<1>1. TypeOK /\ Cause /\ ThreadState /\ Accounted
  BY Parts
<1>2. w.pc = "act" /\ w.verdict = "three" /\ Press(next) /\ UNCHANGED <<sd, bu, main>>
  BY DEF ActThree
<1>3. con \in Console /\ con.screen # "one" /\ bu.created /\ w.round < MaxRounds /\ (con.app => con.fresh \/ w.blind)
  BY <1>1, <1>2 DEF TypeOK, ThreadState
<1>4. /\ pressed.screen # "one" /\ dark(pressed) = 0
      /\ ~con.lit => pressed.screen = con.screen /\ pressed.count = con.count
      /\ con.lit /\ con.screen = "three" /\ con.count = 2 => pressed.screen = "menu"
      /\ con.lit /\ con.screen = "three" /\ con.count # 2
         => pressed.screen = "three" /\ pressed.count = con.count + 1
      /\ con.screen # "three" => pressed.screen # "three"
      /\ locked(con) \in 0 .. 1 /\ (locked(con) = 1 <=> con.screen = "three")
      /\ locked(pressed) \in 0 .. 1 /\ (locked(pressed) = 1 <=> pressed.screen = "three")
  BY <1>3, BurstPress
<1>5. toGo(pressed) = locked(pressed) /\ dark(con) \in 0 .. 1 /\ (con.lit <=> dark(con) = 0)
  <2>1. pressed \in Console
    BY <1>3, PressEffect
  <2>2. QED
    BY <1>3, <1>4, <2>1, ToGoRange
<1>6. toGoAfter(w, con) = IF con.screen = "three" /\ con.count + (BurstPresses - w.burst) >= 3 + dark(con)
                          THEN 0 ELSE locked(con)
  BY <1>2 DEF toGoAfter
<1>7. w.burst \in 0 .. BurstPresses - 1 /\ BurstPresses \in Nat /\ BurstPresses >= 1
      /\ con.count \in 0 .. 2 /\ w.round \in 0 .. MaxRounds /\ MaxRounds \in Nat /\ con.lit \in BOOLEAN
      /\ w.ill \in Nat /\ bu.wake \in Nat
  BY <1>1, Fields
<1>8. /\ (IF last THEN "round" ELSE "act") \in WorkerPcs
      /\ (IF last THEN 0 ELSE w.burst + 1) \in 0 .. BurstPresses - 1
      /\ (IF last THEN w.round + 1 ELSE w.round) \in 0 .. MaxRounds
  BY <1>3, <1>7 DEF WorkerPcs
<1>9. /\ next \in Worker /\ next.ill = w.ill /\ next.verdict = "three" /\ next.blind = w.blind
      /\ next.pc = IF last THEN "round" ELSE "act"
      /\ next.burst = IF last THEN 0 ELSE w.burst + 1
      /\ next.round = IF last THEN w.round + 1 ELSE w.round
  <2> HIDE DEF last
  <2>1. w \in Worker
    BY <1>1 DEF TypeOK
  <2>2. QED
    BY <1>2, <1>8, <2>1 DEF Worker
<1> HIDE DEF next, pressed
<1>10. PICK n \in {0, 1} : PressOutcome(next, n)
  BY <1>1, <1>2, <1>9, PressStep
<1>11. CASE last
  <2>1. toGo(pressed) <= toGoAfter(w, con)
    <3>1. ~con.lit => toGo(pressed) = locked(con)
      BY <1>4, <1>5
    <3>2. ~con.lit => toGoAfter(w, con) = locked(con)
      BY <1>5, <1>6, <1>7, <1>11
    <3>3. con.lit => toGo(pressed) <= toGoAfter(w, con)
      BY <1>4, <1>5, <1>6, <1>7, <1>11
    <3>4. QED
      BY <1>4, <1>7, <3>1, <3>2, <3>3
  <2>2. bu' = bu /\ bu \in Agent
    BY <1>1, <1>2 DEF TypeOK
  <2>3. next.pc = "round" /\ next.round = w.round + 1 /\ next.burst = 0
    BY <1>9, <1>11
  <2>4. QED
    BY <1>2, <1>9, <1>10, <2>1, <2>2, <2>3, RoundEnds DEF pressed
<1>12. CASE ~last
  <2>1. /\ w' \in Worker /\ w'.pc = "act" /\ w'.round = w.round /\ w'.burst = w.burst + 1
        /\ w'.verdict = "three" /\ w'.blind = w.blind /\ w'.ill = w.ill + n
        /\ left' \in Budget /\ left'.ill + w'.ill <= MaxIll
        /\ n = 0 => con' = pressed
        /\ n = 1 => con' = con
        /\ con' \in Console /\ con'.power = "on" /\ con'.app = con.app /\ con'.fresh = con.fresh
    BY <1>9, <1>10, <1>12 DEF PressOutcome, pressed
  <2>2. TypeOK'
    BY <1>1, <1>2, <2>1 DEF TypeOK, Budget
  <2>3. Cause'
    BY <2>1 DEF Cause
  <2>4. ThreadState'
    <3>1. con'.screen # "one"
      BY <1>3, <1>4, <2>1
    <3>2. bu' = bu
      BY <1>2
    <3>3. QED
      BY <1>3, <2>1, <3>1, <3>2 DEF ThreadState
  <2>5. Accounted'
    <3>1. (BurstSuffices => w.round + 1 + toGoAfter(w, con) <= 3 + w.ill) /\ bu.wake + dark(con) <= 1 + w.ill
      BY <1>1, <1>2 DEF Accounted, RoundsAccounted
    <3>2. toGoAfter(w, con)' = IF con'.screen = "three" /\ con'.count + (BurstPresses - w'.burst) >= 3 + dark(con')
                               THEN 0 ELSE locked(con')
      BY <2>1 DEF toGoAfter
    <3>3. toGoAfter(w, con) \in 0 .. 1
      BY <1>4, <1>6
    <3>4. CASE n = 0
      <4>1. con' = pressed
        BY <2>1, <3>4
      <4>2. toGoAfter(w, con)' = IF pressed.screen = "three"
                                    /\ pressed.count + (BurstPresses - (w.burst + 1)) >= 3 + 0
                                 THEN 0 ELSE locked(pressed)
        BY <1>4, <2>1, <3>2, <4>1
      <4>3. toGoAfter(w, con)' <= toGoAfter(w, con)
        <5>1. CASE con.screen # "three"
          BY <1>4, <1>6, <4>2, <5>1
        <5>2. CASE con.screen = "three" /\ ~con.lit
          BY <1>4, <1>5, <1>6, <1>7, <4>2, <5>2
        <5>3. CASE con.screen = "three" /\ con.lit /\ con.count = 2
          BY <1>4, <1>5, <1>6, <1>7, <4>2, <5>3
        <5>4. CASE con.screen = "three" /\ con.lit /\ con.count # 2
          BY <1>4, <1>5, <1>6, <1>7, <4>2, <5>4
        <5>5. QED
          BY <1>7, <5>1, <5>2, <5>3, <5>4
      <4>4. toGoAfter(w, con)' \in 0 .. 1
        BY <1>4, <4>2
      <4>5. BurstSuffices => w'.round + 1 + toGoAfter(w, con)' <= 3 + w'.ill
        BY <1>7, <2>1, <3>1, <3>3, <3>4, <4>3, <4>4
      <4>6. dark(con)' = 0
        BY <1>4, <4>1
      <4>7. bu'.wake + dark(con)' <= 1 + w'.ill
        BY <1>2, <1>5, <1>7, <2>1, <3>1, <3>4, <4>6
      <4>8. QED
        BY <2>1, <4>5, <4>7 DEF Accounted, RoundsAccounted
    <3>5. CASE n = 1
      <4>1. con' = con
        BY <2>1, <3>5
      <4>2. toGoAfter(w, con)' \in 0 .. 1
        BY <1>4, <3>2, <4>1
      <4>3. BurstSuffices => w'.round + 1 + toGoAfter(w, con)' <= 3 + w'.ill
        BY <1>7, <2>1, <3>1, <3>3, <3>5, <4>2
      <4>4. bu'.wake + dark(con)' <= 1 + w'.ill
        BY <1>2, <1>5, <1>7, <2>1, <3>1, <3>5, <4>1
      <4>5. QED
        BY <2>1, <4>3, <4>4 DEF Accounted, RoundsAccounted
    <3>6. QED
      BY <3>4, <3>5
  <2>6. QED
    BY <2>2, <2>3, <2>4, <2>5, PartsNext
<1>13. QED
  BY <1>11, <1>12

\* The end of a run: the counters of the worker stay as the decision left them.
LEMMA RunEndsInv == IndInv /\ con.power = "on" /\ (Consume \/ Finish \/ ThreadEnd) => IndInv'
<1> SUFFICES ASSUME IndInv, con.power = "on", Consume \/ Finish \/ ThreadEnd PROVE IndInv'
  OBVIOUS
<1>1. TypeOK /\ Cause /\ ThreadState /\ Accounted
  BY Parts
<1>2. left' \in Budget /\ left'.ill <= left.ill /\ left'.ill \in 0 .. MaxIll
  <2>1. Ill \/ NotIll
    BY DEF Consume, Finish, ThreadEnd, NotIll
  <2>2. QED
    BY <1>1, <2>1, IllSpends, Fields DEF Budget
<1>3. /\ w.pc \in {"consume", "finish", "end"}
      /\ con' = con /\ main' = main
  BY DEF Consume, Finish, ThreadEnd
<1>4. /\ w' \in Worker /\ w'.pc \in {"finish", "end", "off"} /\ w'.ill = w.ill /\ w'.round = w.round
      /\ w'.burst = w.burst /\ w'.verdict = w.verdict
  BY <1>1 DEF Consume, Finish, ThreadEnd, TypeOK, Worker, WorkerPcs
<1>5. /\ bu' \in Agent /\ bu'.reason = bu.reason /\ bu'.wake = bu.wake /\ bu'.created = bu.created
      /\ sd' \in [ini : Inis, arm : BOOLEAN]
  <2>1. bu \in Agent /\ sd \in [ini : Inis, arm : BOOLEAN]
    BY <1>1 DEF TypeOK
  <2>2. bu' = bu \/ bu' = [bu EXCEPT !.armCleared = TRUE] \/ bu' = [bu EXCEPT !.phase = "done"]
    BY DEF Consume, Finish, ThreadEnd
  <2>3. sd' = sd \/ sd' = [sd EXCEPT !.arm = FALSE]
    BY DEF Consume, Finish, ThreadEnd
  <2>4. bu' \in Agent /\ bu'.reason = bu.reason /\ bu'.wake = bu.wake /\ bu'.created = bu.created
    BY <2>1, <2>2 DEF Agent
  <2>5. QED
    BY <2>1, <2>3, <2>4
<1>6. TypeOK'
  BY <1>1, <1>2, <1>3, <1>4, <1>5 DEF TypeOK, Budget
<1>7. Cause'
  BY <1>1, <1>3, <1>4, <1>5 DEF Cause
<1>8. ThreadState'
  <2>1. left'.ill + w'.ill <= MaxIll
    BY <1>1, <1>2, <1>4, Fields DEF ThreadState
  <2>2. QED
    BY <1>1, <1>3, <1>4, <1>5, <2>1 DEF ThreadState
<1>9. Accounted'
  BY <1>4 DEF Accounted, RoundsAccounted
<1>10. QED
  BY <1>6, <1>7, <1>8, <1>9, PartsNext

-----------------------------------------------------------------------------
\* A thread that has just been made, or none: nothing is owed.
LEMMA FreshThread ==
    ASSUME IndInv, left' \in Budget, left'.ill <= left.ill, con' \in Console,
           sd' \in [ini : Inis, arm : BOOLEAN], main' \in {"idle", "start", "reset"}, bu' \in Agent,
           w' = noWorker \/ (w' = [noWorker EXCEPT !.pc = "start"] /\ bu'.created /\ bu'.wake = 0),
           con'.power = "booting" => w' = noWorker /\ bu' = freshAgent
    PROVE  IndInv'
<1>1. TypeOK /\ ThreadState
  BY Parts
<1>2. w' \in Worker /\ w'.pc \in {"off", "start"} /\ w'.round = 0 /\ w'.ill = 0 /\ w'.burst = 0
  <2>1. /\ noWorker \in Worker /\ noWorker.pc = "off" /\ noWorker.round = 0 /\ noWorker.ill = 0
        /\ noWorker.burst = 0
    BY ScheduleAssumption DEF noWorker, Worker, WorkerPcs, Verdicts, ScheduleAssumption
  <2>2. QED
    BY <2>1 DEF Worker, WorkerPcs
<1>3. w'.pc = "start" => bu'.created /\ bu'.wake = 0
  BY DEF noWorker
<1>4. TypeOK'
  BY <1>2 DEF TypeOK, Budget
<1>5. Cause'
  BY <1>2 DEF Cause
<1>6. ThreadState'
  <2>1. left'.ill + w'.ill <= MaxIll
    BY <1>2, ScheduleAssumption DEF Budget, ScheduleAssumption
  <2>2. ~bu'.created => w'.pc = "off"
    BY <1>2, <1>3
  <2>3. QED
    BY <1>2, <2>1, <2>2 DEF ThreadState
<1>7. Accounted'
  BY <1>2, <1>3 DEF Accounted, RoundsAccounted
<1>8. QED
  BY <1>4, <1>5, <1>6, <1>7, PartsNext

\* The agent as a boot finds it.
LEMMA FreshAgent == freshAgent \in Agent /\ freshAgent.wake = 0
BY ScheduleAssumption DEF freshAgent, Agent, Reasons, Modes, ScheduleAssumption

\* Every file there may be has a mode that the build can run with.
LEMMA ModeOfFile == ASSUME NEW ini \in Inis PROVE modeOf(ini) \in Modes
<1>1. CASE bootUnlockConfigLoad(ini) = "ok"
  <2>1. ini.file = "text"
    <3>1. ini.file \in {"absent", "unreadable", "text"}
      BY DEF Inis
    <3>2. QED
      BY <1>1, <3>1 DEF bootUnlockConfigLoad
  <2>2. bootUnlockConfigParseText(ini) = "ok"
    BY <1>1, <2>1 DEF bootUnlockConfigLoad
  <2>3. ini.mode # "bad"
    BY <2>2 DEF bootUnlockConfigParseText
  <2>4. QED
    BY <1>1, <2>3 DEF modeOf, Inis
<1>2. CASE bootUnlockConfigLoad(ini) # "ok"
  BY <1>2 DEF modeOf, Modes
<1>3. QED
  BY <1>1, <1>2

\* bootUnlockInit: the thread it may start is the first of this boot.
LEMMA BootInitInv == IndInv /\ bootUnlockInit => IndInv'
<1> SUFFICES ASSUME IndInv, bootUnlockInit PROVE IndInv'
  OBVIOUS
<1> DEFINE mode == modeOf(sd.ini)
           reason == CASE mode = "everyBoot" -> "mode-every-boot"
                       [] mode = "armed"     -> IF sd.arm THEN "armed" ELSE "not-armed"
                       [] mode = "off"       -> "mode-off"
           read == [freshAgent EXCEPT !.mode = mode, !.armedAtStart = sd.arm, !.reason = reason]
<1>1. TypeOK /\ ThreadState
  BY Parts
<1>2. sd.ini \in Inis /\ sd.arm \in BOOLEAN /\ sd \in [ini : Inis, arm : BOOLEAN]
  BY <1>1 DEF TypeOK
<1>3. mode \in Modes
  BY <1>2, ModeOfFile
<1> HIDE DEF mode
<1>4. reason \in Reasons
  BY <1>3 DEF Reasons, Modes
<1> HIDE DEF reason
<1>5. read \in Agent /\ read.wake = 0
  BY <1>2, <1>3, <1>4, FreshAgent DEF Agent
<1> HIDE DEF read
<1>6. con' \in Console /\ con'.power = "on" /\ con.power = "booting" /\ main' = main
  BY <1>1 DEF bootUnlockInit, TypeOK, Console
<1>7. w = noWorker
  BY <1>1, <1>6 DEF ThreadState
<1>8. left' \in Budget /\ left'.ill <= left.ill
  <2>1. Ill \/ NotIll
    BY DEF bootUnlockInit
  <2>2. QED
    BY <1>1, <2>1, IllSpends, Fields
<1>9. \/ /\ bu' = [read EXCEPT !.created = TRUE] /\ w' = [noWorker EXCEPT !.pc = "start"] /\ sd' = sd
      \/ /\ bu' = [read EXCEPT !.reason = "thread-start-failed"] /\ w' = w /\ sd' = sd
      \/ /\ bu' = [read EXCEPT !.armCleared = sd.arm /\ mode = "off"]
         /\ sd' = [sd EXCEPT !.arm = sd.arm /\ mode # "off"] /\ w' = w
      \/ /\ bu' = [freshAgent EXCEPT !.reason = "no-sd-card"] /\ w' = w /\ sd' = sd
  BY DEF bootUnlockInit, read, reason, mode
<1>10. /\ bu' \in Agent
       /\ w' = noWorker \/ (w' = [noWorker EXCEPT !.pc = "start"] /\ bu'.created /\ bu'.wake = 0)
       /\ sd' \in [ini : Inis, arm : BOOLEAN]
  <2>1. CASE bu' = [read EXCEPT !.created = TRUE] /\ w' = [noWorker EXCEPT !.pc = "start"] /\ sd' = sd
    BY <1>2, <1>5, <2>1 DEF Agent
  <2>2. CASE bu' = [read EXCEPT !.reason = "thread-start-failed"] /\ w' = w /\ sd' = sd
    BY <1>2, <1>5, <1>7, <2>2 DEF Agent, Reasons
  <2>3. CASE /\ bu' = [read EXCEPT !.armCleared = sd.arm /\ mode = "off"]
             /\ sd' = [sd EXCEPT !.arm = sd.arm /\ mode # "off"] /\ w' = w
    <3>1. bu' \in Agent
      BY <1>5, <2>3 DEF Agent
    <3>2. sd' \in [ini : Inis, arm : BOOLEAN]
      BY <1>2, <2>3
    <3>3. QED
      BY <1>7, <2>3, <3>1, <3>2
  <2>4. CASE bu' = [freshAgent EXCEPT !.reason = "no-sd-card"] /\ w' = w /\ sd' = sd
    BY <1>2, <1>7, <2>4, FreshAgent DEF Agent, Reasons
  <2>5. QED
    BY <1>9, <2>1, <2>2, <2>3, <2>4
<1>11. main' \in {"idle", "start", "reset"}
  BY <1>1, <1>6 DEF TypeOK
<1>12. QED
  BY <1>6, <1>8, <1>10, <1>11, FreshThread

\* A boot: every thread is gone.
LEMMA RestartInv == IndInv /\ restarted /\ (Ill \/ NotIll) => IndInv'
<1> SUFFICES ASSUME IndInv, restarted, Ill \/ NotIll PROVE IndInv'
  OBVIOUS
<1>1. TypeOK
  BY Parts
<1>2. left' \in Budget /\ left'.ill <= left.ill
  BY <1>1, IllSpends, Fields
<1>3. con.locks \in BOOLEAN
  BY <1>1 DEF TypeOK, Console
<1>4. con' \in Console
  <2>1. lockedConsole(con.locks) \in Console
    BY <1>3, BootConsole
  <2>2. con' = [lockedConsole(con.locks) EXCEPT !.power = "booting"]
    BY DEF restarted
  <2>3. QED
    BY <2>1, <2>2 DEF Console
<1>5. bu' = freshAgent /\ w' = noWorker /\ main' = "idle" /\ sd' \in [ini : Inis, arm : BOOLEAN]
  BY <1>1 DEF restarted, TypeOK
<1>6. QED
  BY <1>2, <1>4, <1>5, FreshAgent, FreshThread

-----------------------------------------------------------------------------
\* What is left to do after a press depends on the light and the screen alone.
LEMMA ToGoPressed ==
    ASSUME NEW c \in Console
    PROVE  toGo(pressHome(c)) = IF ~c.lit THEN locked(c)
                                ELSE IF c.screen = "one" THEN (IF c.locks THEN 1 ELSE 0)
                                ELSE IF c.screen = "three" /\ c.count # 2 THEN 1 ELSE 0
<1> DEFINE p == pressHome(c)
<1>1. c.lit \in BOOLEAN /\ c.locks \in BOOLEAN /\ p \in Console /\ p.lit = TRUE /\ p.locks = c.locks
  BY PressEffect DEF Console
<1>2. toGo(p) = locked(p) /\ locked(p) \in 0 .. 2 /\ locked(c) \in 0 .. 2
  BY <1>1, ToGoRange
<1>3. CASE ~c.lit
  <2>1. p.screen = c.screen
    BY <1>3, PressFields DEF Console
  <2> HIDE DEF p
  <2>2. locked(p) = locked(c)
    BY <1>1, <2>1 DEF locked
  <2>3. QED
    BY <1>2, <1>3, <2>2 DEF p
<1>4. CASE c.lit /\ c.screen = "one"
  <2>1. p.screen = IF c.locks THEN "three" ELSE "menu"
    BY <1>4, PressFields DEF Console
  <2> HIDE DEF p
  <2>2. QED
    BY <1>1, <1>2, <1>4, <2>1 DEF p, locked
<1>5. CASE c.lit /\ c.screen = "three" /\ c.count = 2
  <2>1. p.screen = "menu"
    BY <1>5, PressFields DEF Console
  <2> HIDE DEF p
  <2>2. QED
    BY <1>2, <1>5, <2>1 DEF p, locked
<1>6. CASE c.lit /\ c.screen = "three" /\ c.count # 2
  <2>1. p.screen = "three"
    BY <1>6, PressFields DEF Console
  <2> HIDE DEF p
  <2>2. QED
    BY <1>2, <1>6, <2>1 DEF p, locked
<1>7. CASE c.lit /\ c.screen \notin {"one", "three"}
  <2>1. p.screen = "menu"
    BY <1>7, PressFields DEF Console
  <2> HIDE DEF p
  <2>2. QED
    BY <1>2, <1>7, <2>1 DEF p, locked
<1>8. QED
  BY <1>1, <1>3, <1>4, <1>5, <1>6, <1>7

\* A step of the main loop beside a worker that runs on: the agent may change its words, and may go
\* down, but the worker's account stays.
LEMMA MainBeside ==
    ASSUME IndInv, UNCHANGED <<sd, w>>, con.power = "on", left' \in Budget, left'.ill <= left.ill,
           main' \in {"idle", "start", "reset"}, bu' \in Agent,
           bu'.wake = bu.wake \/ w.pc = "off",
           bu'.created \/ w.pc = "off",
           bu'.reason = bu.reason \/ bu'.reason = "manual-run",
           con' = con \/ con' = [con EXCEPT !.power = "crashed"]
    PROVE  IndInv'
<1>1. TypeOK /\ Cause /\ ThreadState /\ Accounted
  BY Parts
<1>2. con \in Console
  BY <1>1 DEF TypeOK
<1>3. /\ con' \in Console /\ con'.power # "booting" /\ con'.app = con.app /\ con'.fresh = con.fresh
      /\ con'.screen = con.screen /\ con'.lit = con.lit /\ con'.locks = con.locks /\ con'.count = con.count
  BY <1>2 DEF Console
<1>4. TypeOK'
  BY <1>1, <1>3 DEF TypeOK, Budget
<1>5. Cause'
  BY <1>1 DEF Cause
<1>6. ThreadState'
  <2>1. left'.ill + w'.ill <= MaxIll
    <3>1. left'.ill \in Int /\ left.ill \in Int /\ w.ill \in Int /\ MaxIll \in Int
      BY <1>1, Fields, ScheduleAssumption DEF Budget, ScheduleAssumption
    <3>2. left.ill + w.ill <= MaxIll
      BY <1>1 DEF ThreadState
    <3>3. QED
      BY <3>1, <3>2
  <2>2. QED
    BY <1>1, <1>3, <2>1 DEF ThreadState
<1>7. Accounted'
  <2>1. dark(con)' = dark(con) /\ locked(con)' = locked(con) /\ toGo(con)' = toGo(con)
    BY <1>3 DEF dark, locked, toGo
  <2>2. toGo(pressHome(con')) = toGo(pressHome(con))
    BY <1>2, <1>3, <2>1, ToGoPressed
  <2>3. toGoAfter(w, con)' = toGoAfter(w, con)
    BY <1>3, <2>1, <2>2 DEF toGoAfter
  <2>4. QED
    BY <1>1, <2>1, <2>3 DEF Accounted, RoundsAccounted
<1>8. QED
  BY <1>4, <1>5, <1>6, <1>7, PartsNext

\* bootUnlockRunCommand and bootUnlockStartWorker: the agent's thread is replaced only when it has ended.
LEMMA RunInv == IndInv /\ (bootUnlockRunCommand \/ RunStart) => IndInv'
<1> SUFFICES ASSUME IndInv, bootUnlockRunCommand \/ RunStart PROVE IndInv'
  OBVIOUS
<1>1. TypeOK /\ ThreadState
  BY Parts
<1>2. bu \in Agent /\ sd \in [ini : Inis, arm : BOOLEAN] /\ con \in Console
  BY <1>1 DEF TypeOK
<1>3. CASE bootUnlockRunCommand
  <2>1. con.power = "on" /\ left' \in Budget /\ left'.ill <= left.ill
    BY <1>1, <1>3, IllSpends, Fields DEF bootUnlockRunCommand, Ready, Event
  <2>2. bu' \in Agent /\ bu'.wake = bu.wake /\ bu'.created = bu.created /\ bu'.reason = "manual-run"
    <3>1. modeOf(sd.ini) \in Modes
      BY <1>2, ModeOfFile
    <3>2. bu' = [bu EXCEPT !.mode = modeOf(sd.ini), !.reason = "manual-run"]
      BY <1>3 DEF bootUnlockRunCommand
    <3>3. "manual-run" \in Reasons
      BY DEF Reasons
    <3>4. QED
      BY <1>2, <3>1, <3>2, <3>3 DEF Agent
  <2>3. bu'.created \/ w.pc = "off"
    BY <1>1, <2>2 DEF ThreadState
  <2>4. QED
    BY <1>3, <2>1, <2>2, <2>3, MainBeside DEF bootUnlockRunCommand
<1>4. CASE RunStart
  <2>1. con.power = "on" /\ main' = "idle" /\ sd' = sd /\ bootUnlockStartWorker(bu, bu)
    BY <1>4 DEF RunStart
  <2>2. left' \in Budget /\ left'.ill <= left.ill
    <3>1. Ill \/ NotIll
      BY <2>1 DEF bootUnlockStartWorker
    <3>2. QED
      BY <1>1, <3>1, IllSpends, Fields
  <2>3. ~bu.created => w.pc = "off"
    BY <1>1 DEF ThreadState
  <2>4. CASE bu' = bu /\ w' = w /\ (con' = con \/ con' = [con EXCEPT !.power = "crashed"])
    BY <1>2, <2>1, <2>2, <2>3, <2>4, MainBeside
  <2>5. CASE /\ bu' = [bu EXCEPT !.created = TRUE, !.phase = "idle", !.wake = 0]
             /\ w' = [noWorker EXCEPT !.pc = "start"] /\ con' = con
    <3>1. bu' \in Agent /\ bu'.created /\ bu'.wake = 0
      <4>1. 0 \in 0 .. WakeAttempts
        BY ScheduleAssumption DEF ScheduleAssumption
      <4>2. QED
        BY <1>2, <2>5, <4>1 DEF Agent
    <3>2. QED
      BY <1>2, <2>1, <2>2, <2>5, <3>1, FreshThread
  <2>6. CASE /\ bu' = [bu EXCEPT !.created = FALSE, !.phase = "idle", !.wake = 0]
             /\ w' = w /\ con' = con /\ w.pc = "off"
    <3>1. bu' \in Agent /\ bu'.reason = bu.reason
      <4>1. 0 \in 0 .. WakeAttempts
        BY ScheduleAssumption DEF ScheduleAssumption
      <4>2. QED
        BY <1>2, <2>6, <4>1 DEF Agent
    <3>2. QED
      BY <2>1, <2>2, <2>6, <3>1, MainBeside
  <2>7. QED
    BY <2>1, <2>3, <2>4, <2>5, <2>6 DEF bootUnlockStartWorker
<1>5. QED
  BY <1>3, <1>4

\* The other commands, an edit of the file and a refused reset do not touch the worker.
LEMMA CommandInv ==
    IndInv /\ ((\E b \in BOOLEAN : bootUnlockArmCommand(b) \/ powerAction(b)) \/ EditIni \/ Reset \/ PowerLoss)
    => IndInv'
<1> SUFFICES ASSUME IndInv,
                    (\E b \in BOOLEAN : bootUnlockArmCommand(b) \/ powerAction(b)) \/ EditIni \/ Reset \/ PowerLoss
             PROVE  IndInv'
  OBVIOUS
<1>1. TypeOK
  BY Parts
<1>2. sd \in [ini : Inis, arm : BOOLEAN] /\ main \in {"idle", "start", "reset"} /\ left.ill \in Int
  BY <1>1, Fields DEF TypeOK
<1>3. ASSUME NEW b \in BOOLEAN, bootUnlockArmCommand(b) PROVE IndInv'
  <2>1. left' \in Budget /\ left'.ill <= left.ill
    BY <1>1, <1>2, <1>3, IllSpends DEF bootUnlockArmCommand, Ready, Event
  <2>2. UNCHANGED <<w, con, bu>> /\ main' = main /\ sd' \in [ini : Inis, arm : BOOLEAN]
    BY <1>2, <1>3 DEF bootUnlockArmCommand, bootUnlockRequest
  <2>3. QED
    BY <1>2, <2>1, <2>2, Aside
<1>4. ASSUME NEW b \in BOOLEAN, powerAction(b) PROVE IndInv'
  <2>1. left' \in Budget /\ left'.ill <= left.ill
    <3>1. Spend(0, 1) \/ Spend(1, 1)
      BY <1>4 DEF powerAction, Ready
    <3>2. QED
      BY <1>1, <1>2, <3>1, Spending
  <2>2. UNCHANGED <<w, con, bu>> /\ main' = "reset" /\ sd' \in [ini : Inis, arm : BOOLEAN]
    BY <1>2, <1>4 DEF powerAction, bootUnlockRequest
  <2>3. QED
    BY <2>1, <2>2, Aside
<1>5. CASE EditIni
  <2>1. left' \in Budget /\ left'.ill <= left.ill
    BY <1>1, <1>2, <1>5, IllSpends DEF EditIni
  <2>2. PICK ini \in Edits : sd' = [sd EXCEPT !.ini = ini]
    BY <1>5 DEF EditIni
  <2>3. Edits \subseteq Inis
    BY DEF Edits, Inis, text, Modes
  <2>4. UNCHANGED <<w, con, bu>> /\ main' = main /\ sd' \in [ini : Inis, arm : BOOLEAN]
    BY <1>2, <1>5, <2>2, <2>3 DEF EditIni
  <2>5. QED
    BY <1>2, <2>1, <2>4, Aside
<1>6. CASE Reset
  <2>1. CASE restarted /\ NotIll
    BY <2>1, RestartInv
  <2>2. CASE main' = "idle" /\ Ill /\ UNCHANGED <<sd, bu, w, con>>
    <3>1. left' \in Budget /\ left'.ill <= left.ill
      BY <1>1, <1>2, <2>2, IllSpends
    <3>2. QED
      BY <1>2, <2>2, <3>1, Aside
  <2>3. QED
    BY <1>6, <2>1, <2>2 DEF Reset
<1>7. CASE PowerLoss
  BY <1>7, RestartInv DEF PowerLoss
<1>8. QED
  BY <1>3, <1>4, <1>5, <1>6, <1>7

\* The display goes dark: one more round, and one more mishap.
LEMMA DarkenInv == IndInv /\ Darken => IndInv'
<1> SUFFICES ASSUME IndInv, Darken PROVE IndInv'
  OBVIOUS
<1>1. TypeOK /\ Cause /\ ThreadState /\ Accounted
  BY Parts
<1>2. con \in Console /\ w \in Worker
  BY <1>1 DEF TypeOK
<1>3. /\ con.power = "on" /\ con.lit /\ con' = [con EXCEPT !.lit = FALSE]
      /\ w' = IF w.pc = "off" THEN w ELSE [w EXCEPT !.ill = w.ill + 1]
      /\ UNCHANGED <<sd, bu, main>>
  BY DEF Darken, hurt
<1>4. /\ con' \in Console /\ con'.power = "on" /\ con'.app = con.app /\ con'.fresh = con.fresh
      /\ con'.screen = con.screen /\ con'.lit = FALSE /\ con'.locks = con.locks /\ con'.count = con.count
  BY <1>2, <1>3 DEF Console
<1>5. left' \in Budget /\ left'.ill = left.ill - 1 /\ left.ill >= 1
  BY <1>1, IllSpends DEF Darken
<1>6. PICK n \in {0, 1} :
          /\ w' \in Worker /\ w'.pc = w.pc /\ w'.round = w.round /\ w'.burst = w.burst
          /\ w'.verdict = w.verdict /\ w'.blind = w.blind /\ w'.ill = w.ill + n /\ (n = 0 <=> w.pc = "off")
  <2>1. CASE w.pc = "off"
    <3>1. w.ill = w.ill + 0
      BY <1>1, Fields
    <3>2. QED
      BY <1>2, <1>3, <2>1, <3>1
  <2>2. CASE w.pc # "off"
    <3>1. w.ill + 1 \in 0 .. MaxIll
      BY <1>1, <1>5, Fields DEF ThreadState
    <3>2. /\ w' \in Worker /\ w'.pc = w.pc /\ w'.round = w.round /\ w'.burst = w.burst
          /\ w'.verdict = w.verdict /\ w'.blind = w.blind /\ w'.ill = w.ill + 1
      BY <1>2, <1>3, <2>2, <3>1 DEF Worker
    <3>3. QED
      BY <2>2, <3>2
  <2>3. QED
    BY <2>1, <2>2
<1>7. TypeOK'
  BY <1>1, <1>3, <1>4, <1>5, <1>6 DEF TypeOK, Budget
<1>8. Cause'
  <2>1. w'.ill >= w.ill
    BY <1>1, <1>6, Fields
  <2>2. bu' = bu /\ w.ill \in Int /\ w'.ill \in Int /\ MaxRounds \in Int /\ WakeAttempts \in Int
    BY <1>1, <1>3, <1>6, Fields
  <2>3. QED
    BY <1>1, <1>6, <2>1, <2>2 DEF Cause
<1>9. ThreadState'
  <2>1. left'.ill + w'.ill <= MaxIll
    BY <1>1, <1>5, <1>6, Fields DEF ThreadState
  <2>2. QED
    BY <1>1, <1>3, <1>4, <1>6, <2>1 DEF ThreadState
<1>10. Accounted'
  <2>1. dark(con) = 0 /\ dark(con') = 1 /\ locked(con') = locked(con) /\ locked(con) \in 0 .. 2
    <3>1. locked(con) \in 0 .. 2
      BY <1>2, ToGoRange
    <3>2. QED
      BY <1>3, <1>4, <3>1 DEF dark, locked
  <2>2. toGo(con) = locked(con) /\ toGo(con') = locked(con) + 1
    BY <2>1 DEF toGo
  <2>3. w.pc # "off" => n = 1
    BY <1>6
  <2>4. w'.pc = "start" => w'.round = 0 /\ bu'.wake = 0
    BY <1>1, <1>3, <1>6 DEF Accounted, RoundsAccounted
  <2>5. BurstSuffices => (w'.pc \in {"round", "look"} => w'.round + toGo(con') <= 3 + w'.ill)
    <3>1. BurstSuffices => (w.pc \in {"round", "look"} => w.round + toGo(con) <= 3 + w.ill)
      BY <1>1 DEF Accounted, RoundsAccounted
    <3>2. QED
      BY <1>1, <1>6, <2>1, <2>2, <2>3, <3>1, Fields
  <2>6. BurstSuffices /\ w'.pc = "act" /\ w'.verdict \in {"dark", "one", "three"}
        => w'.round + 1 + toGoAfter(w', con') <= 3 + w'.ill
    <3>1. SUFFICES ASSUME w.pc = "act", w.verdict \in {"dark", "one", "three"}
                   PROVE  BurstSuffices => w'.round + 1 + toGoAfter(w', con') <= 3 + w'.ill
      BY <1>6
    <3>2. BurstSuffices => w.round + 1 + toGoAfter(w, con) <= 3 + w.ill
      BY <1>1, <3>1 DEF Accounted, RoundsAccounted
    <3>3. /\ toGoAfter(w', con') <= toGoAfter(w, con) + 1
          /\ toGoAfter(w', con') \in 0 .. 2 /\ toGoAfter(w, con) \in 0 .. 3
      <4>1. CASE w.verdict # "three"
        <5>1. toGoAfter(w, con) = toGo(pressHome(con)) /\ toGoAfter(w', con') = toGo(pressHome(con'))
          BY <1>6, <4>1 DEF toGoAfter
        <5>2. toGo(pressHome(con')) = locked(con')
          BY <1>4, ToGoPressed
        <5>3. toGo(con) <= toGo(pressHome(con)) + 1
          BY <1>2, PressProgress
        <5>4. toGo(pressHome(con)) \in 0 .. 3
          BY <1>2, PressEffect, ToGoRange
        <5>5. QED
          BY <2>1, <2>2, <5>1, <5>2, <5>3, <5>4
      <4>2. CASE w.verdict = "three"
        <5>1. con.screen # "one"
          BY <1>1, <3>1, <4>2 DEF ThreadState
        <5>2. locked(con) \in 0 .. 1
          BY <1>2, <5>1, BurstPress
        <5>3. toGoAfter(w, con) \in {0, locked(con)} /\ toGoAfter(w', con') \in {0, locked(con')}
          BY <1>6, <4>2 DEF toGoAfter
        <5>4. QED
          BY <2>1, <5>2, <5>3
      <4>3. QED
        BY <4>1, <4>2
    <3>4. QED
      BY <1>1, <1>6, <2>3, <3>1, <3>2, <3>3, Fields
  <2>7. w'.pc \in {"round", "look", "act"} => bu'.wake + dark(con') <= 1 + w'.ill
    <3>1. w.pc \in {"round", "look", "act"} => bu.wake + dark(con) <= 1 + w.ill
      BY <1>1 DEF Accounted, RoundsAccounted
    <3>2. QED
      BY <1>1, <1>3, <1>6, <2>1, <2>3, <3>1, Fields
  <2>8. w'.pc = "act" /\ w'.verdict = "dark" => bu'.wake <= w'.ill
    <3>1. w.pc = "act" /\ w.verdict = "dark" => bu.wake <= w.ill
      BY <1>1 DEF Accounted, RoundsAccounted
    <3>2. QED
      BY <1>1, <1>3, <1>6, <3>1, Fields
  <2>9. toGo(con)' = toGo(con') /\ dark(con)' = dark(con') /\ toGoAfter(w, con)' = toGoAfter(w', con')
    OBVIOUS
  <2>10. QED
    BY <2>4, <2>5, <2>6, <2>7, <2>8, <2>9 DEF Accounted, RoundsAccounted
<1>11. QED
  BY <1>7, <1>8, <1>9, <1>10, PartsNext

\* The user starts a game or ends it: either way the console is open.
LEMMA LaunchInv == IndInv /\ Launch => IndInv'
<1> SUFFICES ASSUME IndInv, Launch PROVE IndInv'
  OBVIOUS
<1>1. TypeOK /\ Cause /\ ThreadState /\ Accounted
  BY Parts
<1>2. con \in Console /\ UNCHANGED <<sd, bu, w, main>> /\ con.power = "on"
  BY <1>1 DEF TypeOK, Launch
<1>3. /\ con' \in Console /\ con'.power = "on" /\ con'.screen \in {"game", "menu"}
      /\ con'.lit = TRUE \/ con'.lit = con.lit
      /\ con'.app => con'.fresh
  <2>1. "game" \in Screens /\ "menu" \in Screens
    BY DEF Screens
  <2>2. CASE con' = [con EXCEPT !.screen = "game", !.lit = TRUE, !.app = TRUE, !.fresh = TRUE]
    BY <1>2, <2>1, <2>2 DEF Console
  <2>3. CASE con' = [con EXCEPT !.screen = "menu", !.app = FALSE, !.fresh = FALSE]
    BY <1>2, <2>1, <2>3 DEF Console
  <2>4. QED
    BY <2>2, <2>3 DEF Launch
<1>4. left' \in Budget /\ left'.ill = left.ill
  BY <1>1, IllSpends DEF Launch
<1>5. TypeOK'
  BY <1>1, <1>2, <1>3, <1>4 DEF TypeOK, Budget
<1>6. Cause'
  BY <1>1, <1>2 DEF Cause
<1>7. ThreadState'
  BY <1>1, <1>2, <1>3, <1>4 DEF ThreadState
<1>8. Accounted'
  <2>1. locked(con') = 0
    BY <1>3 DEF locked
  <2>2. dark(con') \in 0 .. 1 /\ dark(con) \in 0 .. 1 /\ dark(con') <= dark(con)
    <3>1. dark(con') \in 0 .. 1 /\ dark(con) \in 0 .. 1
      BY <1>2, <1>3, ToGoRange
    <3>2. QED
      BY <1>3, <3>1 DEF dark
  <2>3. toGo(con') <= toGo(con) /\ toGo(con') \in 0 .. 3 /\ toGo(con) \in 0 .. 3
    <3>1. locked(con) \in 0 .. 2 /\ toGo(con) = dark(con) + locked(con)
      BY <1>2, ToGoRange
    <3>2. toGo(con') = dark(con') + locked(con')
      BY DEF toGo
    <3>3. QED
      BY <2>1, <2>2, <3>1, <3>2
  <2>4. toGoAfter(w, con') = 0
    <3>1. toGo(pressHome(con')) = 0
      BY <1>3, <2>1, ToGoPressed
    <3>2. QED
      BY <1>3, <2>1, <3>1 DEF toGoAfter
  <2>5. toGoAfter(w, con) \in 0 .. 3
    <3>1. toGo(pressHome(con)) \in 0 .. 3 /\ locked(con) \in 0 .. 2
      BY <1>2, PressEffect, ToGoRange
    <3>2. QED
      BY <3>1 DEF toGoAfter
  <2>6. toGo(con)' = toGo(con') /\ dark(con)' = dark(con') /\ toGoAfter(w, con)' = toGoAfter(w', con')
    OBVIOUS
  <2>7. w.round \in Nat /\ w.ill \in Nat /\ bu.wake \in Nat
    BY <1>1, Fields
  <2>8. BurstSuffices => (w.pc \in {"round", "look"} => w.round + toGo(con') <= 3 + w.ill)
    <3>1. BurstSuffices => (w.pc \in {"round", "look"} => w.round + toGo(con) <= 3 + w.ill)
      BY <1>1 DEF Accounted, RoundsAccounted
    <3>2. QED
      BY <2>3, <2>7, <3>1
  <2>9. BurstSuffices => (w.pc = "act" /\ w.verdict \in {"dark", "one", "three"} => w.round + 1 + toGoAfter(w, con') <= 3 + w.ill)
    <3>1. BurstSuffices => (w.pc = "act" /\ w.verdict \in {"dark", "one", "three"} => w.round + 1 + toGoAfter(w, con) <= 3 + w.ill)
      BY <1>1 DEF Accounted, RoundsAccounted
    <3>2. QED
      BY <2>4, <2>5, <2>7, <3>1
  <2>10. w.pc \in {"round", "look", "act"} => bu.wake + dark(con') <= 1 + w.ill
    <3>1. w.pc \in {"round", "look", "act"} => bu.wake + dark(con) <= 1 + w.ill
      BY <1>1 DEF Accounted, RoundsAccounted
    <3>2. QED
      BY <2>2, <2>7, <3>1
  <2>11. QED
    BY <1>1, <1>2, <2>6, <2>8, <2>9, <2>10 DEF Accounted, RoundsAccounted
<1>9. QED
  BY <1>5, <1>6, <1>7, <1>8, PartsNext

-----------------------------------------------------------------------------
\* Every step keeps the invariant.
LEMMA NextInv == IndInv /\ [Next]_vars => IndInv'
<1> SUFFICES ASSUME IndInv, [Next]_vars PROVE IndInv'
  OBVIOUS
<1>1. CASE con.power = "on" /\ bootUnlockWorker
  BY <1>1, StartInv, RoundInv, LookInv, ActStopInv, ActWakeInv, ActOneInv, ActThreeInv, RunEndsInv
     DEF bootUnlockWorker
<1>2. CASE mainSteps
  BY <1>2, BootInitInv, RunInv, CommandInv DEF mainSteps
<1>3. CASE \E b \in BOOLEAN : bootUnlockArmCommand(b) \/ powerAction(b)
  BY <1>3, CommandInv
<1>4. CASE bootUnlockRunCommand
  BY <1>4, RunInv
<1>5. CASE PowerLoss \/ EditIni
  BY <1>5, CommandInv
<1>6. CASE Darken
  BY <1>6, DarkenInv
<1>7. CASE Launch
  BY <1>7, LaunchInv
<1>8. CASE UNCHANGED vars
  <2>1. UNCHANGED <<w, con, bu>> /\ sd' = sd /\ main' = main /\ left' = left
    BY <1>8 DEF vars
  <2>2. TypeOK /\ left.ill \in Int
    BY Parts, Fields
  <2>3. left' \in Budget /\ left'.ill <= left.ill /\ sd' \in [ini : Inis, arm : BOOLEAN]
        /\ main' \in {"idle", "start", "reset"}
    BY <2>1, <2>2 DEF TypeOK, Budget
  <2>4. QED
    BY <2>1, <2>3, Aside
<1>9. QED
  BY <1>1, <1>2, <1>3, <1>4, <1>5, <1>6, <1>7, <1>8 DEF Next

\* In every run of the agent, over any number of boots, the rounds and the wake presses of the
\* worker are accounted for.  About the loop of bootUnlockWorker.
THEOREM Invariance == Spec => []IndInv
<1>1. Init => IndInv
  BY InitInv
<1>2. IndInv /\ [Next]_vars => IndInv'
  BY NextInv
<1>3. QED
  BY <1>1, <1>2, PTL DEF Spec

\* A run gives up on a dark console, and with bursts of at least three on a locked one, only if that
\* often a press got lost, a capture failed or the display went dark under it, for every number of
\* wake attempts and rounds.  About bootUnlockWorker and its schedule.
THEOREM GivesUpOnlyWithCause == Spec => []GivesUpWithCause
<1>1. IndInv => GivesUpWithCause
  BY DEF IndInv
<1>2. QED
  BY <1>1, Invariance, PTL

\* For every schedule: a press finds an application running only if it was started after the round's
\* own question, or the query behind the question failed (bootUnlockApplicationRunning).  About the
\* order of the question, the look and the press in bootUnlockWorker.
THEOREM NeverPressesIntoGame == Spec => NoPressIntoGame
<1> DEFINE A == (w.pc = "act" /\ <<w'.round, w'.burst>> # <<w.round, w.burst>> /\ w'.pc \in {"round", "act"})
                => ~con.app \/ con.fresh \/ w.blind
<1>1. IndInv /\ [Next]_vars => [A]_vars
  BY DEF IndInv, ThreadState
<1>2. QED
  BY <1>1, Invariance, PTL DEF Spec, NoPressIntoGame
=============================================================================
