----------------------------- MODULE BootUnlock -----------------------------
(***************************************************************************)
(* boot_unlock.c, boot_unlock_config.c, the verdicts of screen_classify.c  *)
(* and the two reboot commands of system_commands.c: the worker that looks *)
(* at the screen after a boot and presses HOME until the lock screen is    *)
(* gone, the file that asks for it, and the commands that run it, arm it   *)
(* and reboot the console.                                                 *)
(*                                                                         *)
(* Delays and ticks are left out: the deadline may pass at any round.  The *)
(* console behind the screen is external, modelled from what the worker    *)
(* and docs/lock-screen-notes.md expect of it.                             *)
(***************************************************************************)
EXTENDS Naturals

CONSTANTS WakeAttempts,   \* wakeAttempts of the schedule
          MaxRounds,      \* maxRounds
          BurstPresses,   \* burstPresses
          MaxIll,         \* how often the console, or a call, misbehaves
          MaxEvents       \* commands, edits, launches and reboots
ASSUME ScheduleAssumption ==
    /\ WakeAttempts \in Nat /\ MaxRounds \in Nat \ {0} /\ BurstPresses \in Nat \ {0}
    /\ MaxIll \in Nat /\ MaxEvents \in Nat

VARIABLES
    sd,      \* boot-unlock.ini and whether boot-unlock.armed is there
    bu,      \* bootUnlock, bootUnlockThreadCreated
    w,       \* the worker thread: its place and its locals
    main,    \* the main loop, inside a command
    con,     \* the console: power, screen, application
    left     \* what is left of MaxIll and MaxEvents

vars == <<sd, bu, w, main, con, left>>

Modes    == {"off", "armed", "everyBoot"}
Inis     == [file : {"absent", "unreadable", "text"}, mode : Modes \cup {"bad"}, rounds : {0, MaxRounds}]
Screens  == {"one", "three", "menu", "game"}
Verdicts == {"dark", "one", "three", "other", "unknown"}
Reasons  == {"init", "no-sd-card", "config-io-error", "config-invalid", "mode-every-boot", "armed",
             "not-armed", "mode-off", "thread-start-failed", "manual-run", "no-memory", "deadline",
             "application-running", "unlocked", "not-locked", "unknown-screen", "display-stays-dark",
             "rounds-exhausted"}
WorkerPcs == {"off", "start", "round", "look", "act", "burst", "consume", "finish", "end"}

noWorker == [pc |-> "off", round |-> 0, pressed |-> FALSE, verdict |-> "unknown", burst |-> 0,
             blind |-> FALSE, ill |-> 0]
freshAgent == [phase |-> "idle", reason |-> "init", mode |-> "armed",
               armedAtStart |-> FALSE, armCleared |-> FALSE, created |-> FALSE, wake |-> 0]
lockedConsole(locks) == [power |-> "booting", screen |-> "one", lit |-> TRUE, locks |-> locks,
                         count |-> 0, app |-> FALSE, fresh |-> FALSE]

-----------------------------------------------------------------------------
(* The schedule's file.                                                    *)

\* bootUnlockConfigParseText: one bad value makes the whole file invalid.
bootUnlockConfigParseText(ini) == IF ini.mode = "bad" \/ ini.rounds = 0 THEN "invalid" ELSE "ok"

\* bootUnlockConfigLoad.
bootUnlockConfigLoad(ini) == CASE ini.file = "absent"     -> "notFound"
                               [] ini.file = "unreadable" -> "ioError"
                               [] ini.file = "text"       -> bootUnlockConfigParseText(ini)

\* The mode this build runs with; the defaults say armed.
modeOf(ini) == IF bootUnlockConfigLoad(ini) = "ok" THEN ini.mode ELSE "armed"

-----------------------------------------------------------------------------
(* The screen.                                                             *)

\* What the metrics of a frame are, of each screen there is.
frame(c) == [complete |-> TRUE, dark |-> ~c.lit, rightFlat |-> c.screen \in {"one", "three"},
             leftFlat |-> c.screen = "three"]

\* screenClassify.
screenClassify(f) == CASE ~f.complete                     -> "unknown"
                       [] f.complete /\ f.dark            -> "dark"
                       [] f.complete /\ ~f.dark /\ ~f.rightFlat -> "other"
                       [] OTHER -> IF f.leftFlat THEN "three" ELSE "one"

\* A HOME press that the console takes: a dark display only lights up; the plain lock screen opens,
\* or leads to the second one; the second wants three presses in a row; a game goes to the background.
pressHome(c) ==
    CASE ~c.lit            -> [c EXCEPT !.lit = TRUE]
      [] c.lit /\ c.screen = "one"   -> [c EXCEPT !.screen = IF c.locks THEN "three" ELSE "menu", !.count = 0]
      [] c.lit /\ c.screen = "three" -> IF c.count = 2 THEN [c EXCEPT !.screen = "menu", !.count = 0]
                                        ELSE [c EXCEPT !.count = @ + 1]
      [] OTHER                       -> [c EXCEPT !.screen = "menu"]

Spend(ill, events) == /\ left.ill >= ill /\ left.events >= events
                      /\ left' = [ill |-> left.ill - ill, events |-> left.events - events]
Ill    == Spend(1, 0)
NotIll == UNCHANGED left
Event  == Spend(0, 1)
hurt(v) == [v EXCEPT !.ill = @ + 1]

-----------------------------------------------------------------------------
(* The worker.                                                             *)

\* The first locked section, and the two buffers.
Start ==
    /\ w.pc = "start"
    /\ \/ /\ bu' = [bu EXCEPT !.phase = "running"] /\ NotIll
          /\ w' = [w EXCEPT !.pc = "round"]
       \/ /\ bu' = [bu EXCEPT !.phase = "done", !.reason = "no-memory"] /\ Ill
          /\ w' = [w EXCEPT !.pc = "end"]
    /\ UNCHANGED <<sd, main, con>>

Decide(reason) ==
    /\ bu' = [bu EXCEPT !.reason = reason]
    /\ w' = [w EXCEPT !.pc = "consume"]

\* Mutated form of Round: whether an application runs is not asked.
RoundUnasked ==
    /\ w.pc = "round"
    /\ \/ w.round = MaxRounds /\ Decide("rounds-exhausted") /\ NotIll
       \/ w.round < MaxRounds /\ Decide("deadline") /\ Ill
       \/ /\ w.round < MaxRounds /\ NotIll
          /\ w' = [w EXCEPT !.pc = "look", !.blind = FALSE] /\ UNCHANGED bu
    /\ con' = [con EXCEPT !.fresh = FALSE]
    /\ UNCHANGED <<sd, main>>

\* The top of a round: the rounds may be used up, the deadline may have passed, or an application
\* runs.  bootUnlockApplicationRunning takes a query that fails for an answer of no, and the round
\* goes on blind.  After the last round the reason is always rounds-exhausted, because a verdict
\* that would say otherwise has left the loop already.
Round ==
    /\ w.pc = "round"
    /\ \/ w.round = MaxRounds /\ Decide("rounds-exhausted") /\ NotIll
       \/ w.round < MaxRounds /\ Decide("deadline") /\ Ill
       \/ w.round < MaxRounds /\ con.app /\ Decide("application-running") /\ NotIll
       \/ /\ w.round < MaxRounds /\ ~con.app /\ NotIll
          /\ w' = [w EXCEPT !.pc = "look", !.blind = FALSE] /\ UNCHANGED bu
       \/ /\ w.round < MaxRounds /\ con.app /\ Ill
          /\ w' = [w EXCEPT !.pc = "look", !.blind = TRUE] /\ UNCHANGED bu
    /\ con' = [con EXCEPT !.fresh = FALSE]
    /\ UNCHANGED <<sd, main>>

\* bootUnlockLook: a capture that fails counts as a dark screen, one that cannot be decoded as an
\* unknown one.  The second lock screen forgets its presses while the worker looks.
Look ==
    /\ w.pc = "look"
    /\ \/ w' = [w EXCEPT !.pc = "act", !.verdict = screenClassify(frame(con))] /\ NotIll
       \/ \E v \in {"dark", "unknown"} : w' = hurt([w EXCEPT !.pc = "act", !.verdict = v]) /\ Ill
    /\ con' = [con EXCEPT !.count = 0]
    /\ UNCHANGED <<sd, bu, main>>

\* bootUnlockPressHome: the press may find no device.
Press(next) ==
    \/ con' = pressHome(con) /\ w' = next /\ NotIll
    \/ UNCHANGED con /\ w' = hurt(next) /\ Ill

\* A verdict that ends the run.
ActStop ==
    /\ w.pc = "act"
    /\ \/ w.verdict = "other" /\ Decide(IF w.pressed THEN "unlocked" ELSE "not-locked")
       \/ w.verdict = "unknown" /\ Decide("unknown-screen")
       \/ w.verdict = "dark" /\ bu.wake >= WakeAttempts /\ Decide("display-stays-dark")
    /\ UNCHANGED <<sd, main, con, left>>

\* One press to light the display, and the next round.
ActWake ==
    /\ w.pc = "act" /\ w.verdict = "dark" /\ bu.wake < WakeAttempts
    /\ Press([w EXCEPT !.pc = "round", !.round = @ + 1])
    /\ bu' = [bu EXCEPT !.wake = @ + 1]
    /\ UNCHANGED <<sd, main>>

\* One press to open the plain lock screen.
ActOne ==
    /\ w.pc = "act" /\ w.verdict = "one"
    /\ Press([w EXCEPT !.pc = "round", !.round = @ + 1, !.pressed = TRUE])
    /\ UNCHANGED <<sd, bu, main>>

\* Mutated form of ActThree: the burst ends one press early.
ActThreeShort ==
    /\ w.pc = "act" /\ w.verdict = "three"
    /\ LET last == w.burst = BurstPresses - 2
       IN Press([w EXCEPT !.pc = IF last THEN "round" ELSE "act",
                          !.burst = IF last THEN 0 ELSE @ + 1,
                          !.round = IF last THEN @ + 1 ELSE @, !.pressed = TRUE])
    /\ UNCHANGED <<sd, bu, main>>

\* The burst against the second lock screen, press by press, without a look in between.
ActThree ==
    /\ w.pc = "act" /\ w.verdict = "three"
    /\ LET last == w.burst = BurstPresses - 1
       IN Press([w EXCEPT !.pc = IF last THEN "round" ELSE "act",
                          !.burst = IF last THEN 0 ELSE @ + 1,
                          !.round = IF last THEN @ + 1 ELSE @, !.pressed = TRUE])
    /\ UNCHANGED <<sd, bu, main>>

\* The request this boot found is consumed; the file may stay.
Consume ==
    /\ w.pc = "consume"
    /\ \/ /\ bu.armedAtStart /\ sd.arm /\ NotIll
          /\ sd' = [sd EXCEPT !.arm = FALSE]
          /\ bu' = [bu EXCEPT !.armCleared = TRUE]
       \/ /\ ~(bu.armedAtStart /\ sd.arm) /\ NotIll
          /\ UNCHANGED <<sd, bu>>
       \/ /\ bu.armedAtStart /\ sd.arm /\ Ill
          /\ UNCHANGED <<sd, bu>>
    /\ w' = [w EXCEPT !.pc = "finish"]
    /\ UNCHANGED <<main, con>>

\* Mutated form of Finish: the phase is left as it is.
FinishRunning ==
    /\ w.pc = "finish"
    /\ w' = [w EXCEPT !.pc = "end"]
    /\ UNCHANGED <<sd, bu, main, con, left>>

\* The last locked section, which also writes the log.
Finish ==
    /\ w.pc = "finish"
    /\ bu' = [bu EXCEPT !.phase = "done"]
    /\ w' = [w EXCEPT !.pc = "end"]
    /\ UNCHANGED <<sd, main, con, left>>

ThreadEnd ==
    /\ w.pc = "end"
    /\ w' = [w EXCEPT !.pc = "off"]
    /\ UNCHANGED <<sd, bu, main, con, left>>

bootUnlockWorker == \/ Start \/ Round \/ Look \/ ActStop \/ ActWake \/ ActOne \/ ActThree
                    \/ Consume \/ Finish \/ ThreadEnd

-----------------------------------------------------------------------------
(* The main loop.                                                          *)

\* bootUnlockStartWorker: refused while the phase is running.  A thread object whose thread has not
\* ended is closed all the same, and the agent is lost with it.
bootUnlockStartWorker(b, failed) ==
    \/ /\ b.created /\ b.phase = "running"
       /\ bu' = failed /\ UNCHANGED <<w, con>> /\ NotIll
    \/ /\ b.created /\ b.phase # "running" /\ w.pc # "off"
       /\ con' = [con EXCEPT !.power = "crashed"]
       /\ bu' = b /\ UNCHANGED w /\ NotIll
    \/ /\ ~b.created \/ (b.phase # "running" /\ w.pc = "off")
       /\ \/ /\ bu' = [b EXCEPT !.created = TRUE, !.phase = "idle", !.wake = 0] /\ NotIll
             /\ w' = [noWorker EXCEPT !.pc = "start"]
          \/ /\ bu' = [failed EXCEPT !.created = FALSE, !.phase = "idle", !.wake = 0] /\ Ill
             /\ UNCHANGED w
       /\ UNCHANGED con

wanted(mode) == mode = "everyBoot" \/ (mode = "armed" /\ sd.arm)

\* bootUnlockInit, called by main() once the services are up.
bootUnlockInit ==
    /\ con.power = "booting"
    /\ LET mode == modeOf(sd.ini)
           read == [freshAgent EXCEPT !.mode = mode, !.armedAtStart = sd.arm,
                       !.reason = CASE mode = "everyBoot" -> "mode-every-boot"
                                    [] mode = "armed"     -> IF sd.arm THEN "armed" ELSE "not-armed"
                                    [] mode = "off"       -> "mode-off"]
       IN \/ /\ wanted(mode)
             /\ \/ /\ bu' = [read EXCEPT !.created = TRUE] /\ NotIll
                   /\ w' = [noWorker EXCEPT !.pc = "start"]
                \/ /\ bu' = [read EXCEPT !.reason = "thread-start-failed"] /\ Ill
                   /\ UNCHANGED w
             /\ UNCHANGED sd
          \/ /\ ~wanted(mode) /\ NotIll
             /\ bu' = [read EXCEPT !.armCleared = sd.arm /\ mode = "off"]
             /\ sd' = [sd EXCEPT !.arm = @ /\ mode # "off"]
             /\ UNCHANGED w
          \/ /\ bu' = [freshAgent EXCEPT !.reason = "no-sd-card"] /\ Ill
             /\ UNCHANGED <<sd, w>>
    /\ con' = [con EXCEPT !.power = "on"]
    /\ UNCHANGED main

Ready(ill) == con.power = "on" /\ main = "idle" /\ Spend(ill, 1)

\* bootUnlockArmCommand and bootUnlockRequest.
bootUnlockRequest == sd' = [sd EXCEPT !.arm = TRUE]

bootUnlockArmCommand(arm) ==
    /\ Ready(0)
    /\ \/ arm /\ bootUnlockRequest
       \/ ~arm /\ sd' = [sd EXCEPT !.arm = FALSE]
    /\ UNCHANGED <<bu, w, main, con>>

\* bootUnlockRunCommand, before the thread: the phase is looked at and the schedule is read again.
bootUnlockRunCommand ==
    /\ Ready(0) /\ bu.phase # "running"
    /\ bootUnlockConfigLoad(sd.ini) \in {"ok", "notFound"}
    /\ bu' = [bu EXCEPT !.mode = modeOf(sd.ini), !.reason = "manual-run"]
    /\ main' = "start"
    /\ UNCHANGED <<sd, w, con>>

RunStart ==
    /\ con.power = "on" /\ main = "start"
    /\ bootUnlockStartWorker(bu, bu)
    /\ main' = "idle"
    /\ UNCHANGED sd

\* powerAction and rebootEmuMmc: the request is written first, or cannot be written.
powerAction(noUnlock) ==
    /\ \/ Ready(0) /\ noUnlock /\ UNCHANGED sd
       \/ Ready(0) /\ ~noUnlock /\ bootUnlockRequest
       \/ Ready(1) /\ ~noUnlock /\ UNCHANGED sd
    /\ main' = "reset"
    /\ UNCHANGED <<bu, w, con>>

\* The boot that begins; every thread is gone.
restarted == /\ con' = [lockedConsole(con.locks) EXCEPT !.power = "booting"]
             /\ bu' = freshAgent /\ w' = noWorker /\ main' = "idle"
             /\ UNCHANGED sd

Reset ==
    /\ con.power = "on" /\ main = "reset"
    /\ \/ restarted /\ NotIll
       \/ main' = "idle" /\ Ill /\ UNCHANGED <<sd, bu, w, con>>   \* bpc or Hekate refuses

mainSteps == bootUnlockInit \/ RunStart \/ Reset

-----------------------------------------------------------------------------
(* The console and its user.                                               *)

PowerLoss == con.power # "booting" /\ restarted /\ Ill

Darken ==
    /\ con.power = "on" /\ con.lit /\ Ill
    /\ con' = [con EXCEPT !.lit = FALSE]
    /\ w' = IF w.pc = "off" THEN w ELSE hurt(w)
    /\ UNCHANGED <<sd, bu, main>>

\* The user opens the console and starts a game, or ends it.
Launch ==
    /\ con.power = "on" /\ Event
    /\ \/ ~con.app /\ con' = [con EXCEPT !.screen = "game", !.lit = TRUE, !.app = TRUE, !.fresh = TRUE]
       \/ con.app /\ con' = [con EXCEPT !.screen = "menu", !.app = FALSE, !.fresh = FALSE]
    /\ UNCHANGED <<sd, bu, w, main>>

\* The files there may be: none, one with a value out of range, one per mode.
text(mode, rounds) == [file |-> "text", mode |-> mode, rounds |-> rounds]
Edits == { text("off", MaxRounds), text("everyBoot", MaxRounds), text("armed", 0),
           [text("armed", MaxRounds) EXCEPT !.file = "unreadable"] }

EditIni ==
    /\ con.power = "on" /\ Event
    /\ \E ini \in Edits : sd' = [sd EXCEPT !.ini = ini]
    /\ UNCHANGED <<bu, w, main, con>>

Init ==
    /\ sd \in [ini : {[text("armed", MaxRounds) EXCEPT !.file = "absent"]}, arm : BOOLEAN]
    /\ \E locks, lit \in BOOLEAN : con = [lockedConsole(locks) EXCEPT !.lit = lit]
    /\ bu = freshAgent /\ w = noWorker /\ main = "idle"
    /\ left = [ill |-> MaxIll, events |-> MaxEvents]

Next ==
    \/ con.power = "on" /\ bootUnlockWorker
    \/ mainSteps
    \/ \E b \in BOOLEAN : bootUnlockArmCommand(b) \/ powerAction(b)
    \/ bootUnlockRunCommand
    \/ PowerLoss \/ Darken \/ Launch \/ EditIni

(* Both threads keep running while the agent is up.                        *)
Fairness == WF_vars(con.power = "on" /\ bootUnlockWorker) /\ WF_vars(mainSteps)
Spec == Init /\ [][Next]_vars /\ Fairness

-----------------------------------------------------------------------------
(* The shape of the state; the worker's counters stay within the schedule: *)
(* no more wake presses, rounds or presses of a burst than it allows.      *)
Agent   == [phase : {"idle", "running", "done"}, reason : Reasons, mode : Modes,
            armedAtStart : BOOLEAN, armCleared : BOOLEAN, created : BOOLEAN, wake : 0 .. WakeAttempts]
Worker  == [pc : WorkerPcs, round : 0 .. MaxRounds, pressed : BOOLEAN, verdict : Verdicts,
            burst : 0 .. BurstPresses - 1, blind : BOOLEAN, ill : 0 .. MaxIll]
Console == [power : {"booting", "on", "crashed"}, screen : Screens, lit : BOOLEAN, locks : BOOLEAN,
            count : 0 .. 2, app : BOOLEAN, fresh : BOOLEAN]
TypeOK ==
    /\ sd \in [ini : Inis, arm : BOOLEAN]
    /\ bu \in Agent
    /\ w \in Worker
    /\ main \in {"idle", "start", "reset"}
    /\ con \in Console
    /\ left \in [ill : 0 .. MaxIll, events : 0 .. MaxEvents]

(* The worker stays within its schedule, and the schedule suffices: a run  *)
(* gives up on a locked or a dark console only if that often a press got   *)
(* lost, a capture failed or the display went dark under it; left alone it *)
(* opens both kinds of lock screen.  The rounds suffice if a burst has the *)
(* three presses the second lock screen wants; the file may ask for less.  *)
BurstSuffices == BurstPresses >= 3
GivesUpWithCause ==
    /\ TypeOK
    /\ w.pc \in {"consume", "finish", "end"}
       => /\ BurstSuffices /\ bu.reason = "rounds-exhausted" => w.ill + 3 >= MaxRounds
          /\ bu.reason = "display-stays-dark" => w.ill >= WakeAttempts

(* HOME is not pressed into a game: while an application runs the worker   *)
(* presses only if it was started after the round's own question, or the   *)
(* query behind that question failed; also when the display is dark and    *)
(* there is nothing to see.                                                *)
NoPressIntoGame ==
    [][(w.pc = "act" /\ <<w'.round, w'.burst>> # <<w.round, w.burst>> /\ w'.pc \in {"round", "act"})
       => ~con.app \/ con.fresh \/ w.blind]_vars

(* Every run of the schedule ends and says so, unless the agent goes down  *)
(* with it.                                                                *)
RunsEnd == w.pc = "start" ~> (bu.phase = "done" /\ w.pc = "off") \/ con.power # "on"

-----------------------------------------------------------------------------
(* Why a run that is left alone suffices.                                  *)

\* The rounds a console needs until a look finds it open: one to light it, one per lock screen.
dark(c) == IF c.lit THEN 0 ELSE 1
locked(c) == CASE c.screen = "one"   -> IF c.locks THEN 2 ELSE 1
               [] c.screen = "three" -> 1
               [] OTHER              -> 0
toGo(c) == dark(c) + locked(c)

\* The same once the presses the worker has decided on have reached it.
toGoAfter(v, c) ==
    IF v.verdict # "three" THEN toGo(pressHome(c))
    ELSE IF c.screen = "three" /\ c.count + (BurstPresses - v.burst) >= 3 + dark(c) THEN 0
         ELSE locked(c)

(* The agent, its thread and the console agree.                            *)
ThreadState ==
    /\ con.power = "booting" => w = noWorker /\ bu = freshAgent
    /\ ~bu.created => w.pc = "off"
    /\ left.ill + w.ill <= MaxIll
    /\ w.pc \in {"look", "act"} => w.round < MaxRounds /\ (con.app => con.fresh \/ w.blind)
    /\ (w.pc # "act" \/ w.verdict # "three") => w.burst = 0
    /\ w.pc = "act" /\ w.verdict = "three" => con.screen # "one"

(* Every round and every wake press beyond the ones a console needs has    *)
(* its own mishap.                                                         *)
RoundsAccounted ==
    /\ w.pc \in {"round", "look"} => w.round + toGo(con) <= 3 + w.ill
    /\ w.pc = "act" /\ w.verdict \in {"dark", "one", "three"}
       => w.round + 1 + toGoAfter(w, con) <= 3 + w.ill

Accounted ==
    /\ w.pc = "start" => w.round = 0 /\ bu.wake = 0
    /\ BurstSuffices => RoundsAccounted
    /\ w.pc \in {"round", "look", "act"} => bu.wake + dark(con) <= 1 + w.ill
    /\ w.pc = "act" /\ w.verdict = "dark" => bu.wake <= w.ill

IndInv == GivesUpWithCause /\ ThreadState /\ Accounted
=============================================================================
