---------------------------- MODULE InputWorkers ----------------------------
(***************************************************************************)
(* The input commands of main.c with the threads that serve them: the main *)
(* loop with its two controller services, the click thread that plays      *)
(* sequences (sub_click, clickSequence), the touch thread (sub_touch,      *)
(* touch) and the keyboard thread (sub_key, key).                          *)
(*                                                                         *)
(* A sequence is a string of items: press, release and click of A, and a   *)
(* wait.  Delays are left out; the time since the last input passes on     *)
(* its own.                                                                *)
(***************************************************************************)
EXTENDS Controller

CONSTANTS Sequences_,   \* the sequences a client may send
          MaxEvents     \* commands, calls that fail, and changes of the controller layout
Items == {"+", "-", "click", "wait"}
(* A sequence of no items, which the expansion of `,' is, does what a wait  *)
(* does, and is not a member.                                              *)
ASSUME InputAssumption == Sequences_ \subseteq Seq(Items) \ {<<>>} /\ MaxEvents \in Nat

VARIABLES
    s,        \* the controller (see Controller)
    main,     \* the main loop: its place, the command it carries out, and whether the last input
              \* command let a held button go
    click,    \* the click thread, currentClick and clickToken
    finger,   \* the touch thread, currentTouchEvent and touchToken
    typist,   \* the keyboard thread and currentKeyEvent
    left      \* what is left of MaxEvents

threads == <<click, finger, typist>>
vars == <<s, main, click, finger, typist, left>>

Ops      == {"press", "release", "setStick", "click", "clickSeq", "badSeq"}
MainPcs  == {"idle", "refresh", "act", "release", "queue", "queueTouch", "queueKeys", "idleLock", "reconnect"}
ClickPcs == {"poll", "begin", "flag", "item", "half", "stamp", "end", "reset"}
TouchPcs == {"poll", "init", "down", "up", "unset", "reset"}
KeyPcs   == {"poll", "init", "type", "unset"}

Input  == left > 0 /\ left' = left - 1
Ill    == left > 0 /\ left' = left - 1
NotIll == UNCHANGED left

\* A locked section, which may meet one failing call.
Locked(next(_)) ==
    \E fine \in {next(Fine)} :
       \/ s' = fine /\ NotIll
       \/ Ill /\ \E t \in {next(f) : f \in Failures} \ {fine} : s' = t

At(pc)   == main.pc = pc
Goto(pc) == main' = [main EXCEPT !.pc = pc]
AtRest   == [pc |-> "idle", op |-> "press", letGo |-> FALSE]
Done     == main' = [AtRest EXCEPT !.letGo = main.letGo]

-----------------------------------------------------------------------------
(* The commands.                                                           *)

\* click, press, release, setStick and clickSeq begin with controllerRefreshIfIdle.  A sequence that
\* cannot be expanded is refused only after it.
Command ==
    /\ At("idle") /\ Input
    /\ \E op \in Ops : main' = [main EXCEPT !.pc = "refresh", !.op = op]
    /\ UNCHANGED <<s, threads>>

Refresh ==
    /\ At("refresh")
    /\ \E limited \in {FALSE, s.refreshed} : s' = refreshed(s, limited)
    /\ main' = CASE main.op = "badSeq"   -> [AtRest EXCEPT !.letGo = s'.held # {} /\ ~s'.init]
                 [] main.op = "clickSeq" -> [main EXCEPT !.pc = "queue", !.letGo = FALSE]
                 [] OTHER                -> [main EXCEPT !.pc = "act", !.letGo = FALSE]
    /\ UNCHANGED <<threads, left>>

\* press, release, and the two halves of click.
press ==
    /\ At("act") /\ main.op \in {"press", "click"}
    /\ Locked(LAMBDA f : pressed(s, "A", f))
    /\ IF main.op = "click" THEN Goto("release") ELSE Done
    /\ UNCHANGED threads

release ==
    /\ At("release") \/ (At("act") /\ main.op = "release")
    /\ Locked(LAMBDA f : released(s, "A", f))
    /\ Done
    /\ UNCHANGED threads

\* The stick is moved, or centred.
setStick ==
    /\ At("act") /\ main.op = "setStick"
    /\ \/ Locked(LAMBDA f : pressed(s, "stick", f))
       \/ Locked(LAMBDA f : released(s, "stick", f))
    /\ Done
    /\ UNCHANGED threads

\* makeClickSeq waits for clickMutex, and does not look at what is there.
makeClickSeq ==
    /\ At("queue") /\ ~click.locked
    /\ \E q \in Sequences_ : click' = [click EXCEPT !.job = q]
    /\ Done
    /\ UNCHANGED <<s, finger, typist, left>>

clickCancel ==
    /\ At("idle") /\ Input
    /\ click' = [click EXCEPT !.token = TRUE]
    /\ UNCHANGED <<s, main, finger, typist>>

\* touch, touchHold and touchDraw: one or two points, the finger lifted in between or not.
touchCommand ==
    /\ At("idle") /\ Input
    /\ Goto("queueTouch")
    /\ UNCHANGED <<s, threads>>

makeTouch ==
    /\ At("queueTouch") /\ ~finger.locked
    /\ \E n \in 1 .. 2, hold \in BOOLEAN :
          finger' = [finger EXCEPT !.points = n, !.hold = hold, !.state = TRUE]
    /\ Done
    /\ UNCHANGED <<s, click, typist, left>>

touchCancel ==
    /\ At("idle") /\ Input
    /\ finger' = [finger EXCEPT !.token = TRUE]
    /\ UNCHANGED <<s, main, click, typist>>

\* key, keyMod and keyMulti.
keyCommand ==
    /\ At("idle") /\ Input
    /\ Goto("queueKeys")
    /\ UNCHANGED <<s, threads>>

makeKeys ==
    /\ At("queueKeys") /\ ~typist.locked
    /\ \E n \in 1 .. 2 : typist' = [typist EXCEPT !.keys = n, !.state = TRUE]
    /\ Done
    /\ UNCHANGED <<s, click, finger, left>>

\* detachController, also part of `configure controllerType'.
detachController ==
    /\ At("idle") /\ Input
    /\ s' = detached(s)
    /\ UNCHANGED <<main, threads>>

\* `configure controllerTakeover'.
configureTakeover ==
    /\ At("idle") /\ Input
    /\ s' = [s EXCEPT !.takeover = ~@]
    /\ UNCHANGED <<main, threads>>

\* controllerKickCommand.
controllerKick ==
    /\ At("idle") /\ Input
    /\ s.holder # {} /\ s' = disconnecting(s, Fine, "kicked")
    /\ UNCHANGED <<main, threads>>

\* controllerReconnectCommand: an explicit address joins the list; a page issued while our device has
\* the slot leads nowhere.
controllerReconnect ==
    /\ At("idle") /\ Input
    /\ \E a \in Pads \cup {Stranger, "all"} :
          LET t == IF a = "all" THEN s ELSE [remembering(s, a) EXCEPT !.attempts = 0]
          IN s' = IF s.init THEN t ELSE triggered(t, t.saved, {})
    /\ UNCHANGED <<main, threads>>

-----------------------------------------------------------------------------
(* The services of the main loop, after the commands of one round of poll. *)

\* controllerServiceIdle up to the lock: a sample that is old is taken again.
controllerServiceIdle ==
    /\ At("idle")
    /\ \E n \in {sampled(s)} \cup (IF s.sample = NoSample THEN {} ELSE {s.sample}) :
          /\ s' = IF s.init THEN [s EXCEPT !.sample = n] ELSE s
          /\ Goto(IF s.init /\ (n > 0 \/ s.yield) THEN "idleLock" ELSE "reconnect")
    /\ UNCHANGED <<threads, left>>

ReleaseIdle ==
    /\ At("idleLock")
    /\ s' = releasedIdle(s)
    /\ Goto("reconnect")
    /\ UNCHANGED <<threads, left>>

\* controllerServiceReconnect; a link is established within LinkPasses passes.
controllerServiceReconnect ==
    /\ At("reconnect")
    /\ paging(s) = {} \/ s.linkAge < LinkPasses \/ s.saved = <<>> \/ s.init
    /\ \/ s' = reconnected(s, {}) /\ NotIll
       \/ \E p \in Pads : s' = reconnected(s, {p}) /\ s' # reconnected(s, {}) /\ Ill
       \/ s' = givenUp(s) /\ s' # s /\ Ill
    /\ Done
    /\ UNCHANGED threads

mainSteps == \/ Refresh \/ press \/ release \/ setStick \/ makeClickSeq \/ makeTouch \/ makeKeys
             \/ controllerServiceIdle \/ ReleaseIdle \/ controllerServiceReconnect

-----------------------------------------------------------------------------
(* The click thread.                                                       *)

ClickFrame == UNCHANGED <<main, finger, typist>>

\* Mutated form of SequenceDone: the mutex is not given up.
SequenceDoneLocked == [click EXCEPT !.pc = "reset", !.job = <<>>]

\* The sequence is freed and clickMutex given up.
SequenceDone == [click EXCEPT !.pc = "reset", !.job = <<>>, !.locked = FALSE]

sub_click ==
    \/ /\ click.pc = "poll" /\ click.job # <<>>
       /\ click' = [click EXCEPT !.pc = "begin", !.locked = TRUE]
       /\ UNCHANGED s
    \/ /\ click.pc = "poll" /\ click.token     \* nothing to do, when it looked
       /\ click' = [click EXCEPT !.token = FALSE]
       /\ UNCHANGED s
    \/ /\ click.pc = "end"
       /\ s' = [s EXCEPT !.seq = FALSE]
       /\ click' = SequenceDone
    \/ /\ click.pc = "reset"
       /\ click' = [click EXCEPT !.pc = "poll", !.token = FALSE]
       /\ UNCHANGED s

\* clickSequence up to its loop: the flag is set after the lock is given up.
SequenceBegin ==
    \/ /\ click.pc = "begin"
       /\ Locked(LAMBDA f : ensured(s, f))
       /\ click' = [click EXCEPT !.pc = "flag"]
    \/ /\ click.pc = "flag"
       /\ s' = [s EXCEPT !.seq = TRUE] /\ NotIll
       /\ click' = [click EXCEPT !.pc = "item"]

\* One item, unless the sequence is cancelled; a click is a press and a release.
SequenceItem ==
    /\ click.pc = "item"
    /\ \/ /\ click.token \/ click.job = <<>>
          /\ click' = [click EXCEPT !.pc = "end"]
          /\ UNCHANGED s /\ NotIll
       \/ /\ ~click.token /\ click.job # <<>>
          /\ CASE Head(click.job) \in {"+", "click"} -> Locked(LAMBDA f : pressed(s, "A", f))
               [] Head(click.job) = "-"              -> Locked(LAMBDA f : released(s, "A", f))
               [] Head(click.job) = "wait"           -> UNCHANGED s /\ NotIll
          /\ click' = [click EXCEPT !.pc = IF Head(click.job) = "click" THEN "half" ELSE "stamp"]

SequenceHalf ==
    /\ click.pc = "half"
    /\ Locked(LAMBDA f : released(s, "A", f))
    /\ click' = [click EXCEPT !.pc = "stamp"]

\* controllerLastInputTick after every item.
SequenceStamp ==
    /\ click.pc = "stamp"
    /\ s' = [s EXCEPT !.age = "new"]
    /\ click' = [click EXCEPT !.pc = "item", !.job = Tail(@)]

clickSequence == SequenceBegin \/ SequenceItem \/ SequenceHalf \/ (SequenceStamp /\ NotIll)

clickSteps == ClickFrame /\ (clickSequence \/ (sub_click /\ NotIll))

-----------------------------------------------------------------------------
(* The touch thread.  Where the finger goes is left out.                   *)

sub_touch ==
    \/ /\ finger.pc = "poll" /\ finger.state
       /\ finger' = [finger EXCEPT !.pc = "init", !.locked = TRUE]
       /\ UNCHANGED s /\ NotIll
    \/ /\ finger.pc = "poll" /\ finger.token    \* nothing to do, when it looked
       /\ finger' = [finger EXCEPT !.token = FALSE]
       /\ UNCHANGED s /\ NotIll
    \/ /\ finger.pc = "reset"
       /\ finger' = [finger EXCEPT !.pc = "poll", !.token = FALSE]
       /\ UNCHANGED s /\ NotIll

touch ==
    \/ /\ finger.pc = "init"
       /\ Locked(LAMBDA f : initialised(s, f.first))
       /\ finger' = [finger EXCEPT !.pc = "down"]
    \/ /\ finger.pc = "down"
       /\ finger' = [finger EXCEPT !.points = @ - 1,
                                   !.pc = IF ~finger.hold THEN "up"
                                          ELSE IF finger.token \/ finger.points = 1 THEN "up" ELSE "down"]
       /\ UNCHANGED s /\ NotIll
    \/ /\ finger.pc = "up"
       /\ finger' = [finger EXCEPT !.pc = IF finger.hold \/ finger.token \/ finger.points = 0
                                          THEN "unset" ELSE "down"]
       /\ UNCHANGED s /\ NotIll
    \/ /\ finger.pc = "unset"
       /\ finger' = [finger EXCEPT !.pc = "reset", !.state = FALSE, !.locked = FALSE, !.points = 0,
                                   !.hold = FALSE]
       /\ UNCHANGED s /\ NotIll

touchSteps == (touch \/ sub_touch) /\ UNCHANGED <<main, click, typist>>

-----------------------------------------------------------------------------
(* The keyboard thread, which cannot be cancelled.                         *)

sub_key ==
    /\ typist.pc = "poll" /\ typist.state
    /\ typist' = [typist EXCEPT !.pc = "init", !.locked = TRUE]
    /\ UNCHANGED s /\ NotIll

key ==
    \/ /\ typist.pc = "init"
       /\ Locked(LAMBDA f : initialised(s, f.first))
       /\ typist' = [typist EXCEPT !.pc = "type"]
    \/ /\ typist.pc = "type"
       /\ typist' = [typist EXCEPT !.keys = @ - 1, !.pc = IF typist.keys = 1 THEN "unset" ELSE "type"]
       /\ UNCHANGED s /\ NotIll
    \/ /\ typist.pc = "unset"
       /\ typist' = [typist EXCEPT !.pc = "poll", !.state = FALSE, !.locked = FALSE]
       /\ UNCHANGED s /\ NotIll

keySteps == (key \/ sub_key) /\ UNCHANGED <<main, click, finger>>

-----------------------------------------------------------------------------
(* The console and its players.                                            *)

Quiet ==
    /\ s.age \in {"new", "pause"}
    /\ s' = [s EXCEPT !.age = IF @ = "new" THEN "pause" ELSE "idle"]
    /\ UNCHANGED <<main, threads, left>>

Connect ==
    /\ \E p \in paging(s) : s' = [s EXCEPT !.link[p] = "on", !.linkAge = 0]
    /\ UNCHANGED <<main, threads, left>>

\* A player's controller takes the slot that nobody has.
Claim ==
    /\ ~s.attached /\ s.holder # on(s)
    /\ s' = [s EXCEPT !.holder = on(s)]
    /\ UNCHANGED <<main, threads, left>>

\* Docking, undocking, a game that starts: the device may be dropped, and another controller may
\* get the slot.
Reconfigure ==
    /\ Ill
    /\ \E dropped \in BOOLEAN, holder \in {s.holder, on(s)} :
          s' = [s EXCEPT !.topo = 3 - @, !.attached = @ /\ ~dropped,
                         !.holder = holder]
    /\ UNCHANGED <<main, threads>>

Init ==
    /\ \E holder \in {{}, Pads} : s = atBoot(holder)
    /\ main = AtRest
    /\ click = [pc |-> "poll", job |-> <<>>, token |-> FALSE, locked |-> FALSE]
    /\ finger = [pc |-> "poll", state |-> FALSE, points |-> 0, hold |-> FALSE, token |-> FALSE,
                 locked |-> FALSE]
    /\ typist = [pc |-> "poll", state |-> FALSE, keys |-> 0, locked |-> FALSE]
    /\ left = MaxEvents

Next ==
    \/ Command \/ clickCancel \/ touchCommand \/ touchCancel \/ keyCommand \/ detachController
    \/ configureTakeover \/ controllerKick \/ controllerReconnect
    \/ mainSteps \/ clickSteps \/ touchSteps \/ keySteps
    \/ Quiet \/ Connect \/ Claim \/ Reconfigure

(* The four threads run, links are established and time passes; nothing is *)
(* assumed of the client or of the players.                                *)
Fairness == WF_vars(mainSteps) /\ WF_vars(clickSteps) /\ WF_vars(touchSteps) /\ WF_vars(keySteps)
            /\ WF_vars(Quiet) /\ WF_vars(Connect)
Spec == Init /\ [][Next]_vars /\ Fairness

-----------------------------------------------------------------------------
(* The shape of the state; the list of controllers to call back never      *)
(* outgrows its array (controllerRememberAddressLocked).                   *)
TypeOK ==
    /\ s \in States /\ Len(s.saved) <= SavedMax
    /\ main \in [pc : MainPcs, op : Ops, letGo : BOOLEAN]
    /\ click \in [pc : ClickPcs, job : Seq(Items), token : BOOLEAN, locked : BOOLEAN]
    /\ finger \in [pc : TouchPcs, state : BOOLEAN, points : 0 .. 2, hold : BOOLEAN, token : BOOLEAN,
                   locked : BOOLEAN]
    /\ typist \in [pc : KeyPcs, state : BOOLEAN, keys : 0 .. 2, locked : BOOLEAN]
    /\ left \in 0 .. MaxEvents

Remembers == TypeOK /\ \A p \in Pads : s.link[p] = "taken" => p \in Range(s.saved)

(* A controller that a takeover disconnected stays on the list until a page *)
(* for it was accepted, whatever kicks, explicit addresses and passes of the *)
(* service do to that list in between, and the list never outgrows its      *)
(* array.  The exceptions: a full list has no room for it, or drops it for  *)
(* an explicit address; a call to the console fails; the budget of a        *)
(* reconnect pass is used up.                                               *)
TakenIsRemembered ==
    [][/\ Remembers'
       /\ \A p \in Pads : s'.link[p] # s.link[p] =>
             /\ s'.link[p] = "unlisted" => Len(s'.saved) = SavedMax
             /\ s'.link[p] = "lost"     => left' < left \/ (At("reconnect") /\ s.attempts + 1 >= Retries)]_vars

away == {p \in Pads : s.link[p] \in {"taken", "paging"}}

(* A device that was taken down under a button or stick that a client still *)
(* holds is about to be built again: by the command that took it down, or   *)
(* by the sequence which that command has queued and the click thread has   *)
(* not begun.  Handing the slot back never lets go of what is held.  The    *)
(* exception: a clickSeq that is refused after it took the device down.     *)
HeldIsKept ==
    s.held # {} /\ ~s.init => \/ At("act") \/ At("queue")
                             \/ (click.job # <<>> /\ click.pc \in {"poll", "begin", "reset"})
                             \/ main.letGo

(* The controllers that takeovers disconnected are all connected again once *)
(* the client holds nothing, except those that a full list had no room for  *)
(* or dropped, or that a failing call or an exhausted budget gave up, and   *)
(* except while the device is back without a takeover of its own, which it  *)
(* never hands back by itself.                                              *)
TakenComesBack == away # {} ~> away = {} \/ s.held # {} \/ (s.init /\ ~s.yield)

(* The main loop, which holds the freeze lock, comes back from a command   *)
(* that waits for a sequence, touch or key to end.                          *)
InputReturns == main.pc \in {"queue", "queueTouch", "queueKeys"} ~> main.pc = "idle"
=============================================================================
