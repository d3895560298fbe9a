----------------------------- MODULE DebugWatch -----------------------------
(***************************************************************************)
(* debug_watch.c: a data watchpoint on the running application.  The       *)
(* context register and the data register are armed one after the other    *)
(* while the application is stopped by the attach; it is resumed once.     *)
(***************************************************************************)
EXTENDS DebugKernel

watchAttach ==
    /\ At("watch", "attach")
    /\ \/ /\ attachable("app") /\ NoFault
          /\ tgt' = attachedBy(tgt, "app", "watch")
          /\ wk' = [wk EXCEPT !["watch"].attached = {"app"}, !["watch"].pc = "drain"]
          /\ UNCHANGED ses
       \/ /\ ~attachable("app") /\ NoFault
          /\ Fail("watch") /\ UNCHANGED tgt
       \/ /\ attachable("app") /\ Fault
          /\ Fail("watch") /\ UNCHANGED tgt
    /\ Frame /\ UNCHANGED regs

\* drainInitialEvents: an exit ends the session without an error.
watchDrain ==
    /\ At("watch", "drain")
    /\ tgt' = drained(tgt, "app")
    /\ \/ /\ "exit" \in Range(tgt["app"].queue) /\ NoFault
          /\ wk' = [wk EXCEPT !["watch"].exited = {"app"}, !["watch"].pc = "quiesce"]
          /\ UNCHANGED ses
       \/ /\ "exit" \notin Range(tgt["app"].queue) /\ NoFault
          /\ Goto("watch", "arm") /\ UNCHANGED ses
       \/ Fail("watch") /\ Fault
    /\ Frame /\ UNCHANGED regs

\* The slots are probed and the context register is set.
watchArmContext ==
    /\ At("watch", "arm")
    /\ \E g \in probed :
          \/ /\ WriteBatch("watch", g, <<"ctx2">>,
                   wk' = [wk EXCEPT !["watch"].armed = <<"ctx2">>, !["watch"].pc = "armData"])
             /\ UNCHANGED ses
          \/ regs' = g /\ Fail("watch") /\ Fault       \* a probe failed
    /\ Frame /\ UNCHANGED tgt

watchArmData ==
    /\ At("watch", "armData")
    /\ WriteBatch("watch", regs, <<"d1">>,
          wk' = [wk EXCEPT !["watch"].armed = registersOf["watch"], !["watch"].pc = "resume"])
    /\ Frame /\ UNCHANGED <<tgt, ses>>

\* The one resume, and the session is armed.
watchResume ==
    /\ At("watch", "resume")
    /\ \/ /\ continues("app") /\ NoFault
          /\ tgt' = running(tgt, "app")
          /\ wk' = [wk EXCEPT !["watch"].resumed = {"app"}, !["watch"].pc = "loop"]
          /\ ses' = [ses EXCEPT !["watch"].everArmed = TRUE, !["watch"].err = FALSE]
       \/ /\ ~continues("app") /\ NoFault
          /\ Fail("watch") /\ UNCHANGED tgt
       \/ /\ continues("app") /\ Fault
          /\ Fail("watch") /\ UNCHANGED tgt
    /\ Frame /\ UNCHANGED regs

\* A ring records until it is stopped.
watchLimitReached(hits) == ~ses["watch"].ring /\ hits >= ses["watch"].max

\* Mutated form of watchEvent: the hit limit is only looked at by the next round of the loop.
watchEventLate ==
    /\ At("watch", "events")
    /\ LET q == tgt["app"].queue
       IN \/ q = <<>> /\ Goto("watch", "continue") /\ UNCHANGED <<tgt, ses>>
          \/ /\ q # <<>>
             /\ tgt' = [tgt EXCEPT !["app"].queue = Tail(q)]
             /\ \/ /\ Head(q) = "exit"
                   /\ wk' = [wk EXCEPT !["watch"].pending = {"app"}, !["watch"].exited = {"app"},
                                       !["watch"].pc = "quiesce"]
                   /\ UNCHANGED ses
                \/ /\ Head(q) = "hit"
                   /\ ses' = [ses EXCEPT !["watch"].hits = @ + 1]
                   /\ wk' = [wk EXCEPT !["watch"].pending = {"app"}]
    /\ Frame /\ UNCHANGED <<regs, faults>>

\* One event is read: an exit ends the session, a hit outside the pc filter is passed over, a
\* recorded one may be the last.
watchEvent ==
    /\ At("watch", "events")
    /\ LET q == tgt["app"].queue
       IN \/ q = <<>> /\ Goto("watch", "continue") /\ UNCHANGED <<tgt, ses>>
          \/ /\ q # <<>>
             /\ tgt' = [tgt EXCEPT !["app"].queue = Tail(q)]
             /\ \/ /\ Head(q) = "exit"
                   /\ wk' = [wk EXCEPT !["watch"].pending = {"app"}, !["watch"].exited = {"app"},
                                       !["watch"].pc = "quiesce"]
                   /\ UNCHANGED ses
                \/ /\ Head(q) = "hit"                  \* not hitPassesFilter
                   /\ wk' = [wk EXCEPT !["watch"].pending = {"app"}]
                   /\ UNCHANGED ses
                \/ /\ Head(q) = "hit"                  \* recordHit
                   /\ ses' = [ses EXCEPT !["watch"].hits = @ + 1]
                   /\ wk' = [wk EXCEPT !["watch"].pending = {"app"},
                                       !["watch"].pc = IF watchLimitReached(ses["watch"].hits + 1)
                                                       THEN "quiesce" ELSE "events"]
    /\ Frame /\ UNCHANGED <<regs, faults>>

\* The loop around the events.
watchLoop == LoopStop("watch") \/ LoopWait("watch") \/ watchEvent \/ LoopContinue("watch")

watchArmed(r) == IF r \in Range(wk["watch"].armed) THEN <<r>> ELSE <<>>

\* The clean-up: each register has a call of its own, and a failed quiesce counts as a failure.
watchCleanup ==
    \/ Quiesce("watch", TRUE)
    \/ Clear("watch", "clear", watchArmed("ctx2"), "clearData")
    \/ Clear("watch", "clearData", watchArmed("d1"), "close")
    \/ CloseHandles("watch")
    \/ Finish("watch")

watchNext == \/ watchAttach \/ watchDrain \/ watchArmContext \/ watchArmData \/ watchResume
             \/ watchLoop \/ Rollback("watch") \/ watchCleanup \/ ThreadExit("watch")
=============================================================================
