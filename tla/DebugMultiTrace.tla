--------------------------- MODULE DebugMultiTrace ---------------------------
(***************************************************************************)
(* debug_multitrace.c: execution breakpoints in two processes at once.     *)
(* Both are attached, drained and resumed before the registers are probed  *)
(* and armed, so that either may exit or hit while the arming goes on.     *)
(***************************************************************************)
EXTENDS DebugTrace

order == <<"app", "sys">>
nextOf(P) == IF order[1] \notin P THEN order[1] ELSE order[2]

multiDetach ==
    /\ At("multi", "detach")
    /\ \/ tgt' = dmntClosed /\ NoFault
       \/ UNCHANGED tgt /\ Fault
    /\ Goto("multi", "attach")
    /\ Frame /\ UNCHANGED <<regs, ses>>

\* The two handles, one after the other.
multiAttach ==
    /\ At("multi", "attach")
    /\ LET p == nextOf(wk["multi"].attached)
       IN \/ /\ attachable(p) /\ NoFault
             /\ tgt' = attachedBy(tgt, p, "multi")
             /\ wk' = [wk EXCEPT !["multi"].attached = @ \cup {p},
                                 !["multi"].pc = IF p = order[2] THEN "drain" ELSE "attach"]
             /\ UNCHANGED ses
          \/ /\ ~attachable(p) /\ NoFault
             /\ Fail("multi") /\ UNCHANGED tgt
          \/ /\ attachable(p) /\ Fault
             /\ Fail("multi") /\ UNCHANGED tgt
    /\ Frame /\ UNCHANGED regs

\* drainInitialEvents of each; here an exit is an error.  `at' is the process whose turn it is.
multiDrain ==
    /\ At("multi", "drain")
    /\ LET p == wk["multi"].at
       IN /\ tgt' = drained(tgt, p)
          /\ \/ /\ "exit" \in Range(tgt[p].queue) /\ NoFault
                /\ wk' = [wk EXCEPT !["multi"].exited = @ \cup {p}, !["multi"].pc = "quiesce"]
                /\ ses' = [ses EXCEPT !["multi"].err = TRUE]
             \/ /\ "exit" \notin Range(tgt[p].queue) /\ NoFault
                /\ wk' = [wk EXCEPT !["multi"].at = IF p = order[1] THEN order[2] ELSE order[1],
                                    !["multi"].pc = IF p = order[1] THEN "drain" ELSE "resume"]
                /\ UNCHANGED ses
             \/ Fail("multi") /\ Fault
    /\ Frame /\ UNCHANGED regs

multiResume ==
    /\ At("multi", "resume")
    /\ LET p == nextOf(wk["multi"].resumed)
       IN \/ /\ continues(p) /\ NoFault
             /\ tgt' = running(tgt, p)
             /\ wk' = [wk EXCEPT !["multi"].resumed = @ \cup {p},
                                 !["multi"].pc = IF p = order[2] THEN "arm" ELSE "resume"]
             /\ UNCHANGED ses
          \/ /\ ~continues(p) /\ NoFault
             /\ Fail("multi") /\ UNCHANGED tgt
          \/ /\ continues(p) /\ Fault
             /\ Fail("multi") /\ UNCHANGED tgt
    /\ Frame /\ UNCHANGED regs

\* debugHwBpArmDualProcessInstructionTrace, and the session is armed.
multiArm ==
    /\ At("multi", "arm")
    /\ \E g \in probed :
          \/ WriteBatch("multi", g, registersOf["multi"],
                        wk' = [wk EXCEPT !["multi"].armed = registersOf["multi"],
                                         !["multi"].pc = "loop"])
             /\ ses' = IF wk'["multi"].pc = "loop"
                       THEN [ses EXCEPT !["multi"].everArmed = TRUE, !["multi"].err = FALSE] ELSE ses
          \/ regs' = g /\ Fail("multi") /\ Fault
    /\ Frame /\ UNCHANGED tgt

multiEvent ==
    /\ At("multi", "events")
    /\ LET p == wk["multi"].at
           q == tgt[p].queue
       IN \/ q = <<>> /\ Goto("multi", "continue") /\ UNCHANGED <<tgt, ses>>
          \/ /\ q # <<>>
             /\ tgt' = [tgt EXCEPT ![p].queue = Tail(q)]
             /\ \/ /\ Head(q) = "exit"
                   /\ wk' = [wk EXCEPT !["multi"].pending = @ \cup {p}, !["multi"].exited = @ \cup {p},
                                       !["multi"].pc = "quiesce"]
                   /\ ses' = [ses EXCEPT !["multi"].err = TRUE]
                \/ /\ Head(q) = "hit"                  \* recordIgnoredHit
                   /\ wk' = [wk EXCEPT !["multi"].pending = @ \cup {p}]
                   /\ UNCHANGED ses
                \/ /\ Head(q) = "hit"                  \* recordEvent
                   /\ ses' = [ses EXCEPT !["multi"].hits = @ + 1]
                   /\ wk' = [wk EXCEPT !["multi"].pending = @ \cup {p},
                                       !["multi"].pc = IF traceLimitReached("multi", ses["multi"].hits + 1)
                                                       THEN "quiesce" ELSE "step"]
    /\ Frame /\ UNCHANGED <<regs, faults>>

\* The loop around the events.
multiLoop == LoopStop("multi") \/ LoopWait("multi") \/ multiEvent \/ LoopContinue("multi")

multiCleanup ==
    \/ Quiesce("multi", TRUE)
    \/ Clear("multi", "clear", wk["multi"].armed, "close")
    \/ CloseHandles("multi")
    \/ Finish("multi")

multiNext == \/ multiDetach \/ multiAttach \/ multiDrain \/ multiResume \/ multiArm
             \/ multiLoop \/ StepOver("multi") \/ Rollback("multi") \/ multiCleanup \/ ThreadExit("multi")
=============================================================================
