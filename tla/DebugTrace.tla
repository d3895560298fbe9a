----------------------------- MODULE DebugTrace -----------------------------
(***************************************************************************)
(* debug_trace.c: execution breakpoints in one process.  The breakpoint    *)
(* that was hit is stepped over: it is cleared on every core, the thread   *)
(* runs one instruction, and it is set again (debugHwBpStepOverInstruction,*)
(* which the multitrace uses as well).                                     *)
(***************************************************************************)
EXTENDS DebugKernel

traced == CHOOSE p \in Procs : p \in ses["trace"].targets

\* detachDmntForApplication: only for the application, and only if it is attached.
traceDetach ==
    /\ At("trace", "detach")
    /\ \/ tgt' = (IF traced = "app" THEN dmntClosed ELSE tgt) /\ NoFault
       \/ UNCHANGED tgt /\ Fault
    /\ Goto("trace", "attach")
    /\ Frame /\ UNCHANGED <<regs, ses>>

traceAttach ==
    /\ At("trace", "attach")
    /\ \/ /\ attachable(traced) /\ NoFault
          /\ tgt' = attachedBy(tgt, traced, "trace")
          /\ wk' = [wk EXCEPT !["trace"].attached = {traced}, !["trace"].at = traced,
                              !["trace"].pc = "drain"]
          /\ UNCHANGED ses
       \/ /\ ~attachable(traced) /\ NoFault
          /\ Fail("trace") /\ UNCHANGED tgt
       \/ /\ attachable(traced) /\ Fault
          /\ Fail("trace") /\ UNCHANGED tgt
    /\ Frame /\ UNCHANGED regs

traceDrain ==
    /\ At("trace", "drain")
    /\ tgt' = drained(tgt, traced)
    /\ \/ /\ "exit" \in Range(tgt[traced].queue) /\ NoFault
          /\ wk' = [wk EXCEPT !["trace"].exited = {traced}, !["trace"].pc = "quiesce"]
          /\ UNCHANGED ses
       \/ /\ "exit" \notin Range(tgt[traced].queue) /\ NoFault
          /\ Goto("trace", "arm") /\ UNCHANGED ses
       \/ Fail("trace") /\ Fault
    /\ Frame /\ UNCHANGED regs

\* debugHwBpArmInstructionTrace: both registers in one batch.
traceArm ==
    /\ At("trace", "arm")
    /\ \E g \in probed :
          \/ /\ WriteBatch("trace", g, registersOf["trace"],
                   wk' = [wk EXCEPT !["trace"].armed = registersOf["trace"],
                                    !["trace"].pc = "resume"])
             /\ UNCHANGED ses
          \/ regs' = g /\ Fail("trace") /\ Fault       \* a probe failed, or too few slots
    /\ Frame /\ UNCHANGED tgt

traceResume ==
    /\ At("trace", "resume")
    /\ \/ /\ continues(traced) /\ NoFault
          /\ tgt' = running(tgt, traced)
          /\ wk' = [wk EXCEPT !["trace"].resumed = {traced}, !["trace"].pc = "loop"]
          /\ ses' = [ses EXCEPT !["trace"].everArmed = TRUE, !["trace"].err = FALSE]
       \/ /\ ~continues(traced) /\ NoFault
          /\ Fail("trace") /\ UNCHANGED tgt
       \/ /\ continues(traced) /\ Fault
          /\ Fail("trace") /\ UNCHANGED tgt
    /\ Frame /\ UNCHANGED regs

\* debugTraceHitLimitReached: no limit is written as 0.
traceLimitReached(k, hits) == ses[k].max # 0 /\ hits >= ses[k].max

traceEvent ==
    /\ At("trace", "events")
    /\ LET q == tgt[traced].queue
       IN \/ q = <<>> /\ Goto("trace", "continue") /\ UNCHANGED <<tgt, ses>>
          \/ /\ q # <<>>
             /\ tgt' = [tgt EXCEPT ![traced].queue = Tail(q)]
             /\ \/ /\ Head(q) = "exit"
                   /\ wk' = [wk EXCEPT !["trace"].pending = {traced}, !["trace"].exited = {traced},
                                       !["trace"].pc = "quiesce"]
                   /\ UNCHANGED ses
                \/ /\ Head(q) = "hit"                  \* recordIgnoredHit
                   /\ wk' = [wk EXCEPT !["trace"].pending = {traced}]
                   /\ UNCHANGED ses
                \/ /\ Head(q) = "hit"                  \* recordEvent
                   /\ ses' = [ses EXCEPT !["trace"].hits = @ + 1]
                   /\ wk' = [wk EXCEPT !["trace"].pending = {traced},
                                       !["trace"].pc = IF traceLimitReached("trace", ses["trace"].hits + 1)
                                                       THEN "quiesce" ELSE "step"]
    /\ Frame /\ UNCHANGED <<regs, faults>>

\* The loop around the events.
traceLoop == LoopStop("trace") \/ LoopWait("trace") \/ traceEvent \/ LoopContinue("trace")

\* The result of the quiesce is not looked at.
traceCleanup ==
    \/ Quiesce("trace", FALSE)
    \/ Clear("trace", "clear", wk["trace"].armed, "close")
    \/ CloseHandles("trace")
    \/ Finish("trace")

-----------------------------------------------------------------------------
(* debugHwBpStepOverInstruction, for a trace or a multitrace.              *)

\* The breakpoint is cleared, and the one thread is told to run a single step.  The kernel refuses
\* while another event is queued.
StepBegin(k) ==
    /\ At(k, "step")
    /\ LET p == wk[k].at
           R == <<triggerOf(k, p)>>
       IN \/ /\ regs' \in failedClears(R)
             /\ Fail(k) /\ Fault /\ UNCHANGED tgt
          \/ /\ regs' = writtenAll(regs, R, FALSE)
             /\ \/ /\ continues(p) /\ NoFault
                   /\ tgt' = [tgt EXCEPT ![p].stopped = FALSE, ![p].step = TRUE]
                   /\ wk' = [wk EXCEPT ![k].stepBad = FALSE, ![k].pc = "stepWait"]
                \/ /\ IF continues(p) THEN Fault ELSE NoFault
                   /\ wk' = [wk EXCEPT ![k].stepBad = TRUE, ![k].pc = "rearm"]
                   /\ UNCHANGED tgt
             /\ UNCHANGED ses
    /\ Frame

\* Events are read up to the step's own; the exit of the process, or five seconds without the
\* event, fail the step.
StepWait(k) ==
    /\ At(k, "stepWait")
    /\ LET p == wk[k].at
           q == tgt[p].queue
       IN \/ /\ q # <<>> /\ NoFault
             /\ tgt' = [tgt EXCEPT ![p].queue = Tail(q)]
             /\ wk' = [wk EXCEPT ![k].stepBad = Head(q) = "exit",
                                 ![k].pc = IF Head(q) \in {"step", "exit"} THEN "rearm" ELSE "stepWait"]
          \/ /\ q = <<>>
             /\ \/ tgt[p].alive /\ tgt' = quiesced({p}, {}, {}) /\ NoFault
                \/ UNCHANGED tgt /\ Fault
             /\ wk' = [wk EXCEPT ![k].stepBad = TRUE, ![k].pc = "rearm"]
    /\ Frame /\ UNCHANGED <<regs, ses>>

\* The breakpoint is set again, also after a failed step.
Rearm(k) ==
    /\ At(k, "rearm")
    /\ \/ /\ WriteBatch(k, regs, <<triggerOf(k, wk[k].at)>>,
                wk' = [wk EXCEPT ![k].pc = IF wk[k].stepBad THEN "quiesce" ELSE "events"])
          /\ ses' = IF wk[k].stepBad THEN [ses EXCEPT ![k].err = TRUE] ELSE ses
    /\ Frame /\ UNCHANGED tgt

StepOver(k) == StepBegin(k) \/ StepWait(k) \/ Rearm(k)

traceNext == \/ traceDetach \/ traceAttach \/ traceDrain \/ traceArm \/ traceResume
             \/ traceLoop \/ StepOver("trace") \/ Rollback("trace") \/ traceCleanup \/ ThreadExit("trace")
=============================================================================
