----------------------------- MODULE PatchCode -----------------------------
(***************************************************************************)
(* The commands that hold a debug handle while the main loop waits:        *)
(* `debug patch-code` (patch_code.c), the process inspections              *)
(* `debug threads', `debug maps' and `debug read' (debug_process.c) and    *)
(* `debug hwbp-layout' (debug_hwbp_layout.c).                              *)
(***************************************************************************)
EXTENDS DebugKernel

Jobs    == {"none", "session", "patch", "threads", "maps", "read", "layout"}
MainPcs == {"idle", "reap", "create", "await", "join",
            "open", "attach", "drain", "pause", "inspect", "verify", "write", "readback",
            "resume", "setContext", "clearContext", "close"}
Mains   == [pc : MainPcs, job : Jobs, k : Kinds, p : Procs, held : SUBSET Procs,
            going : SUBSET Procs, armed : Seq(Regs), check : BOOLEAN, skip : BOOLEAN, bad : BOOLEAN]
mainIdle == [pc |-> "idle", job |-> "none", k |-> "watch", p |-> "app", held |-> {}, going |-> {},
             armed |-> <<>>, check |-> FALSE, skip |-> FALSE, bad |-> FALSE]

MainAt(pc)   == main.pc = pc
MainGoto(pc) == main' = [main EXCEPT !.pc = pc]
\* rc is an error, `goto cleanup'.
MainFail(pc) == main' = [main EXCEPT !.pc = pc, !.bad = TRUE]
MainFrame    == UNCHANGED <<ses, wk, mem, dmntSeen>>

nobodyDebugs == \A k \in Kinds : ~ses[k].active

\* patchCodeRun, debugProcessPrintThreads, debugProcessPrintMaps, debugProcessReadMemory and
\* debugHwBpProbeLayout, up to the check that no debug session is active.  What the bytes to be
\* patched are is settled when the patch begins.
BeginJob(job, p, check, skip) ==
    /\ MainAt("idle") /\ nobodyDebugs
    /\ main' = [mainIdle EXCEPT !.pc = "open", !.job = job, !.p = p, !.check = check, !.skip = skip]
    /\ IF job = "patch" THEN \E b \in {"orig", "other"} : code' = [code EXCEPT !.bytes = b]
                        ELSE UNCHANGED code
    /\ MainFrame /\ UNCHANGED kernelVars

\* debugProcessOpen up to the attach: the cheat service is made to let go of the application.
debugProcessOpen ==
    /\ MainAt("open")
    /\ \/ tgt' = (IF main.p = "app" THEN dmntClosed ELSE tgt) /\ NoFault
       \/ UNCHANGED tgt /\ Fault
    /\ MainGoto("attach")
    /\ MainFrame /\ UNCHANGED <<regs, code>>

\* Where a job goes on once its process is attached.
afterAttach == CASE main.job = "maps"   -> "close"
                 [] main.job = "layout" -> IF main.p = "app" THEN "open" ELSE "drain"
                 [] OTHER               -> "drain"

debugProcessAttach ==
    /\ MainAt("attach")
    /\ \/ /\ attachable(main.p) /\ NoFault
          /\ tgt' = attachedBy(tgt, main.p, "main")
          /\ main' = [main EXCEPT !.held = @ \cup {main.p}, !.pc = afterAttach,
                                  !.p = IF main.job = "layout" THEN "sys" ELSE main.p]
       \/ ~attachable(main.p) /\ NoFault /\ MainFail("close") /\ UNCHANGED tgt
       \/ attachable(main.p) /\ Fault /\ MainFail("close") /\ UNCHANGED tgt
    /\ MainFrame /\ UNCHANGED <<regs, code>>

\* debugProcessDrain of every process held: an exit fails.
debugProcessDrain ==
    /\ MainAt("drain")
    /\ tgt' = [p \in Procs |-> IF p \in main.held THEN [tgt[p] EXCEPT !.queue = <<>>] ELSE tgt[p]]
    /\ \/ /\ \E p \in main.held : "exit" \in Range(tgt[p].queue)
          /\ MainFail("close") /\ NoFault
       \/ /\ \A p \in main.held : "exit" \notin Range(tgt[p].queue)
          /\ MainGoto(CASE main.job = "read"   -> "close"
                        [] main.job = "layout" -> "resume"
                        [] OTHER               -> "pause")
          /\ NoFault
       \/ MainFail("close") /\ Fault
    /\ MainFrame /\ UNCHANGED <<regs, code>>

\* debugProcessPause: the break fails on a process that is gone, and an exit among the events fails.
debugProcessPause ==
    /\ MainAt("pause") /\ main.job = "threads"
    /\ \/ /\ tgt[main.p].alive /\ NoFault
          /\ tgt' = quiesced({main.p}, {}, {})
          /\ MainGoto("resume")
       \/ /\ IF tgt[main.p].alive THEN Fault ELSE NoFault
          /\ MainFail("close") /\ UNCHANGED tgt
    /\ MainFrame /\ UNCHANGED <<regs, code>>

\* debugProcessResume, of one process after the other for the layout probe.
debugProcessResume ==
    /\ MainAt("resume")
    /\ LET p == IF main.job = "layout" /\ "app" \notin main.going THEN "app" ELSE main.p
       IN \/ /\ continues(p) /\ NoFault
             /\ tgt' = running(tgt, p)
             /\ main' = [main EXCEPT !.going = @ \cup {p},
                                     !.pc = CASE main.job # "layout" -> "close"
                                              [] p = "app"           -> "resume"
                                              [] OTHER               -> "setContext"]
          \/ /\ IF continues(p) THEN Fault ELSE NoFault
             /\ MainFail("close") /\ UNCHANGED tgt
    /\ MainFrame /\ UNCHANGED <<regs, code>>

\* debugProcessClose of every handle there is.
debugProcessClose ==
    /\ MainAt("close")
    /\ tgt' = closed(main.held)
    /\ main' = mainIdle
    /\ code' = noPatch
    /\ MainFrame /\ UNCHANGED <<regs, faults>>

-----------------------------------------------------------------------------
(* debug_hwbp_layout.c: the two context slots are probed and set, each by a call of its own. *)

contextSlots == <<"ctx1", "ctx2">>

\* debugHwBpProbeLayout, the arming: a failed batch is rolled back where that is possible.
setContexts ==
    /\ MainAt("setContext")
    /\ LET done == Len(main.armed)
           R    == <<contextSlots[done + 1]>>
       IN \E g \in IF done = 0 THEN probed ELSE {regs} :
             \/ /\ regs' = writtenAll(g, R, TRUE) /\ NoFault
                /\ main' = [main EXCEPT !.armed = @ \o R,
                                        !.pc = IF done = 0 THEN "setContext" ELSE "clearContext"]
             \/ /\ regs' \in failedSets({g}, R, TRUE) /\ Fault
                /\ MainFail("clearContext")
    /\ MainFrame /\ UNCHANGED <<tgt, code>>

\* Its clean-up clears what was set, last first.
clearContexts ==
    /\ MainAt("clearContext")
    /\ \/ /\ main.armed = <<>> /\ NoFault
          /\ MainGoto("close") /\ UNCHANGED regs
       \/ /\ main.armed # <<>>
          /\ LET R    == <<main.armed[Len(main.armed)]>>
                 rest == SubSeq(main.armed, 1, Len(main.armed) - 1)
             IN \/ /\ regs' = writtenAll(regs, R, FALSE) /\ NoFault
                   /\ main' = [main EXCEPT !.armed = rest]
                \/ /\ regs' \in failedClears(R) /\ Fault
                   /\ main' = [main EXCEPT !.armed = rest, !.bad = TRUE]
    /\ MainFrame /\ UNCHANGED <<tgt, code>>

-----------------------------------------------------------------------------
(* patch_code.c, once the process is attached and drained.                 *)

\* Mutated form of pauseProcess: the process is let go instead of being stopped.
pauseProcessRunning ==
    /\ MainAt("pause") /\ main.job = "patch"
    /\ tgt' = running(tgt, main.p)
    /\ MainGoto("inspect") /\ NoFault
    /\ MainFrame /\ UNCHANGED <<regs, code>>

pauseProcess ==
    /\ MainAt("pause") /\ main.job = "patch"
    /\ \/ /\ tgt[main.p].alive /\ NoFault
          /\ tgt' = quiesced({main.p}, {}, {})
          /\ MainGoto("inspect")
       \/ /\ IF tgt[main.p].alive THEN Fault ELSE NoFault
          /\ MainFail("close") /\ UNCHANGED tgt
    /\ MainFrame /\ UNCHANGED <<regs, code>>

\* The threads' program counters; a context that cannot be read is passed over.
inspectThreads ==
    /\ MainAt("inspect")
    /\ \/ /\ main.check /\ code.inside = "seen" /\ NoFault     \* PatchCodeBusyPcInRange
          /\ MainFail("resume")
       \/ /\ ~(main.check /\ code.inside = "seen") /\ NoFault
          /\ MainGoto("verify")
       \/ MainFail("resume") /\ Fault
    /\ MainFrame /\ UNCHANGED <<tgt, regs, code>>

verifyBytes ==
    /\ MainAt("verify")
    /\ \/ /\ main.skip \/ code.bytes = "orig"
          /\ MainGoto("write") /\ NoFault
       \/ /\ ~main.skip /\ code.bytes # "orig"                 \* PatchCodeExpectedMismatch
          /\ MainFail("resume") /\ NoFault
       \/ MainFail("resume") /\ Fault
    /\ MainFrame /\ UNCHANGED <<tgt, regs, code>>

writePatch ==
    /\ MainAt("write")
    /\ \/ /\ tgt["app"].alive /\ NoFault
          /\ code' = [code EXCEPT !.bytes = "patched"]
          /\ MainGoto("readback")
       \/ /\ IF tgt["app"].alive THEN Fault ELSE NoFault
          /\ MainFail("resume") /\ UNCHANGED code
    /\ MainFrame /\ UNCHANGED <<tgt, regs>>

readBack ==
    /\ MainAt("readback")
    /\ \/ /\ code.bytes = "patched" /\ NoFault
          /\ MainGoto("resume")
       \/ MainFail("resume") /\ Fault
    /\ MainFrame /\ UNCHANGED <<tgt, regs, code>>

\* Its clean-up reads the events away before the process goes on.
patchResume ==
    /\ MainAt("resume") /\ main.job = "patch"
    /\ \/ tgt' = running(drained(tgt, main.p), main.p) /\ NoFault
       \/ tgt' = drained(tgt, main.p) /\ Fault
    /\ MainGoto("close")
    /\ MainFrame /\ UNCHANGED <<regs, code>>

jobSteps == \/ debugProcessOpen \/ debugProcessAttach \/ debugProcessDrain \/ debugProcessPause
            \/ main.job # "patch" /\ debugProcessResume
            \/ debugProcessClose \/ setContexts \/ clearContexts \/ pauseProcess
            \/ inspectThreads \/ verifyBytes \/ writePatch \/ readBack \/ patchResume
=============================================================================
