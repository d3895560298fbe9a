--------------------------- MODULE ProcessMemory ---------------------------
(***************************************************************************)
(* process_memory.c, process_memory_select.c and dmnt_client.c: a session  *)
(* on the application's memory, opened by a thread other than the main     *)
(* loop's.  backendMutex is held from the check to the close, so one       *)
(* session at a time is all there is; the debug sessions and the commands  *)
(* of the main loop do not take it.                                        *)
(***************************************************************************)
EXTENDS DebugKernel

Policies == {"auto", "dmnt", "direct"}
MemPcs   == {"idle", "dmnt", "force", "direct", "open"}
Memory   == [pc : MemPcs, policy : Policies, backend : {"none", "dmnt", "direct"}]

memIdle == [pc |-> "idle", policy |-> "auto", backend |-> "none"]

MemFrame == UNCHANGED <<regs, ses, wk, main>>

\* openLocked: no session while a watch, a trace or a multitrace is active, and none without an
\* application.  Then the policy chooses (processMemorySelectBackend).
openLocked(policy) ==
    /\ mem.pc = "idle"
    /\ \A k \in Kinds : ~ses[k].active
    /\ tgt["app"].alive
    /\ mem' = [mem EXCEPT !.policy = policy, !.pc = IF policy = "direct" THEN "direct" ELSE "dmnt"]
    /\ MemFrame /\ UNCHANGED <<tgt, dmntSeen, code, faults>>

\* What processMemorySelectBackend does with an openDmnt that failed.
afterDmnt(acquired) == IF mem.policy = "dmnt" \/ acquired THEN memIdle
                       ELSE [mem EXCEPT !.pc = "direct"]
opened(b) == [mem EXCEPT !.pc = "open", !.backend = b]

\* openDmnt up to dmntClientHasProcess.  When even that fails, the last observation counts.
openDmnt ==
    /\ mem.pc = "dmnt"
    /\ \/ /\ tgt["app"].owner = "dmnt" /\ NoFault
          /\ dmntSeen' = TRUE
          /\ mem' = opened("dmnt")
       \/ /\ tgt["app"].owner = "dmnt" /\ Fault        \* dmntClientGetMetadata
          /\ dmntSeen' = TRUE
          /\ mem' = afterDmnt(TRUE)
       \/ /\ tgt["app"].owner # "dmnt" /\ NoFault
          /\ dmntSeen' = FALSE
          /\ mem' = [mem EXCEPT !.pc = "force"]
       \/ /\ Fault
          /\ UNCHANGED dmntSeen
          /\ mem' = afterDmnt(dmntSeen)
    /\ MemFrame /\ UNCHANGED <<tgt, code>>

\* dmntClientForceOpen and the metadata behind it.
forceOpen ==
    /\ mem.pc = "force"
    /\ \/ /\ attachable("app") /\ NoFault
          /\ tgt' = [tgt EXCEPT !["app"].owner = "dmnt"]
          /\ dmntSeen' = TRUE
          /\ mem' = opened("dmnt")
       \/ /\ attachable("app") /\ Fault                \* dmntClientGetMetadata, or another process
          /\ tgt' = [tgt EXCEPT !["app"].owner = "dmnt"]
          /\ dmntSeen' = TRUE
          /\ mem' = afterDmnt(TRUE)
       \/ /\ ~attachable("app") /\ NoFault
          /\ mem' = afterDmnt(FALSE)
          /\ UNCHANGED <<tgt, dmntSeen>>
    /\ MemFrame /\ UNCHANGED code

\* openDirect; attaching may fail.  Without the metadata the handle is closed again, which is a
\* processMemoryClose at once.
openDirect ==
    /\ mem.pc = "direct"
    /\ \/ /\ attachable("app") /\ NoFault
          /\ tgt' = attachedBy(tgt, "app", "mem")
          /\ mem' = opened("direct")
       \/ /\ attachable("app") /\ Fault
          /\ mem' = memIdle /\ UNCHANGED tgt
       \/ /\ ~attachable("app") /\ NoFault
          /\ mem' = memIdle /\ UNCHANGED tgt
    /\ MemFrame /\ UNCHANGED <<dmntSeen, code>>

\* processMemoryWrite to the patched bytes, while the session's handle is still good.
processMemoryWrite ==
    /\ mem.pc = "open" /\ main.job = "patch"
    /\ tgt["app"].owner = IF mem.backend = "dmnt" THEN "dmnt" ELSE "mem"
    /\ code' = [code EXCEPT !.bytes = "other"]
    /\ MemFrame /\ UNCHANGED <<tgt, mem, dmntSeen, faults>>

processMemoryClose ==
    /\ mem.pc = "open"
    /\ tgt' = IF mem.backend = "direct" THEN closed({"app"}) ELSE tgt
    /\ mem' = memIdle
    /\ MemFrame /\ UNCHANGED <<dmntSeen, code, faults>>

memSteps == openDmnt \/ forceOpen \/ openDirect \/ processMemoryClose
=============================================================================
