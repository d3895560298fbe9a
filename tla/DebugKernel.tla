---------------------------- MODULE DebugKernel ----------------------------
(***************************************************************************)
(* What the debug components share: the kernel's debug interface as they   *)
(* use it (one debug handle per process, an event queue per handle, the    *)
(* hardware breakpoint registers of every core), the state each of the     *)
(* three session managers keeps (debug_watch.c, debug_trace.c and          *)
(* debug_multitrace.c), the locals of their worker threads, and the steps  *)
(* the three files spell out in the same way.                              *)
(*                                                                         *)
(* A call that the system may refuse for no reason of the model's uses up  *)
(* one of MaxFaults.  Addresses, captured registers, snapshots, stages and *)
(* hints are left out.                                                     *)
(***************************************************************************)
EXTENDS Naturals, Sequences, Functions, FiniteSets

CONSTANTS MaxFaults,   \* how many calls may fail without a cause in the model
          MaxHits      \* how many breakpoint hits a session sees, recorded or not
ASSUME KernelAssumption == MaxFaults \in Nat /\ MaxHits \in Nat \ {0}

VARIABLES
    tgt,      \* the processes, as the kernel sees them
    regs,     \* the breakpoint registers in use on each core
    ses,      \* watchState, traceState and multiState
    wk,       \* the locals of the three worker threads
    main,     \* the main loop's thread, while it handles a debug command
    mem,      \* a thread that opens process memory (freeze or search worker)
    dmntSeen, \* dmntOwnershipObserved
    code,     \* what `debug patch-code` is about: some bytes of the application, and whether a
              \* thread is inside them (one whose context can be read, or a hidden one)
    faults

kernelVars == <<tgt, regs, faults>>

Kinds == {"watch", "trace", "multi"}
Procs == {"app", "sys"}
Cores == 0 .. 1

\* The registers a session programs, in the order it programs them: a watch takes the second
\* context slot and a data register, a trace the first context slot and an instruction slot, a
\* multitrace both context slots and one instruction slot per process.
registersOf == [watch |-> <<"ctx2", "d1">>, trace |-> <<"ctx1", "i1">>,
                multi |-> <<"ctx1", "ctx2", "i1", "i2">>]
Regs        == {"ctx1", "ctx2", "i1", "i2", "d1"}
triggerOf(k, p) == IF k = "watch" THEN "d1" ELSE IF k = "multi" /\ p = "sys" THEN "i2" ELSE "i1"

Targets  == [Procs -> [alive : BOOLEAN, owner : {"none", "dmnt", "mem", "main"} \cup Kinds,
                       stopped : BOOLEAN, step : BOOLEAN,
                       queue : Seq({"attach", "hit", "step", "exit"})]]
Sessions == [Kinds -> [threadStarted : BOOLEAN, active : BOOLEAN, everArmed : BOOLEAN,
                       stop : BOOLEAN, err : BOOLEAN, hits : 0 .. MaxHits, seen : 0 .. MaxHits,
                       max : 0 .. MaxHits, ring : BOOLEAN, targets : SUBSET Procs]]
WorkerPcs == {"off", "detach", "attach", "drain", "arm", "armData", "rollback", "resume", "loop",
              "events", "continue", "step", "stepWait", "rearm", "quiesce", "clear",
              "clearData", "close", "finish", "exit"}
Workers  == [Kinds -> [pc : WorkerPcs, attached : SUBSET Procs, resumed : SUBSET Procs,
                       exited : SUBSET Procs, pending : SUBSET Procs, armed : Seq(Regs),
                       batch : Seq(Regs), reached : Cores, at : Procs, stepBad : BOOLEAN,
                       bad : BOOLEAN]]

Codes    == [bytes : {"orig", "other", "patched"}, inside : {"none", "seen", "hidden"}]

noPatch   == [bytes |-> "orig", inside |-> "none"]
noSession == [threadStarted |-> FALSE, active |-> FALSE, everArmed |-> FALSE, stop |-> FALSE,
              err |-> FALSE, hits |-> 0, seen |-> 0, max |-> 1, ring |-> FALSE, targets |-> {}]
noWorker  == [pc |-> "off", attached |-> {}, resumed |-> {}, exited |-> {}, pending |-> {},
              armed |-> <<>>, batch |-> <<>>, reached |-> 0, at |-> "app", stepBad |-> FALSE,
              bad |-> FALSE]

KernelInit ==
    /\ tgt = [p \in Procs |-> [alive |-> TRUE, owner |-> "none", stopped |-> FALSE,
                               step |-> FALSE, queue |-> <<>>]]
    /\ regs = [c \in Cores |-> {}]
    /\ ses = [k \in Kinds |-> noSession]
    /\ wk = [k \in Kinds |-> noWorker]
    /\ code = noPatch
    /\ faults = MaxFaults

Fault   == faults > 0 /\ faults' = faults - 1
NoFault == UNCHANGED faults

-----------------------------------------------------------------------------
(* The kernel.                                                             *)

attachable(p) == tgt[p].alive /\ tgt[p].owner = "none"

\* svcDebugActiveProcess: the process stops, and the attach events are queued.
attachedBy(t, p, o) == [t EXCEPT ![p].owner = o, ![p].stopped = TRUE, ![p].queue = <<"attach">>]

\* svcCloseHandle on a debug handle: the process runs on.
closed(P) == [p \in Procs |-> IF p \in P
                              THEN [tgt[p] EXCEPT !.owner = "none", !.stopped = FALSE,
                                                  !.step = FALSE, !.queue = <<>>]
                              ELSE tgt[p]]

drained(t, p) == [t EXCEPT ![p].queue = <<>>]

\* svcContinueDebugEvent succeeds only on an empty event queue.
continues(p) == tgt[p].queue = <<>>
running(t, p) == [t EXCEPT ![p].stopped = FALSE, ![p].step = FALSE]

\* One or two threads run into the breakpoint before the process is stopped.
Hit(p) ==
    /\ LET k == tgt[p].owner
       IN /\ k \in Kinds
          /\ tgt[p].alive /\ ~tgt[p].stopped /\ ~tgt[p].step
          /\ \E c \in Cores : triggerOf(k, p) \in regs[c]
          /\ \E n \in 1 .. 2 :
                /\ ses[k].seen + n <= MaxHits
                /\ ses' = [ses EXCEPT ![k].seen = @ + n]
                /\ tgt' = [tgt EXCEPT ![p].stopped = TRUE,
                                      ![p].queue = tgt[p].queue \o [i \in 1 .. n |-> "hit"]]
    /\ UNCHANGED <<regs, wk, main, mem, dmntSeen, code, faults>>

\* The single step of a thread is done.
StepDone(p) ==
    /\ tgt[p].step /\ tgt[p].alive
    /\ tgt' = [tgt EXCEPT ![p].step = FALSE, ![p].stopped = TRUE,
                          ![p].queue = Append(tgt[p].queue, "step")]
    /\ UNCHANGED <<regs, ses, wk, main, mem, dmntSeen, code, faults>>

\* The process ends, for good, while something goes on that may concern it; whoever debugs it is
\* told.
Exit(p) ==
    /\ tgt[p].alive
    /\ tgt[p].owner # "none" \/ main.pc # "idle" \/ mem.pc # "idle"
    /\ tgt' = [tgt EXCEPT ![p].alive = FALSE, ![p].step = FALSE,
                          ![p].queue = IF tgt[p].owner \in {"none", "dmnt"} THEN <<>>
                                       ELSE Append(tgt[p].queue, "exit"),
                          ![p].owner = IF tgt[p].owner = "dmnt" THEN "none" ELSE tgt[p].owner]
    /\ UNCHANGED <<regs, ses, wk, main, mem, dmntSeen, code, faults>>

\* The application's threads move while it runs.
Wander ==
    /\ main.job = "patch" /\ tgt["app"].alive /\ ~tgt["app"].stopped
    /\ \E i \in {"none", "seen", "hidden"} : code' = [code EXCEPT !.inside = i]
    /\ UNCHANGED <<tgt, regs, ses, wk, main, mem, dmntSeen, faults>>

\* The cheat service attaches to the application on its own account.
DmntAttach ==
    /\ attachable("app")
    /\ tgt' = [tgt EXCEPT !["app"].owner = "dmnt"]
    /\ UNCHANGED <<regs, ses, wk, main, mem, dmntSeen, code, faults>>

-----------------------------------------------------------------------------
(* debug_hwbp.c.                                                           *)

\* setRegistersOnAllCores up to core r, where the first i registers of the batch are written.
written(g, R, on, r, i) ==
    [c \in Cores |-> LET S == IF c < r THEN Range(R) ELSE IF c = r THEN {R[j] : j \in 1 .. i} ELSE {}
                     IN IF on THEN g[c] \cup S ELSE g[c] \ S]
writtenAll(g, R, on) == written(g, R, on, Cardinality(Cores), 0)

\* Its rollback writes zero to the whole batch on the cores it reached and can pin itself to again.
rolledBack(g, R, S) == [c \in Cores |-> IF c \in S THEN g[c] \ Range(R) ELSE g[c]]

failedSets(G, R, on) ==
    UNION { { rolledBack(written(g, R, on, r, i), R, S \cap (0 .. r)) :
                 r \in Cores, i \in 0 .. Len(R) - 1, S \in SUBSET Cores } : g \in G }

\* debugHwBpClearAllCores and debugHwBpClearRegistersAllCores: given up after three attempts.
failedClears(R) == failedSets(failedSets(failedSets({regs}, R, FALSE), R, FALSE), R, FALSE)

\* The probes for free slots write zero to every register, on the core they happen to run on.
probed == { [regs EXCEPT ![c] = {}] : c \in Cores }

\* debugHwBpQuiesce: without a pending exception the process is broken into and its events are
\* read, otherwise the events are just read.  The break of the processes in F fails.
quiesced(P, pending, F) ==
    [p \in Procs |-> IF p \in P \ F
                     THEN [tgt[p] EXCEPT !.queue = <<>>, !.step = FALSE,
                                         !.stopped = p \notin pending \/ tgt[p].stopped]
                     ELSE tgt[p]]

-----------------------------------------------------------------------------
(* Steps the three workers have in common.                                 *)

At(k, pc)   == wk[k].pc = pc
Goto(k, pc) == wk' = [wk EXCEPT ![k].pc = pc]

\* setError and `goto cleanup'.
Fail(k) == /\ ses' = [ses EXCEPT ![k].err = TRUE]
           /\ Goto(k, "quiesce")

Frame == UNCHANGED <<main, mem, dmntSeen, code>>

\* dmntClientForceClose, if the cheat service holds the application.
dmntClosed == [tgt EXCEPT !["app"].owner = IF @ = "dmnt" THEN "none" ELSE @]

\* stopRequested at the top of the loop.
LoopStop(k) ==
    /\ At(k, "loop") /\ ses[k].stop
    /\ Goto(k, "quiesce")
    /\ Frame /\ UNCHANGED <<kernelVars, ses>>

\* durationExpired.
Expire(k) ==
    /\ At(k, "loop") /\ ~ses[k].stop
    /\ Goto(k, "quiesce")
    /\ Frame /\ UNCHANGED <<kernelVars, ses>>

\* svcWaitSynchronization: the first handle that is signalled, or the wait fails.
LoopWait(k) ==
    /\ At(k, "loop") /\ ~ses[k].stop
    /\ \/ /\ \E p \in wk[k].attached :
                /\ tgt[p].queue # <<>>
                /\ p = "sys" => "app" \notin wk[k].attached \/ tgt["app"].queue = <<>>
                /\ wk' = [wk EXCEPT ![k].at = p, ![k].pc = "events"]
          /\ UNCHANGED ses /\ NoFault
       \/ Fail(k) /\ Fault
    /\ Frame /\ UNCHANGED <<tgt, regs>>

\* The queue has been read until it was empty; the process goes on.
LoopContinue(k) ==
    /\ At(k, "continue")
    /\ LET p == wk[k].at
       IN \/ /\ continues(p) /\ NoFault
             /\ tgt' = running(tgt, p)
             /\ wk' = [wk EXCEPT ![k].pending = @ \ {p}, ![k].pc = "loop"]
             /\ UNCHANGED ses
          \/ /\ ~continues(p) /\ NoFault
             /\ Fail(k) /\ UNCHANGED tgt
          \/ /\ continues(p) /\ Fault
             /\ Fail(k) /\ UNCHANGED tgt
    /\ Frame /\ UNCHANGED regs

\* The processes a failing quiesce leaves as they are: those that are gone, and those the fault hits.
breakFailures(k) ==
    LET P == wk[k].attached \ wk[k].exited
        B == {p \in P : p \in wk[k].resumed \ wk[k].pending}
        D == {p \in B : ~tgt[p].alive}
    IN [always |-> D, maybe |-> B \ D, asked |-> P]

Quiesce(k, counts) ==
    /\ At(k, "quiesce")
    /\ LET b == breakFailures(k)
       IN \E F \in SUBSET b.maybe :
             /\ IF F = {} THEN NoFault ELSE Fault
             /\ tgt' = quiesced(b.asked, wk[k].pending \cup (Procs \ wk[k].resumed), b.always \cup F)
             /\ wk' = [wk EXCEPT ![k].pc = "clear",
                                 ![k].bad = @ \/ (counts /\ b.always \cup F # {})]
    /\ Frame /\ UNCHANGED <<regs, ses>>

\* One clean-up call that clears the registers R, if they were armed, and goes on to pc.
Clear(k, pc, R, next) ==
    /\ At(k, pc)
    /\ \/ /\ R = <<>> /\ NoFault
          /\ Goto(k, next) /\ UNCHANGED regs
       \/ /\ R # <<>> /\ NoFault
          /\ regs' = writtenAll(regs, R, FALSE)
          /\ Goto(k, next)
       \/ /\ R # <<>> /\ Fault
          /\ regs' \in failedClears(R)
          /\ wk' = [wk EXCEPT ![k].pc = next, ![k].bad = TRUE]
    /\ Frame /\ UNCHANGED <<tgt, ses>>

\* The rollback of a batch that could not be written on every core.
Rollback(k) ==
    /\ At(k, "rollback")
    /\ \E S \in SUBSET (0 .. wk[k].reached) : regs' = rolledBack(regs, wk[k].batch, S)
    /\ Fail(k)
    /\ Frame /\ UNCHANGED <<tgt, faults>>

\* A batch is written on all cores, or the writing stops at some core and register.
WriteBatch(k, g, R, next) ==
    \/ /\ regs' = writtenAll(g, R, TRUE)
       /\ next /\ NoFault
    \/ /\ \E r \in Cores, i \in 0 .. Len(R) - 1 :
             /\ regs' = written(g, R, TRUE, r, i)
             /\ wk' = [wk EXCEPT ![k].batch = R, ![k].reached = r, ![k].pc = "rollback"]
       /\ Fault

\* Mutated form of CloseHandles: a process that has exited is forgotten.
CloseHandlesAlive(k) ==
    /\ At(k, "close")
    /\ tgt' = closed(wk[k].attached \ wk[k].exited)
    /\ Goto(k, "finish")
    /\ Frame /\ UNCHANGED <<regs, ses, faults>>

\* Mutated form of CloseHandles: a process that was never resumed is forgotten.
CloseHandlesResumed(k) ==
    /\ At(k, "close")
    /\ tgt' = closed(wk[k].resumed)
    /\ Goto(k, "finish")
    /\ Frame /\ UNCHANGED <<regs, ses, faults>>

CloseHandles(k) ==
    /\ At(k, "close")
    /\ tgt' = closed(wk[k].attached)
    /\ Goto(k, "finish")
    /\ Frame /\ UNCHANGED <<regs, ses, faults>>

\* Mutated form of Finish: what went wrong in the clean-up is not reported.
FinishSilent(k) ==
    /\ At(k, "finish")
    /\ ses' = [ses EXCEPT ![k].active = FALSE, ![k].stop = FALSE,
                          ![k].hits = 0, ![k].seen = 0, ![k].max = 1, ![k].ring = FALSE,
                          ![k].targets = {}]
    /\ Goto(k, "exit")
    /\ Frame /\ UNCHANGED kernelVars

\* The last locked section of a worker.  Hits and arguments stay readable in the code; nothing
\* depends on them any more.
Finish(k) ==
    /\ At(k, "finish")
    /\ ses' = [ses EXCEPT ![k].active = FALSE, ![k].stop = FALSE, ![k].err = @ \/ wk[k].bad,
                          ![k].hits = 0, ![k].seen = 0, ![k].max = 1, ![k].ring = FALSE, ![k].targets = {}]
    /\ Goto(k, "exit")
    /\ Frame /\ UNCHANGED kernelVars

ThreadExit(k) ==
    /\ At(k, "exit")
    /\ wk' = [wk EXCEPT ![k] = noWorker]
    /\ Frame /\ UNCHANGED <<kernelVars, ses>>
=============================================================================
