---------------------------- MODULE DebugSession ----------------------------
(***************************************************************************)
(* The debug sessions together: the commands of the main loop that start   *)
(* and stop a watch, a trace or a multitrace and wait for them, the three  *)
(* worker threads, the commands that hold a handle themselves, a thread    *)
(* that opens process memory, the cheat service and the processes.         *)
(***************************************************************************)
EXTENDS DebugWatch, DebugMultiTrace, ProcessMemory, PatchCode

CONSTANT MaxRequests   \* how many commands, memory sessions and cheat-service attaches there are
ASSUME SessionAssumption == MaxRequests \in Nat

VARIABLE requests      \* how many of them are left

vars == <<tgt, regs, ses, wk, main, mem, dmntSeen, code, faults, requests>>

CommandFrame == UNCHANGED <<mem, dmntSeen, code>>

\* `debug watch' first makes the cheat service let go of whatever it holds.
closesDmnt(k) == IF k = "watch" THEN dmntClosed ELSE tgt

\* What a command's arguments may come to: one hit, or a ring, which for a trace or a multitrace
\* comes without a limit (0) and for a watch counts as limit 1.
request(n, ring, T) == [max |-> n, ring |-> ring, targets |-> T]
watchArguments == { request(1, ring, {"app"}) : ring \in BOOLEAN }
traceArguments == UNION { { request(IF ring THEN 0 ELSE 1, ring, {p}) : ring \in BOOLEAN } :
                           p \in Procs }
multiArguments == { request(IF ring THEN 0 ELSE 1, ring, Procs) : ring \in BOOLEAN }
Arguments(k)   == CASE k = "watch" -> watchArguments
                    [] k = "trace" -> traceArguments
                    [] k = "multi" -> multiArguments

\* Mutated form of StartSession: only the own session counts.
StartSessionAlone(k) ==
    /\ MainAt("idle")
    /\ tgt' = closesDmnt(k)
    /\ ~ses[k].active
    /\ main' = [main EXCEPT !.job = "session", !.k = k,
                            !.pc = IF ses[k].threadStarted THEN "reap" ELSE "create"]
    /\ CommandFrame /\ UNCHANGED <<regs, ses, wk, faults>>

\* The start functions up to the thread: refused while another kind is active, or while the own kind
\* is (of which a watch and a trace record no error); the thread of a finished session is waited for
\* first.
StartSession(k) ==
    /\ MainAt("idle")
    /\ tgt' = closesDmnt(k)
    /\ \/ /\ (\E other \in Kinds \ {k} : ses[other].active) \/ (k = "multi" /\ ses[k].active)
          /\ ses' = [ses EXCEPT ![k].err = TRUE]
          /\ UNCHANGED main
       \/ /\ k # "multi" /\ ses[k].active /\ \A other \in Kinds \ {k} : ~ses[other].active
          /\ UNCHANGED <<ses, main>>
       \/ /\ \A other \in Kinds : ~ses[other].active
          /\ main' = [main EXCEPT !.job = "session", !.k = k,
                                  !.pc = IF ses[k].threadStarted THEN "reap" ELSE "create"]
          /\ UNCHANGED ses
    /\ CommandFrame /\ UNCHANGED <<regs, wk, faults>>

\* threadWaitForExit on the thread of the session before.
ReapThread ==
    /\ MainAt("reap") /\ At(main.k, "off")
    /\ ses' = [ses EXCEPT ![main.k].threadStarted = FALSE]
    /\ MainGoto("create")
    /\ CommandFrame /\ UNCHANGED <<kernelVars, wk>>

\* Mutated form of CreateThread: an old wish to stop stays.
CreateThreadStale ==
    /\ MainAt("create")
    /\ LET k == main.k
       IN \E a \in Arguments(k) :
             /\ ses' = [ses EXCEPT ![k] = [noSession EXCEPT !.threadStarted = TRUE, !.active = TRUE,
                                           !.max = a.max, !.ring = a.ring, !.targets = a.targets,
                                           !.stop = ses[k].stop]]
             /\ wk' = [wk EXCEPT ![k] = [noWorker EXCEPT !.pc = IF k = "watch" THEN "attach" ELSE "detach"]]
             /\ MainGoto("await") /\ NoFault
    /\ CommandFrame /\ UNCHANGED <<tgt, regs>>

\* The fields are reset and the thread is started; the arguments may be refused, and the thread may
\* not start.
CreateThread ==
    /\ MainAt("create")
    /\ LET k == main.k
       IN \/ \E a \in Arguments(k) :
                /\ ses' = [ses EXCEPT ![k] = [noSession EXCEPT !.threadStarted = TRUE, !.active = TRUE,
                                              !.max = a.max, !.ring = a.ring, !.targets = a.targets]]
                /\ wk' = [wk EXCEPT ![k] = [noWorker EXCEPT !.pc = IF k = "watch" THEN "attach" ELSE "detach"]]
                /\ MainGoto("await") /\ NoFault
          \/ /\ \/ k # "multi" /\ NoFault            \* invalid arguments
                \/ Fault                             \* threadCreate or threadStart
             /\ ses' = [ses EXCEPT ![k].err = TRUE]
             /\ main' = mainIdle /\ UNCHANGED wk
    /\ CommandFrame /\ UNCHANGED <<tgt, regs>>

\* Mutated form of AwaitArmed: the command waits for nothing but the arming.
AwaitArmedOnly ==
    /\ MainAt("await") /\ ses[main.k].everArmed
    /\ main' = mainIdle
    /\ CommandFrame /\ UNCHANGED <<kernelVars, ses, wk>>

\* The command waits up to twelve seconds for the session to be armed, and stops it otherwise.
AwaitArmed ==
    /\ MainAt("await")
    /\ LET s == ses[main.k]
       IN \/ /\ s.everArmed \/ (main.k # "multi" /\ ~s.active /\ s.err)
             /\ main' = mainIdle /\ UNCHANGED ses
          \/ /\ ~s.everArmed /\ ~(main.k # "multi" /\ ~s.active /\ s.err)
             /\ ses' = [ses EXCEPT ![main.k].stop = TRUE]
             /\ MainGoto("join")
    /\ CommandFrame /\ UNCHANGED <<kernelVars, wk>>

\* The stop functions: the wish is set even when nothing runs.
StopSession(k) ==
    /\ MainAt("idle")
    /\ ses' = [ses EXCEPT ![k].stop = TRUE]
    /\ main' = IF ses[k].active \/ ses[k].threadStarted
               THEN [main EXCEPT !.job = "session", !.k = k, !.pc = "join"] ELSE main
    /\ CommandFrame /\ UNCHANGED <<kernelVars, wk>>

JoinThread ==
    /\ MainAt("join") /\ At(main.k, "off")
    /\ ses' = [ses EXCEPT ![main.k].threadStarted = FALSE, ![main.k].active = FALSE,
                          ![main.k].stop = FALSE]
    /\ main' = mainIdle
    /\ CommandFrame /\ UNCHANGED <<kernelVars, wk>>

\* `debug force-close'.
ForceClose ==
    /\ MainAt("idle")
    /\ tgt["app"].owner = "dmnt" /\ tgt' = dmntClosed
    /\ CommandFrame /\ UNCHANGED <<regs, ses, wk, main, faults>>

debugWatchStart      == StartSession("watch")
debugTraceStart      == StartSession("trace")
debugMultiTraceStart == StartSession("multi")
watchThreadStart     == main.k = "watch" /\ CreateThread
traceThreadStart     == main.k = "trace" /\ CreateThread
multiThreadStart     == main.k = "multi" /\ CreateThread
watchAwait           == main.k = "watch" /\ AwaitArmed
traceAwait           == main.k = "trace" /\ AwaitArmed
multiAwait           == main.k = "multi" /\ AwaitArmed
debugWatchStop       == StopSession("watch")
debugTraceStop       == StopSession("trace")
debugMultiTraceStop  == StopSession("multi")

mainSteps == \/ ReapThread \/ JoinThread \/ jobSteps
             \/ watchThreadStart \/ traceThreadStart \/ multiThreadStart
             \/ watchAwait \/ traceAwait \/ multiAwait

Init ==
    /\ KernelInit
    /\ main = mainIdle /\ mem = memIdle /\ dmntSeen = FALSE
    /\ requests = MaxRequests

Commands ==
    \/ debugWatchStart \/ debugTraceStart \/ debugMultiTraceStart
    \/ debugWatchStop \/ debugTraceStop \/ debugMultiTraceStop
    \/ ForceClose
    \/ \E check, skip \in BOOLEAN : BeginJob("patch", "app", check, skip)
    \/ \E p \in Procs : BeginJob("threads", p, FALSE, FALSE)
    \/ \E job \in {"maps", "read"} : BeginJob(job, "app", FALSE, FALSE)
    \/ BeginJob("layout", "app", FALSE, FALSE)

Environment ==
    \/ \E p \in Procs : Hit(p) \/ StepDone(p) \/ Exit(p)
    \/ Wander

Next ==
    \/ /\ requests > 0 /\ requests' = requests - 1
       /\ \/ Commands \/ DmntAttach
          \/ \E policy \in Policies : openLocked(policy)
    \/ /\ \/ Environment \/ mainSteps
          \/ watchNext \/ traceNext \/ multiNext
          \/ \E k \in Kinds : Expire(k)
          \/ processMemoryWrite \/ memSteps
       /\ UNCHANGED requests

(* Every thread keeps running; nothing is assumed of the user, the processes or the time a session *)
(* is given.                                                                                        *)
Fairness == /\ WF_vars(mainSteps /\ UNCHANGED requests)
            /\ WF_vars(watchNext /\ UNCHANGED requests)
            /\ WF_vars(traceNext /\ UNCHANGED requests)
            /\ WF_vars(multiNext /\ UNCHANGED requests)
            /\ WF_vars(memSteps /\ UNCHANGED requests)
SafeSpec == Init /\ [][Next]_vars
Spec == SafeSpec /\ Fairness

-----------------------------------------------------------------------------
(* The shape of the state: targets, sessions, workers and commands are     *)
(* records of the C structs, and the hit counters of watch, trace and      *)
(* multitrace stay within what the hits of a session can add up to.        *)
TypeOK ==
    /\ tgt \in Targets /\ regs \in [Cores -> SUBSET Regs] /\ ses \in Sessions /\ wk \in Workers
    /\ main \in Mains /\ mem \in Memory /\ dmntSeen \in BOOLEAN /\ code \in Codes
    /\ faults \in 0 .. MaxFaults /\ requests \in 0 .. MaxRequests

(* At most one of watch, trace and multitrace is active, although each     *)
(* manager has a mutex of its own and only asks the others.                *)
OneSession == \A j, k \in Kinds : ses[j].active /\ ses[k].active => j = k

(* A debug handle is only ever held by a session that says it is active,   *)
(* by the command the main loop is handling, or by an open direct memory   *)
(* session: the activity flags the other components look at are enough.    *)
HandleIsOwned ==
    \A p \in Procs :
        /\ tgt[p].owner \in Kinds => ses[tgt[p].owner].active
        /\ tgt[p].owner = "main"  => p \in main.held
        /\ tgt[p].owner = "mem"   => mem.pc = "open" /\ mem.backend = "direct"

(* A stop request that an active session sees was made for this session:   *)
(* the main loop is waiting for its thread.  A stop of nothing, whose wish *)
(* stays set, must not end the session after it.                           *)
StopIsCurrent ==
    \A k \in Kinds : ses[k].active /\ ses[k].stop => main.pc = "join" /\ main.k = k

(* All counters are in range, and a session with a hit limit and no ring   *)
(* never records more hits than were asked for, also when two threads hit  *)
(* at once (hitLimitReached).                                              *)
HitLimitKept ==
    /\ TypeOK
    /\ \A k \in Kinds : ses[k].active /\ ~ses[k].ring => ses[k].hits <= ses[k].max

(* When a session that was armed ends without reporting an error, none of  *)
(* its breakpoint registers is left on any core, and it holds no process.  *)
CleanOrReported ==
    [][\A k \in Kinds :
          (ses[k].active /\ ~ses'[k].active /\ ses[k].everArmed /\ ~ses'[k].err)
          => /\ \A c \in Cores : regs'[c] \cap Range(registersOf[k]) = {}
             /\ \A p \in Procs : tgt'[p].owner # k]_vars

(* patch-code writes only while it holds the stopped application, over the *)
(* bytes it was told to expect (unless told not to look), and not under a  *)
(* thread whose context it could read.                                     *)
PatchIsGuarded ==
    [][(code.bytes # "patched" /\ code'.bytes = "patched")
       => /\ tgt["app"].owner = "main" /\ tgt["app"].stopped
          /\ main.skip \/ code.bytes = "orig"
          /\ main.check => code.inside # "seen"]_vars

(* The main loop always comes back from a debug command, whatever the      *)
(* target does while the command waits for a thread.                       *)
CommandsReturn == main.pc # "idle" ~> main.pc = "idle"

(* A process that was stopped, by an attach, a hit, a break or a step, runs *)
(* again, or is gone.                                                       *)
TargetsRun == \A p \in Procs : (tgt[p].stopped /\ tgt[p].alive)
                                  ~> (~tgt[p].stopped \/ ~tgt[p].alive)
=============================================================================
