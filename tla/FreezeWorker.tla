----------------------------- MODULE FreezeWorker -----------------------------
(***************************************************************************)
(* Three threads around two mutexes: the main loop that dispatches         *)
(* commands (main.c), the freeze worker sub_freeze (main.c) and the search *)
(* worker (search.c, unknown_search.c).  The main loop holds freezeMutex   *)
(* while it serves the ready sockets; every process-memory session         *)
(* (process_memory.c) holds backendMutex from open to close.               *)
(*                                                                         *)
(* The freeze table is FreezeTable's.  The scans are reduced to the        *)
(* sessions they open: one for each chunk, or one for the whole operation  *)
(* with pause=1.  A lock-free read of another thread's variable is a step  *)
(* of its own.                                                             *)
(***************************************************************************)
EXTENDS FreezeTable

CONSTANTS MaxFds,     \* bound: lines served in one round of the main loop
          MaxChunks   \* bound: backend sessions of one scan

ASSUME WorkerAssumption == MaxFds \in Nat \ {0} /\ MaxChunks \in Nat \ {0}

VARIABLES
    freeze_thr_state, \* Active, Idle or Pause, read by the worker without a lock
    freezeMutex,      \* its owner
    backendMutex,     \* its owner
    d,                \* the main loop: pc, lines left in this round, pending command
    f,                \* the freeze worker: pc, wait_su
    s,                \* the search worker: pc, pause, chunks left
    exact,            \* manager.status.state of search.c
    unknown,          \* unknownManager: none, at rest, queued, running
    app,              \* the foreground application
    userPaused        \* history: a freezePause is to be obeyed

threadVars == <<freezeMutex, backendMutex, d, f>>
searchVars == <<s, exact, unknown>>
vars == <<tableVars, freeze_thr_state, threadVars, searchVars, app, userPaused>>

Threads == {"main", "freeze", "search"}
Nobody  == "nobody"

(***************************************************************************)
(* title = 0: no application.  While it starts, the services may report    *)
(* title 0 for it.                                                         *)
(***************************************************************************)
App == [title : Titles \cup {0}, starting : BOOLEAN]

NoApp == [title |-> 0, starting |-> FALSE]

MainThread == [pc : {"poll", "serve", "want"}, left : 0 .. MaxFds,
               cmd : {"none", "freeze", "peek", "searchStart", "searchBegin"},
               addr : Addresses \cup {0}]

FreezeThread == [pc : {"idle", "top", "state", "second", "reset", "lock", "recheck", "open",
                       "settle", "write"},
                 wait_su : BOOLEAN]

SearchThread == [pc : {"idle", "scan", "hold"}, pause : BOOLEAN, chunks : 0 .. MaxChunks]

exactActive   == exact \in {"queued", "running"}
unknownActive == unknown \in {"queued", "running"}   \* unknownSearchBlocksMemoryAccess
hasSession    == unknown # "none"                    \* unknownSearchHasSession

Init ==
    /\ TableInit
    /\ freeze_thr_state = "Active"
    /\ freezeMutex = Nobody
    /\ backendMutex = Nobody
    /\ d = [pc |-> "poll", left |-> 0, cmd |-> "none", addr |-> 0]
    /\ f = [pc |-> "idle", wait_su |-> FALSE]
    /\ s = [pc |-> "idle", pause |-> FALSE, chunks |-> 0]
    /\ exact = "idle"
    /\ unknown = "none"
    /\ app = NoApp
    /\ userPaused = FALSE

-----------------------------------------------------------------------------
(* The main loop.                                                          *)

\* poll() returned; the mutex is taken and up to MaxFds lines are served.
MainLock ==
    /\ d.pc = "poll"
    /\ freezeMutex = Nobody
    /\ freezeMutex' = "main"
    /\ \E n \in 0 .. MaxFds : d' = [d EXCEPT !.pc = "serve", !.left = n]
    /\ UNCHANGED <<tableVars, freeze_thr_state, backendMutex, f, searchVars, app, userPaused>>

\* Mutated form of MainUnlock: a round with something frozen sets Active.
MainUnlockResuming ==
    /\ d.pc = "serve"
    /\ d.left = 0
    /\ freeze_thr_state' = IF getFreezeCount(freezes) = 0 THEN "Idle" ELSE "Active"
    /\ userPaused' = (userPaused /\ getFreezeCount(freezes) # 0)
    /\ freezeMutex' = Nobody
    /\ d' = [d EXCEPT !.pc = "poll"]
    /\ UNCHANGED <<tableVars, backendMutex, f, searchVars, app>>

\* The end of a round.
MainUnlock ==
    /\ d.pc = "serve"
    /\ d.left = 0
    /\ freeze_thr_state' =
           IF getFreezeCount(freezes) = 0 THEN "Idle" ELSE freeze_thr_state
    /\ userPaused' = (userPaused /\ getFreezeCount(freezes) # 0)
    /\ freezeMutex' = Nobody
    /\ d' = [d EXCEPT !.pc = "poll"]
    /\ UNCHANGED <<tableVars, backendMutex, f, searchVars, app>>

Serve ==
    /\ d.pc = "serve"
    /\ d.left > 0
    /\ d' = [d EXCEPT !.left = @ - 1]
    /\ UNCHANGED <<freezeMutex, backendMutex, f, app>>

unFreezeCommand(a) ==
    /\ Serve
    /\ unFreeze(a)
    /\ UNCHANGED <<freeze_thr_state, searchVars, userPaused>>

freezeClearCommand ==
    /\ Serve
    /\ freezeClear
    /\ freeze_thr_state' = "Idle"
    /\ userPaused' = FALSE
    /\ UNCHANGED searchVars

freezePauseCommand ==
    /\ Serve
    /\ freeze_thr_state' = "Pause"
    /\ userPaused' = (f.pc # "reset")
    /\ UNCHANGED <<tableVars, searchVars>>

freezeUnpauseCommand ==
    /\ Serve
    /\ freeze_thr_state' = "Active"
    /\ userPaused' = FALSE
    /\ UNCHANGED <<tableVars, searchVars>>

\* unknownSearchRefine of a session at rest.
searchRefineCommand(pause) ==
    /\ Serve
    /\ unknown = "rest"
    /\ unknown' = "queued"
    /\ s' = [s EXCEPT !.pause = pause]
    /\ UNCHANGED <<tableVars, freeze_thr_state, exact, userPaused>>

\* unknownSearchClose; searchClose of an exact search changes nothing here.
searchCloseCommand ==
    /\ Serve
    /\ unknown = "rest"
    /\ unknown' = "none"
    /\ UNCHANGED <<tableVars, freeze_thr_state, s, exact, userPaused>>

\* A command that opens a process-memory session waits for backendMutex.
WantBackend(cmd, a) ==
    /\ d.pc = "serve"
    /\ d.left > 0
    /\ d' = [pc |-> "want", left |-> d.left - 1, cmd |-> cmd, addr |-> a]
    /\ UNCHANGED <<tableVars, freeze_thr_state, freezeMutex, backendMutex, f, searchVars,
                   app, userPaused>>

\* Mutated form of queueSearch: a session at rest no longer refuses an exact search.
queueSearchBeside ==
    /\ ~unknownActive
    /\ ~exactActive
    /\ exact' = "queued"
    /\ UNCHANGED <<s, unknown>>

\* queueSearch (exact search), reached from searchStart and searchStartRegion.
queueSearch ==
    /\ ~hasSession
    /\ ~exactActive
    /\ exact' = "queued"
    /\ UNCHANGED <<s, unknown>>

\* searchBeginUnknown and the first half of unknownSearchBegin.
searchBeginCommand ==
    /\ ~exactActive /\ ~unknownActive
    /\ ~hasSession
    /\ WantBackend("searchBegin", 0)

\* The second locked section of unknownSearchBegin.
beginUnknown(pause) ==
    /\ ~hasSession
    /\ unknown' = "queued"
    /\ s' = [s EXCEPT !.pause = pause]
    /\ UNCHANGED exact

(***************************************************************************)
(* The session of a command: opened, used and closed by this thread, so    *)
(* one step once the mutex is free.  It fails for want of an application,  *)
(* or for any reason of the services.                                      *)
(***************************************************************************)
UseBackend ==
    /\ d.pc = "want"
    /\ backendMutex = Nobody
    /\ d' = [d EXCEPT !.pc = "serve", !.cmd = "none", !.addr = 0]
    /\ \/ UNCHANGED <<tableVars, searchVars>>              \* failed, refused, or a read
       \/ /\ d.cmd = "freeze" /\ app.title # 0
          /\ \E v \in Data : freeze(d.addr, v, app.title)
          /\ UNCHANGED searchVars
       \/ /\ d.cmd = "searchStart" /\ app.title # 0
          /\ queueSearch
          /\ UNCHANGED tableVars
       \/ /\ d.cmd = "searchBegin" /\ app.title # 0
          /\ \E pause \in BOOLEAN : beginUnknown(pause)
          /\ UNCHANGED tableVars
    /\ UNCHANGED <<freeze_thr_state, freezeMutex, backendMutex, f, app, userPaused>>

-----------------------------------------------------------------------------
(* The freeze worker.                                                      *)

Quiet == UNCHANGED <<tableVars, d, searchVars, userPaused>>

\* The IDLE loop: getFreezeCount without the lock.
IdlePoll ==
    /\ f.pc = "idle"
    /\ getFreezeCount(freezes) # 0
    /\ f' = [f EXCEPT !.pc = "top"]
    /\ Quiet /\ UNCHANGED <<freeze_thr_state, freezeMutex, backendMutex, app>>

\* searchMemoryAccessBlocked() without the lock; TRUE sleeps and comes back here.
TopCheck ==
    /\ f.pc = "top"
    /\ ~unknownActive
    /\ f' = [f EXCEPT !.pc = "state"]
    /\ Quiet /\ UNCHANGED <<freeze_thr_state, freezeMutex, backendMutex, app>>

\* freeze_thr_state without the lock, read once for Idle and once more for Pause.
StateCheck ==
    /\ \/ /\ f.pc = "state"
          /\ f' = [f EXCEPT !.pc = IF freeze_thr_state = "Idle" THEN "reset" ELSE "second"]
       \/ /\ f.pc = "second"
          /\ f' = [f EXCEPT !.pc = IF freeze_thr_state = "Pause" THEN "top" ELSE "lock"]
    /\ Quiet /\ UNCHANGED <<freeze_thr_state, freezeMutex, backendMutex, app>>

\* Mutated form of Reset: the state stays Idle.
ResetStillIdle ==
    /\ f.pc = "reset"
    /\ freezeMutex = Nobody
    /\ f' = [f EXCEPT !.pc = "idle", !.wait_su = FALSE]
    /\ Quiet /\ UNCHANGED <<freeze_thr_state, freezeMutex, backendMutex, app>>

\* Idle was read: lock, set Active, unlock, back to the IDLE loop.
Reset ==
    /\ f.pc = "reset"
    /\ freezeMutex = Nobody
    /\ freeze_thr_state' = "Active"
    /\ f' = [f EXCEPT !.pc = "idle", !.wait_su = FALSE]
    /\ Quiet /\ UNCHANGED <<freezeMutex, backendMutex, app>>

Lock ==
    /\ f.pc = "lock"
    /\ freezeMutex = Nobody
    /\ freezeMutex' = "freeze"
    /\ f' = [f EXCEPT !.pc = "recheck"]
    /\ Quiet /\ UNCHANGED <<freeze_thr_state, backendMutex, app>>

\* Mutated form of Recheck: the check before the lock is trusted.
RecheckNothing ==
    /\ f.pc = "recheck"
    /\ f' = [f EXCEPT !.pc = "open"]
    /\ Quiet /\ UNCHANGED <<freeze_thr_state, freezeMutex, backendMutex, app>>

\* searchMemoryAccessBlocked() again, under the lock.
Recheck ==
    /\ f.pc = "recheck"
    /\ \/ /\ unknownActive
          /\ freezeMutex' = Nobody
          /\ f' = [f EXCEPT !.pc = "top"]
       \/ /\ ~unknownActive
          /\ f' = [f EXCEPT !.pc = "open"]
          /\ UNCHANGED freezeMutex
    /\ Quiet /\ UNCHANGED <<freeze_thr_state, backendMutex, app>>

\* Mutated form of OpenMemory: the failure branch keeps freezeMutex.
OpenMemoryKeepsLock ==
    /\ f.pc = "open"
    /\ backendMutex = Nobody
    /\ f' = [f EXCEPT !.pc = "top"]
    /\ Quiet /\ UNCHANGED <<freeze_thr_state, freezeMutex, backendMutex, app>>

(***************************************************************************)
(* processMemoryOpen and the two early ends of a cycle: no title yet       *)
(* (wait_su is set for the next cycle) and the startup wait.               *)
(***************************************************************************)
OpenMemory ==
    /\ f.pc = "open"
    /\ backendMutex = Nobody
    /\ \/ /\ f' = [f EXCEPT !.pc = "top"]                  \* open failed
          /\ freezeMutex' = Nobody
          /\ UNCHANGED backendMutex
       \/ /\ app.title # 0 /\ app.starting                 \* tid_now = 0
          /\ f' = [f EXCEPT !.pc = "top", !.wait_su = TRUE]
          /\ freezeMutex' = Nobody
          /\ UNCHANGED backendMutex
       \/ /\ app.title # 0 /\ f.wait_su
          /\ f' = [f EXCEPT !.pc = "settle"]
          /\ freezeMutex' = Nobody
          /\ UNCHANGED backendMutex
       \/ /\ app.title # 0 /\ ~f.wait_su
          /\ f' = [f EXCEPT !.pc = "write"]
          /\ backendMutex' = "freeze"
          /\ UNCHANGED freezeMutex
    /\ Quiet /\ UNCHANGED <<freeze_thr_state, app>>

\* The 30 s sleep of the startup wait is over.
Settle ==
    /\ f.pc = "settle"
    /\ f' = [f EXCEPT !.pc = "top", !.wait_su = FALSE]
    /\ Quiet /\ UNCHANGED <<freeze_thr_state, freezeMutex, backendMutex, app>>

\* The loop that writes the slots of this title, processMemoryClose, mutexUnlock.
WriteAll ==
    /\ f.pc = "write"
    /\ f' = [f EXCEPT !.pc = "top"]
    /\ backendMutex' = Nobody
    /\ freezeMutex' = Nobody
    /\ Quiet /\ UNCHANGED <<freeze_thr_state, app>>

-----------------------------------------------------------------------------
(* The search worker: exact searches first, then unknownSearchRunQueued.   *)

Aside == UNCHANGED <<tableVars, freeze_thr_state, freezeMutex, d, f, app, userPaused>>

RunExact ==
    /\ s.pc = "idle"
    /\ exact = "queued"
    /\ exact' = "running"
    /\ s' = [pc |-> "scan", pause |-> FALSE, chunks |-> MaxChunks]
    /\ Aside /\ UNCHANGED <<backendMutex, unknown>>

RunUnknown ==
    /\ s.pc = "idle"
    /\ exact # "queued"
    /\ unknown = "queued"
    /\ unknown' = "running"
    /\ s' = [s EXCEPT !.pc = "scan", !.chunks = MaxChunks]
    /\ Aside /\ UNCHANGED <<backendMutex, exact>>

\* processMemoryOpenBackend around a query or a read, or beginPause.
OpenPinned ==
    /\ s.pc = "scan"
    /\ s.chunks > 0
    /\ backendMutex = Nobody
    /\ backendMutex' = "search"
    /\ s' = [s EXCEPT !.pc = "hold"]
    /\ Aside /\ UNCHANGED <<exact, unknown>>

\* One chunk; a paused scan keeps its session for the next one.
Chunk ==
    /\ s.pc = "hold"
    /\ s.chunks > 0
    /\ \/ /\ s.pause
          /\ s' = [s EXCEPT !.chunks = @ - 1]
          /\ UNCHANGED backendMutex
       \/ /\ ~s.pause
          /\ s' = [s EXCEPT !.chunks = @ - 1, !.pc = "scan"]
          /\ backendMutex' = Nobody
    /\ Aside /\ UNCHANGED <<exact, unknown>>

\* The end: range exhausted, cancelled or failed; endPause closes the session.
FinishScan ==
    /\ s.pc \in {"scan", "hold"}
    /\ s.pc = "hold" => s.pause
    /\ backendMutex' = IF s.pc = "hold" THEN Nobody ELSE backendMutex
    /\ s' = [s EXCEPT !.pc = "idle", !.chunks = 0]
    /\ exact' = IF exact = "running" THEN "done" ELSE exact
    /\ unknown' = IF unknown = "running" THEN "rest" ELSE unknown
    /\ Aside

-----------------------------------------------------------------------------
(* The application.                                                        *)

Elsewhere == UNCHANGED <<tableVars, freeze_thr_state, threadVars, searchVars, userPaused>>

Launch(t) == /\ app.title = 0
             /\ app' = [title |-> t, starting |-> TRUE]
             /\ Elsewhere

Started == /\ app.starting
           /\ app' = [app EXCEPT !.starting = FALSE]
           /\ Elsewhere

ExitApp == /\ app.title # 0
           /\ app' = NoApp
           /\ Elsewhere

-----------------------------------------------------------------------------
Command ==
    \/ \E a \in Addresses : unFreezeCommand(a)
    \/ freezeClearCommand \/ freezePauseCommand \/ freezeUnpauseCommand
    \/ \E pause \in BOOLEAN : searchRefineCommand(pause)
    \/ searchCloseCommand
    \/ \E a \in Addresses : WantBackend("freeze", a)
    \/ \E c \in {"peek", "searchStart"} : WantBackend(c, 0)
    \/ searchBeginCommand

Main == MainLock \/ Command \/ UseBackend \/ MainUnlock

Freezer == \/ IdlePoll \/ TopCheck \/ StateCheck \/ Reset \/ Lock \/ Recheck
           \/ OpenMemory \/ Settle \/ WriteAll

Searcher == RunExact \/ RunUnknown \/ OpenPinned \/ Chunk \/ FinishScan

Application == (\E t \in Titles : Launch(t)) \/ Started \/ ExitApp

Next == Main \/ Freezer \/ Searcher \/ Application

Spec == Init /\ [][Next]_vars

(***************************************************************************)
(* Every thread is scheduled.  A libnx mutex with waiters is handed to one *)
(* of them by the kernel (svcArbitrateUnlock), so a thread that waits for  *)
(* a mutex again and again released gets it: strong fairness of the steps  *)
(* that acquire.  Clients and applications owe nothing.                    *)
(***************************************************************************)
FairSpec ==
    /\ Spec
    /\ SF_vars(MainLock) /\ SF_vars(UseBackend) /\ WF_vars(Command \/ MainUnlock)
    /\ WF_vars(IdlePoll \/ TopCheck \/ StateCheck \/ Recheck \/ Settle \/ WriteAll)
    /\ SF_vars(Reset) /\ SF_vars(Lock) /\ SF_vars(OpenMemory)
    /\ WF_vars(RunExact \/ RunUnknown \/ Chunk \/ FinishScan) /\ SF_vars(OpenPinned)

-----------------------------------------------------------------------------
(* Properties.                                                             *)

\* The table has its own type invariant, TableTypeOK.
TypeOK ==
    /\ freeze_thr_state \in {"Active", "Idle", "Pause"}
    /\ freezeMutex \in Threads \cup {Nobody}
    /\ backendMutex \in Threads \cup {Nobody}
    /\ d \in MainThread
    /\ f \in FreezeThread
    /\ s \in SearchThread
    /\ exact \in {"idle", "queued", "running", "done"}
    /\ unknown \in {"none", "rest", "queued", "running"}
    /\ app \in App
    /\ userPaused \in BOOLEAN

(***************************************************************************)
(* The freeze worker neither waits for the backend nor writes while an     *)
(* unknown-value search is queued or running: no frozen write lands in a   *)
(* snapshot, and the command loop is never blocked by a worker that waits  *)
(* for a scan with freezeMutex in hand.  About the check and the recheck   *)
(* in sub_freeze and the dispatch of searches under freezeMutex.           *)
(***************************************************************************)
FreezeYieldsToSearch == f.pc \in {"open", "write"} => ~unknownActive

(***************************************************************************)
(* The one search worker never has two searches to run, although search.c  *)
(* and unknown_search.c keep separate states under separate mutexes: a     *)
(* refinement does not look at the exact search at all.  About queueSearch,*)
(* searchBeginUnknown and unknownSearchRefine.                             *)
(***************************************************************************)
OneSearchAtATime == ~(exactActive /\ unknownActive)

(***************************************************************************)
(* The strengthening that makes the two inductive: who owns which mutex is *)
(* told by the program counters, and a session excludes an active exact    *)
(* search already while searchBegin waits for the backend.                 *)
(***************************************************************************)
LockOwners ==
    /\ freezeMutex = "freeze" <=> f.pc \in {"recheck", "open", "write"}
    /\ freezeMutex = "main" <=> d.pc \in {"serve", "want"}
    /\ backendMutex = "freeze" <=> f.pc = "write"
    /\ backendMutex = "search" <=> s.pc = "hold"
    /\ freezeMutex # "search" /\ backendMutex # "main"

SearchExclusion ==
    /\ hasSession => ~exactActive
    /\ d.pc = "want" /\ d.cmd = "searchBegin" => ~exactActive
    /\ s.pc # "idle" <=> (exact = "running" \/ unknown = "running")

IndInv == TypeOK /\ LockOwners /\ SearchExclusion /\ FreezeYieldsToSearch

(***************************************************************************)
(* What makes PauseHolds inductive: an owed pause is still the state, and  *)
(* the worker is not about to overwrite it.                                *)
(***************************************************************************)
PauseKept == userPaused => freeze_thr_state = "Pause" /\ f.pc # "reset"

(***************************************************************************)
(* The main loop always gets freezeMutex again and always comes back to    *)
(* poll(), whatever the two workers do with the mutexes it needs.          *)
(***************************************************************************)
MainLoopResponds == []<>(d.pc = "serve") /\ []<>(d.pc = "poll")

(***************************************************************************)
(* docs/search-c-level-design.md, "Freeze cycles resume after the          *)
(* operation becomes terminal": as long as something is frozen, not paused *)
(* and no unknown-value search is active, the worker keeps trying, however *)
(* it was left by earlier pauses, clears and Idle hand-overs.              *)
(***************************************************************************)
FreezesResume ==
    <>[](getFreezeCount(freezes) # 0 /\ freeze_thr_state # "Pause" /\ ~unknownActive)
        => []<>(f.pc = "open")

(***************************************************************************)
(* commands.md: "|freezePause|Pauses the freezing process, allows for      *)
(* unpause to refreeze|": no write cycle begins from freezePause to the    *)
(* next freezeUnpause, freezeClear or round that ends with nothing frozen  *)
(* (a cycle that has already read Active may still end).  Left out is a    *)
(* freezePause between the worker's lock-free read of Idle and its Reset,  *)
(* which overwrites it.                                                    *)
(***************************************************************************)
PauseHolds == [][f.pc = "second" /\ f'.pc = "lock" => ~userPaused]_vars
=============================================================================
