---------------------------- MODULE UnknownSearch ----------------------------
(***************************************************************************)
(* The SD-backed unknown-value search of unknown_search.c: the session     *)
(* manager, the search worker that runs queued operations, the three files *)
(* of the session directory and the promotion protocol of                  *)
(* searchStoreCommit (search_store.c).                                     *)
(*                                                                         *)
(* Two threads of the program take steps: the single command dispatcher    *)
(* (searchBegin, searchRefine*, searchCancel, searchClose) and the search  *)
(* worker.  The environment changes game memory, replaces the process,     *)
(* fails I/O, and restarts the sysmodule.                                  *)
(*                                                                         *)
(* A slot is one store block: it is read, filtered and written in one      *)
(* step.  Every fopen/fwrite/rename/remove and every debug call may fail.  *)
(***************************************************************************)
EXTENDS SearchDomain

CONSTANTS MaxPid,     \* bound: processes launched per boot
          MaxSession, \* bound: sessions opened per boot
          MaxGen      \* bound: refinements of one session

ASSUME UnknownAssumption ==
    MaxPid \in Nat \ {0} /\ MaxSession \in Nat \ {0} /\ MaxGen \in Nat

VARIABLES
    storageAvailable, \* unknownManager.storageAvailable
    cancelRequested,  \* unknownManager.cancelRequested
    nextSessionId,    \* unknownManager.nextSessionId, counted from 1
    pinned,           \* unknownManager.metadata.processId
    exactValue,       \* unknownManager.exactValue
    status,           \* unknownManager.status
    cmd,              \* a begin/refine command between its two locked sections
    w,                \* the worker: program counter and locals of runBegin/runRefine
    files,            \* session.dat, session.tmp, session.old
    curPid,           \* the foreground application, 0 = none
    memory,           \* its searched range
    paused            \* it is stopped by the debugger

mgrVars == <<storageAvailable, cancelRequested, nextSessionId, pinned, exactValue, status>>
envVars == <<curPid, memory, paused>>
vars    == <<mgrVars, cmd, w, files, envVars>>

Pids     == 1 .. MaxPid
Sessions == 1 .. MaxSession
Gens     == 0 .. MaxGen
Counts   == 0 .. N

States   == {"idle", "queued", "running", "done", "cancelled", "error"}
Failures == {"none", "corrupt", "processChanged", "pauseFailed", "ioError"}
FileName == {"dat", "tmp", "old"}

(***************************************************************************)
(* A session file: `sealed' means header CRC, index and size are final     *)
(* (what searchStoreReaderOpen accepts); gen, pid and count are header     *)
(* fields, cands the blocks.                                               *)
(***************************************************************************)
File == [present : BOOLEAN, sealed : BOOLEAN, gen : Gens, pid : Pids \cup {0},
         count : Counts, cands : Cands]

NoFile == [present |-> FALSE, sealed |-> FALSE, gen |-> 0, pid |-> 0,
           count |-> 0, cands |-> NoCands]

Status == [sid : Sessions \cup {0}, state : States, op : RefineOps \cup {"begin"},
           failure : Failures, gen : Gens, candidates : Counts,
           pause : BOOLEAN, committed : BOOLEAN, resumable : BOOLEAN]

NoStatus == [sid |-> 0, state |-> "idle", op |-> "begin", failure |-> "none", gen |-> 0,
             candidates |-> 0, pause |-> FALSE, committed |-> FALSE, resumable |-> FALSE]

WorkerPc == {"idle", "open", "pause", "check", "read", "endPause", "judge",
             "commit", "promote", "publish"}

Worker == [pc : WorkerPc, cursor : Counts, failure : Failures, previous : Counts,
           held : BOOLEAN, writer : BOOLEAN]

IdleWorker == [pc |-> "idle", cursor |-> 0, failure |-> "none", previous |-> 0,
               held |-> FALSE, writer |-> FALSE]

Command == [op : RefineOps \cup {"none", "begin"}, pid : Pids \cup {0},
            value : Values, pause : BOOLEAN]

NoCommand == [op |-> "none", pid |-> 0, value |-> 0, pause |-> FALSE]

NoMemory == [s \in Slots |-> 0]       \* while no application runs

active   == status.state \in {"queued", "running"}      \* unknownSearchIsActive
refining == status.op # "begin"

\* remove(path): the file is gone afterwards, or it was not there, or remove failed.
Removed(f) == {NoFile, f}

(***************************************************************************)
(* unknownSearchInitialize: the directory is created and cleared; if       *)
(* either fails the subsystem refuses sessions for this boot.              *)
(***************************************************************************)
Boot(avail, fs) ==
    /\ storageAvailable = avail
    /\ cancelRequested = FALSE
    /\ nextSessionId = 1
    /\ pinned = 0
    /\ exactValue = 0
    /\ status = NoStatus
    /\ cmd = NoCommand
    /\ w = IdleWorker
    /\ files = fs
    /\ curPid = 0
    /\ paused = FALSE

Init == /\ \E avail \in BOOLEAN : Boot(avail, [f \in FileName |-> NoFile])
        /\ memory = NoMemory

Restart ==
    /\ \E fs \in [FileName -> {NoFile} \cup {files[f] : f \in FileName}] :
        /\ \A f \in FileName : fs[f] \in Removed(files[f])
        /\ files' = fs
        /\ storageAvailable' \in
               IF \E f \in FileName : fs[f].present THEN {FALSE} ELSE BOOLEAN
    /\ cancelRequested' = FALSE
    /\ nextSessionId' = 1
    /\ pinned' = 0
    /\ exactValue' = 0
    /\ status' = NoStatus
    /\ cmd' = NoCommand
    /\ w' = IdleWorker
    /\ curPid' = 0
    /\ paused' = FALSE
    /\ memory' = NoMemory

-----------------------------------------------------------------------------
(* The command dispatcher.                                                 *)

(***************************************************************************)
(* unknownSearchBegin up to its second lock: storage and session checks,   *)
(* then the process is opened and its metadata copied.                     *)
(***************************************************************************)
BeginCheck(pause) ==
    /\ cmd.op = "none"
    /\ ~active                          \* searchBeginUnknown
    /\ storageAvailable
    /\ status.sid = 0
    /\ nextSessionId <= MaxSession
    /\ curPid # 0
    /\ cmd' = [op |-> "begin", pid |-> curPid, value |-> 0, pause |-> pause]
    /\ UNCHANGED <<mgrVars, w, files, envVars>>

BeginQueue ==
    /\ cmd.op = "begin"
    /\ cmd' = NoCommand
    /\ \/ /\ status.sid # 0
          /\ UNCHANGED mgrVars
       \/ /\ status.sid = 0
          /\ pinned' = cmd.pid
          /\ cancelRequested' = FALSE
          /\ status' = [NoStatus EXCEPT !.sid = nextSessionId, !.state = "queued",
                                        !.pause = cmd.pause]
          /\ nextSessionId' = nextSessionId + 1
          /\ UNCHANGED <<storageAvailable, exactValue>>
    /\ UNCHANGED <<w, files, envVars>>

(***************************************************************************)
(* unknownSearchRefine up to its second lock; stat() of session.dat must   *)
(* succeed.  Only op = "exact" parses a value.                             *)
(***************************************************************************)
RefineCheck(op, value, pause) ==
    /\ cmd.op = "none"
    /\ status.sid # 0
    /\ status.committed
    /\ status.resumable
    /\ ~active
    /\ status.gen < MaxGen
    /\ op # "exact" => value = 0
    /\ files["dat"].present
    /\ cmd' = [op |-> op, pid |-> 0, value |-> value, pause |-> pause]
    /\ UNCHANGED <<mgrVars, w, files, envVars>>

RefineQueue ==
    /\ cmd.op \in RefineOps
    /\ cmd' = NoCommand
    /\ \/ /\ status.sid = 0 \/ active
          /\ UNCHANGED mgrVars
       \/ /\ status.sid # 0 /\ ~active
          /\ exactValue' = cmd.value
          /\ status' = [status EXCEPT !.op = cmd.op, !.pause = cmd.pause,
                                      !.state = "queued", !.failure = "none"]
          /\ cancelRequested' = FALSE
          /\ UNCHANGED <<storageAvailable, nextSessionId, pinned>>
    /\ UNCHANGED <<w, files, envVars>>

unknownSearchCancel ==
    /\ cmd.op = "none"
    /\ status.sid # 0
    /\ active
    /\ cancelRequested' = TRUE
    /\ UNCHANGED <<storageAvailable, nextSessionId, pinned, exactValue, status,
                   cmd, w, files, envVars>>

unknownSearchClose ==
    /\ cmd.op = "none"
    /\ status.sid # 0
    /\ ~active
    /\ \E t \in Removed(files["tmp"]), o \in Removed(files["old"]), d \in Removed(files["dat"]) :
           files' = [files EXCEPT !["tmp"] = t, !["old"] = o, !["dat"] = d]
    /\ status' = NoStatus
    /\ UNCHANGED <<storageAvailable, cancelRequested, nextSessionId, pinned, exactValue,
                   cmd, w, envVars>>

-----------------------------------------------------------------------------
(* The search worker.                                                      *)

\* unknownSearchRunQueued, and previousCandidates of runRefine.
RunQueued ==
    /\ w.pc = "idle"
    /\ status.state = "queued"
    /\ status' = [status EXCEPT !.state = "running"]
    /\ w' = [IdleWorker EXCEPT !.pc = "open", !.previous = status.candidates]
    /\ UNCHANGED <<storageAvailable, cancelRequested, nextSessionId, pinned, exactValue,
                   cmd, files, envVars>>

\* `goto done' with a failure set.
Fail(reason) == w' = [w EXCEPT !.pc = "endPause", !.failure = reason]

FreshFile(gen) == [present |-> TRUE, sealed |-> FALSE, gen |-> gen, pid |-> pinned,
                   count |-> 0, cands |-> NoCands]

(***************************************************************************)
(* The opening of runBegin (malloc, searchStoreWriterOpen) and of runRefine*)
(* (searchStoreReaderOpen, metadata comparison, searchStoreWriterOpen,     *)
(* malloc).  makeStoreMetadata pins pid and generation.                    *)
(***************************************************************************)
OpenFiles ==
    /\ w.pc = "open"
    /\ \/ /\ ~refining                                   \* begin: opened
          /\ files' = [files EXCEPT !["tmp"] = FreshFile(0)]
          /\ w' = [w EXCEPT !.pc = "pause", !.writer = TRUE]
       \/ /\ ~refining                                   \* begin: no memory, no file
          /\ Fail("ioError")
          /\ UNCHANGED files
       \/ /\ refining                                    \* refine: unreadable baseline
          /\ Fail("corrupt")
          /\ UNCHANGED files
       \/ /\ refining                                    \* refine: foreign baseline
          /\ files["dat"].sealed
          /\ files["dat"].gen # status.gen \/ files["dat"].pid # pinned
          /\ Fail("processChanged")
          /\ UNCHANGED files
       \/ /\ refining
          /\ files["dat"].sealed
          /\ files["dat"].gen = status.gen /\ files["dat"].pid = pinned
          /\ \/ /\ Fail("ioError")                       \* writer not opened
                /\ UNCHANGED files
             \/ /\ files' = [files EXCEPT !["tmp"] = FreshFile(status.gen + 1)]
                /\ \/ w' = [w EXCEPT !.pc = "pause", !.writer = TRUE]
                   \/ w' = [w EXCEPT !.pc = "endPause", !.writer = TRUE,
                                     !.failure = "ioError"]   \* malloc failed
    /\ UNCHANGED <<mgrVars, cmd, envVars>>

\* Mutated form of beginPause: a pause that failed degrades to a live scan.
beginPauseDegrading ==
    /\ w.pc = "pause"
    /\ \E stopped \in BOOLEAN :
        /\ paused' = (paused \/ (status.pause /\ stopped))
        /\ w' = [w EXCEPT !.pc = "check", !.held = status.pause]
    /\ UNCHANGED <<mgrVars, cmd, files, curPid, memory>>

(***************************************************************************)
(* beginPause: with pause=1 one pinned session is opened, the process is   *)
(* stopped and the session held until endPause.                            *)
(***************************************************************************)
beginPause ==
    /\ w.pc = "pause"
    /\ \/ /\ ~status.pause
          /\ w' = [w EXCEPT !.pc = "check"]
          /\ UNCHANGED paused
       \/ /\ status.pause                                \* openPinned failed
          /\ Fail("processChanged")
          /\ UNCHANGED paused
       \/ /\ status.pause /\ curPid = pinned             \* processMemoryPause failed
          /\ Fail("pauseFailed")
          /\ UNCHANGED paused
       \/ /\ status.pause /\ curPid = pinned
          /\ paused' = TRUE
          /\ w' = [w EXCEPT !.pc = "check", !.held = TRUE]
    /\ UNCHANGED <<mgrVars, cmd, files, curPid, memory>>

\* The head of both scan loops: range exhausted, cancelled(), processIsCurrent().
ScanCheck ==
    /\ w.pc = "check"
    /\ \/ /\ w.cursor = N \/ cancelRequested
          /\ w' = [w EXCEPT !.pc = "endPause"]
       \/ /\ w.cursor < N /\ ~cancelRequested
          /\ curPid # pinned
          /\ Fail("processChanged")
       \/ /\ w.cursor < N /\ ~cancelRequested
          /\ curPid = pinned
          /\ w' = [w EXCEPT !.pc = "read"]
    /\ UNCHANGED <<mgrVars, cmd, files, envVars>>

\* Mutated form of Stored: the header counts each stored slot twice.
StoredTwice(value) ==
    LET f == files["tmp"] IN
    [f EXCEPT !.cands[w.cursor] = value, !.count = f.count + 2]

\* Mutated form of Stored: a survivor keeps its previous value as the next baseline.
StoredStale(value) ==
    LET f == files["tmp"] IN
    [f EXCEPT !.cands[w.cursor] = IF refining THEN files["dat"].cands[w.cursor] ELSE value,
              !.count = f.count + 1]

\* searchStoreWriterAddBlock of one surviving slot, then updateProgress.
Stored(value) ==
    LET f == files["tmp"] IN
    [f EXCEPT !.cands[w.cursor] = value, !.count = f.count + 1]

\* Mutated form of Advance: the cursor is not moved.
AdvanceNowhere(tmp) ==
    /\ files' = [files EXCEPT !["tmp"] = tmp]
    /\ status' = [status EXCEPT !.candidates = tmp.count]
    /\ w' = [w EXCEPT !.pc = "check"]

Advance(tmp) ==
    /\ files' = [files EXCEPT !["tmp"] = tmp]
    /\ status' = [status EXCEPT !.candidates = tmp.count]
    /\ w' = [w EXCEPT !.pc = "check", !.cursor = w.cursor + 1]

ScanFail(reason) == Fail(reason) /\ UNCHANGED <<files, status>>

(***************************************************************************)
(* The body of runBegin's loop for one slot.  A query or read through      *)
(* either backend fails once the pinned process is gone.                   *)
(***************************************************************************)
SnapshotSlot ==
    /\ w.pc = "read"
    /\ ~refining
    /\ \/ ScanFail("processChanged")                     \* queryMemory failed
       \/ ScanFail("corrupt")                            \* SearchRangeInvalid
       \/ ScanFail("ioError")                            \* read or store failed
       \/ /\ curPid = pinned
          /\ Advance(files["tmp"])                       \* SearchRangeSkip
       \/ /\ curPid = pinned
          /\ Advance(Stored(memory[w.cursor]))
    /\ UNCHANGED <<storageAvailable, cancelRequested, nextSessionId, pinned, exactValue,
                   cmd, envVars>>

(***************************************************************************)
(* The body of runRefine's loop for one slot: the previous block, the      *)
(* current value, searchFilterUnsigned, the next block.  A slot that is    *)
(* not a candidate of the baseline has no block and is passed over.        *)
(***************************************************************************)
RefineSlot ==
    LET before == files["dat"].cands[w.cursor]
        now    == memory[w.cursor]
        keep   == searchCompareUnsigned(status.op, before, now, exactValue)
    IN
    /\ w.pc = "read"
    /\ refining
    /\ \/ /\ before = Absent
          /\ Advance(files["tmp"])
       \/ /\ before # Absent
          /\ \/ ScanFail("corrupt")                      \* searchStoreReaderNext failed
             \/ ScanFail("ioError")                      \* read or store failed
             \/ /\ curPid = pinned
                /\ keep
                /\ Advance(Stored(now))
             \/ /\ curPid = pinned
                /\ ~keep
                /\ Advance(files["tmp"])
    /\ UNCHANGED <<storageAvailable, cancelRequested, nextSessionId, pinned, exactValue,
                   cmd, envVars>>

\* endPause: processMemoryResume may fail; the session is closed either way.
endPause ==
    /\ w.pc = "endPause"
    /\ \/ /\ ~w.held
          /\ w' = [w EXCEPT !.pc = "judge"]
          /\ UNCHANGED paused
       \/ /\ w.held
          /\ paused' = FALSE
          /\ w' = [w EXCEPT !.pc = "judge", !.held = FALSE]
       \/ /\ w.held
          /\ w' = [w EXCEPT !.pc = "judge", !.held = FALSE, !.failure = "pauseFailed"]
          /\ UNCHANGED paused
    /\ UNCHANGED <<mgrVars, cmd, files, curPid, memory>>

\* finish(): the terminal status of an operation.
finish(state, failure, committed, gen, candidates) ==
    /\ status' = [status EXCEPT !.state = state, !.failure = failure,
                                !.committed = committed,
                                !.resumable = committed
                                    /\ failure \notin {"processChanged", "corrupt"},
                                !.gen = gen, !.candidates = candidates]
    /\ w' = IdleWorker

\* Mutated form of Abandon: restoreCommittedCounts is forgotten.
AbandonUnrestored(state, failure, dir) ==
    /\ \E t \in IF w.writer THEN Removed(dir["tmp"]) ELSE {dir["tmp"]} :
           files' = [dir EXCEPT !["tmp"] = t]
    /\ finish(state, failure, refining, status.gen, status.candidates)

(***************************************************************************)
(* Every unsuccessful end: searchStoreWriterAbort if a writer was opened,  *)
(* restoreCommittedCounts for a refinement, finish.  Files is the state of *)
(* the directory the abort starts from.                                    *)
(***************************************************************************)
Abandon(state, failure, dir) ==
    /\ \E t \in IF w.writer THEN Removed(dir["tmp"]) ELSE {dir["tmp"]} :
           files' = [dir EXCEPT !["tmp"] = t]
    /\ finish(state, failure, refining, status.gen,
              IF refining THEN w.previous ELSE status.candidates)

(***************************************************************************)
(* The decision after `done:'.  The success branch is                      *)
(* searchStoreWriterFinish: index, header CRC, flush, fsync, close.        *)
(***************************************************************************)
Judge ==
    /\ w.pc = "judge"
    /\ \/ /\ cancelRequested
          /\ Abandon("cancelled", "none", files)
       \/ /\ ~cancelRequested
          /\ w.failure # "none"
          /\ Abandon("error", w.failure, files)
       \/ /\ ~cancelRequested /\ w.failure = "none"      \* finish failed
          /\ Abandon("error", "ioError", files)
       \/ /\ ~cancelRequested /\ w.failure = "none"
          /\ files' = [files EXCEPT !["tmp"].sealed = TRUE]
          /\ w' = [w EXCEPT !.pc = "commit"]
          /\ UNCHANGED status
    /\ UNCHANGED <<storageAvailable, cancelRequested, nextSessionId, pinned, exactValue,
                   cmd, envVars>>

(***************************************************************************)
(* searchStoreCommit, first half: remove(backup), then for a refinement    *)
(* rename(current, backup).  rename onto an existing name fails.           *)
(***************************************************************************)
Retire ==
    /\ w.pc = "commit"
    /\ \E o \in Removed(files["old"]) :
        LET dir == [files EXCEPT !["old"] = o] IN
        \/ /\ ~refining
           /\ files' = dir
           /\ w' = [w EXCEPT !.pc = "promote"]
           /\ UNCHANGED status
        \/ /\ refining /\ files["dat"].present /\ ~o.present
           /\ files' = [dir EXCEPT !["old"] = files["dat"], !["dat"] = NoFile]
           /\ w' = [w EXCEPT !.pc = "promote"]
           /\ UNCHANGED status
        \/ /\ refining
           /\ Abandon("error", "ioError", dir)
    /\ UNCHANGED <<storageAvailable, cancelRequested, nextSessionId, pinned, exactValue,
                   cmd, envVars>>

(***************************************************************************)
(* searchStoreCommit, second half: rename(temporary, current); when it     *)
(* fails a refinement tries rename(backup, current), whose own failure is  *)
(* ignored; when it succeeds the backup is removed.                        *)
(***************************************************************************)
Promote ==
    /\ w.pc = "promote"
    /\ \/ /\ ~files["dat"].present
          /\ \E o \in IF refining THEN Removed(files["old"]) ELSE {files["old"]} :
                 files' = [files EXCEPT !["dat"] = files["tmp"], !["tmp"] = NoFile,
                                        !["old"] = o]
          /\ w' = [w EXCEPT !.pc = "publish"]
          /\ UNCHANGED status
       \/ /\ refining                                    \* rolled back
          /\ Abandon("error", "ioError",
                     [files EXCEPT !["dat"] = files["old"], !["old"] = NoFile])
       \/ Abandon("error", "ioError", files)             \* not rolled back
    /\ UNCHANGED <<storageAvailable, cancelRequested, nextSessionId, pinned, exactValue,
                   cmd, envVars>>

\* The status update of a committed operation and its finish(Done).
Publish ==
    /\ w.pc = "publish"
    /\ finish("done", "none", TRUE, IF refining THEN status.gen + 1 ELSE 0,
              files["dat"].count)
    /\ UNCHANGED <<storageAvailable, cancelRequested, nextSessionId, pinned, exactValue,
                   cmd, files, envVars>>

-----------------------------------------------------------------------------
(* The environment.                                                        *)

GameWrite ==
    /\ curPid # 0
    /\ ~paused
    /\ \E s \in Slots, v \in Values : memory' = [memory EXCEPT ![s] = v]
    /\ UNCHANGED <<mgrVars, cmd, w, files, curPid, paused>>

\* The application exits, or the next one is launched; PIDs are not reused.
ProcessExit ==
    /\ curPid # 0
    /\ curPid' = 0
    /\ paused' = FALSE
    /\ memory' = NoMemory
    /\ UNCHANGED <<mgrVars, cmd, w, files>>

ProcessLaunch(pid) ==
    /\ curPid = 0
    /\ pid > pinned
    /\ cmd.op = "begin" => pid > cmd.pid
    /\ curPid' = pid
    /\ memory' \in [Slots -> Values]
    /\ UNCHANGED <<mgrVars, cmd, w, files, paused>>

-----------------------------------------------------------------------------
Dispatcher ==
    \/ \E pause \in BOOLEAN : BeginCheck(pause)
    \/ BeginQueue
    \/ \E op \in RefineOps, value \in Values, pause \in BOOLEAN :
           RefineCheck(op, value, pause)
    \/ RefineQueue
    \/ unknownSearchCancel
    \/ unknownSearchClose

WorkerStep ==
    \/ RunQueued \/ OpenFiles \/ beginPause \/ ScanCheck
    \/ SnapshotSlot \/ RefineSlot \/ endPause
    \/ Judge \/ Retire \/ Promote \/ Publish

Environment ==
    \/ GameWrite \/ ProcessExit
    \/ \E pid \in Pids : ProcessLaunch(pid)
    \/ Restart

Next == Dispatcher \/ WorkerStep \/ Environment

Spec == Init /\ [][Next]_vars

(***************************************************************************)
(* The worker thread is always scheduled and every file or debug call it   *)
(* makes returns; clients, the game and the power switch owe nothing.      *)
(***************************************************************************)
FairSpec == Spec /\ WF_vars(WorkerStep)

-----------------------------------------------------------------------------
(* Properties.                                                             *)

TypeOK ==
    /\ storageAvailable \in BOOLEAN
    /\ cancelRequested \in BOOLEAN
    /\ nextSessionId \in 1 .. MaxSession + 1
    /\ pinned \in Pids \cup {0}
    /\ exactValue \in Values
    /\ status \in Status
    /\ cmd \in Command
    /\ w \in Worker
    /\ files \in [FileName -> File]
    /\ curPid \in Pids \cup {0}
    /\ memory \in [Slots -> Values]
    /\ paused \in BOOLEAN

(***************************************************************************)
(* The file that holds the committed generation: session.dat, or           *)
(* session.old between the two renames of a commit and after a rollback    *)
(* that failed.                                                            *)
(***************************************************************************)
Baseline == IF files["dat"].present THEN files["dat"] ELSE files["old"]

(***************************************************************************)
(* A committed session never loses its baseline: whatever fails, one       *)
(* complete file of the pinned process holds the generation the status     *)
(* reports (the next one, between promotion and publication), and a        *)
(* session at rest reports that file's candidate count.  About             *)
(* searchStoreCommit, searchStoreWriterAbort and restoreCommittedCounts.   *)
(***************************************************************************)
BaselineNeverLost ==
    status.committed =>
        /\ Baseline.present /\ Baseline.sealed
        /\ Baseline.pid = pinned
        /\ Baseline.gen = status.gen + (IF w.pc = "publish" THEN 1 ELSE 0)
        /\ ~active => status.candidates = Baseline.count

(***************************************************************************)
(* The strengthening that makes BaselineNeverLost and the refinement       *)
(* inductive, in named parts.                                              *)
(***************************************************************************)
\* Worker, status and pending command agree on who is doing what.
Coordination ==
    /\ w.pc # "idle" <=> status.state = "running"
    /\ active => status.sid # 0 /\ (status.committed <=> refining)
    /\ active /\ refining => status.gen < MaxGen
    /\ status.committed => status.sid # 0
    /\ cmd.op = "begin" => status.sid = 0 /\ nextSessionId <= MaxSession
    /\ cmd.op \in RefineOps => /\ status.sid # 0 /\ status.committed /\ ~active
                              /\ status.gen < MaxGen

\* The committed generation, and the count an abandoned refinement restores.
BaselineHeld ==
    /\ \A f \in FileName : files[f].sealed => files[f].present
    /\ status.committed =>
        /\ Baseline.present /\ Baseline.sealed
        /\ Baseline.pid = pinned
        /\ Baseline.gen = status.gen + (IF w.pc = "publish" THEN 1 ELSE 0)
        /\ status.state # "running" => status.candidates = Baseline.count
        /\ w.pc \notin {"idle", "publish"} => w.previous = Baseline.count

\* The worker is still on a path that may commit.
scanning == w.pc \in {"pause", "check", "read"}
hopeful  == \/ scanning
            \/ w.pc \in {"endPause", "judge"} /\ w.failure = "none"

\* What is known of session.tmp for the slots already passed.
TmpSoFar(prev, limit) ==
    \A s \in Slots :
        IF s >= limit
        THEN files["tmp"].cands[s] = Absent
        ELSE \/ prev[s] = Absent /\ files["tmp"].cands[s] = Absent
             \/ /\ prev[s] # Absent /\ files["tmp"].cands[s] # Absent
                /\ searchCompareUnsigned(status.op, prev[s], files["tmp"].cands[s], exactValue)
             \/ /\ prev[s] # Absent /\ files["tmp"].cands[s] = Absent
                /\ \E cur \in Values :
                       ~searchCompareUnsigned(status.op, prev[s], cur, exactValue)

TmpGen == IF refining THEN status.gen + 1 ELSE 0

ScanProgress ==
    /\ w.pc = "read" => w.cursor < N
    /\ w.pc \in {"open", "pause"} => w.cursor = 0 /\ w.failure = "none"
    /\ w.pc \in {"endPause", "judge"} /\ w.failure = "none" /\ ~cancelRequested
           => w.cursor = N
    /\ hopeful =>
        /\ files["tmp"].present
        /\ files["tmp"].pid = pinned
        /\ files["tmp"].gen = TmpGen
        /\ files["tmp"].count <= w.cursor
        /\ refining => files["dat"].present /\ TmpSoFar(files["dat"].cands, w.cursor)

CommitProgress ==
    /\ w.pc \in {"commit", "promote"} =>
        /\ files["tmp"].sealed
        /\ files["tmp"].pid = pinned
        /\ files["tmp"].gen = TmpGen
    /\ w.pc = "commit" /\ refining =>
        /\ files["dat"].present
        /\ TmpSoFar(files["dat"].cands, N)
    /\ w.pc = "promote" /\ refining =>
        /\ ~files["dat"].present
        /\ TmpSoFar(files["old"].cands, N)
    /\ w.pc = "publish" =>
        /\ files["dat"].sealed
        /\ files["dat"].pid = pinned
        /\ files["dat"].gen = TmpGen

IndInv == TypeOK /\ Coordination /\ BaselineHeld /\ ScanProgress /\ CommitProgress

(***************************************************************************)
(* With pause=1 the values stored so far are the memory of one instant:    *)
(* while the worker holds its pinned session the process is stopped and    *)
(* every stored slot still has the value that was stored.  About           *)
(* beginPause/endPause around the scan loops.                              *)
(***************************************************************************)
PausedScanIsOneInstant ==
    w.held /\ curPid = pinned =>
        /\ paused
        /\ \A s \in Slots : files["tmp"].cands[s] \in {Absent, memory[s]}

(***************************************************************************)
(* The session the files and the status stand for implements               *)
(* SearchSession: a refinement commits the filter of the previous          *)
(* generation that was asked for, or changes nothing.                      *)
(***************************************************************************)
Session == INSTANCE SearchSession WITH
    open     <- status.sid # 0,
    baseline <- IF status.committed
                THEN [committed |-> TRUE, gen |-> Baseline.gen, cands |-> Baseline.cands]
                ELSE [committed |-> FALSE, gen |-> 0, cands |-> NoCands],
    request  <- IF refining THEN <<status.op, exactValue>> ELSE <<"begin", 0>>

ImplementsSession == Session!Spec

(***************************************************************************)
(* A queued or running operation ends (unknownSearchRunQueued always       *)
(* reaches finish), so freezes, policy changes and close are possible      *)
(* again.                                                                  *)
(***************************************************************************)
OperationEnds == active ~> ~active
=============================================================================
