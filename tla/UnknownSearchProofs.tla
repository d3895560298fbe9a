------------------------ MODULE UnknownSearchProofs ------------------------
(***************************************************************************)
(* Proofs about UnknownSearch: its type invariant, that a committed        *)
(* session never loses its baseline, and that it implements SearchSession, *)
(* for every number of slots, values, processes, sessions and generations. *)
(***************************************************************************)
EXTENDS UnknownSearch, TLAPS

USE SessionAssumption, UnknownAssumption

-----------------------------------------------------------------------------
(* Types of the values the actions are built from.                         *)

\* The reset values of unknownSearchInitialize are well typed.
LEMMA ResetTypes ==
    /\ NoFile \in File /\ NoStatus \in Status /\ NoCommand \in Command
    /\ IdleWorker \in Worker /\ NoMemory \in [Slots -> Values] /\ NoCands \in Cands
  <1>1. NoFile \in File
    BY DEF NoFile, File, Gens, Counts, Cands, NoCands, Slots
  <1>2. NoStatus \in Status
    BY DEF NoStatus, Status, Sessions, States, Failures, Gens, Counts
  <1>3. NoCommand \in Command
    BY DEF NoCommand, Command, Values
  <1>4. IdleWorker \in Worker
    BY DEF IdleWorker, Worker, WorkerPc, Failures, Counts
  <1>5. NoMemory \in [Slots -> Values] /\ NoCands \in Cands
    BY DEF NoMemory, NoCands, Cands, Values
  <1> QED BY <1>1, <1>2, <1>3, <1>4, <1>5

\* Storing one more slot keeps session.tmp well typed (searchStoreWriterAddBlock).
LEMMA StoredType ==
    ASSUME TypeOK, NEW v \in Values, w.cursor \in Slots, files["tmp"].count < N
    PROVE  /\ Stored(v) \in File
           /\ Stored(v).present = files["tmp"].present
           /\ Stored(v).sealed = files["tmp"].sealed
           /\ Stored(v).gen = files["tmp"].gen
           /\ Stored(v).pid = files["tmp"].pid
           /\ Stored(v).count = files["tmp"].count + 1
           /\ Stored(v).cands = [files["tmp"].cands EXCEPT ![w.cursor] = v]
  <1> DEFINE f == files["tmp"]
             c == [f.cands EXCEPT ![w.cursor] = v]
  <1>1. f \in File
    BY DEF TypeOK, FileName
  <1>2. f.cands \in Cands /\ f.count \in Counts
    BY <1>1 DEF File
  <1>3. f.count + 1 \in Counts
    BY <1>2 DEF Counts
  <1>4. c \in Cands
    BY <1>2 DEF Cands
  <1>5. Stored(v) = [f EXCEPT !.cands = c, !.count = f.count + 1]
    BY DEF Stored
  <1> HIDE DEF f, c
  <1>6. Stored(v) \in File
    BY <1>1, <1>3, <1>4, <1>5 DEF File
  <1>7. /\ Stored(v).present = f.present /\ Stored(v).sealed = f.sealed
        /\ Stored(v).gen = f.gen /\ Stored(v).pid = f.pid
        /\ Stored(v).count = f.count + 1 /\ Stored(v).cands = c
    BY <1>1, <1>5 DEF File
  <1> QED BY <1>6, <1>7 DEF f, c

\* A new session.tmp carries the pinned process and its generation (makeStoreMetadata).
LEMMA FreshType ==
    ASSUME TypeOK, NEW g \in Gens
    PROVE  FreshFile(g) \in File
  BY ResetTypes DEF TypeOK, FreshFile, File, Counts

-----------------------------------------------------------------------------
\* A freshly booted manager (searchInitialize) satisfies the inductive invariant.
LEMMA InitInv == Init => IndInv
  <1> SUFFICES ASSUME Init PROVE IndInv
    OBVIOUS
  <1> USE DEF Init, Boot
  <1>1. TypeOK
    <2>1. storageAvailable \in BOOLEAN
      BY Zenon
    <2>2. files \in [FileName -> File]
      BY ResetTypes
    <2>3. 1 \in 1 .. MaxSession + 1 /\ 0 \in Values
      BY DEF Values
    <2> QED BY <2>1, <2>2, <2>3, ResetTypes, Zenon DEF TypeOK
  <1>2. Coordination
    BY DEF Coordination, active, refining, NoStatus, IdleWorker, NoCommand, RefineOps
  <1>3. BaselineHeld
    BY DEF BaselineHeld, NoStatus, NoFile
  <1>4. ScanProgress /\ CommitProgress
    BY DEF ScanProgress, CommitProgress, IdleWorker, hopeful, scanning
  <1> QED BY <1>1, <1>2, <1>3, <1>4 DEF IndInv

\* A failed operation goes to its `done:' label; nothing but the worker changes.
LEMMA FailInv ==
    ASSUME IndInv, NEW r \in Failures, r # "none", Fail(r),
           w.pc \in {"open", "pause", "check", "read"},
           UNCHANGED <<mgrVars, cmd, files, envVars>>
    PROVE  IndInv'
  <1> USE DEF IndInv, Fail, mgrVars, envVars
  <1>1. TypeOK'
    BY DEF TypeOK, Worker, WorkerPc
  <1>2. Coordination'
    BY DEF TypeOK, Worker, Coordination, active, refining
  <1>3. BaselineHeld'
    BY DEF TypeOK, Worker, BaselineHeld, Baseline
  <1>4. ScanProgress' /\ CommitProgress'
    BY DEF TypeOK, Worker, ScanProgress, CommitProgress, hopeful, scanning
  <1> QED BY <1>1, <1>2, <1>3, <1>4

(***************************************************************************)
(* An operation that gives up from directory `dir', in which the committed *)
(* generation is still held, leaves the session as it found it.            *)
(***************************************************************************)
LEMMA AbandonInv ==
    ASSUME IndInv, NEW dir \in [FileName -> File], NEW st \in {"cancelled", "error"},
           NEW r \in Failures,
           \A f \in FileName : dir[f].sealed => dir[f].present,
           status.committed =>
               LET b == IF dir["dat"].present THEN dir["dat"] ELSE dir["old"]
               IN  b.present /\ b.sealed /\ b.pid = pinned /\ b.gen = status.gen
                   /\ w.previous = b.count,
           Abandon(st, r, dir),
           w.pc # "idle",
           UNCHANGED <<storageAvailable, cancelRequested, nextSessionId, pinned, exactValue,
                       cmd, envVars>>
    PROVE  IndInv'
  <1> USE DEF IndInv, envVars
  <1>1. PICK t \in {NoFile, dir["tmp"]} : files' = [dir EXCEPT !["tmp"] = t]
    BY DEF Abandon, Removed
  <1>2. t \in File /\ (t.sealed => t.present)
    <2>1. dir["tmp"] \in File /\ (dir["tmp"].sealed => dir["tmp"].present)
      BY DEF FileName
    <2>2. NoFile \in File /\ (NoFile.sealed => NoFile.present)
      BY ResetTypes DEF NoFile
    <2> QED BY <2>1, <2>2
  <1>3. files' \in [FileName -> File]
    BY <1>1, <1>2
  <1>4. /\ files'["dat"] = dir["dat"] /\ files'["old"] = dir["old"]
        /\ \A f \in FileName : files'[f].sealed => files'[f].present
    BY <1>1, <1>2 DEF FileName
  <1> DEFINE keep == status.committed
  <1>5. status.state = "running" /\ status.sid # 0 /\ (status.committed <=> refining)
    BY DEF Coordination, active
  <1>6. w' = IdleWorker
    BY DEF Abandon, finish
  <1> DEFINE n == IF refining THEN w.previous ELSE status.candidates
  <1>7. status' = [status EXCEPT !.state = st, !.failure = r, !.committed = refining,
                     !.resumable = refining /\ r \notin {"processChanged", "corrupt"},
                     !.gen = status.gen, !.candidates = n]
    BY DEF Abandon, finish
  <1>8. n \in Counts /\ status.gen \in Gens /\ status \in Status
    BY DEF TypeOK, Worker, Status
  <1>9. refining \in BOOLEAN /\ (refining /\ r \notin {"processChanged", "corrupt"}) \in BOOLEAN
    BY DEF refining
  <1> HIDE DEF n
  <1>10. status' \in Status
    BY <1>7, <1>8, <1>9 DEF Status, States
  <1>11. /\ status'.sid = status.sid /\ status'.state = st /\ status'.op = status.op
         /\ status'.gen = status.gen /\ status'.candidates = n
         /\ status'.committed = refining
    BY <1>7, <1>8 DEF Status
  <1>12. TypeOK'
    BY <1>3, <1>6, <1>10, ResetTypes DEF TypeOK
  <1>13. Coordination'
    BY <1>5, <1>6, <1>11 DEF Coordination, active, refining, IdleWorker, TypeOK
  <1>14. BaselineHeld'
    <2>1. status.gen + 0 = status.gen
      BY <1>8 DEF Gens
    <2> SUFFICES ASSUME status'.committed
                 PROVE  /\ Baseline'.present /\ Baseline'.sealed
                        /\ Baseline'.pid = pinned /\ Baseline'.gen = status.gen
                        /\ n = Baseline'.count
      BY <1>4, <1>6, <1>11, <2>1 DEF BaselineHeld, IdleWorker
    <2>2. status.committed /\ n = w.previous
      BY <1>5, <1>11 DEF n
    <2> QED BY <1>4, <2>2 DEF Baseline
  <1>15. ScanProgress' /\ CommitProgress'
    BY <1>6 DEF ScanProgress, CommitProgress, hopeful, scanning, IdleWorker
  <1> QED BY <1>12, <1>13, <1>14, <1>15

-----------------------------------------------------------------------------
(* The command dispatcher and the environment preserve the invariant.      *)

\* A step that leaves manager, worker and files alone keeps every conjunct but the types.
LEMMA QuietInv ==
    ASSUME IndInv, TypeOK', UNCHANGED <<mgrVars, w, files>>,
           cmd'.op = "begin" => status.sid = 0 /\ nextSessionId <= MaxSession,
           cmd'.op \in RefineOps => /\ status.sid # 0 /\ status.committed /\ ~active
                                    /\ status.gen < MaxGen
    PROVE  IndInv'
  <1> USE DEF IndInv, mgrVars
  <1>1. Coordination'
    BY DEF Coordination, active, refining
  <1>2. BaselineHeld'
    BY DEF BaselineHeld, Baseline
  <1>3. ScanProgress'
    BY DEF ScanProgress, hopeful, scanning, refining, TmpSoFar, TmpGen
  <1>4. CommitProgress'
    BY DEF CommitProgress, refining, TmpSoFar, TmpGen
  <1> QED BY <1>1, <1>2, <1>3, <1>4

\* unknownSearchBegin up to its unlock only takes the request: nothing protected moves.
LEMMA BeginCheckInv ==
    ASSUME IndInv, NEW pause \in BOOLEAN, BeginCheck(pause) PROVE IndInv'
  <1> USE DEF IndInv, BeginCheck
  <1>1. cmd' \in Command
    BY DEF TypeOK, Command, Values
  <1>2. TypeOK'
    BY <1>1 DEF TypeOK, mgrVars, envVars
  <1> QED BY <1>2, QuietInv DEF RefineOps

\* unknownSearchRefine up to its unlock only takes the request.
LEMMA RefineCheckInv ==
    ASSUME IndInv, NEW op \in RefineOps, NEW value \in Values, NEW pause \in BOOLEAN,
           RefineCheck(op, value, pause)
    PROVE  IndInv'
  <1> USE DEF IndInv, RefineCheck
  <1>1. cmd' \in Command
    BY DEF TypeOK, Command
  <1>2. TypeOK'
    BY <1>1 DEF TypeOK, mgrVars, envVars
  <1> QED BY <1>2, QuietInv DEF RefineOps

\* Queuing generation 0 preserves the invariant: the old files are gone, none is promised.
LEMMA BeginQueueInv == ASSUME IndInv, BeginQueue PROVE IndInv'
  <1> USE DEF IndInv
  <1>1. cmd' = NoCommand /\ cmd.op = "begin" /\ UNCHANGED <<w, files, envVars>>
    BY DEF BeginQueue
  <1>2. status.sid = 0 /\ nextSessionId <= MaxSession
    BY <1>1 DEF Coordination
  <1>3. /\ pinned' = cmd.pid /\ cancelRequested' = FALSE
        /\ status' = [NoStatus EXCEPT !.sid = nextSessionId, !.state = "queued",
                                      !.pause = cmd.pause]
        /\ nextSessionId' = nextSessionId + 1
        /\ UNCHANGED <<storageAvailable, exactValue>>
    BY <1>2 DEF BeginQueue
  <1>4. nextSessionId \in Sessions /\ cmd.pause \in BOOLEAN /\ cmd.pid \in Pids \cup {0}
    BY <1>2 DEF TypeOK, Sessions, Command
  <1>5. status' \in Status
    BY <1>3, <1>4, ResetTypes DEF Status, States
  <1>6. /\ status'.sid = nextSessionId /\ status'.state = "queued"
        /\ status'.op = "begin" /\ ~status'.committed /\ status'.gen = 0
    BY <1>3 DEF NoStatus
  <1>7. TypeOK'
    <2>1. nextSessionId' \in 1 .. MaxSession + 1
      BY <1>3, <1>4 DEF Sessions
    <2> QED BY <1>1, <1>3, <1>4, <1>5, <2>1, ResetTypes, Zenon DEF TypeOK, envVars
  <1>8. w.pc = "idle" /\ w' = w
    BY <1>1, <1>2 DEF Coordination, active
  <1>9. Coordination'
    BY <1>1, <1>4, <1>6, <1>8
       DEF Coordination, active, refining, NoCommand, RefineOps, Sessions
  <1>10. BaselineHeld'
    BY <1>1, <1>6, <1>8 DEF BaselineHeld
  <1>11. ScanProgress' /\ CommitProgress'
    BY <1>8 DEF ScanProgress, CommitProgress, hopeful, scanning
  <1> QED BY <1>7, <1>9, <1>10, <1>11

\* Queuing a refinement preserves the invariant: the committed baseline is untouched.
LEMMA RefineQueueInv == ASSUME IndInv, RefineQueue PROVE IndInv'
  <1> USE DEF IndInv
  <1>1. cmd' = NoCommand /\ cmd.op \in RefineOps /\ UNCHANGED <<w, files, envVars>>
    BY DEF RefineQueue
  <1>2. status.sid # 0 /\ status.committed /\ ~active /\ status.gen < MaxGen
    BY <1>1 DEF Coordination
  <1>3. /\ exactValue' = cmd.value
        /\ status' = [status EXCEPT !.op = cmd.op, !.pause = cmd.pause,
                                    !.state = "queued", !.failure = "none"]
        /\ cancelRequested' = FALSE
        /\ UNCHANGED <<storageAvailable, nextSessionId, pinned>>
    BY <1>2 DEF RefineQueue
  <1>4. cmd.value \in Values /\ cmd.pause \in BOOLEAN /\ status \in Status
    BY DEF TypeOK, Command
  <1>5. status' \in Status
    BY <1>1, <1>3, <1>4 DEF Status, States, Failures
  <1>6. /\ status'.sid = status.sid /\ status'.state = "queued" /\ status'.op = cmd.op
        /\ status'.committed = status.committed /\ status'.gen = status.gen
        /\ status'.candidates = status.candidates
    BY <1>3, <1>4 DEF Status
  <1>7. TypeOK'
    BY <1>1, <1>3, <1>4, <1>5, ResetTypes DEF TypeOK, envVars
  <1>8. w.pc = "idle" /\ w' = w /\ status.state # "running"
    BY <1>1, <1>2 DEF Coordination, active
  <1>9. Coordination'
    BY <1>1, <1>2, <1>6, <1>8 DEF Coordination, active, refining, NoCommand, RefineOps
  <1>10. BaselineHeld'
    BY <1>1, <1>3, <1>6, <1>8 DEF BaselineHeld, Baseline
  <1>11. ScanProgress' /\ CommitProgress'
    BY <1>8 DEF ScanProgress, CommitProgress, hopeful, scanning
  <1> QED BY <1>7, <1>9, <1>10, <1>11

\* unknownSearchCancel preserves the invariant, whether it finds the operation queued or running.
LEMMA CancelInv == ASSUME IndInv, unknownSearchCancel PROVE IndInv'
  <1> USE DEF IndInv, unknownSearchCancel, envVars
  <1>1. TypeOK'
    BY DEF TypeOK
  <1>2. Coordination'
    BY DEF Coordination, active, refining
  <1>3. BaselineHeld'
    BY DEF BaselineHeld, Baseline
  <1>4. ScanProgress'
    BY DEF ScanProgress, hopeful, scanning, refining, TmpSoFar, TmpGen
  <1>5. CommitProgress'
    BY DEF CommitProgress, refining, TmpSoFar, TmpGen
  <1> QED BY <1>1, <1>2, <1>3, <1>4, <1>5

\* unknownSearchClose preserves the invariant: it forgets the session and its files together.
LEMMA CloseInv == ASSUME IndInv, unknownSearchClose PROVE IndInv'
  <1> USE DEF IndInv, unknownSearchClose
  <1>1. PICK t \in Removed(files["tmp"]), o \in Removed(files["old"]),
             d \in Removed(files["dat"]) :
             files' = [files EXCEPT !["tmp"] = t, !["old"] = o, !["dat"] = d]
    OBVIOUS
  <1>2. \A f \in FileName : \A g \in Removed(files[f]) :
            g \in File /\ (g.sealed => g.present)
    <2>1. NoFile \in File /\ ~NoFile.sealed
      BY ResetTypes DEF NoFile
    <2> QED BY <2>1 DEF TypeOK, Removed, BaselineHeld
  <1>3. "tmp" \in FileName /\ "old" \in FileName /\ "dat" \in FileName
    BY DEF FileName
  <1>4. files' \in [FileName -> File]
    BY <1>1, <1>2, <1>3 DEF TypeOK
  <1>5. \A f \in FileName : files'[f].sealed => files'[f].present
    BY <1>1, <1>2, <1>3 DEF TypeOK, FileName
  <1>6. TypeOK'
    BY <1>4, ResetTypes DEF TypeOK, envVars
  <1>7. w.pc = "idle" /\ w' = w
    BY DEF Coordination, active
  <1>8. Coordination'
    BY <1>7 DEF Coordination, active, refining, NoStatus, RefineOps
  <1>9. BaselineHeld'
    BY <1>5 DEF BaselineHeld, NoStatus
  <1>10. ScanProgress' /\ CommitProgress'
    BY <1>7 DEF ScanProgress, CommitProgress, hopeful, scanning
  <1> QED BY <1>6, <1>8, <1>9, <1>10

\* A reboot preserves the invariant: the manager restarts with no session and no promise.
LEMMA RestartInv == ASSUME IndInv, Restart PROVE IndInv'
  <1> USE DEF IndInv, Restart
  <1>1. PICK fs \in [FileName -> {NoFile} \cup {files[f] : f \in FileName}] :
            /\ \A f \in FileName : fs[f] \in Removed(files[f])
            /\ files' = fs
            /\ storageAvailable' \in
                   IF \E f \in FileName : fs[f].present THEN {FALSE} ELSE BOOLEAN
    OBVIOUS
  <1>2. \A f \in FileName : fs[f] \in File /\ (fs[f].sealed => fs[f].present)
    <2>1. NoFile \in File /\ ~NoFile.sealed
      BY ResetTypes DEF NoFile
    <2> QED BY <1>1, <2>1 DEF TypeOK, Removed, BaselineHeld
  <1>3. files' \in [FileName -> File]
    BY <1>1, <1>2
  <1>4. storageAvailable' \in BOOLEAN
    BY <1>1, Zenon
  <1>5. TypeOK'
    <2>1. 1 \in 1 .. MaxSession + 1 /\ 0 \in Values
      BY DEF Values
    <2> QED BY <1>3, <1>4, <2>1, ResetTypes DEF TypeOK
  <1>6. Coordination'
    BY DEF Coordination, active, refining, NoStatus, IdleWorker, NoCommand, RefineOps
  <1>7. BaselineHeld'
    BY <1>1, <1>2 DEF BaselineHeld, NoStatus
  <1>8. ScanProgress' /\ CommitProgress'
    BY DEF ScanProgress, CommitProgress, IdleWorker, hopeful, scanning
  <1> QED BY <1>5, <1>6, <1>7, <1>8

\* What the game does (writes, exit, launch) touches neither files nor session.
LEMMA GameInv ==
    ASSUME IndInv, GameWrite \/ ProcessExit \/ \E pid \in Pids : ProcessLaunch(pid)
    PROVE  IndInv'
  <1>1. TypeOK'
    <2>1. CASE GameWrite
      BY <2>1 DEF IndInv, GameWrite, TypeOK, mgrVars
    <2>2. CASE ProcessExit
      BY <2>2, ResetTypes DEF IndInv, ProcessExit, TypeOK, mgrVars
    <2>3. CASE \E pid \in Pids : ProcessLaunch(pid)
      BY <2>3 DEF IndInv, ProcessLaunch, TypeOK, mgrVars
    <2> QED BY <2>1, <2>2, <2>3
  <1>2. UNCHANGED <<mgrVars, cmd, w, files>>
    BY DEF GameWrite, ProcessExit, ProcessLaunch
  <1> QED BY <1>1, <1>2, QuietInv DEF IndInv, Coordination

-----------------------------------------------------------------------------
(* The search worker preserves the invariant.                              *)

\* The worker picking up the queued operation preserves the invariant.
LEMMA RunQueuedInv == ASSUME IndInv, RunQueued PROVE IndInv'
  <1> USE DEF IndInv, RunQueued
  <1>1. status' \in Status
    BY DEF TypeOK, Status, States
  <1>2. w' \in Worker
    <2>1. status.candidates \in Counts /\ "open" \in WorkerPc
      BY DEF TypeOK, Status, WorkerPc
    <2> QED BY <2>1, ResetTypes DEF Worker
  <1>3. TypeOK'
    BY <1>1, <1>2 DEF TypeOK, envVars
  <1>4. Coordination'
    BY DEF TypeOK, Status, Coordination, active, refining, IdleWorker
  <1>5. BaselineHeld'
    BY DEF TypeOK, Status, BaselineHeld, Baseline, IdleWorker
  <1>6. ScanProgress' /\ CommitProgress'
    BY DEF TypeOK, Status, ScanProgress, CommitProgress, hopeful, scanning, IdleWorker
  <1> QED BY <1>3, <1>4, <1>5, <1>6

\* session.tmp is created anew; the committed files are not touched.
LEMMA OpenFilesInv == ASSUME IndInv, OpenFiles PROVE IndInv'
  <1> USE DEF IndInv
  <1>0. w.pc = "open" /\ UNCHANGED <<mgrVars, cmd, envVars>>
    BY DEF OpenFiles
  <1>1. CASE UNCHANGED files /\ \E r \in Failures : r # "none" /\ Fail(r)
    BY <1>0, <1>1, FailInv
  <1>2. ASSUME NEW pc \in {"pause", "endPause"}, NEW r \in {"none", "ioError"},
               pc = "pause" <=> r = "none",
               w' = [w EXCEPT !.pc = pc, !.writer = TRUE, !.failure = r],
               files' = [files EXCEPT !["tmp"] = FreshFile(TmpGen)],
               w.failure = "none", w.cursor = 0,
               refining => files["dat"].present
        PROVE  IndInv'
    <2> USE <1>0, <1>2 DEF mgrVars, envVars
    <2>1. TmpGen \in Gens
      BY DEF TmpGen, TypeOK, Status, Gens, Coordination, active, refining
    <2>2. FreshFile(TmpGen) \in File
      BY <2>1, FreshType
    <2>3. w' \in Worker
      BY DEF TypeOK, Worker, WorkerPc, Failures
    <2>4. /\ w'.pc = pc /\ w'.failure = r /\ w'.cursor = 0
          /\ w'.previous = w.previous
      BY DEF TypeOK, Worker
    <2>5. files' \in [FileName -> File]
      BY <2>2 DEF TypeOK
    <2>6. /\ files'["tmp"] = FreshFile(TmpGen) /\ files'["dat"] = files["dat"]
          /\ files'["old"] = files["old"]
      BY DEF TypeOK, FileName
    <2>7. TypeOK'
      BY <2>3, <2>5 DEF TypeOK
    <2>8. Coordination'
      BY <2>4 DEF Coordination, active, refining
    <2>9. BaselineHeld'
      BY <2>4, <2>6 DEF BaselineHeld, Baseline, FileName, FreshFile
    <2>10. ScanProgress'
      <3>1. /\ files'["tmp"].present /\ files'["tmp"].pid = pinned /\ files'["tmp"].count = 0
            /\ files'["tmp"].gen = TmpGen /\ files'["tmp"].cands = NoCands
        BY <2>6 DEF FreshFile
      <3>2. refining => TmpSoFar(files["dat"].cands, 0)'
        BY <3>1, <2>6 DEF TmpSoFar, NoCands, Slots
      <3>3. refining' <=> refining
        BY DEF refining
      <3>4. TmpGen' = TmpGen
        BY DEF TmpGen, refining
      <3>5. 0 < N /\ 0 <= 0
        OBVIOUS
      <3>6. hopeful' => pc = "pause"
        BY <2>4 DEF hopeful, scanning
      <3> QED BY <2>4, <2>6, <3>1, <3>2, <3>3, <3>4, <3>5, <3>6 DEF ScanProgress
    <2>11. CommitProgress'
      BY <2>4 DEF CommitProgress
    <2> QED BY <2>7, <2>8, <2>9, <2>10, <2>11
  <1>3. w.failure = "none" /\ w.cursor = 0
    BY <1>0 DEF ScanProgress
  <1>4. CASE /\ ~refining
             /\ files' = [files EXCEPT !["tmp"] = FreshFile(0)]
             /\ w' = [w EXCEPT !.pc = "pause", !.writer = TRUE]
    <2>1. w' = [w EXCEPT !.pc = "pause", !.writer = TRUE, !.failure = "none"]
      BY <1>3, <1>4 DEF TypeOK, Worker
    <2> QED BY <1>2, <1>3, <1>4, <2>1 DEF TmpGen
  <1>5. CASE /\ refining
             /\ files["dat"].sealed
             /\ files' = [files EXCEPT !["tmp"] = FreshFile(status.gen + 1)]
             /\ \/ w' = [w EXCEPT !.pc = "pause", !.writer = TRUE]
                \/ w' = [w EXCEPT !.pc = "endPause", !.writer = TRUE, !.failure = "ioError"]
    <2>1. \/ w' = [w EXCEPT !.pc = "pause", !.writer = TRUE, !.failure = "none"]
          \/ w' = [w EXCEPT !.pc = "endPause", !.writer = TRUE, !.failure = "ioError"]
      BY <1>3, <1>5, ZenonT(40) DEF TypeOK, Worker
    <2>2. files["dat"].present
      BY <1>5 DEF BaselineHeld, FileName
    <2> QED BY <1>2, <1>3, <1>5, <2>1, <2>2 DEF TmpGen
  <1> QED BY <1>1, <1>4, <1>5 DEF OpenFiles, Failures

(***************************************************************************)
(* A move of the worker along the scan: only its program counter, failure, *)
(* `held' and the pause of the process change.                             *)
(***************************************************************************)
LEMMA MoveInv ==
    ASSUME IndInv, w' \in Worker, paused' \in BOOLEAN,
           w'.cursor = w.cursor, w'.previous = w.previous,
           w.pc \in {"pause", "check", "endPause"},
           w'.pc \in {"check", "read", "endPause", "judge"},
           w'.pc = "read" => w.cursor < N,
           w'.pc \in {"check", "read"} => scanning,
           w'.pc = "endPause" => scanning,
           w'.pc = "judge" => w.pc = "endPause" /\ (w'.failure = "none" => w.failure = "none"),
           w'.pc = "endPause" /\ w'.failure = "none" => w.cursor = N \/ cancelRequested,
           UNCHANGED <<mgrVars, cmd, files, curPid, memory>>
    PROVE  IndInv'
  <1> USE DEF IndInv, mgrVars
  <1>1. TypeOK'
    BY DEF TypeOK
  <1>2. Coordination'
    BY DEF Coordination, active, refining
  <1>3. BaselineHeld'
    BY DEF BaselineHeld, Baseline
  <1>4. ScanProgress'
    <2>1. hopeful' => hopeful
      BY DEF hopeful, scanning
    <2>2. /\ refining' = refining /\ TmpGen' = TmpGen
          /\ TmpSoFar(files["dat"].cands, w.cursor)' = TmpSoFar(files["dat"].cands, w.cursor)
      BY DEF refining, TmpGen, TmpSoFar
    <2> QED BY <2>1, <2>2 DEF ScanProgress
  <1>5. CommitProgress'
    BY DEF CommitProgress
  <1> QED BY <1>1, <1>2, <1>3, <1>4, <1>5

\* beginPause preserves the invariant, pausing or failing.
LEMMA beginPauseInv == ASSUME IndInv, beginPause PROVE IndInv'
  <1> USE DEF IndInv
  <1>1. CASE UNCHANGED paused /\ \E r \in {"processChanged", "pauseFailed"} : Fail(r)
    BY <1>1, FailInv DEF beginPause, Failures, envVars
  <1>2. CASE w' = [w EXCEPT !.pc = "check"] /\ UNCHANGED paused
    <2>1. w' \in Worker /\ w'.cursor = w.cursor /\ w'.previous = w.previous /\ w'.pc = "check"
      BY <1>2 DEF TypeOK, Worker, WorkerPc
    <2> QED BY <1>2, <2>1, MoveInv DEF beginPause, scanning, TypeOK
  <1>3. CASE w' = [w EXCEPT !.pc = "check", !.held = TRUE] /\ paused' = TRUE
    <2>1. w' \in Worker /\ w'.cursor = w.cursor /\ w'.previous = w.previous /\ w'.pc = "check"
      BY <1>3 DEF TypeOK, Worker, WorkerPc
    <2> QED BY <1>3, <2>1, MoveInv DEF beginPause, scanning
  <1> QED BY <1>1, <1>2, <1>3 DEF beginPause

\* The check between two chunks (cancel, process) preserves the invariant.
LEMMA ScanCheckInv == ASSUME IndInv, ScanCheck PROVE IndInv'
  <1> USE DEF IndInv
  <1>1. CASE Fail("processChanged")
    BY <1>1, FailInv DEF ScanCheck, Failures
  <1>2. CASE w' = [w EXCEPT !.pc = "endPause"] /\ (w.cursor = N \/ cancelRequested)
    <2>1. w' \in Worker /\ w'.cursor = w.cursor /\ w'.previous = w.previous /\ w'.pc = "endPause"
      BY <1>2 DEF TypeOK, Worker, WorkerPc
    <2> QED BY <1>2, <2>1, MoveInv DEF ScanCheck, scanning, TypeOK, envVars
  <1>3. CASE w' = [w EXCEPT !.pc = "read"] /\ w.cursor < N
    <2>1. w' \in Worker /\ w'.cursor = w.cursor /\ w'.previous = w.previous /\ w'.pc = "read"
      BY <1>3 DEF TypeOK, Worker, WorkerPc
    <2> QED BY <1>3, <2>1, MoveInv DEF ScanCheck, scanning, TypeOK, envVars
  <1> QED BY <1>1, <1>2, <1>3 DEF ScanCheck

\* endPause preserves the invariant: a failed resume becomes the failure.
LEMMA endPauseInv == ASSUME IndInv, endPause PROVE IndInv'
  <1> USE DEF IndInv
  <1>1. /\ w' \in Worker /\ w'.cursor = w.cursor /\ w'.previous = w.previous /\ w'.pc = "judge"
        /\ w'.failure \in {w.failure, "pauseFailed"}
    BY DEF endPause, TypeOK, Worker, WorkerPc, Failures
  <1>2. paused' \in BOOLEAN
    BY Zenon DEF endPause, TypeOK
  <1> QED BY <1>1, <1>2, MoveInv DEF endPause

(***************************************************************************)
(* One slot passed: session.tmp becomes t, which differs from it at the    *)
(* cursor at most, and there as the filter says.                           *)
(***************************************************************************)
LEMMA AdvanceInv ==
    ASSUME IndInv, w.pc = "read", NEW t \in File, Advance(t),
           t.present = files["tmp"].present, t.sealed = files["tmp"].sealed,
           t.gen = files["tmp"].gen, t.pid = files["tmp"].pid,
           t.count \in {files["tmp"].count, files["tmp"].count + 1},
           \A s \in Slots \ {w.cursor} : t.cands[s] = files["tmp"].cands[s],
           refining =>
               LET old == files["dat"].cands[w.cursor]
                   new == t.cands[w.cursor]
               IN  \/ old = Absent /\ new = Absent
                   \/ /\ old # Absent /\ new # Absent
                      /\ searchCompareUnsigned(status.op, old, new, exactValue)
                   \/ /\ old # Absent /\ new = Absent
                      /\ \E cur \in Values :
                             ~searchCompareUnsigned(status.op, old, cur, exactValue),
           UNCHANGED <<storageAvailable, cancelRequested, nextSessionId, pinned, exactValue,
                       cmd, envVars>>
    PROVE  IndInv'
  <1> USE DEF IndInv, envVars
  <1>1. w.cursor \in Nat /\ w.cursor < N
    BY DEF TypeOK, Worker, Counts, ScanProgress
  <1>2. /\ w' \in Worker /\ w'.pc = "check" /\ w'.cursor = w.cursor + 1
        /\ w'.previous = w.previous /\ w'.failure = w.failure
    <2>1. w.cursor + 1 \in Counts
      BY <1>1 DEF Counts
    <2> QED BY <2>1 DEF Advance, TypeOK, Worker, WorkerPc
  <1>3. /\ status' \in Status /\ status'.sid = status.sid /\ status'.state = status.state
        /\ status'.op = status.op /\ status'.gen = status.gen
        /\ status'.committed = status.committed
    BY DEF Advance, TypeOK, Status, File
  <1>4. /\ files' \in [FileName -> File] /\ files'["tmp"] = t
        /\ files'["dat"] = files["dat"] /\ files'["old"] = files["old"]
    BY DEF Advance, TypeOK, FileName
  <1>5. TypeOK'
    BY <1>2, <1>3, <1>4 DEF TypeOK
  <1>6. Coordination'
    BY <1>2, <1>3 DEF Coordination, active, refining
  <1>7. BaselineHeld'
    <2>1. status.state = "running"
      BY DEF Coordination
    <2> QED BY <1>2, <1>3, <1>4, <2>1 DEF BaselineHeld, Baseline, FileName
  <1>8. ScanProgress'
    <2>1. hopeful /\ refining' = refining /\ TmpGen' = TmpGen
      BY <1>3 DEF hopeful, scanning, refining, TmpGen
    <2>2. /\ files'["tmp"].present /\ files'["tmp"].pid = pinned
          /\ files'["tmp"].gen = TmpGen /\ files'["tmp"].count <= w.cursor + 1
      <3>1. files["tmp"].count \in Nat
        BY DEF TypeOK, FileName, File, Counts
      <3> QED BY <1>1, <1>4, <2>1, <3>1 DEF ScanProgress
    <2>3. ASSUME refining
          PROVE  files'["dat"].present /\ TmpSoFar(files["dat"].cands, w.cursor)'
      <3>1. files["dat"].present /\ TmpSoFar(files["dat"].cands, w.cursor)
        BY <2>1, <2>3 DEF ScanProgress
      <3>2. \A s \in Slots : s >= w.cursor + 1 => t.cands[s] = Absent
        BY <1>1, <3>1 DEF TmpSoFar, Slots
      <3>3. \A s \in Slots : ~(s >= w.cursor + 1) /\ s # w.cursor => ~(s >= w.cursor)
        BY <1>1 DEF Slots
      <3>4. w.cursor \in Slots
        BY <1>1 DEF Slots
      <3> QED BY <1>2, <1>3, <1>4, <2>3, <3>1, <3>2, <3>3, <3>4 DEF TmpSoFar
    <2> QED BY <1>2, <2>1, <2>2, <2>3 DEF ScanProgress
  <1>9. CommitProgress'
    BY <1>2 DEF CommitProgress
  <1> QED BY <1>5, <1>6, <1>7, <1>8, <1>9

\* The slot under the cursor is free and there is room to count it.
LEMMA CursorFacts ==
    ASSUME IndInv, w.pc = "read"
    PROVE  /\ w.cursor \in Slots
           /\ files["tmp"] \in File
           /\ files["tmp"].count < N
           /\ memory[w.cursor] \in Values
           /\ refining => files["tmp"].cands[w.cursor] = Absent
           /\ files["tmp"].cands \in [Slots -> Values \cup {Absent}]
  <1> USE DEF IndInv
  <1>1. w.cursor \in Nat /\ w.cursor < N
    BY DEF TypeOK, Worker, Counts, ScanProgress
  <1>2. w.cursor \in Slots /\ files["tmp"] \in File
    BY <1>1 DEF Slots, TypeOK, FileName
  <1>3. files["tmp"].count \in Nat /\ files["tmp"].cands \in Cands
    BY <1>2 DEF File, Counts
  <1>4. hopeful
    BY DEF hopeful, scanning
  <1>5. refining => files["tmp"].cands[w.cursor] = Absent
    BY <1>1, <1>2, <1>4 DEF ScanProgress, TmpSoFar
  <1> QED BY <1>1, <1>2, <1>3, <1>4, <1>5 DEF ScanProgress, TypeOK, Cands

\* Storing one slot of generation 0 keeps the temporary file equal to what was scanned.
LEMMA SnapshotSlotInv == ASSUME IndInv, SnapshotSlot PROVE IndInv'
  <1>0. /\ w.pc = "read" /\ ~refining
        /\ UNCHANGED <<storageAvailable, cancelRequested, nextSessionId, pinned, exactValue,
                       cmd, envVars>>
    BY DEF SnapshotSlot
  <1>1. CASE \E r \in Failures : r # "none" /\ ScanFail(r)
    BY <1>0, <1>1, FailInv DEF ScanFail, mgrVars
  <1>2. CASE Advance(files["tmp"])
    BY <1>0, <1>2, CursorFacts, AdvanceInv
  <1>3. CASE Advance(Stored(memory[w.cursor]))
    <2> DEFINE t == Stored(memory[w.cursor])
    <2>1. /\ t \in File /\ t.present = files["tmp"].present /\ t.sealed = files["tmp"].sealed
          /\ t.gen = files["tmp"].gen /\ t.pid = files["tmp"].pid
          /\ t.count = files["tmp"].count + 1
          /\ t.cands = [files["tmp"].cands EXCEPT ![w.cursor] = memory[w.cursor]]
      BY <1>0, CursorFacts, StoredType DEF IndInv
    <2>2. \A s \in Slots \ {w.cursor} : t.cands[s] = files["tmp"].cands[s]
      BY <1>0, <2>1, CursorFacts
    <2> HIDE DEF t
    <2> QED BY <1>0, <1>3, <2>1, <2>2, AdvanceInv DEF t
  <1> QED BY <1>1, <1>2, <1>3 DEF SnapshotSlot, Failures

\* Storing or dropping one candidate keeps the temporary file a filter of the baseline.
LEMMA RefineSlotInv == ASSUME IndInv, RefineSlot PROVE IndInv'
  <1> DEFINE before == files["dat"].cands[w.cursor]
             now    == memory[w.cursor]
             keep   == searchCompareUnsigned(status.op, before, now, exactValue)
  <1>0. /\ w.pc = "read" /\ refining
        /\ UNCHANGED <<storageAvailable, cancelRequested, nextSessionId, pinned, exactValue,
                       cmd, envVars>>
    BY DEF RefineSlot
  <1>1. CASE \E r \in Failures : r # "none" /\ ScanFail(r)
    BY <1>0, <1>1, FailInv DEF ScanFail, mgrVars
  <1>2. CASE Advance(files["tmp"]) /\ (before = Absent \/ ~keep)
    BY <1>0, <1>2, CursorFacts, AdvanceInv
  <1>3. CASE Advance(Stored(now)) /\ before # Absent /\ keep
    <2> DEFINE t == Stored(now)
    <2>1. /\ t \in File /\ t.present = files["tmp"].present /\ t.sealed = files["tmp"].sealed
          /\ t.gen = files["tmp"].gen /\ t.pid = files["tmp"].pid
          /\ t.count = files["tmp"].count + 1
          /\ t.cands = [files["tmp"].cands EXCEPT ![w.cursor] = now]
      BY <1>0, CursorFacts, StoredType DEF IndInv
    <2>2. \A s \in Slots \ {w.cursor} : t.cands[s] = files["tmp"].cands[s]
      BY <1>0, <2>1, CursorFacts
    <2>3. t.cands[w.cursor] = now /\ now # Absent
      BY <1>0, <2>1, CursorFacts DEF Absent, Values
    <2> HIDE DEF t
    <2> QED BY <1>0, <1>3, <2>1, <2>2, <2>3, AdvanceInv DEF t
  <1>4. \/ ScanFail("corrupt") \/ ScanFail("ioError")
        \/ Advance(files["tmp"]) /\ (before = Absent \/ ~keep)
        \/ Advance(Stored(now)) /\ before # Absent /\ keep
    BY DEF RefineSlot
  <1>5. "corrupt" \in Failures /\ "ioError" \in Failures
    BY DEF Failures
  <1> QED BY <1>1, <1>2, <1>3, <1>4, <1>5

\* In the running states the baseline is where BaselineHeld says, uncounted generations aside.
LEMMA HeldNow ==
    ASSUME IndInv, w.pc \notin {"idle", "publish"}
    PROVE  /\ \A f \in FileName : files[f].sealed => files[f].present
           /\ status.committed =>
               /\ Baseline.present /\ Baseline.sealed
               /\ Baseline.pid = pinned /\ Baseline.gen = status.gen
               /\ w.previous = Baseline.count
  <1>1. status.gen + 0 = status.gen
    BY DEF IndInv, TypeOK, Status, Gens
  <1> QED BY <1>1 DEF IndInv, BaselineHeld

\* The verdict after the scan preserves the invariant, sealing or abandoning the temporary file.
LEMMA JudgeInv == ASSUME IndInv, Judge PROVE IndInv'
  <1> USE DEF IndInv
  <1>0. /\ w.pc = "judge"
        /\ UNCHANGED <<storageAvailable, cancelRequested, nextSessionId, pinned, exactValue,
                       cmd, envVars>>
    BY DEF Judge
  <1>1. CASE \E st \in {"cancelled", "error"}, r \in Failures : Abandon(st, r, files)
    <2>1. files \in [FileName -> File]
      BY DEF TypeOK
    <2> QED BY <1>0, <1>1, <2>1, HeldNow, AbandonInv DEF Baseline
  <1>2. CASE /\ ~cancelRequested /\ w.failure = "none"
             /\ files' = [files EXCEPT !["tmp"].sealed = TRUE]
             /\ w' = [w EXCEPT !.pc = "commit"]
             /\ UNCHANGED status
    <2> USE <1>0, <1>2 DEF envVars
    <2>1. /\ w' \in Worker /\ w'.pc = "commit" /\ w'.previous = w.previous
      BY DEF TypeOK, Worker, WorkerPc
    <2> DEFINE t == [files["tmp"] EXCEPT !.sealed = TRUE]
    <2>2. /\ t \in File /\ t.sealed /\ t.present = files["tmp"].present
          /\ t.gen = files["tmp"].gen /\ t.pid = files["tmp"].pid
          /\ t.cands = files["tmp"].cands
      BY DEF TypeOK, FileName, File
    <2>3. files' = [files EXCEPT !["tmp"] = t]
      OBVIOUS
    <2> HIDE DEF t
    <2>4. /\ files' \in [FileName -> File] /\ files'["tmp"] = t
          /\ files'["dat"] = files["dat"] /\ files'["old"] = files["old"]
      BY <2>2, <2>3, ZenonT(40) DEF TypeOK, FileName
    <2>5. hopeful /\ w.cursor = N
      BY DEF hopeful, ScanProgress
    <2>6. TypeOK'
      BY <2>1, <2>4 DEF TypeOK
    <2>7. Coordination'
      BY <2>1 DEF Coordination, active, refining
    <2>8. BaselineHeld'
      BY <2>1, <2>2, <2>4, <2>5 DEF BaselineHeld, Baseline, FileName, ScanProgress
    <2>9. ScanProgress'
      BY <2>1 DEF ScanProgress, hopeful, scanning
    <2>10. CommitProgress'
      <3>1. refining' = refining /\ TmpGen' = TmpGen
        BY DEF refining, TmpGen
      <3>2. refining => files["dat"].present /\ TmpSoFar(files["dat"].cands, N)
        BY <2>5 DEF ScanProgress
      <3>3. refining => TmpSoFar(files["dat"].cands, N)'
        BY <2>2, <2>4, <3>2 DEF TmpSoFar
      <3> QED BY <2>1, <2>2, <2>4, <2>5, <3>1, <3>2, <3>3 DEF CommitProgress, ScanProgress
    <2> QED BY <2>6, <2>7, <2>8, <2>9, <2>10
  <1> QED BY <1>0, <1>1, <1>2 DEF Judge, Failures, TypeOK, Worker

\* remove() leaves a file or nothing in place of a file.
LEMMA RemovedType ==
    ASSUME IndInv, NEW f \in FileName, NEW o \in Removed(files[f])
    PROVE  o \in File /\ (o.sealed => o.present)
  <1>1. NoFile \in File /\ ~NoFile.sealed
    BY ResetTypes DEF NoFile
  <1> QED BY <1>1 DEF Removed, IndInv, TypeOK, BaselineHeld

\* The first half of searchStoreCommit: the current generation moves to session.old.
LEMMA RetireInv == ASSUME IndInv, Retire PROVE IndInv'
  <1> USE DEF IndInv
  <1>0. /\ w.pc = "commit"
        /\ UNCHANGED <<storageAvailable, cancelRequested, nextSessionId, pinned, exactValue,
                       cmd, envVars>>
    BY DEF Retire
  <1>1. PICK o \in Removed(files["old"]) :
        LET dir == [files EXCEPT !["old"] = o] IN
        \/ /\ ~refining
           /\ files' = dir
           /\ w' = [w EXCEPT !.pc = "promote"]
           /\ UNCHANGED status
        \/ /\ refining /\ files["dat"].present /\ ~o.present
           /\ files' = [dir EXCEPT !["old"] = files["dat"], !["dat"] = NoFile]
           /\ w' = [w EXCEPT !.pc = "promote"]
           /\ UNCHANGED status
        \/ /\ refining
           /\ Abandon("error", "ioError", dir)
    BY DEF Retire
  <1> DEFINE dir == [files EXCEPT !["old"] = o]
  <1>2. "old" \in FileName /\ "dat" \in FileName /\ "tmp" \in FileName
    BY DEF FileName
  <1>3. o \in File /\ (o.sealed => o.present)
    BY <1>2, RemovedType
  <1>4. /\ dir \in [FileName -> File] /\ dir["old"] = o
        /\ dir["dat"] = files["dat"] /\ dir["tmp"] = files["tmp"]
    BY <1>2, <1>3 DEF TypeOK
  <1>5. \A f \in FileName : dir[f].sealed => dir[f].present
    BY <1>3, <1>4 DEF FileName, BaselineHeld
  <1>6. status.committed <=> refining
    BY <1>0 DEF Coordination, active
  <1>7. CASE refining /\ Abandon("error", "ioError", dir)
    <2>1. files["dat"].present
      BY <1>0, <1>7 DEF CommitProgress
    <2>2. "ioError" \in Failures
      BY DEF Failures
    <2> HIDE DEF dir
    <2> QED BY <1>0, <1>4, <1>5, <1>7, <2>1, <2>2, HeldNow, AbandonInv DEF Baseline
  <1>8. ASSUME w' = [w EXCEPT !.pc = "promote"], UNCHANGED status,
               files' \in [FileName -> File], files'["tmp"] = files["tmp"],
               refining => files'["old"] = files["dat"] /\ files'["dat"] = NoFile,
               \A f \in FileName : files'[f].sealed => files'[f].present
        PROVE  IndInv'
    <2> USE <1>0, <1>8 DEF envVars
    <2>1. w' \in Worker /\ w'.pc = "promote" /\ w'.previous = w.previous
      BY DEF TypeOK, Worker, WorkerPc
    <2>2. TypeOK'
      BY <2>1 DEF TypeOK
    <2>3. Coordination'
      BY <2>1 DEF Coordination, active, refining
    <2>4. BaselineHeld'
      <3>1. refining => files["dat"].present
        BY DEF CommitProgress
      <3>2. ~NoFile.present
        BY DEF NoFile
      <3> QED BY <1>6, <2>1, <3>1, <3>2 DEF BaselineHeld, Baseline
    <2>5. ScanProgress'
      BY <2>1 DEF ScanProgress, hopeful, scanning
    <2>6. CommitProgress'
      <3>1. refining' = refining /\ TmpGen' = TmpGen
        BY DEF refining, TmpGen
      <3>2. refining => TmpSoFar(files["old"].cands, N)'
        BY DEF CommitProgress, TmpSoFar
      <3> QED BY <2>1, <3>1, <3>2 DEF CommitProgress, NoFile
    <2> QED BY <2>2, <2>3, <2>4, <2>5, <2>6
  <1>9. CASE ~refining /\ files' = dir /\ w' = [w EXCEPT !.pc = "promote"] /\ UNCHANGED status
    <2> HIDE DEF dir
    <2> QED BY <1>4, <1>5, <1>8, <1>9
  <1>10. CASE /\ refining /\ files["dat"].present /\ ~o.present
              /\ files' = [dir EXCEPT !["old"] = files["dat"], !["dat"] = NoFile]
              /\ w' = [w EXCEPT !.pc = "promote"]
              /\ UNCHANGED status
    <2> HIDE DEF dir
    <2>1. files["dat"] \in File /\ NoFile \in File /\ ~NoFile.sealed
      BY <1>2, ResetTypes DEF TypeOK, NoFile
    <2>2. /\ files' \in [FileName -> File] /\ files'["tmp"] = files["tmp"]
          /\ files'["old"] = files["dat"] /\ files'["dat"] = NoFile
      BY <1>2, <1>4, <1>10, <2>1
    <2>3. \A f \in FileName : files'[f].sealed => files'[f].present
      BY <1>2, <2>1, <2>2 DEF FileName, BaselineHeld
    <2> QED BY <1>8, <1>10, <2>2, <2>3
  <1> QED BY <1>1, <1>7, <1>9, <1>10

\* The second half of searchStoreCommit, with its rollback.
LEMMA PromoteInv == ASSUME IndInv, Promote PROVE IndInv'
  <1> USE DEF IndInv
  <1>0. /\ w.pc = "promote"
        /\ UNCHANGED <<storageAvailable, cancelRequested, nextSessionId, pinned, exactValue,
                       cmd, envVars>>
    BY DEF Promote
  <1>1. "old" \in FileName /\ "dat" \in FileName /\ "tmp" \in FileName /\ "ioError" \in Failures
    BY DEF FileName, Failures
  <1>2. NoFile \in File /\ ~NoFile.sealed /\ ~NoFile.present
    BY ResetTypes DEF NoFile
  <1>3. status.committed <=> refining
    BY <1>0 DEF Coordination, active
  <1>4. files \in [FileName -> File] /\ \A f \in FileName : files[f].sealed => files[f].present
    BY DEF TypeOK, BaselineHeld
  <1>5. CASE Abandon("error", "ioError", files)
    BY <1>0, <1>1, <1>4, <1>5, HeldNow, AbandonInv DEF Baseline
  <1>6. CASE /\ refining
             /\ Abandon("error", "ioError",
                        [files EXCEPT !["dat"] = files["old"], !["old"] = NoFile])
    <2> DEFINE dir == [files EXCEPT !["dat"] = files["old"], !["old"] = NoFile]
    <2>1. /\ dir \in [FileName -> File] /\ dir["dat"] = files["old"] /\ dir["old"] = NoFile
          /\ dir["tmp"] = files["tmp"]
      BY <1>1, <1>2, <1>4
    <2>2. \A f \in FileName : dir[f].sealed => dir[f].present
      BY <1>1, <1>2, <1>4, <2>1 DEF FileName
    <2>3. ~files["dat"].present
      BY <1>0, <1>6 DEF CommitProgress
    <2> HIDE DEF dir
    <2>4. status.committed =>
               LET b == IF dir["dat"].present THEN dir["dat"] ELSE dir["old"]
               IN  b.present /\ b.sealed /\ b.pid = pinned /\ b.gen = status.gen
                   /\ w.previous = b.count
      BY <1>0, <2>1, <2>3, HeldNow DEF Baseline
    <2> QED BY <1>0, <1>1, <1>6, <2>1, <2>2, <2>4, AbandonInv DEF dir
  <1>7. CASE /\ ~files["dat"].present
             /\ \E o \in IF refining THEN Removed(files["old"]) ELSE {files["old"]} :
                    files' = [files EXCEPT !["dat"] = files["tmp"], !["tmp"] = NoFile,
                                           !["old"] = o]
             /\ w' = [w EXCEPT !.pc = "publish"]
             /\ UNCHANGED status
    <2> USE <1>0, <1>7 DEF envVars
    <2>1. PICK o \in Removed(files["old"]) :
              files' = [files EXCEPT !["dat"] = files["tmp"], !["tmp"] = NoFile, !["old"] = o]
      BY DEF Removed
    <2>2. o \in File /\ (o.sealed => o.present)
      BY <1>1, RemovedType
    <2>3. /\ files' \in [FileName -> File] /\ files'["dat"] = files["tmp"]
          /\ files'["tmp"] = NoFile /\ files'["old"] = o
      BY <1>1, <1>2, <1>4, <2>1, <2>2
    <2>4. \A f \in FileName : files'[f].sealed => files'[f].present
      BY <1>1, <1>2, <1>4, <2>2, <2>3 DEF FileName
    <2>5. w' \in Worker /\ w'.pc = "publish"
      BY DEF TypeOK, Worker, WorkerPc
    <2>6. TypeOK'
      BY <2>3, <2>5 DEF TypeOK
    <2>7. Coordination'
      BY <2>5 DEF Coordination, active, refining
    <2>8. files["tmp"].sealed /\ files["tmp"].pid = pinned /\ files["tmp"].gen = TmpGen
      BY DEF CommitProgress
    <2>9. BaselineHeld'
      <3>1. files["tmp"].present
        BY <1>1, <1>4, <2>8
      <3>2. status.state = "running" /\ (refining => TmpGen = status.gen + 1)
        BY DEF Coordination, TmpGen
      <3> QED BY <1>3, <2>3, <2>4, <2>5, <2>8, <3>1, <3>2 DEF BaselineHeld, Baseline
    <2>10. ScanProgress'
      BY <2>5 DEF ScanProgress, hopeful, scanning
    <2>11. CommitProgress'
      BY <2>3, <2>5, <2>8 DEF CommitProgress, TmpGen, refining
    <2> QED BY <2>6, <2>7, <2>9, <2>10, <2>11
  <1> QED BY <1>5, <1>6, <1>7 DEF Promote

\* The status catches up with the promoted file.
LEMMA PublishInv == ASSUME IndInv, Publish PROVE IndInv'
  <1> USE DEF IndInv
  <1> DEFINE g == IF refining THEN status.gen + 1 ELSE 0
             n == files["dat"].count
  <1>0. /\ w.pc = "publish" /\ status.state = "running" /\ w' = IdleWorker
        /\ UNCHANGED <<storageAvailable, cancelRequested, nextSessionId, pinned, exactValue,
                       cmd, files, envVars>>
    BY DEF Publish, finish, Coordination
  <1>1. /\ files["dat"].sealed /\ files["dat"].present
        /\ files["dat"].pid = pinned /\ files["dat"].gen = g
    BY <1>0 DEF CommitProgress, BaselineHeld, FileName, TmpGen
  <1>2. g \in Gens /\ n \in Counts /\ status \in Status
    BY <1>0 DEF TypeOK, FileName, File, Status, Gens, Coordination, active, refining
  <1>3. status' = [status EXCEPT !.state = "done", !.failure = "none", !.committed = TRUE,
                     !.resumable = TRUE, !.gen = g, !.candidates = n]
    <2>1. (TRUE /\ "none" \notin {"processChanged", "corrupt"}) = TRUE
      OBVIOUS
    <2> QED BY <2>1 DEF Publish, finish
  <1> HIDE DEF g, n
  <1>4. /\ status' \in Status /\ status'.sid = status.sid /\ status'.state = "done"
        /\ status'.op = status.op /\ status'.committed /\ status'.gen = g
        /\ status'.candidates = n
    BY <1>2, <1>3 DEF Status, States, Failures
  <1>5. TypeOK'
    BY <1>0, <1>4, ResetTypes DEF TypeOK, envVars
  <1>6. Coordination'
    BY <1>0, <1>4 DEF Coordination, active, refining, IdleWorker
  <1>7. BaselineHeld'
    <2>1. g + 0 = g
      BY <1>2 DEF Gens
    <2> QED BY <1>0, <1>1, <1>4, <2>1 DEF BaselineHeld, Baseline, IdleWorker, n
  <1>8. ScanProgress' /\ CommitProgress'
    BY <1>0 DEF ScanProgress, CommitProgress, hopeful, scanning, IdleWorker
  <1> QED BY <1>5, <1>6, <1>7, <1>8

-----------------------------------------------------------------------------
(* The theorems.                                                           *)

\* Every step of either thread, of the game or of the power switch keeps IndInv.
LEMMA StepInv == IndInv /\ [Next]_vars => IndInv'
  <1> SUFFICES ASSUME IndInv, [Next]_vars PROVE IndInv'
    OBVIOUS
  <1>1. CASE Dispatcher
    BY <1>1, BeginCheckInv, BeginQueueInv, RefineCheckInv, RefineQueueInv, CancelInv, CloseInv
       DEF Dispatcher
  <1>2. CASE WorkerStep
    BY <1>2, RunQueuedInv, OpenFilesInv, beginPauseInv, ScanCheckInv, SnapshotSlotInv,
       RefineSlotInv, endPauseInv, JudgeInv, RetireInv, PromoteInv, PublishInv
       DEF WorkerStep
  <1>3. CASE Environment
    BY <1>3, GameInv, RestartInv DEF Environment
  <1>4. CASE UNCHANGED vars
    <2>1. TypeOK'
      BY <1>4 DEF IndInv, TypeOK, vars, mgrVars, envVars
    <2> QED BY <1>4, <2>1, QuietInv DEF vars, IndInv, Coordination
  <1> QED BY <1>1, <1>2, <1>3, <1>4 DEF Next

(***************************************************************************)
(* The strengthening of UnknownSearch is invariant: manager, worker,       *)
(* pending command and the three session files always agree.               *)
(***************************************************************************)
THEOREM Invariance == Spec => []IndInv
  BY InitInv, StepInv, PTL DEF Spec

(***************************************************************************)
(* Type correctness of the session manager, the worker and the files.      *)
(***************************************************************************)
THEOREM TypeCorrect == Spec => []TypeOK
  <1>1. IndInv => TypeOK
    BY DEF IndInv
  <1> QED BY <1>1, Invariance, PTL

(***************************************************************************)
(* A committed session never loses its baseline (searchStoreCommit,        *)
(* searchStoreWriterAbort, restoreCommittedCounts), for any number of      *)
(* slots, sessions, processes and refinements.                             *)
(***************************************************************************)
THEOREM BaselineSafe == Spec => []BaselineNeverLost
  <1>1. IndInv => BaselineNeverLost
    BY DEF IndInv, BaselineHeld, BaselineNeverLost, active
  <1> QED BY <1>1, Invariance, PTL

-----------------------------------------------------------------------------
(* The pause.                                                              *)

\* What makes PausedScanIsOneInstant inductive: a session is pinned to a process that existed, and
\* the writer is empty when the pause begins.
Pinned ==
    /\ cmd.op = "begin" => cmd.pid # 0
    /\ status.sid # 0 => pinned # 0
PauseHeld ==
    /\ w.held => w.pc \in {"check", "read", "endPause"}
    /\ w.pc = "pause" => \A s \in Slots : files["tmp"].cands[s] = Absent
PauseInv == Pinned /\ PauseHeld /\ PausedScanIsOneInstant

\* Nobody is pinned to a process that never ran.
LEMMA PinnedStep ==
    ASSUME IndInv, Pinned, [Next]_vars PROVE Pinned'
  <1> USE DEF Pinned
  <1>1. CASE Dispatcher
    BY <1>1 DEF Dispatcher, BeginCheck, BeginQueue, RefineCheck, RefineQueue, unknownSearchCancel,
       unknownSearchClose, mgrVars, NoCommand, NoStatus, RefineOps, IndInv, TypeOK, Status, Command
  <1>2. CASE WorkerStep
    <2>1. cmd' = cmd /\ pinned' = pinned
      BY <1>2 DEF WorkerStep, RunQueued, OpenFiles, beginPause, ScanCheck, SnapshotSlot, RefineSlot,
         endPause, Judge, Retire, Promote, Publish, mgrVars
    <2>2. CASE RunQueued \/ SnapshotSlot \/ RefineSlot
      BY <2>1, <2>2 DEF RunQueued, SnapshotSlot, RefineSlot, Advance, ScanFail, IndInv, TypeOK, Status
    <2>3. CASE Judge \/ Retire \/ Promote \/ Publish
      BY <2>1, <2>3, ZenonT(40) DEF Judge, Retire, Promote, Publish, Abandon, finish, IndInv, TypeOK, Status
    <2>4. CASE OpenFiles \/ beginPause \/ ScanCheck \/ endPause
      BY <2>1, <2>4 DEF OpenFiles, beginPause, ScanCheck, endPause, mgrVars
    <2> QED BY <1>2, <2>2, <2>3, <2>4 DEF WorkerStep
  <1>3. CASE Environment
    <2>1. CASE Restart
      <3>1. cmd' = NoCommand /\ status' = NoStatus
        BY <2>1 DEF Restart
      <3> QED BY <3>1 DEF NoCommand, NoStatus
    <2>2. CASE ~Restart
      BY <1>3, <2>2 DEF Environment, GameWrite, ProcessExit, ProcessLaunch, mgrVars
    <2> QED BY <2>1, <2>2
  <1>4. CASE UNCHANGED vars
    BY <1>4 DEF vars, mgrVars
  <1> QED BY <1>1, <1>2, <1>3, <1>4 DEF Next

\* A worker without a held session is none of the pause's business, up to the moment it stops the
\* process.
LEMMA Unheld ==
    ASSUME ~w'.held, w'.pc = "pause" => \A s \in Slots : files'["tmp"].cands[s] = Absent
    PROVE  (PauseHeld /\ PausedScanIsOneInstant)'
  BY DEF PauseHeld, PausedScanIsOneInstant

\* The steps of the worker.
LEMMA PauseWorker ==
    ASSUME IndInv, PauseInv, WorkerStep PROVE (PauseHeld /\ PausedScanIsOneInstant)'
  <1>1. w \in Worker /\ files \in [FileName -> File] /\ memory \in [Slots -> Values]
    BY DEF IndInv, TypeOK
  <1>2. CASE RunQueued
    <2>1. w'.pc = "open" /\ ~w'.held
      BY <1>2 DEF RunQueued, IdleWorker
    <2> QED BY <2>1, Unheld
  <1>3. CASE OpenFiles
    <2>1. ~w.held /\ ~w'.held
      BY <1>1, <1>3 DEF OpenFiles, Fail, Worker, PauseInv, PauseHeld
    <2>2. w'.pc = "pause" => \E g : files' = [files EXCEPT !["tmp"] = FreshFile(g)]
      BY <1>1, <1>3 DEF OpenFiles, Fail, Worker
    <2>3. w'.pc = "pause" => files'["tmp"].cands = NoCands
      BY <1>1, <2>2 DEF FreshFile, FileName
    <2> QED BY <2>1, <2>3, Unheld DEF NoCands
  <1>4. CASE beginPause
    <2>1. /\ w.pc = "pause" /\ files' = files /\ curPid' = curPid /\ pinned' = pinned /\ memory' = memory
          /\ w'.pc \in {"check", "endPause"} /\ ~w.held
          /\ w'.held => paused'
      BY <1>1, <1>4 DEF beginPause, Fail, Worker, mgrVars, PauseInv, PauseHeld
    <2>2. \A s \in Slots : files'["tmp"].cands[s] = Absent
      BY <2>1 DEF PauseInv, PauseHeld
    <2> QED BY <2>1, <2>2 DEF PauseHeld, PausedScanIsOneInstant
  <1>5. CASE ScanCheck
    <2>1. /\ files' = files /\ curPid' = curPid /\ pinned' = pinned /\ memory' = memory /\ paused' = paused
          /\ w'.pc \in {"read", "endPause"} /\ w'.held = w.held
      BY <1>1, <1>5 DEF ScanCheck, Fail, Worker, mgrVars, envVars
    <2> QED BY <2>1 DEF PauseInv, PauseHeld, PausedScanIsOneInstant
  <1>6. CASE SnapshotSlot \/ RefineSlot
    <2>1. /\ curPid' = curPid /\ pinned' = pinned /\ memory' = memory /\ paused' = paused
          /\ w'.pc \in {"check", "endPause"} /\ w'.held = w.held
      BY <1>1, <1>6 DEF SnapshotSlot, RefineSlot, ScanFail, Advance, Fail, Worker, envVars
    <2>2. w.cursor \in Slots /\ files["tmp"] \in File /\ files["tmp"].cands \in Cands
      BY <1>1, <1>6 DEF SnapshotSlot, RefineSlot, IndInv, ScanProgress, Worker, Counts, Slots, FileName, File
    <2>3. \/ files' = files
          \/ files' = [files EXCEPT !["tmp"] = files["tmp"]]
          \/ files' = [files EXCEPT !["tmp"] = Stored(memory[w.cursor])]
      BY <1>6 DEF SnapshotSlot, RefineSlot, ScanFail, Advance
    <2>4. Stored(memory[w.cursor]).cands = [files["tmp"].cands EXCEPT ![w.cursor] = memory[w.cursor]]
      BY <2>2 DEF Stored, File
    <2>5. \A s \in Slots : files'["tmp"].cands[s] \in {files["tmp"].cands[s], memory[s]}
      BY <1>1, <2>2, <2>3, <2>4 DEF FileName, Cands
    <2> QED BY <2>1, <2>5 DEF PauseInv, PauseHeld, PausedScanIsOneInstant
  <1>7. CASE endPause
    <2>1. w'.pc = "judge" /\ ~w'.held
      BY <1>1, <1>7 DEF endPause, Worker
    <2> QED BY <2>1, Unheld
  <1>8. CASE Judge \/ Retire \/ Promote \/ Publish
    <2>1. ~w.held
      BY <1>8 DEF PauseInv, PauseHeld, Judge, Retire, Promote, Publish
    <2>2. w'.pc # "pause" /\ ~w'.held
      BY <1>1, <1>8, <2>1 DEF Judge, Retire, Promote, Publish, Abandon, finish, IdleWorker, Worker
    <2> QED BY <2>2, Unheld
  <1> QED BY <1>2, <1>3, <1>4, <1>5, <1>6, <1>7, <1>8 DEF WorkerStep

\* The steps of everybody else: a held session is pinned to a process that stays stopped or is gone.
LEMMA PauseOthers ==
    ASSUME IndInv, PauseInv, Dispatcher \/ Environment \/ UNCHANGED vars
    PROVE  (PauseHeld /\ PausedScanIsOneInstant)'
  <1>1. w.held => status.sid # 0 /\ pinned # 0 /\ status.state = "running"
    BY DEF IndInv, Coordination, active, PauseInv, PauseHeld, Pinned
  <1>2. CASE Dispatcher
    <2>1. w' = w /\ envVars' = envVars
      BY <1>2 DEF Dispatcher, BeginCheck, BeginQueue, RefineCheck, RefineQueue, unknownSearchCancel,
         unknownSearchClose
    <2>2. w.pc \notin {"idle"} => files' = files
      BY <1>2 DEF Dispatcher, BeginCheck, BeginQueue, RefineCheck, RefineQueue, unknownSearchCancel,
         unknownSearchClose, IndInv, Coordination, active
    <2>3. w.held => pinned' = pinned
      BY <1>1, <1>2 DEF Dispatcher, BeginCheck, BeginQueue, RefineCheck, RefineQueue, unknownSearchCancel,
         unknownSearchClose, mgrVars
    <2> QED BY <2>1, <2>2, <2>3 DEF PauseInv, PauseHeld, PausedScanIsOneInstant, envVars
  <1>3. CASE GameWrite
    BY <1>3 DEF GameWrite, mgrVars, PauseInv, PauseHeld, PausedScanIsOneInstant
  <1>4. CASE ProcessExit \/ \E pid \in Pids : ProcessLaunch(pid)
    <2>1. w' = w /\ files' = files /\ pinned' = pinned
      BY <1>4 DEF ProcessExit, ProcessLaunch, mgrVars
    <2>2. w.held => curPid' # pinned'
      BY <1>1, <1>4, <2>1 DEF ProcessExit, ProcessLaunch, IndInv, TypeOK, Pids
    <2> QED BY <2>1, <2>2 DEF PauseInv, PauseHeld, PausedScanIsOneInstant
  <1>5. CASE Restart
    <2>1. w'.pc = "idle" /\ ~w'.held
      BY <1>5 DEF Restart, IdleWorker
    <2> QED BY <2>1, Unheld
  <1>6. CASE UNCHANGED vars
    BY <1>6 DEF vars, mgrVars, envVars, PauseInv, PauseHeld, PausedScanIsOneInstant
  <1> QED BY <1>2, <1>3, <1>4, <1>5, <1>6 DEF Environment

(***************************************************************************)
(* With pause=1 a snapshot or refinement is one instant of the process     *)
(* (beginPause and endPause around the scan loops), although the process   *)
(* may exit, be replaced or run on after a pause that failed.              *)
(***************************************************************************)
THEOREM PausedScanHolds == Spec => []PausedScanIsOneInstant
  <1>1. Init => PauseInv
    BY DEF Init, Boot, PauseInv, Pinned, PauseHeld, PausedScanIsOneInstant, NoCommand, NoStatus, IdleWorker
  <1>2. IndInv /\ PauseInv /\ [Next]_vars => PauseInv'
    BY PinnedStep, PauseWorker, PauseOthers DEF Next, PauseInv
  <1>3. PauseInv => PausedScanIsOneInstant
    BY DEF PauseInv
  <1> QED BY <1>1, <1>2, <1>3, Invariance, PTL DEF Spec

-----------------------------------------------------------------------------
(* The refinement.                                                         *)

(***************************************************************************)
(* The session manager, its worker and searchStoreCommit implement         *)
(* SearchSession: every step is a step of the abstract session or leaves   *)
(* it unchanged.                                                           *)
(***************************************************************************)
LEMMA SameDomain ==
    /\ Session!NoCands = NoCands /\ Session!Slots = Slots /\ Session!Values = Values
    /\ Session!Cands = Cands /\ Session!Absent = Absent /\ Session!RefineOps = RefineOps
    /\ \A op, a, b, v : Session!searchCompareUnsigned(op, a, b, v)
                        <=> searchCompareUnsigned(op, a, b, v)
  BY DEF Session!NoCands, NoCands, Session!Slots, Slots, Session!Values, Values, Session!Cands,
         Cands, Session!Absent, Absent, Session!RefineOps, RefineOps,
         Session!searchCompareUnsigned, searchCompareUnsigned

\* Initially there is no session, concretely and abstractly.
LEMMA SessionInit == Init => Session!Init
  BY SameDomain DEF Init, Boot, NoStatus, refining, Session!Init, Session!NoBaseline,
                    Session!NoRequest

\* An abstract session that does not change, given by what its variables stand for.
LEMMA Stutter ==
    ASSUME status'.sid # 0 <=> status.sid # 0,
           status'.committed = status.committed,
           status'.op = status.op, exactValue' = exactValue,
           status.committed => Baseline'.gen = Baseline.gen /\ Baseline'.cands = Baseline.cands
    PROVE  UNCHANGED Session!vars
  <1> DEFINE b == IF status.committed
                  THEN [committed |-> TRUE, gen |-> Baseline.gen, cands |-> Baseline.cands]
                  ELSE [committed |-> FALSE, gen |-> 0, cands |-> NoCands]
  <1>1. (status'.sid # 0) = (status.sid # 0)
    OBVIOUS
  <1>2. b' = b
    <2>1. CASE status.committed
      BY <2>1
    <2>2. CASE ~status.committed
      BY <2>2
    <2> QED BY <2>1, <2>2
  <1> DEFINE q == IF refining THEN <<status.op, exactValue>> ELSE <<"begin", 0>>
  <1>3. q' = q
    BY DEF refining
  <1> QED BY <1>1, <1>2, <1>3, Zenon DEF Session!vars

\* Promote of a refinement is the abstract Refine: session.tmp is a correct filter.
LEMMA PromoteRefines ==
    ASSUME IndInv, IndInv', w.pc = "promote", refining,
           files' \in [FileName -> File], files'["dat"] = files["tmp"],
           UNCHANGED <<status, exactValue>>
    PROVE  Session!Refine
  <1> USE DEF IndInv
  <1>1. /\ status.sid # 0 /\ status.committed /\ status.state = "running"
        /\ status.op \in RefineOps /\ exactValue \in Values
    BY DEF Coordination, active, refining, TypeOK, Status
  <1>2. /\ ~files["dat"].present /\ TmpSoFar(files["old"].cands, N)
        /\ files["tmp"].sealed /\ files["tmp"].gen = status.gen + 1
    BY DEF CommitProgress, TmpGen
  <1>3. Baseline = files["old"]
    BY <1>2 DEF Baseline
  <1>4. Baseline.gen = status.gen
    BY <1>1, HeldNow
  <1>5. Baseline' = files["tmp"] /\ files["tmp"].cands \in Cands
    <2>1. "tmp" \in FileName /\ files["tmp"].present
      BY <1>2 DEF BaselineHeld, FileName
    <2> QED BY <2>1 DEF Baseline, TypeOK, File
  <1>6. Session!IsFilter(status.op, exactValue, files["old"].cands, files["tmp"].cands)
    <2>1. \A s \in Slots : ~(s >= N)
      BY DEF Slots
    <2> QED BY <1>2, <2>1, SameDomain DEF Session!IsFilter, TmpSoFar
  <1> DEFINE b == IF status.committed
                  THEN [committed |-> TRUE, gen |-> Baseline.gen, cands |-> Baseline.cands]
                  ELSE [committed |-> FALSE, gen |-> 0, cands |-> NoCands]
  <1>7. b = [committed |-> TRUE, gen |-> status.gen, cands |-> files["old"].cands]
    BY <1>1, <1>3, <1>4
  <1>8. b' = [committed |-> TRUE, gen |-> status.gen + 1, cands |-> files["tmp"].cands]
    BY <1>1, <1>2, <1>5
  <1>9. Session!Commits(b.gen + 1)
    BY <1>5, <1>7, <1>8, SameDomain DEF Session!Commits
  <1> DEFINE q == IF refining THEN <<status.op, exactValue>> ELSE <<"begin", 0>>
  <1>10. q = <<status.op, exactValue>> /\ q' = q
    BY DEF refining
  <1>11. Session!IsFilter(q[1], q[2], b.cands, b'.cands)
    BY <1>6, <1>7, <1>8, <1>10
  <1> QED BY <1>1, <1>7, <1>9, <1>10, <1>11 DEF Session!Refine

\* Steps that leave session.dat, session.old and the commitment alone.
LEMMA SameFiles ==
    ASSUME IndInv, status'.sid = status.sid, status'.committed = status.committed,
           status'.op = status.op, exactValue' = exactValue,
           files'["dat"] = files["dat"], files'["old"] = files["old"]
    PROVE  UNCHANGED Session!vars
  <1>1. Baseline' = Baseline
    BY DEF Baseline
  <1> QED BY <1>1, Stutter

\* A scan step writes nothing but session.tmp.
LEMMA ScanStutters ==
    ASSUME IndInv,
           OpenFiles \/ beginPause \/ ScanCheck \/ SnapshotSlot \/ RefineSlot \/ endPause
    PROVE  UNCHANGED Session!vars
  <1> USE DEF IndInv
  <1>1. files'["dat"] = files["dat"] /\ files'["old"] = files["old"]
    <2>1. \/ files' = files
          \/ \E t : files' = [files EXCEPT !["tmp"] = t]
      BY DEF OpenFiles, beginPause, ScanCheck, SnapshotSlot, RefineSlot, endPause, ScanFail,
             Advance
    <2> QED BY <2>1 DEF TypeOK, FileName
  <1>2. \/ status' = status
        \/ \E n : status' = [status EXCEPT !.candidates = n]
    BY DEF OpenFiles, beginPause, ScanCheck, SnapshotSlot, RefineSlot, endPause, ScanFail,
           Advance, mgrVars
  <1>3. /\ status'.sid = status.sid /\ status'.committed = status.committed
        /\ status'.op = status.op
    BY <1>2 DEF TypeOK, Status
  <1>4. exactValue' = exactValue
    BY DEF OpenFiles, beginPause, ScanCheck, SnapshotSlot, RefineSlot, endPause, mgrVars
  <1> QED BY <1>1, <1>3, <1>4, SameFiles

\* Giving up from a directory that still holds the baseline is invisible.
LEMMA AbandonStutters ==
    ASSUME IndInv, w.pc # "idle", NEW dir \in [FileName -> File], NEW st, NEW r,
           Abandon(st, r, dir), exactValue' = exactValue,
           status.committed =>
               (IF dir["dat"].present THEN dir["dat"] ELSE dir["old"]) = Baseline
    PROVE  UNCHANGED Session!vars
  <1> USE DEF IndInv
  <1>1. files'["dat"] = dir["dat"] /\ files'["old"] = dir["old"]
    BY DEF Abandon, FileName
  <1>2. status'.sid = status.sid /\ status'.committed = refining /\ status'.op = status.op
    BY DEF Abandon, finish, TypeOK, Status
  <1>3. status.committed = refining
    BY DEF Coordination, active, TypeOK, Status, refining
  <1>4. status.committed => Baseline' = Baseline
    BY <1>1 DEF Baseline
  <1> QED BY <1>2, <1>3, <1>4, Stutter

\* Every command maps to Begin, Ask, Discard or a stutter of the abstract session.
LEMMA CommandSteps ==
    ASSUME IndInv, IndInv', Dispatcher
    PROVE  Session!Begin \/ Session!Ask \/ Session!Discard \/ UNCHANGED Session!vars
  <1> USE DEF IndInv
  <1>1. CASE \/ \E pause \in BOOLEAN : BeginCheck(pause)
             \/ \E op \in RefineOps, value \in Values, pause \in BOOLEAN :
                    RefineCheck(op, value, pause)
             \/ unknownSearchCancel
    BY <1>1, SameFiles DEF BeginCheck, RefineCheck, unknownSearchCancel, mgrVars
  <1>2. CASE RefineQueue
    <2>1. /\ status.sid # 0 /\ status.committed /\ ~active
          /\ cmd.op \in RefineOps /\ cmd.value \in Values
      BY <1>2 DEF RefineQueue, Coordination, TypeOK, Command
    <2>2. /\ files' = files /\ status'.sid = status.sid /\ status'.committed = status.committed
          /\ status'.op = cmd.op /\ exactValue' = cmd.value
      BY <1>2, <2>1, ZenonT(40) DEF RefineQueue, TypeOK, Status
    <2> DEFINE b == IF status.committed
                    THEN [committed |-> TRUE, gen |-> Baseline.gen, cands |-> Baseline.cands]
                    ELSE [committed |-> FALSE, gen |-> 0, cands |-> NoCands]
               q == IF refining THEN <<status.op, exactValue>> ELSE <<"begin", 0>>
    <2>3. b.committed /\ b' = b
      BY <2>1, <2>2 DEF Baseline
    <2>4. q' \in Session!RefineOps \X Session!Values
      BY <2>1, <2>2, SameDomain DEF refining, RefineOps
    <2>5. (status'.sid # 0) = (status.sid # 0)
      BY <2>2
    <2> QED BY <2>1, <2>3, <2>4, <2>5 DEF Session!Ask
  <1>3. CASE BeginQueue
    <2>1. status.sid = 0 /\ nextSessionId \in Nat \ {0}
      BY <1>3 DEF BeginQueue, Coordination, TypeOK
    <2>2. ~status.committed
      BY <2>1 DEF Coordination
    <2>3. status'.sid # 0 /\ ~status'.committed /\ status'.op = "begin"
      BY <1>3, <2>1 DEF BeginQueue, NoStatus
    <2> QED BY <2>1, <2>2, <2>3 DEF Session!Begin, Session!NoRequest, refining
  <1>4. CASE unknownSearchClose
    <2>1. status'.sid = 0 /\ ~status'.committed /\ status'.op = "begin"
      BY <1>4 DEF unknownSearchClose, NoStatus
    <2> QED BY <2>1, SameDomain DEF Session!Discard, Session!NoBaseline, Session!NoRequest,
                                    refining
  <1> QED BY <1>1, <1>2, <1>3, <1>4 DEF Dispatcher

\* Every worker step maps to Snapshot, Refine or a stutter of the abstract session.
LEMMA CommitSteps ==
    ASSUME IndInv, IndInv', Judge \/ Retire \/ Promote \/ Publish
    PROVE  Session!Snapshot \/ Session!Refine \/ UNCHANGED Session!vars
  <1> USE DEF IndInv
  <1>0. /\ "dat" \in FileName /\ "tmp" \in FileName /\ "old" \in FileName
        /\ files \in [FileName -> File] /\ NoFile \in File /\ ~NoFile.present
    BY ResetTypes DEF TypeOK, FileName, NoFile
  <1>1. /\ w.pc # "idle" /\ (status.committed <=> refining)
        /\ exactValue' = exactValue
    BY DEF Judge, Retire, Promote, Publish, Coordination, active
  <1>2. CASE Judge
    <2>1. CASE \E st, r : Abandon(st, r, files)
      BY <1>0, <1>1, <2>1, AbandonStutters DEF Baseline
    <2>2. CASE files' = [files EXCEPT !["tmp"].sealed = TRUE] /\ UNCHANGED status
      BY <1>0, <1>1, <2>2, SameFiles
    <2> QED BY <1>2, <2>1, <2>2 DEF Judge
  <1>3. CASE Retire
    <2>1. PICK o \in Removed(files["old"]) :
            LET dir == [files EXCEPT !["old"] = o] IN
            \/ ~refining /\ UNCHANGED status
            \/ /\ refining /\ files["dat"].present
               /\ files' = [dir EXCEPT !["old"] = files["dat"], !["dat"] = NoFile]
               /\ UNCHANGED status
            \/ refining /\ Abandon("error", "ioError", dir)
      BY <1>3 DEF Retire
    <2>2. CASE ~refining /\ UNCHANGED status
      BY <1>1, <2>2, Stutter
    <2>3. refining => files["dat"].present
      BY <1>3 DEF Retire, CommitProgress
    <2>4. o \in File
      BY <1>0, RemovedType
    <2>5. CASE /\ refining
               /\ files' = [[files EXCEPT !["old"] = o]
                                EXCEPT !["old"] = files["dat"], !["dat"] = NoFile]
               /\ UNCHANGED status
      <3>1. files'["dat"] = NoFile /\ files'["old"] = files["dat"]
        BY <1>0, <2>5
      <3>2. Baseline' = Baseline
        BY <1>0, <2>3, <2>5, <3>1 DEF Baseline
      <3> QED BY <1>1, <2>5, <3>2, Stutter
    <2>6. CASE refining /\ Abandon("error", "ioError", [files EXCEPT !["old"] = o])
      <3> DEFINE dir == [files EXCEPT !["old"] = o]
      <3>1. dir \in [FileName -> File] /\ dir["dat"] = files["dat"]
        BY <1>0, <2>4
      <3>0. Abandon("error", "ioError", dir)
        BY <2>6
      <3> HIDE DEF dir
      <3>2. (IF dir["dat"].present THEN dir["dat"] ELSE dir["old"]) = Baseline
        BY <2>3, <2>6, <3>1 DEF Baseline
      <3> QED BY <1>1, <3>0, <3>1, <3>2, AbandonStutters
    <2> QED BY <2>1, <2>2, <2>5, <2>6
  <1>4. CASE Promote
    <2>1. w.pc = "promote" /\ (refining => ~files["dat"].present)
      BY <1>4 DEF Promote, CommitProgress
    <2>2. CASE \E st, r : Abandon(st, r, files)
      BY <1>0, <1>1, <2>2, AbandonStutters DEF Baseline
    <2>3. CASE /\ refining
               /\ Abandon("error", "ioError",
                          [files EXCEPT !["dat"] = files["old"], !["old"] = NoFile])
      <3> DEFINE dir == [files EXCEPT !["dat"] = files["old"], !["old"] = NoFile]
      <3>1. dir \in [FileName -> File] /\ dir["dat"] = files["old"]
        BY <1>0
      <3> HIDE DEF dir
      <3>2. Baseline = files["old"] /\ files["old"].present
        BY <1>1, <2>1, <2>3, HeldNow DEF Baseline
      <3> QED BY <1>1, <2>3, <3>1, <3>2, AbandonStutters DEF dir
    <2>4. CASE /\ \E o \in IF refining THEN Removed(files["old"]) ELSE {files["old"]} :
                      files' = [files EXCEPT !["dat"] = files["tmp"], !["tmp"] = NoFile,
                                             !["old"] = o]
               /\ UNCHANGED status
      <3>1. CASE refining
        <4>1. files'["dat"] = files["tmp"] /\ files' \in [FileName -> File]
          BY <1>0, <2>4 DEF TypeOK
        <4> QED BY <1>4, <2>1, <2>4, <3>1, <4>1, PromoteRefines DEF Promote
      <3>2. CASE ~refining
        BY <1>1, <2>4, <3>2, Stutter
      <3> QED BY <3>1, <3>2
    <2> QED BY <1>4, <2>2, <2>3, <2>4 DEF Promote
  <1>5. CASE Publish
    <2>1. /\ w.pc = "publish" /\ files' = files
          /\ status'.sid = status.sid /\ status'.committed = TRUE /\ status'.op = status.op
      BY <1>5 DEF Publish, finish, TypeOK, Status
    <2>2. CASE refining
      <3>1. status.committed = TRUE
        BY <1>1, <2>2 DEF TypeOK, Status
      <3> QED BY <1>1, <2>1, <3>1, SameFiles
    <2>3. CASE ~refining
      <3>1. /\ files["dat"].sealed /\ files["dat"].present
            /\ files["dat"].gen = 0 /\ files["dat"].cands \in Cands
        BY <1>0, <2>1, <2>3 DEF CommitProgress, TmpGen, BaselineHeld, File
      <3>2. Baseline' = files["dat"]
        BY <2>1, <3>1 DEF Baseline
      <3> DEFINE b == IF status.committed
                      THEN [committed |-> TRUE, gen |-> Baseline.gen, cands |-> Baseline.cands]
                      ELSE [committed |-> FALSE, gen |-> 0, cands |-> NoCands]
      <3>3. b' = [committed |-> TRUE, gen |-> 0, cands |-> files["dat"].cands]
        BY <2>1, <3>1, <3>2
      <3>4. b = [committed |-> FALSE, gen |-> 0, cands |-> NoCands]
        BY <1>1, <2>3
      <3>5. Session!Commits(0)
        BY <3>1, <3>3, SameDomain DEF Session!Commits
      <3>6. status.sid # 0
        BY <2>1 DEF Coordination, active
      <3>7. (status'.sid # 0) = (status.sid # 0)
        BY <2>1
      <3> DEFINE q == IF refining THEN <<status.op, exactValue>> ELSE <<"begin", 0>>
      <3>8. q' = q
        BY <1>1, <2>1 DEF refining
      <3> QED BY <3>4, <3>5, <3>6, <3>7, <3>8 DEF Session!Snapshot
    <2> QED BY <2>2, <2>3
  <1> QED BY <1>2, <1>3, <1>4, <1>5

\* Every step of the manager is a step or a stutter of the abstract session.
LEMMA SessionStep == IndInv /\ IndInv' /\ [Next]_vars => [Session!Next]_Session!vars
  <1> SUFFICES ASSUME IndInv, IndInv', [Next]_vars
               PROVE  Session!Next \/ UNCHANGED Session!vars
    OBVIOUS
  <1>1. CASE Dispatcher
    BY <1>1, CommandSteps DEF Session!Next
  <1>2. CASE RunQueued
    <2>1. /\ files' = files /\ exactValue' = exactValue /\ status'.op = status.op
          /\ status'.sid = status.sid /\ status'.committed = status.committed
      BY <1>2 DEF RunQueued, IndInv, TypeOK, Status
    <2> QED BY <2>1, SameFiles
  <1>3. CASE WorkerStep
    BY <1>2, <1>3, ScanStutters, CommitSteps DEF WorkerStep, Session!Next
  <1>4. CASE Restart
    <2>1. status'.sid = 0 /\ ~status'.committed /\ status'.op = "begin"
      BY <1>4 DEF Restart, NoStatus
    <2> QED BY <2>1, SameDomain DEF Session!Next, Session!Discard, Session!NoBaseline,
                                    Session!NoRequest, refining
  <1>5. CASE Environment
    BY <1>4, <1>5, SameFiles
       DEF Environment, GameWrite, ProcessExit, ProcessLaunch, mgrVars
  <1>6. CASE UNCHANGED vars
    BY <1>6, SameFiles DEF vars, mgrVars
  <1> QED BY <1>1, <1>3, <1>5, <1>6 DEF Next

(***************************************************************************)
(* The detailed search implements the abstract session: a refinement       *)
(* commits a correct filter of the previous generation or changes nothing, *)
(* whatever fails and whenever it is cancelled.                            *)
(***************************************************************************)
THEOREM SessionRefinement == Spec => ImplementsSession
  BY SessionInit, SessionStep, Invariance, PTL
     DEF Spec, ImplementsSession, Session!Spec
=============================================================================
