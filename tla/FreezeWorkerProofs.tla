------------------------- MODULE FreezeWorkerProofs --------------------------
(***************************************************************************)
(* For any table, any number of clients and any length of scan: the freeze *)
(* worker yields to unknown-value searches, the two search managers never  *)
(* have work at the same time, and the two mutexes have the owners the     *)
(* program counters say.  The second part is about the table alone: with   *)
(* its heap it implements FreezeMap.                                       *)
(***************************************************************************)
EXTENDS FreezeWorker, FiniteSetTheorems, WellFoundedInduction, TLAPS

\* The initial state: no lock is held and no search exists.
LEMMA InitInv == Init => IndInv
<1> SUFFICES ASSUME Init PROVE IndInv
  OBVIOUS
<1> USE WorkerAssumption DEF WorkerAssumption, Init, Nobody, NoApp
<1>1. TypeOK
  <2>1. d \in MainThread
    BY DEF MainThread
  <2>2. f \in FreezeThread
    BY DEF FreezeThread
  <2>3. s \in SearchThread
    BY DEF SearchThread
  <2>4. app \in App
    BY DEF App
  <2>5. QED
    BY <2>1, <2>2, <2>3, <2>4 DEF TypeOK, Threads
<1>2. LockOwners
  BY DEF LockOwners
<1>3. SearchExclusion
  BY DEF SearchExclusion, exactActive, hasSession
<1>4. FreezeYieldsToSearch
  BY DEF FreezeYieldsToSearch
<1>5. QED
  BY <1>1, <1>2, <1>3, <1>4 DEF IndInv

\* The main loop takes freezeMutex, so the worker is not inside its locked section.
LEMMA LockInv == IndInv /\ (MainLock \/ MainUnlock) => IndInv'
<1> SUFFICES ASSUME IndInv, MainLock \/ MainUnlock PROVE IndInv'
  OBVIOUS
<1> USE WorkerAssumption DEF WorkerAssumption, IndInv, TypeOK, Nobody, exactActive,
    unknownActive, hasSession, searchVars
<1>1. ASSUME MainLock PROVE IndInv'
  <2>1. d' \in MainThread
    BY <1>1 DEF MainLock, MainThread
  <2>2. TypeOK'
    BY <1>1, <2>1 DEF MainLock, Threads
  <2>3. LockOwners'
    BY <1>1 DEF MainLock, LockOwners, MainThread
  <2>4. SearchExclusion'
    BY <1>1 DEF MainLock, SearchExclusion, LockOwners, MainThread
  <2>5. FreezeYieldsToSearch'
    BY <1>1 DEF MainLock, FreezeYieldsToSearch, LockOwners, MainThread
  <2>6. QED
    BY <2>2, <2>3, <2>4, <2>5 DEF IndInv
<1>2. ASSUME MainUnlock PROVE IndInv'
  <2>1. d' \in MainThread
    BY <1>2 DEF MainUnlock, MainThread
  <2>2. TypeOK'
    BY <1>2, <2>1 DEF MainUnlock, Threads
  <2>3. LockOwners'
    BY <1>2 DEF MainUnlock, LockOwners, MainThread
  <2>4. SearchExclusion'
    BY <1>2 DEF MainUnlock, SearchExclusion, LockOwners, MainThread
  <2>5. FreezeYieldsToSearch'
    BY <1>2 DEF MainUnlock, FreezeYieldsToSearch, LockOwners, MainThread
  <2>6. QED
    BY <2>2, <2>3, <2>4, <2>5 DEF IndInv
<1>3. QED
  BY <1>1, <1>2

\* Commands that need no backend: a refinement is queued with freezeMutex held.
LEMMA CommandInv == IndInv /\ Command => IndInv'
<1> SUFFICES ASSUME IndInv, Command PROVE IndInv'
  OBVIOUS
<1> USE WorkerAssumption DEF WorkerAssumption, IndInv, TypeOK, Nobody, exactActive,
    unknownActive, hasSession, searchVars, Serve
<1>1. ASSUME NEW a \in Addresses, unFreezeCommand(a) PROVE IndInv'
  <2>1. d' \in MainThread
    BY <1>1 DEF unFreezeCommand, MainThread
  <2>2. TypeOK'
    BY <1>1, <2>1 DEF unFreezeCommand, Threads
  <2>3. LockOwners'
    BY <1>1 DEF unFreezeCommand, LockOwners, MainThread
  <2>4. SearchExclusion'
    BY <1>1 DEF unFreezeCommand, SearchExclusion, LockOwners, MainThread
  <2>5. FreezeYieldsToSearch'
    BY <1>1 DEF unFreezeCommand, FreezeYieldsToSearch, LockOwners, MainThread
  <2>6. QED
    BY <2>2, <2>3, <2>4, <2>5 DEF IndInv
<1>2. ASSUME freezeClearCommand PROVE IndInv'
  <2>1. d' \in MainThread
    BY <1>2 DEF freezeClearCommand, MainThread
  <2>2. TypeOK'
    BY <1>2, <2>1 DEF freezeClearCommand, Threads
  <2>3. LockOwners'
    BY <1>2 DEF freezeClearCommand, LockOwners, MainThread
  <2>4. SearchExclusion'
    BY <1>2 DEF freezeClearCommand, SearchExclusion, LockOwners, MainThread
  <2>5. FreezeYieldsToSearch'
    BY <1>2 DEF freezeClearCommand, FreezeYieldsToSearch, LockOwners, MainThread
  <2>6. QED
    BY <2>2, <2>3, <2>4, <2>5 DEF IndInv
<1>3. ASSUME freezePauseCommand PROVE IndInv'
  <2>1. d' \in MainThread
    BY <1>3 DEF freezePauseCommand, MainThread
  <2>2. TypeOK'
    BY <1>3, <2>1 DEF freezePauseCommand, Threads
  <2>3. LockOwners'
    BY <1>3 DEF freezePauseCommand, LockOwners, MainThread
  <2>4. SearchExclusion'
    BY <1>3 DEF freezePauseCommand, SearchExclusion, LockOwners, MainThread
  <2>5. FreezeYieldsToSearch'
    BY <1>3 DEF freezePauseCommand, FreezeYieldsToSearch, LockOwners, MainThread
  <2>6. QED
    BY <2>2, <2>3, <2>4, <2>5 DEF IndInv
<1>4. ASSUME freezeUnpauseCommand PROVE IndInv'
  <2>1. d' \in MainThread
    BY <1>4 DEF freezeUnpauseCommand, MainThread
  <2>2. TypeOK'
    BY <1>4, <2>1 DEF freezeUnpauseCommand, Threads
  <2>3. LockOwners'
    BY <1>4 DEF freezeUnpauseCommand, LockOwners, MainThread
  <2>4. SearchExclusion'
    BY <1>4 DEF freezeUnpauseCommand, SearchExclusion, LockOwners, MainThread
  <2>5. FreezeYieldsToSearch'
    BY <1>4 DEF freezeUnpauseCommand, FreezeYieldsToSearch, LockOwners, MainThread
  <2>6. QED
    BY <2>2, <2>3, <2>4, <2>5 DEF IndInv
<1>5. ASSUME NEW pause \in BOOLEAN, searchRefineCommand(pause) PROVE IndInv'
  <2>1. d' \in MainThread
    BY <1>5 DEF searchRefineCommand, MainThread
  <2>2. s' \in SearchThread
    BY <1>5 DEF searchRefineCommand, SearchThread
  <2>3. TypeOK'
    BY <1>5, <2>1, <2>2 DEF searchRefineCommand, Threads
  <2>4. LockOwners'
    BY <1>5 DEF searchRefineCommand, LockOwners, MainThread, SearchThread
  <2>5. SearchExclusion'
    BY <1>5 DEF searchRefineCommand, SearchExclusion, LockOwners, MainThread, SearchThread
  <2>6. FreezeYieldsToSearch'
    BY <1>5 DEF searchRefineCommand, FreezeYieldsToSearch, LockOwners, MainThread, SearchThread
  <2>7. QED
    BY <2>3, <2>4, <2>5, <2>6 DEF IndInv
<1>6. ASSUME searchCloseCommand PROVE IndInv'
  <2>1. d' \in MainThread
    BY <1>6 DEF searchCloseCommand, MainThread
  <2>2. TypeOK'
    BY <1>6, <2>1 DEF searchCloseCommand, Threads
  <2>3. LockOwners'
    BY <1>6 DEF searchCloseCommand, LockOwners, MainThread
  <2>4. SearchExclusion'
    BY <1>6 DEF searchCloseCommand, SearchExclusion, LockOwners, MainThread
  <2>5. FreezeYieldsToSearch'
    BY <1>6 DEF searchCloseCommand, FreezeYieldsToSearch, LockOwners, MainThread
  <2>6. QED
    BY <2>2, <2>3, <2>4, <2>5 DEF IndInv
<1>7. ASSUME NEW a \in Addresses, WantBackend("freeze", a) PROVE IndInv'
  <2>1. d' \in MainThread
    BY <1>7 DEF WantBackend, MainThread
  <2>2. TypeOK'
    BY <1>7, <2>1 DEF WantBackend, Threads
  <2>3. LockOwners'
    BY <1>7 DEF WantBackend, LockOwners, MainThread
  <2>4. SearchExclusion'
    BY <1>7 DEF WantBackend, SearchExclusion, LockOwners, MainThread
  <2>5. FreezeYieldsToSearch'
    BY <1>7 DEF WantBackend, FreezeYieldsToSearch, LockOwners, MainThread
  <2>6. QED
    BY <2>2, <2>3, <2>4, <2>5 DEF IndInv
<1>8. ASSUME NEW c \in {"peek", "searchStart"}, WantBackend(c, 0) PROVE IndInv'
  <2>1. d' \in MainThread
    BY <1>8 DEF WantBackend, MainThread
  <2>2. TypeOK'
    BY <1>8, <2>1 DEF WantBackend, Threads
  <2>3. LockOwners'
    BY <1>8 DEF WantBackend, LockOwners, MainThread
  <2>4. SearchExclusion'
    BY <1>8 DEF WantBackend, SearchExclusion, LockOwners, MainThread
  <2>5. FreezeYieldsToSearch'
    BY <1>8 DEF WantBackend, FreezeYieldsToSearch, LockOwners, MainThread
  <2>6. QED
    BY <2>2, <2>3, <2>4, <2>5 DEF IndInv
<1>9. ASSUME searchBeginCommand PROVE IndInv'
  <2>1. d' \in MainThread
    BY <1>9 DEF searchBeginCommand, WantBackend, MainThread
  <2>2. TypeOK'
    BY <1>9, <2>1 DEF searchBeginCommand, WantBackend, Threads
  <2>3. LockOwners'
    BY <1>9 DEF searchBeginCommand, WantBackend, LockOwners, MainThread
  <2>4. SearchExclusion'
    BY <1>9 DEF searchBeginCommand, WantBackend, SearchExclusion, LockOwners, MainThread
  <2>5. FreezeYieldsToSearch'
    BY <1>9 DEF searchBeginCommand, WantBackend, FreezeYieldsToSearch, LockOwners, MainThread
  <2>6. QED
    BY <2>2, <2>3, <2>4, <2>5 DEF IndInv
<1>10. QED
  BY <1>1, <1>2, <1>3, <1>4, <1>5, <1>6, <1>7, <1>8, <1>9 DEF Command

\* A command with its session: the only place where an exact search is queued.
LEMMA UseBackendInv == IndInv /\ UseBackend => IndInv'
<1> SUFFICES ASSUME IndInv, UseBackend PROVE IndInv'
  OBVIOUS
<1> USE WorkerAssumption DEF WorkerAssumption, IndInv, TypeOK, Nobody, exactActive,
    unknownActive, hasSession, searchVars
<1>1. ASSUME UseBackend PROVE IndInv'
  <2>1. d' \in MainThread
    BY <1>1 DEF UseBackend, queueSearch, beginUnknown, MainThread
  <2>2. s' \in SearchThread
    BY <1>1 DEF UseBackend, queueSearch, beginUnknown, SearchThread
  <2>3. TypeOK'
    BY <1>1, <2>1, <2>2 DEF UseBackend, queueSearch, beginUnknown, Threads
  <2>4. LockOwners'
    BY <1>1 DEF UseBackend, queueSearch, beginUnknown, LockOwners, MainThread, SearchThread
  <2>5. SearchExclusion'
    BY <1>1 DEF UseBackend, queueSearch, beginUnknown, SearchExclusion, LockOwners, MainThread, SearchThread
  <2>6. FreezeYieldsToSearch'
    BY <1>1 DEF UseBackend, queueSearch, beginUnknown, FreezeYieldsToSearch, LockOwners, MainThread, SearchThread
  <2>7. QED
    BY <2>3, <2>4, <2>5, <2>6 DEF IndInv
<1>2. QED
  BY <1>1

\* The freeze worker: the recheck under freezeMutex is what establishes the yield.
LEMMA FreezerInv == IndInv /\ Freezer => IndInv'
<1> SUFFICES ASSUME IndInv, Freezer PROVE IndInv'
  OBVIOUS
<1> USE WorkerAssumption DEF WorkerAssumption, IndInv, TypeOK, Nobody, exactActive,
    unknownActive, hasSession, searchVars, Quiet
<1>1. ASSUME IdlePoll PROVE IndInv'
  <2>1. f' \in FreezeThread
    BY <1>1 DEF IdlePoll, FreezeThread
  <2>2. TypeOK'
    BY <1>1, <2>1 DEF IdlePoll, Threads
  <2>3. LockOwners'
    BY <1>1 DEF IdlePoll, LockOwners, FreezeThread
  <2>4. SearchExclusion'
    BY <1>1 DEF IdlePoll, SearchExclusion, LockOwners, FreezeThread
  <2>5. FreezeYieldsToSearch'
    BY <1>1 DEF IdlePoll, FreezeYieldsToSearch, LockOwners, FreezeThread
  <2>6. QED
    BY <2>2, <2>3, <2>4, <2>5 DEF IndInv
<1>2. ASSUME TopCheck PROVE IndInv'
  <2>1. f' \in FreezeThread
    BY <1>2 DEF TopCheck, FreezeThread
  <2>2. TypeOK'
    BY <1>2, <2>1 DEF TopCheck, Threads
  <2>3. LockOwners'
    BY <1>2 DEF TopCheck, LockOwners, FreezeThread
  <2>4. SearchExclusion'
    BY <1>2 DEF TopCheck, SearchExclusion, LockOwners, FreezeThread
  <2>5. FreezeYieldsToSearch'
    BY <1>2 DEF TopCheck, FreezeYieldsToSearch, LockOwners, FreezeThread
  <2>6. QED
    BY <2>2, <2>3, <2>4, <2>5 DEF IndInv
<1>3. ASSUME StateCheck PROVE IndInv'
  <2>1. f' \in FreezeThread
    BY <1>3 DEF StateCheck, FreezeThread
  <2>2. TypeOK'
    BY <1>3, <2>1 DEF StateCheck, Threads
  <2>3. LockOwners'
    BY <1>3 DEF StateCheck, LockOwners, FreezeThread
  <2>4. SearchExclusion'
    BY <1>3 DEF StateCheck, SearchExclusion, LockOwners, FreezeThread
  <2>5. FreezeYieldsToSearch'
    BY <1>3 DEF StateCheck, FreezeYieldsToSearch, LockOwners, FreezeThread
  <2>6. QED
    BY <2>2, <2>3, <2>4, <2>5 DEF IndInv
<1>4. ASSUME Reset PROVE IndInv'
  <2>1. f' \in FreezeThread
    BY <1>4 DEF Reset, FreezeThread
  <2>2. TypeOK'
    BY <1>4, <2>1 DEF Reset, Threads
  <2>3. LockOwners'
    BY <1>4 DEF Reset, LockOwners, FreezeThread
  <2>4. SearchExclusion'
    BY <1>4 DEF Reset, SearchExclusion, LockOwners, FreezeThread
  <2>5. FreezeYieldsToSearch'
    BY <1>4 DEF Reset, FreezeYieldsToSearch, LockOwners, FreezeThread
  <2>6. QED
    BY <2>2, <2>3, <2>4, <2>5 DEF IndInv
<1>5. ASSUME Lock PROVE IndInv'
  <2>1. f' \in FreezeThread
    BY <1>5 DEF Lock, FreezeThread
  <2>2. TypeOK'
    BY <1>5, <2>1 DEF Lock, Threads
  <2>3. LockOwners'
    BY <1>5 DEF Lock, LockOwners, FreezeThread
  <2>4. SearchExclusion'
    BY <1>5 DEF Lock, SearchExclusion, LockOwners, FreezeThread
  <2>5. FreezeYieldsToSearch'
    BY <1>5 DEF Lock, FreezeYieldsToSearch, LockOwners, FreezeThread
  <2>6. QED
    BY <2>2, <2>3, <2>4, <2>5 DEF IndInv
<1>6. ASSUME Recheck PROVE IndInv'
  <2>1. f' \in FreezeThread
    BY <1>6 DEF Recheck, FreezeThread
  <2>2. TypeOK'
    BY <1>6, <2>1 DEF Recheck, Threads
  <2>3. LockOwners'
    BY <1>6 DEF Recheck, LockOwners, FreezeThread
  <2>4. SearchExclusion'
    BY <1>6 DEF Recheck, SearchExclusion, LockOwners, FreezeThread
  <2>5. FreezeYieldsToSearch'
    BY <1>6 DEF Recheck, FreezeYieldsToSearch, LockOwners, FreezeThread
  <2>6. QED
    BY <2>2, <2>3, <2>4, <2>5 DEF IndInv
<1>7. ASSUME OpenMemory PROVE IndInv'
  <2>1. f' \in FreezeThread
    BY <1>7 DEF OpenMemory, FreezeThread
  <2>2. TypeOK'
    BY <1>7, <2>1 DEF OpenMemory, Threads
  <2>3. LockOwners'
    BY <1>7 DEF OpenMemory, LockOwners, FreezeThread
  <2>4. SearchExclusion'
    BY <1>7 DEF OpenMemory, SearchExclusion, LockOwners, FreezeThread
  <2>5. FreezeYieldsToSearch'
    BY <1>7 DEF OpenMemory, FreezeYieldsToSearch, LockOwners, FreezeThread
  <2>6. QED
    BY <2>2, <2>3, <2>4, <2>5 DEF IndInv
<1>8. ASSUME Settle PROVE IndInv'
  <2>1. f' \in FreezeThread
    BY <1>8 DEF Settle, FreezeThread
  <2>2. app' \in App
    BY <1>8 DEF Settle, App
  <2>3. TypeOK'
    BY <1>8, <2>1, <2>2 DEF Settle, Threads
  <2>4. LockOwners'
    BY <1>8 DEF Settle, LockOwners, FreezeThread
  <2>5. SearchExclusion'
    BY <1>8 DEF Settle, SearchExclusion, LockOwners, FreezeThread
  <2>6. FreezeYieldsToSearch'
    BY <1>8 DEF Settle, FreezeYieldsToSearch, LockOwners, FreezeThread
  <2>7. QED
    BY <2>3, <2>4, <2>5, <2>6 DEF IndInv
<1>9. ASSUME WriteAll PROVE IndInv'
  <2>1. f' \in FreezeThread
    BY <1>9 DEF WriteAll, FreezeThread
  <2>2. TypeOK'
    BY <1>9, <2>1 DEF WriteAll, Threads
  <2>3. LockOwners'
    BY <1>9 DEF WriteAll, LockOwners, FreezeThread
  <2>4. SearchExclusion'
    BY <1>9 DEF WriteAll, SearchExclusion, LockOwners, FreezeThread
  <2>5. FreezeYieldsToSearch'
    BY <1>9 DEF WriteAll, FreezeYieldsToSearch, LockOwners, FreezeThread
  <2>6. QED
    BY <2>2, <2>3, <2>4, <2>5 DEF IndInv
<1>10. QED
  BY <1>1, <1>2, <1>3, <1>4, <1>5, <1>6, <1>7, <1>8, <1>9 DEF Freezer

\* A new program counter, or a new chunk count, keeps the search worker's type.
LEMMA SearchThreadType ==
    ASSUME NEW t \in SearchThread, NEW pc \in {"idle", "scan", "hold"},
           NEW n \in 0 .. MaxChunks
    PROVE  [t EXCEPT !.pc = pc, !.chunks = n] \in SearchThread
<1> DEFINE u == [t EXCEPT !.pc = pc]
<1>1. u \in SearchThread
  BY DEF SearchThread
<1>2. ASSUME NEW v \in SearchThread PROVE [v EXCEPT !.chunks = n] \in SearchThread
  BY DEF SearchThread
<1>3. [u EXCEPT !.chunks = n] \in SearchThread
  <2> HIDE DEF u
  <2> QED
    BY <1>1, <1>2
<1>4. QED
  BY <1>3

\* The search worker: a queued search is already active, so running it blocks nobody new.
LEMMA SearcherInv == IndInv /\ Searcher => IndInv'
<1> SUFFICES ASSUME IndInv, Searcher PROVE IndInv'
  OBVIOUS
<1> USE WorkerAssumption DEF WorkerAssumption, IndInv, TypeOK, Nobody, exactActive,
    unknownActive, hasSession, searchVars, Aside
<1>1. ASSUME RunExact PROVE IndInv'
  <2>1. s' \in SearchThread
    BY <1>1 DEF RunExact, SearchThread
  <2>2. TypeOK'
    BY <1>1, <2>1 DEF RunExact, Threads
  <2>3. LockOwners'
    BY <1>1 DEF RunExact, LockOwners, SearchThread
  <2>4. SearchExclusion'
    BY <1>1 DEF RunExact, SearchExclusion, LockOwners, SearchThread
  <2>5. FreezeYieldsToSearch'
    BY <1>1 DEF RunExact, FreezeYieldsToSearch, LockOwners, SearchThread
  <2>6. QED
    BY <2>2, <2>3, <2>4, <2>5 DEF IndInv
<1>2. ASSUME RunUnknown PROVE IndInv'
  <2>1. s' \in SearchThread
    <3>1. s \in SearchThread /\ MaxChunks \in 0 .. MaxChunks
      OBVIOUS
    <3>2. [s EXCEPT !.pc = "scan", !.chunks = MaxChunks] \in SearchThread
      BY <3>1, SearchThreadType, Zenon
    <3>3. QED
      BY <1>2, <3>2 DEF RunUnknown
  <2>2. TypeOK'
    BY <1>2, <2>1 DEF RunUnknown, Threads
  <2>3. LockOwners'
    BY <1>2 DEF RunUnknown, LockOwners, SearchThread
  <2>4. SearchExclusion'
    BY <1>2 DEF RunUnknown, SearchExclusion, LockOwners, SearchThread
  <2>5. FreezeYieldsToSearch'
    BY <1>2 DEF RunUnknown, FreezeYieldsToSearch, LockOwners, SearchThread
  <2>6. QED
    BY <2>2, <2>3, <2>4, <2>5 DEF IndInv
<1>3. ASSUME OpenPinned PROVE IndInv'
  <2>1. s' \in SearchThread
    BY <1>3 DEF OpenPinned, SearchThread
  <2>2. TypeOK'
    BY <1>3, <2>1 DEF OpenPinned, Threads
  <2>3. LockOwners'
    BY <1>3 DEF OpenPinned, LockOwners, SearchThread
  <2>4. SearchExclusion'
    BY <1>3 DEF OpenPinned, SearchExclusion, LockOwners, SearchThread
  <2>5. FreezeYieldsToSearch'
    BY <1>3 DEF OpenPinned, FreezeYieldsToSearch, LockOwners, SearchThread
  <2>6. QED
    BY <2>2, <2>3, <2>4, <2>5 DEF IndInv
<1>4. ASSUME Chunk PROVE IndInv'
  <2>1. s' \in SearchThread
    <3>1. s.chunks - 1 \in 0 .. MaxChunks
      BY <1>4 DEF Chunk, SearchThread
    <3>2. [s EXCEPT !.chunks = @ - 1, !.pc = "scan"] =
          [s EXCEPT !.pc = "scan", !.chunks = s.chunks - 1]
      BY DEF SearchThread
    <3>3. CASE ~s.pause
      BY <1>4, <3>1, <3>2, <3>3, SearchThreadType, ZenonT(40) DEF Chunk
    <3>4. CASE s.pause
      BY <1>4, <3>1, <3>4 DEF Chunk, SearchThread
    <3>5. QED
      BY <3>3, <3>4
  <2>2. TypeOK'
    BY <1>4, <2>1 DEF Chunk, Threads
  <2>3. LockOwners'
    BY <1>4 DEF Chunk, LockOwners, SearchThread
  <2>4. SearchExclusion'
    BY <1>4 DEF Chunk, SearchExclusion, LockOwners, SearchThread
  <2>5. FreezeYieldsToSearch'
    BY <1>4 DEF Chunk, FreezeYieldsToSearch, LockOwners, SearchThread
  <2>6. QED
    BY <2>2, <2>3, <2>4, <2>5 DEF IndInv
<1>5. ASSUME FinishScan PROVE IndInv'
  <2>1. s' \in SearchThread
    <3>1. s \in SearchThread /\ 0 \in 0 .. MaxChunks
      OBVIOUS
    <3>2. [s EXCEPT !.pc = "idle", !.chunks = 0] \in SearchThread
      BY <3>1, SearchThreadType, Zenon
    <3>3. QED
      BY <1>5, <3>2 DEF FinishScan
  <2>2. TypeOK'
    BY <1>5, <2>1 DEF FinishScan, Threads
  <2>3. LockOwners'
    BY <1>5 DEF FinishScan, LockOwners, SearchThread
  <2>4. SearchExclusion'
    BY <1>5 DEF FinishScan, SearchExclusion, LockOwners, SearchThread
  <2>5. FreezeYieldsToSearch'
    BY <1>5 DEF FinishScan, FreezeYieldsToSearch, LockOwners, SearchThread
  <2>6. QED
    BY <2>2, <2>3, <2>4, <2>5 DEF IndInv
<1>6. QED
  BY <1>1, <1>2, <1>3, <1>4, <1>5 DEF Searcher

\* Applications come and go without touching locks or searches.
LEMMA ApplicationInv == IndInv /\ Application => IndInv'
<1> SUFFICES ASSUME IndInv, Application PROVE IndInv'
  OBVIOUS
<1>1. Elsewhere /\ app' \in App
  <2> USE FreezeAssumption DEF FreezeAssumption, IndInv, TypeOK
  <2>1. ASSUME NEW t \in Titles, Launch(t) PROVE Elsewhere /\ app' \in App
    BY <2>1 DEF Launch, App
  <2>2. ASSUME Started PROVE Elsewhere /\ app' \in App
    BY <2>2 DEF Started, App
  <2>3. ASSUME ExitApp PROVE Elsewhere /\ app' \in App
    BY <2>3 DEF ExitApp, App, NoApp
  <2>4. QED
    BY <2>1, <2>2, <2>3 DEF Application
<1>2. TypeOK'
  BY <1>1 DEF IndInv, TypeOK, Elsewhere, threadVars, searchVars
<1>3. LockOwners' /\ SearchExclusion' /\ FreezeYieldsToSearch'
  BY <1>1 DEF IndInv, LockOwners, SearchExclusion, FreezeYieldsToSearch, Elsewhere,
              threadVars, searchVars, exactActive, unknownActive, hasSession
<1>4. QED
  BY <1>2, <1>3 DEF IndInv

(***************************************************************************)
(* The inductive invariant: lock ownership, exclusion of the two kinds of  *)
(* search and the yield of the freeze worker hold in every reachable state.*)
(***************************************************************************)
THEOREM Invariance == Spec => []IndInv
<1>1. IndInv /\ [Next]_vars => IndInv'
  <2>1. IndInv /\ Next => IndInv'
    BY LockInv, CommandInv, UseBackendInv, FreezerInv, SearcherInv, ApplicationInv
       DEF Next, Main
  <2>2. IndInv /\ UNCHANGED vars => IndInv'
    BY DEF vars, threadVars, searchVars, IndInv, TypeOK, LockOwners, SearchExclusion,
           FreezeYieldsToSearch, exactActive, unknownActive, hasSession
  <2>3. QED
    BY <2>1, <2>2
<1>2. QED
  BY InitInv, <1>1, PTL DEF Spec

\* sub_freeze never waits for the backend, and never writes, during an unknown-value search.
THEOREM YieldsToSearch == Spec => []FreezeYieldsToSearch
BY Invariance, PTL DEF IndInv

\* The exact and the unknown-value search are never active together.
THEOREM OneSearch == Spec => []OneSearchAtATime
<1>1. IndInv => OneSearchAtATime
  BY DEF IndInv, SearchExclusion, OneSearchAtATime, hasSession, unknownActive
<1>2. QED
  BY Invariance, <1>1, PTL

\* An owed pause is the state the worker will read, at every step of every thread.
LEMMA PauseStep == IndInv /\ PauseKept /\ [Next]_vars => PauseKept'
<1> SUFFICES ASSUME IndInv, PauseKept, [Next]_vars PROVE PauseKept'
  OBVIOUS
<1> USE DEF PauseKept, IndInv, TypeOK, FreezeThread
<1>1. CASE MainLock \/ MainUnlock \/ UseBackend
  BY <1>1 DEF MainLock, MainUnlock, UseBackend
<1>2. CASE Command
  BY <1>2 DEF Command, unFreezeCommand, freezeClearCommand, freezePauseCommand,
              freezeUnpauseCommand, searchRefineCommand, searchCloseCommand, WantBackend,
              searchBeginCommand, Serve
<1>3. CASE Freezer
  <2> USE DEF Quiet
  <2>1. CASE StateCheck
    BY <2>1 DEF StateCheck
  <2>2. CASE Reset
    BY <2>2 DEF Reset
  <2>3. CASE IdlePoll \/ TopCheck \/ Lock \/ Settle \/ WriteAll
    BY <2>3 DEF IdlePoll, TopCheck, Lock, Settle, WriteAll
  <2>4. CASE Recheck
    BY <2>4 DEF Recheck
  <2>5. CASE OpenMemory
    BY <2>5 DEF OpenMemory
  <2>6. QED
    BY <1>3, <2>1, <2>2, <2>3, <2>4, <2>5 DEF Freezer
<1>4. CASE Searcher
  BY <1>4 DEF Searcher, RunExact, RunUnknown, OpenPinned, Chunk, FinishScan, Aside
<1>5. CASE Application
  BY <1>5 DEF Application, Launch, Started, ExitApp, Elsewhere, threadVars
<1>6. CASE UNCHANGED vars
  BY <1>6 DEF vars, threadVars
<1>7. QED
  BY <1>1, <1>2, <1>3, <1>4, <1>5, <1>6 DEF Next, Main

(***************************************************************************)
(* freezePause is obeyed: sub_freeze begins no write cycle until the pause *)
(* is lifted, unless the pause fell between its read of Idle and its reset.*)
(***************************************************************************)
THEOREM PauseIsObeyed == Spec => PauseHolds
<1>1. Init => PauseKept
  BY DEF Init, PauseKept
<1>2. IndInv /\ PauseKept /\ [Next]_vars =>
          [f.pc = "second" /\ f'.pc = "lock" => ~userPaused]_vars
  <2> SUFFICES ASSUME IndInv, PauseKept, Next, f.pc = "second", f'.pc = "lock", userPaused
               PROVE FALSE
    OBVIOUS
  <2> USE DEF PauseKept, IndInv, TypeOK, FreezeThread
  <2>1. CASE Freezer
    BY <2>1 DEF Freezer, IdlePoll, TopCheck, StateCheck, Reset, Lock, Recheck, OpenMemory,
                Settle, WriteAll
  <2>2. CASE Main
    BY <2>2 DEF Main, MainLock, MainUnlock, UseBackend, Command, unFreezeCommand,
                freezeClearCommand, freezePauseCommand, freezeUnpauseCommand,
                searchRefineCommand, searchCloseCommand, WantBackend, searchBeginCommand,
                Serve
  <2>3. CASE Searcher
    BY <2>3 DEF Searcher, RunExact, RunUnknown, OpenPinned, Chunk, FinishScan, Aside
  <2>4. CASE Application
    BY <2>4 DEF Application, Launch, Started, ExitApp, Elsewhere, threadVars
  <2>5. QED
    BY <2>1, <2>2, <2>3, <2>4 DEF Next
<1>3. QED
  BY Invariance, PauseStep, <1>1, <1>2, PTL DEF Spec, PauseHolds

-----------------------------------------------------------------------------
\* The order of slot numbers as a relation, so that the least element of a set exists.
Less == {p \in Nat \X Nat : p[1] < p[2]}

\* A set of naturals that is not empty has a least element.
LEMMA LeastElement ==
    ASSUME NEW T \in SUBSET Nat, T # {}
    PROVE  \E n \in T : \A m \in T : n <= m
<1>1. IsWellFoundedOn(Less, Nat)
  BY NatLessThanWellFounded, Zenon DEF Less, OpToRel
<1>2. PICK n \in T : \A m \in T : ~(<<m, n>> \in Less)
  BY <1>1, WFMin
<1>3. ASSUME NEW m \in T PROVE n <= m
  <2>1. m \in Nat /\ n \in Nat
    OBVIOUS
  <2>2. <<m, n>> \notin Less
    BY <1>2
  <2>3. QED
    BY <2>1, <2>2 DEF Less
<1>4. QED
  BY <1>3

\* Induction over the naturals, stated for a set.
LEMMA SetInduction ==
    ASSUME NEW T \in SUBSET Nat, 0 \in T, \A n \in T : n + 1 \in T
    PROVE  T = Nat
<1>1. SUFFICES ASSUME Nat \ T # {} PROVE FALSE
  OBVIOUS
<1>2. PICK n \in Nat \ T : \A m \in Nat \ T : n <= m
  <2> DEFINE U == Nat \ T
  <2>1. U \in SUBSET Nat /\ U # {}
    BY <1>1
  <2> HIDE DEF U
  <2>2. \E n \in U : \A m \in U : n <= m
    BY <2>1, LeastElement
  <2>3. QED
    BY <2>2 DEF U
<1>3. n # 0
  OBVIOUS
<1>4. n - 1 \in Nat /\ n - 1 < n
  BY <1>3
<1>5. n - 1 \in T
  BY <1>2, <1>4
<1>6. (n - 1) + 1 \in T
  BY <1>5
<1>7. QED
  BY <1>6

\* findAddrSlot returns a slot with the address, or -1 when no slot has it.
LEMMA FindAddrSlot ==
    ASSUME NEW t, NEW addr
    PROVE  LET slot == findAddrSlot(t, addr) IN
           \/ slot = -1 /\ \A i \in Slots : t[i].address # addr
           \/ slot \in Slots /\ t[slot].address = addr
<1> DEFINE hits == {i \in Slots : t[i].address = addr}
<1>1. CASE hits = {}
  BY <1>1 DEF findAddrSlot
<1>2. CASE hits # {}
  <2>1. hits \in SUBSET Nat
    BY FreezeAssumption DEF FreezeAssumption, Slots
  <2>2. \E i \in hits : \A j \in hits : i <= j
    <3> HIDE DEF hits
    <3>1. QED
      BY <1>2, <2>1, LeastElement
  <2>3. findAddrSlot(t, addr) \in hits
    BY <1>2, <2>2 DEF findAddrSlot
  <2>4. QED
    BY <2>3
<1>3. QED
  BY <1>1, <1>2

-----------------------------------------------------------------------------
\* What the commands keep true of a table t and a heap h: the address marks the
\* slots in use, each of them owns an allocated buffer, and no two share an
\* address or a buffer.  Slots not in use may keep a dangling pointer.
Sound(t, h) ==
    /\ t \in [Slots -> Block]
    /\ h \in [Buffers -> Data \cup {Free}]
    /\ \A i \in Slots : t[i].state # 0 <=> t[i].address # 0
    /\ \A i \in Slots : t[i].state # 0 => t[i].vData # 0 /\ h[t[i].vData] # Free
    /\ \A i, j \in Slots : t[i].state # 0 /\ t[j].state # 0 /\ i # j
                           => t[i].address # t[j].address /\ t[i].vData # t[j].vData

\* The value that a table t and a heap h hold for an address.
ValueIn(t, h, a) ==
    LET hits == {i \in active(t) : t[i].address = a} IN
    IF hits = {} THEN Free ELSE LET i == CHOOSE j \in hits : TRUE IN h[t[i].vData]

\* The table and the heap after the step of clearFreezes for slot n - 1.
sweepStep(th, n) ==
    IF th[1][n - 1].state # 0
    THEN removeFromFreezeMap(th[1], th[2], th[1][n - 1].address)
    ELSE th

\* The value held for an address is the one in the buffer of its slot.
LEMMA ValueOfSlot ==
    ASSUME NEW t, NEW h, Sound(t, h), NEW i \in Slots, t[i].state # 0
    PROVE  /\ ValueIn(t, h, t[i].address) = h[t[i].vData]
           /\ h[t[i].vData] \in Data
<1> DEFINE a == t[i].address
           hits == {j \in active(t) : t[j].address = a}
<1>1. i \in hits
  BY DEF active
<1>2. \A j \in hits : j = i
  BY DEF Sound, active
<1>3. (CHOOSE j \in hits : TRUE) = i
  BY <1>1, <1>2
<1>4. ValueIn(t, h, a) = h[t[i].vData]
  BY <1>1, <1>3 DEF ValueIn
<1>5. h[t[i].vData] \in Data
  <2>1. t[i].vData \in Buffers
    BY DEF Sound, Block
  <2>2. QED
    BY <2>1 DEF Sound
<1>6. QED
  BY <1>4, <1>5

\* Without a slot nothing is held.
LEMMA ValueOfNone ==
    ASSUME NEW t, NEW h, NEW a, \A i \in Slots : t[i].state # 0 => t[i].address # a
    PROVE  ValueIn(t, h, a) = Free
<1>1. {i \in active(t) : t[i].address = a} = {}
  BY DEF active
<1>2. QED
  BY <1>1 DEF ValueIn

\* Two sound tables that have the same slot, with the same content, for an
\* address hold the same value for it.
LEMMA SameValue ==
    ASSUME NEW t, NEW h, NEW u, NEW k, NEW a, Sound(t, h), Sound(u, k),
           \A i \in Slots : (t[i].state # 0 /\ t[i].address = a) <=> (u[i].state # 0 /\ u[i].address = a),
           \A i \in Slots : t[i].state # 0 /\ t[i].address = a => h[t[i].vData] = k[u[i].vData]
    PROVE  ValueIn(t, h, a) = ValueIn(u, k, a)
<1>1. CASE \E i \in Slots : t[i].state # 0 /\ t[i].address = a
  <2>1. PICK i \in Slots : t[i].state # 0 /\ t[i].address = a
    BY <1>1
  <2>2. u[i].state # 0 /\ u[i].address = a
    BY <2>1
  <2>3. ValueIn(t, h, a) = h[t[i].vData]
    BY <2>1, ValueOfSlot
  <2>4. ValueIn(u, k, a) = k[u[i].vData]
    BY <2>2, ValueOfSlot
  <2>5. QED
    BY <2>1, <2>3, <2>4
<1>2. CASE \A i \in Slots : t[i].state # 0 => t[i].address # a
  <2>1. ValueIn(t, h, a) = Free
    BY <1>2, ValueOfNone
  <2>2. \A i \in Slots : u[i].state # 0 => u[i].address # a
    BY <1>2
  <2>3. ValueIn(u, k, a) = Free
    BY <2>2, ValueOfNone
  <2>4. QED
    BY <2>1, <2>3
<1>3. QED
  BY <1>1, <1>2

\* The table u and the heap k are t and h without the slot in use for an address.
WithoutSlot(t, h, addr, u, k) ==
    /\ Sound(u, k)
    /\ \A i \in Slots : u[i].state = 0 <=> (t[i].state = 0 \/ t[i].address = addr)
    /\ \A i \in Slots : u[i].state # 0 => u[i] = t[i] /\ k[t[i].vData] = h[t[i].vData]

\* Removal empties the slot of the address, frees its buffer and touches nothing else.
LEMMA Removal ==
    ASSUME NEW t, NEW h, Sound(t, h), NEW addr \in Nat \ {0}
    PROVE  WithoutSlot(t, h, addr, removeFromFreezeMap(t, h, addr)[1],
                       removeFromFreezeMap(t, h, addr)[2])
<1> DEFINE slot == findAddrSlot(t, addr)
           th == removeFromFreezeMap(t, h, addr)
<1> USE FreezeAssumption DEF FreezeAssumption
<1>1. CASE slot = -1
  <2>1. th = <<t, h>>
    BY <1>1 DEF removeFromFreezeMap
  <2>2. \A i \in Slots : t[i].address # addr
    BY <1>1, FindAddrSlot DEF Slots
  <2> HIDE DEF th, slot
  <2>3. QED
    BY <2>1, <2>2 DEF th, WithoutSlot
<1>2. CASE slot # -1
  <2>1. slot \in Slots /\ t[slot].address = addr
    BY <1>2, FindAddrSlot
  <2>2. th = << [t EXCEPT ![slot].address = 0, ![slot].state = 0], free(h, t[slot].vData) >>
    BY <1>2 DEF removeFromFreezeMap
  <2> HIDE DEF th, slot
  <2> DEFINE p == t[slot].vData
  <2>3. t[slot].state # 0
    BY <2>1 DEF Sound
  <2>4. p \in Buffers /\ p # 0
    BY <2>1, <2>3 DEF Sound, Block
  <2>5. th[2] = [h EXCEPT ![p] = Free]
    BY <2>2, <2>4 DEF free
  <2>6. /\ \A i \in Slots : i # slot => th[1][i] = t[i]
        /\ th[1][slot].state = 0 /\ th[1][slot].address = 0
        /\ th[1] \in [Slots -> Block]
    <3>1. th[1] = [t EXCEPT ![slot].address = 0, ![slot].state = 0]
      BY <2>2
    <3>2. t \in [Slots -> Block]
      BY DEF Sound
    <3>3. [[t[slot] EXCEPT !.address = 0] EXCEPT !.state = 0] \in Block
      BY <2>1, <3>2, ZenonT(40) DEF Block
    <3>4. th[1] = [t EXCEPT ![slot] = [[t[slot] EXCEPT !.address = 0] EXCEPT !.state = 0]]
      BY <2>1, <3>1, <3>2 DEF Block
    <3>5. t[slot] \in Block
      BY <2>1, <3>2
    <3>6. QED
      BY <2>1, <3>2, <3>3, <3>4, <3>5 DEF Block
  <2>7. th[2] \in [Buffers -> Data \cup {Free}]
    BY <2>4, <2>5 DEF Sound
  <2>8. \A i \in Slots : i # slot /\ t[i].state # 0
                         => t[i].vData # p /\ t[i].vData \in Buffers /\ t[i].address # addr
    BY <2>1, <2>3 DEF Sound, Block
  <2>9. \A i \in Slots : i # slot /\ t[i].state # 0 => th[2][t[i].vData] = h[t[i].vData]
    BY <2>4, <2>5, <2>8 DEF Sound
  <2>10. Sound(th[1], th[2])
    BY <2>1, <2>6, <2>7, <2>9 DEF Sound
  <2>11. \A i \in Slots : th[1][i].state = 0 <=> (t[i].state = 0 \/ t[i].address = addr)
    BY <2>1, <2>6, <2>8
  <2>12. \A i \in Slots : th[1][i].state # 0 => th[1][i] = t[i] /\ th[2][t[i].vData] = h[t[i].vData]
    BY <2>6, <2>9
  <2>13. QED
    BY <2>10, <2>11, <2>12 DEF th, WithoutSlot
<1>3. QED
  BY <1>1, <1>2

\* What the table and the heap hold after removal: the address is gone, the others stay.
LEMMA RemovalValues ==
    ASSUME NEW t, NEW h, Sound(t, h), NEW addr \in Nat \ {0}
    PROVE  LET th == removeFromFreezeMap(t, h, addr) IN
           /\ ValueIn(th[1], th[2], addr) = Free
           /\ \A a : a # addr => ValueIn(th[1], th[2], a) = ValueIn(t, h, a)
<1> DEFINE th == removeFromFreezeMap(t, h, addr)
<1>1. /\ Sound(th[1], th[2])
      /\ \A i \in Slots : th[1][i].state = 0 <=> (t[i].state = 0 \/ t[i].address = addr)
      /\ \A i \in Slots : th[1][i].state # 0 => th[1][i] = t[i] /\ th[2][t[i].vData] = h[t[i].vData]
  <2>1. WithoutSlot(t, h, addr, th[1], th[2])
    BY Removal
  <2>2. QED
    BY <2>1 DEF WithoutSlot
<1> HIDE DEF th
<1>2. ValueIn(th[1], th[2], addr) = Free
  BY <1>1, ValueOfNone
<1>3. ASSUME NEW a, a # addr PROVE ValueIn(t, h, a) = ValueIn(th[1], th[2], a)
  <2>1. \A i \in Slots : (t[i].state # 0 /\ t[i].address = a)
                         <=> (th[1][i].state # 0 /\ th[1][i].address = a)
    BY <1>1, <1>3
  <2>2. \A i \in Slots : t[i].state # 0 /\ t[i].address = a => h[t[i].vData] = th[2][th[1][i].vData]
    BY <1>1, <1>3
  <2>3. QED
    BY <1>1, <2>1, <2>2, SameValue
<1>4. QED
  BY <1>2, <1>3 DEF th

\* The recursive function of clearFreezes exists and satisfies its equation.
LEMMA SweepDefined ==
    ASSUME NEW t, NEW h
    PROVE  \E sw : /\ sw = [n \in 0 .. FREEZE_DIC_LENGTH |->
                            IF n = 0 THEN <<t, h>> ELSE sweepStep(sw[n - 1], n)]
                  /\ clearFreezes(t, h) = sw[FREEZE_DIC_LENGTH]
<1> DEFINE L == FREEZE_DIC_LENGTH
           T == {k \in Nat : \E sw : sw = [n \in 0 .. k |->
                    IF n = 0 THEN <<t, h>> ELSE sweepStep(sw[n - 1], n)]}
<1>1. L \in Nat
  BY FreezeAssumption DEF FreezeAssumption
<1>2. 0 \in T
  <2>1. [n \in 0 .. 0 |-> <<t, h>>] =
        [n \in 0 .. 0 |-> IF n = 0 THEN <<t, h>> ELSE sweepStep([m \in 0 .. 0 |-> <<t, h>>][n - 1], n)]
    OBVIOUS
  <2>2. QED
    BY <2>1
<1>3. ASSUME NEW k \in T PROVE k + 1 \in T
  <2>1. PICK sw : sw = [n \in 0 .. k |-> IF n = 0 THEN <<t, h>> ELSE sweepStep(sw[n - 1], n)]
    BY <1>3
  <2>2. k \in Nat
    BY <1>3
  <2> DEFINE r == [n \in 0 .. k + 1 |-> IF n = k + 1 THEN sweepStep(sw[k], k + 1) ELSE sw[n]]
  <2>3. ASSUME NEW n \in 0 .. k + 1
        PROVE  r[n] = IF n = 0 THEN <<t, h>> ELSE sweepStep(r[n - 1], n)
    <3>1. CASE n = k + 1
      <4>1. r[n] = sweepStep(sw[k], k + 1)
        BY <3>1
      <4>2. r[n - 1] = sw[k]
        BY <2>2, <3>1
      <4>3. QED
        BY <2>2, <3>1, <4>1, <4>2
    <3>2. CASE n # k + 1
      <4>1. n \in 0 .. k
        BY <2>2, <3>2
      <4>2. r[n] = sw[n]
        BY <3>2
      <4>3. n # 0 => n - 1 \in 0 .. k + 1 /\ r[n - 1] = sw[n - 1]
        BY <2>2, <4>1
      <4>4. sw[n] = IF n = 0 THEN <<t, h>> ELSE sweepStep(sw[n - 1], n)
        BY <2>1, <4>1
      <4> HIDE DEF r
      <4>5. QED
        BY <4>2, <4>3, <4>4
    <3>3. QED
      BY <3>1, <3>2
  <2>4. r = [n \in 0 .. k + 1 |-> r[n]]
    OBVIOUS
  <2> HIDE DEF r
  <2>5. r = [n \in 0 .. k + 1 |-> IF n = 0 THEN <<t, h>> ELSE sweepStep(r[n - 1], n)]
    BY <2>3, <2>4
  <2>6. QED
    BY <2>2, <2>5
<1>4. T = Nat
  <2>1. T \in SUBSET Nat
    OBVIOUS
  <2> HIDE DEF T
  <2>2. QED
    BY <1>2, <1>3, <2>1, SetInduction
<1> DEFINE IsSweep(sw) == sw = [n \in 0 .. L |-> IF n = 0 THEN <<t, h>> ELSE sweepStep(sw[n - 1], n)]
           chosen == CHOOSE sw : IsSweep(sw)
<1>5. \E sw : IsSweep(sw)
  BY <1>1, <1>4
<1>6. IsSweep(chosen)
  <2> HIDE DEF IsSweep
  <2>1. QED
    BY <1>5
<1>7. clearFreezes(t, h) = chosen[L]
  BY DEF clearFreezes, sweepStep
<1>8. QED
  BY <1>6, <1>7

\* clearFreezes leaves a sound table without a slot in use.
LEMMA Clearing ==
    ASSUME NEW t, NEW h, Sound(t, h)
    PROVE  LET th == clearFreezes(t, h) IN
           /\ Sound(th[1], th[2])
           /\ \A i \in Slots : th[1][i].state = 0
<1> DEFINE L == FREEZE_DIC_LENGTH
<1>1. L \in Nat
  BY FreezeAssumption DEF FreezeAssumption
<1>2. PICK sw : /\ sw = [n \in 0 .. L |-> IF n = 0 THEN <<t, h>> ELSE sweepStep(sw[n - 1], n)]
               /\ clearFreezes(t, h) = sw[L]
  BY SweepDefined
<1>3. sw[0] = <<t, h>>
  BY <1>1, <1>2
<1>4. ASSUME NEW n \in 0 .. L, n < L PROVE sw[n + 1] = sweepStep(sw[n], n + 1)
  BY <1>1, <1>2, <1>4
<1> DEFINE Done(n) == /\ Sound(sw[n][1], sw[n][2])
                      /\ \A i \in Slots : i < n => sw[n][1][i].state = 0
           T == {n \in Nat : n <= L => Done(n)}
<1>5. 0 \in T
  BY <1>3 DEF Slots
<1>6. ASSUME NEW n \in T PROVE n + 1 \in T
  <2>1. SUFFICES ASSUME n + 1 <= L PROVE Done(n + 1)
    BY <1>6
  <2>2. n \in 0 .. L /\ n < L /\ n \in Nat /\ Done(n)
    BY <1>1, <1>6, <2>1
  <2>3. n \in Slots
    BY <1>1, <2>2 DEF Slots
  <2> DEFINE th == sw[n]
             a == th[1][n].address
  <2>4. sw[n + 1] = IF th[1][n].state # 0 THEN removeFromFreezeMap(th[1], th[2], a) ELSE th
    BY <1>4, <2>2 DEF sweepStep
  <2>5. CASE th[1][n].state = 0
    <3>1. sw[n + 1] = th
      BY <2>4, <2>5
    <3>2. \A i \in Slots : i < n + 1 => i < n \/ i = n
      BY <2>2 DEF Slots
    <3>3. QED
      BY <2>2, <2>5, <3>1, <3>2
  <2>6. CASE th[1][n].state # 0
    <3>1. sw[n + 1] = removeFromFreezeMap(th[1], th[2], a)
      BY <2>4, <2>6
    <3>2. a \in Nat \ {0}
      BY <2>2, <2>3, <2>6, FreezeAssumption DEF Sound, Block, FreezeAssumption
    <3> HIDE DEF a
    <3>3. /\ Sound(sw[n + 1][1], sw[n + 1][2])
          /\ \A i \in Slots : sw[n + 1][1][i].state = 0 <=> (th[1][i].state = 0 \/ th[1][i].address = a)
      <4>1. WithoutSlot(th[1], th[2], a, sw[n + 1][1], sw[n + 1][2])
        BY <2>2, <3>1, <3>2, Removal
      <4>2. QED
        BY <4>1 DEF WithoutSlot
    <3>4. \A i \in Slots : i < n + 1 => i < n \/ i = n
      BY <2>2 DEF Slots
    <3>5. QED
      BY <2>2, <3>3, <3>4 DEF a
  <2>7. QED
    BY <2>5, <2>6
<1>7. T = Nat
  <2>1. T \in SUBSET Nat
    OBVIOUS
  <2> HIDE DEF T
  <2>2. QED
    BY <1>5, <1>6, <2>1, SetInduction
<1>8. Done(L)
  BY <1>1, <1>7
<1>9. \A i \in Slots : i < L
  BY <1>1 DEF Slots
<1>10. QED
  BY <1>2, <1>8, <1>9

\* addToFreezeMap with a buffer fresh from malloc: the table stays sound, and it
\* holds the value for the address, unless the address is new and no slot is
\* empty; then nothing changes.
LEMMA Adding ==
    ASSUME NEW t, NEW h, Sound(t, h), NEW addr \in Addresses, addr # 0, NEW v \in Data,
           NEW tid \in Titles, NEW b \in Buffers, h[b] = Free
    PROVE  LET th == addToFreezeMap(t, [h EXCEPT ![b] = v], addr, b, tid) IN
           /\ Sound(th[1], th[2])
           /\ \A a : a # addr => ValueIn(th[1], th[2], a) = ValueIn(t, h, a)
           /\ \/ /\ ValueIn(th[1], th[2], addr) = v
                 /\ \/ \E i \in Slots : t[i].state # 0 /\ t[i].address = addr
                    \/ \E i \in Slots : t[i].state = 0
              \/ ValueIn(th[1], th[2], addr) = ValueIn(t, h, addr)
<1> USE FreezeAssumption DEF FreezeAssumption
<1> DEFINE k == [h EXCEPT ![b] = v]
           known == findAddrSlot(t, addr)
           empty == findNextEmptySlot(t)
           slot == IF known = -1 THEN empty ELSE known
           removed == IF known = -1 THEN <<t, k>> ELSE removeFromFreezeMap(t, k, addr)
           block == [address |-> addr, state |-> 1, vData |-> b, titleId |-> tid]
           th == addToFreezeMap(t, k, addr, b, tid)
<1> SUFFICES /\ Sound(th[1], th[2])
             /\ \A a : a # addr => ValueIn(th[1], th[2], a) = ValueIn(t, h, a)
             /\ \/ /\ ValueIn(th[1], th[2], addr) = v
                   /\ \/ \E i \in Slots : t[i].state # 0 /\ t[i].address = addr
                      \/ \E i \in Slots : t[i].state = 0
                \/ ValueIn(th[1], th[2], addr) = ValueIn(t, h, addr)
  OBVIOUS
<1>1. th = IF slot = -1 THEN <<t, k>> ELSE << [removed[1] EXCEPT ![slot] = block], removed[2] >>
  BY DEF addToFreezeMap
<1>2. block \in Block
  BY DEF Block
<1>12. addr \in Nat \ {0}
  OBVIOUS
<1>3. /\ k \in [Buffers -> Data \cup {Free}]
      /\ k[b] = v
      /\ \A p \in Buffers : p # b => k[p] = h[p]
  BY DEF Sound
<1> HIDE DEF k
<1>4. \A i \in Slots : t[i].state # 0 => t[i].vData \in Buffers /\ t[i].vData # b
  BY DEF Sound, Block
<1>5. Sound(t, k)
  BY <1>3, <1>4 DEF Sound
<1>6. \A a : ValueIn(t, k, a) = ValueIn(t, h, a)
  <2> TAKE a
  <2>1. \A i \in Slots : t[i].state # 0 /\ t[i].address = a => h[t[i].vData] = k[t[i].vData]
    BY <1>3, <1>4
  <2>2. QED
    BY <1>5, <2>1, SameValue
<1>7. \/ known = -1 /\ \A i \in Slots : t[i].address # addr
      \/ known \in Slots /\ t[known].address = addr
  BY FindAddrSlot
<1>8. \/ empty = -1
      \/ empty \in Slots /\ t[empty].address = 0
  BY FindAddrSlot DEF findNextEmptySlot
<1> HIDE DEF known, empty, th
<1>9. CASE slot = -1
  <2>1. th = <<t, k>>
    BY <1>1, <1>9
  <2>2. QED
    BY <1>5, <1>6, <2>1
<1>10. CASE slot # -1
  <2>1. slot \in Slots
    BY <1>7, <1>8, <1>10
  <2> DEFINE rt == removed[1]
             rh == removed[2]
  <2>2. /\ Sound(rt, rh)
        /\ \A a : a # addr => ValueIn(rt, rh, a) = ValueIn(t, h, a)
        /\ \A i \in Slots : rt[i].state # 0 => rt[i] = t[i] /\ rt[i].address # addr
        /\ rt[slot].state = 0
        /\ rh[b] = v
        /\ \/ \E i \in Slots : t[i].state # 0 /\ t[i].address = addr
           \/ \E i \in Slots : t[i].state = 0
    <3>1. CASE known = -1
      <4>1. rt = t /\ rh = k
        BY <3>1
      <4>2. empty \in Slots /\ t[empty].address = 0 /\ slot = empty
        BY <1>8, <1>10, <3>1
      <4>3. t[empty].state = 0
        BY <4>2 DEF Sound
      <4>4. \A i \in Slots : t[i].address # addr
        BY <1>7, <3>1 DEF Slots
      <4> HIDE DEF rt, rh, slot
      <4>5. QED
        BY <1>3, <1>5, <1>6, <4>1, <4>2, <4>3, <4>4
    <3>2. CASE known # -1
      <4>1. removed = removeFromFreezeMap(t, k, addr) /\ slot = known
        BY <3>2
      <4>2. known \in Slots /\ t[known].address = addr
        BY <1>7, <3>2
      <4>3. t[known].state # 0
        BY <4>2 DEF Sound
      <4> HIDE DEF removed, slot
      <4>4. /\ Sound(rt, rh)
            /\ \A i \in Slots : rt[i].state = 0 <=> (t[i].state = 0 \/ t[i].address = addr)
            /\ \A i \in Slots : rt[i].state # 0 => rt[i] = t[i]
        <5>1. WithoutSlot(t, k, addr, removed[1], removed[2])
          BY <1>5, <1>12, <4>1, Removal
        <5>2. QED
          BY <5>1 DEF WithoutSlot
      <4>5. \A a : a # addr => ValueIn(rt, rh, a) = ValueIn(t, k, a)
        BY <1>5, <1>12, <4>1, RemovalValues
      <4>6. rh = [k EXCEPT ![t[known].vData] = Free]
        <5>1. rh = free(k, t[known].vData)
          BY <3>2, <4>1 DEF removeFromFreezeMap, known
        <5>2. t[known].vData # 0
          BY <4>2, <4>3 DEF Sound
        <5>3. QED
          BY <5>1, <5>2 DEF free
      <4>7. rh[b] = v
        BY <1>3, <1>4, <4>2, <4>3, <4>6
      <4> HIDE DEF rt, rh
      <4>8. QED
        BY <1>6, <4>1, <4>2, <4>3, <4>4, <4>5, <4>7
    <3>3. QED
      BY <3>1, <3>2
  <2>3. th = << [rt EXCEPT ![slot] = block], rh >>
    BY <1>1, <1>10
  <2>4. block.address = addr /\ block.state = 1 /\ block.vData = b
    OBVIOUS
  <2> HIDE DEF rt, rh, slot, block
  <2>5. rt \in [Slots -> Block] /\ rh \in [Buffers -> Data \cup {Free}]
    BY <2>2 DEF Sound
  <2>6. /\ th[1] \in [Slots -> Block]
        /\ th[1][slot] = block
        /\ \A i \in Slots : i # slot => th[1][i] = rt[i]
        /\ th[2] = rh
    BY <1>2, <2>1, <2>3, <2>5
  <2>7. \A i \in Slots : rt[i].state # 0 => rt[i].vData # b
    BY <1>4, <2>2
  <2>8. Sound(th[1], th[2])
    <3>1. \A i \in Slots : th[1][i].state # 0 <=> th[1][i].address # 0
      BY <2>2, <2>4, <2>6 DEF Sound
    <3>2. \A i \in Slots : th[1][i].state # 0 => th[1][i].vData # 0 /\ th[2][th[1][i].vData] # Free
      <4>1. b # 0 /\ v # Free
        OBVIOUS
      <4>2. QED
        BY <2>2, <2>4, <2>6, <4>1 DEF Sound
    <3>3. \A i, j \in Slots : th[1][i].state # 0 /\ th[1][j].state # 0 /\ i # j
                => th[1][i].address # th[1][j].address /\ th[1][i].vData # th[1][j].vData
      <4> TAKE i, j \in Slots
      <4>1. CASE i = slot
        BY <2>2, <2>4, <2>6, <2>7, <4>1
      <4>2. CASE j = slot
        BY <2>2, <2>4, <2>6, <2>7, <4>2
      <4>3. CASE i # slot /\ j # slot
        BY <2>2, <2>6, <4>3 DEF Sound
      <4>4. QED
        BY <4>1, <4>2, <4>3
    <3>4. QED
      BY <2>5, <2>6, <3>1, <3>2, <3>3 DEF Sound
  <2>9. ValueIn(th[1], th[2], addr) = v
    <3>1. th[1][slot].state # 0 /\ th[1][slot].address = addr /\ th[2][th[1][slot].vData] = v
      BY <2>2, <2>4, <2>6
    <3>2. QED
      BY <2>1, <2>8, <3>1, ValueOfSlot
  <2>10. ASSUME NEW a, a # addr PROVE ValueIn(rt, rh, a) = ValueIn(th[1], th[2], a)
    <3>1. \A i \in Slots : (rt[i].state # 0 /\ rt[i].address = a)
                           <=> (th[1][i].state # 0 /\ th[1][i].address = a)
      BY <2>2, <2>4, <2>6, <2>10
    <3>2. \A i \in Slots : rt[i].state # 0 /\ rt[i].address = a
                           => rh[rt[i].vData] = th[2][th[1][i].vData]
      BY <2>2, <2>6
    <3>3. QED
      BY <2>2, <2>8, <3>1, <3>2, SameValue
  <2>11. QED
    BY <2>2, <2>8, <2>9, <2>10
<1>11. QED
  BY <1>9, <1>10

-----------------------------------------------------------------------------
\* The map has room while a slot is empty: every address held has a slot of its own.
LEMMA RoomForOne ==
    ASSUME Sound(freezes, heap), NEW e \in Slots, freezes[e].state = 0
    PROVE  Cardinality(Map!Held([a \in Addresses |-> ValueAt(a)])) < FREEZE_DIC_LENGTH
<1> DEFINE held == Map!Held([a \in Addresses |-> ValueAt(a)])
           rest == Slots \ {e}
           slotOf == [a \in held |-> CHOOSE i \in Slots : freezes[i].state # 0 /\ freezes[i].address = a]
<1>1. ASSUME NEW a \in held
      PROVE  \E i \in Slots : freezes[i].state # 0 /\ freezes[i].address = a
  <2>1. ValueAt(a) # Free
    BY DEF Map!Held
  <2>2. ValueAt(a) = ValueIn(freezes, heap, a)
    BY DEF ValueAt, ValueIn
  <2>3. QED
    BY <2>1, <2>2, ValueOfNone
<1>2. \A a \in held : /\ slotOf[a] \in Slots
                      /\ freezes[slotOf[a]].state # 0
                      /\ freezes[slotOf[a]].address = a
  BY <1>1
<1>3. slotOf \in Injection(held, rest)
  <2>1. slotOf \in [held -> rest]
    BY <1>2
  <2>2. \A a, c \in held : a # c => slotOf[a] # slotOf[c]
    BY <1>2
  <2> HIDE DEF slotOf, held, rest
  <2>3. QED
    BY <2>1, <2>2 DEF Injection, IsInjective
<1>4. /\ IsFiniteSet(rest)
      /\ Cardinality(rest) = FREEZE_DIC_LENGTH - 1
  <2>1. FREEZE_DIC_LENGTH \in Nat /\ FREEZE_DIC_LENGTH # 0
    BY FreezeAssumption DEF FreezeAssumption
  <2>2. IsFiniteSet(Slots) /\ Cardinality(Slots) = FREEZE_DIC_LENGTH
    <3>1. 0 \in Int /\ FREEZE_DIC_LENGTH - 1 \in Int /\ ~(0 > FREEZE_DIC_LENGTH - 1)
      BY <2>1
    <3>2. /\ IsFiniteSet(0 .. FREEZE_DIC_LENGTH - 1)
          /\ Cardinality(0 .. FREEZE_DIC_LENGTH - 1) = (FREEZE_DIC_LENGTH - 1) - 0 + 1
      BY <3>1, FS_Interval
    <3>3. QED
      BY <2>1, <3>2 DEF Slots
  <2>3. QED
    BY <2>2, FS_RemoveElement
<1> HIDE DEF held, rest, slotOf
<1>5. IsFiniteSet(held) /\ Cardinality(held) <= Cardinality(rest)
  BY <1>3, <1>4, FS_Injection
<1>6. Cardinality(held) \in Nat
  BY <1>5, FS_CardinalityType
<1>7. FREEZE_DIC_LENGTH \in Nat
  BY FreezeAssumption DEF FreezeAssumption
<1>8. QED
  BY <1>4, <1>5, <1>6, <1>7 DEF held

\* What the table maps to, before and after a step.
LEMMA HeldValues ==
    /\ \A a : ValueAt(a) = ValueIn(freezes, heap, a)
    /\ \A a : ValueAt(a)' = ValueIn(freezes', heap', a)
BY DEF ValueAt, ValueIn, active

\* Every command keeps the table sound and is a step of the map, or a stutter.
LEMMA TableStep ==
    ASSUME 0 \notin Addresses, Sound(freezes, heap), [TableNext]_tableVars
    PROVE  /\ Sound(freezes', heap')
           /\ [Map!Next]_([a \in Addresses |-> ValueAt(a)])
<1> DEFINE frozen == [a \in Addresses |-> ValueAt(a)]
           next == [a \in Addresses |-> ValueIn(freezes', heap', a)]
<1>1. frozen' = next
  BY HeldValues
<1>2. \A a \in Addresses : a \in Nat \ {0}
  BY FreezeAssumption DEF FreezeAssumption
<1>3. \A a \in Addresses : frozen[a] = ValueIn(freezes, heap, a)
  BY HeldValues
<1>4. CASE UNCHANGED tableVars
  <2>1. freezes' = freezes /\ heap' = heap
    BY <1>4 DEF tableVars
  <2>2. frozen' = frozen
    BY <2>1, HeldValues
  <2>3. QED
    BY <2>1, <2>2
<1>5. ASSUME NEW addr \in Addresses, NEW v \in Data, NEW tid \in Titles, freeze(addr, v, tid)
      PROVE  Sound(freezes', heap') /\ [Map!Next]_frozen
  <2>1. PICK b \in Buffers :
            /\ heap[b] = Free
            /\ freezes' = addToFreezeMap(freezes, [heap EXCEPT ![b] = v], addr, b, tid)[1]
            /\ heap' = addToFreezeMap(freezes, [heap EXCEPT ![b] = v], addr, b, tid)[2]
    BY <1>5 DEF freeze
  <2>2. /\ Sound(freezes', heap')
        /\ \A a : a # addr => ValueIn(freezes', heap', a) = ValueIn(freezes, heap, a)
        /\ \/ /\ ValueIn(freezes', heap', addr) = v
              /\ \/ \E i \in Slots : freezes[i].state # 0 /\ freezes[i].address = addr
                 \/ \E i \in Slots : freezes[i].state = 0
           \/ ValueIn(freezes', heap', addr) = ValueIn(freezes, heap, addr)
    <3>1. addr # 0
      BY <1>2
    <3> DEFINE q == addToFreezeMap(freezes, [heap EXCEPT ![b] = v], addr, b, tid)
    <3>2. /\ Sound(q[1], q[2])
          /\ \A a : a # addr => ValueIn(q[1], q[2], a) = ValueIn(freezes, heap, a)
          /\ \/ /\ ValueIn(q[1], q[2], addr) = v
                /\ \/ \E i \in Slots : freezes[i].state # 0 /\ freezes[i].address = addr
                   \/ \E i \in Slots : freezes[i].state = 0
             \/ ValueIn(q[1], q[2], addr) = ValueIn(freezes, heap, addr)
      BY <2>1, <3>1, Adding, ZenonT(40)
    <3>3. freezes' = q[1] /\ heap' = q[2]
      BY <2>1
    <3> HIDE DEF q
    <3>4. QED
      BY <3>2, <3>3
  <2>3. CASE ValueIn(freezes', heap', addr) = ValueIn(freezes, heap, addr)
    <3>1. frozen' = frozen
      BY <1>1, <2>2, <2>3, HeldValues
    <3>2. QED
      BY <2>2, <3>1
  <2>4. CASE /\ ValueIn(freezes', heap', addr) = v
             /\ \/ \E i \in Slots : freezes[i].state # 0 /\ freezes[i].address = addr
                \/ \E i \in Slots : freezes[i].state = 0
    <3>1. frozen' = [frozen EXCEPT ![addr] = v]
      BY <1>1, <1>3, <2>2, <2>4
    <3>2. CASE \E i \in Slots : freezes[i].state # 0 /\ freezes[i].address = addr
      <4>1. frozen[addr] \in Data
        BY <1>3, <3>2, ValueOfSlot
      <4>2. frozen[addr] # Free
        BY <4>1, FreezeAssumption DEF FreezeAssumption
      <4> HIDE DEF frozen, next
      <4>3. Map!Freeze(addr, v)
        BY <3>1, <4>2 DEF Map!Freeze, frozen
      <4>4. QED
        BY <2>2, <4>3 DEF Map!Next, frozen
    <3>3. CASE \E i \in Slots : freezes[i].state = 0
      <4>1. Cardinality(Map!Held(frozen)) < FREEZE_DIC_LENGTH
        BY <3>3, RoomForOne
      <4> HIDE DEF frozen, next
      <4>2. Map!Cardinality(Map!Held(frozen)) = Cardinality(Map!Held(frozen))
        BY DEF Map!Cardinality, Cardinality
      <4>4. Map!Freeze(addr, v)
        BY <3>1, <4>1, <4>2 DEF Map!Freeze, frozen
      <4>3. QED
        BY <2>2, <4>4 DEF Map!Next, frozen
    <3>4. QED
      BY <2>4, <3>2, <3>3
  <2>5. QED
    BY <2>2, <2>3, <2>4
<1>6. ASSUME NEW addr \in Addresses, unFreeze(addr)
      PROVE  Sound(freezes', heap') /\ [Map!Next]_frozen
  <2>1. /\ freezes' = removeFromFreezeMap(freezes, heap, addr)[1]
        /\ heap' = removeFromFreezeMap(freezes, heap, addr)[2]
    BY <1>6 DEF unFreeze
  <2>2. Sound(freezes', heap')
    <3>1. WithoutSlot(freezes, heap, addr, freezes', heap')
      BY <1>2, <2>1, Removal
    <3>2. QED
      BY <3>1 DEF WithoutSlot
  <2>3. /\ ValueIn(freezes', heap', addr) = Free
        /\ \A a : a # addr => ValueIn(freezes', heap', a) = ValueIn(freezes, heap, a)
    BY <1>2, <2>1, RemovalValues
  <2>4. frozen' = [frozen EXCEPT ![addr] = Free]
    BY <1>1, <1>3, <2>3
  <2>5. Map!UnFreeze(addr)
    BY <2>4 DEF Map!UnFreeze
  <2>6. QED
    BY <2>2, <2>5 DEF Map!Next
<1>7. ASSUME freezeClear PROVE Sound(freezes', heap') /\ [Map!Next]_frozen
  <2>1. /\ freezes' = clearFreezes(freezes, heap)[1]
        /\ heap' = clearFreezes(freezes, heap)[2]
    BY <1>7 DEF freezeClear
  <2>2. /\ Sound(freezes', heap')
        /\ \A i \in Slots : freezes'[i].state = 0
    BY <2>1, Clearing
  <2>3. \A a : ValueIn(freezes', heap', a) = Free
    BY <2>2, ValueOfNone
  <2>4. frozen' = [a \in Addresses |-> Free]
    BY <1>1, <2>3
  <2>5. Map!Clear
    BY <2>4 DEF Map!Clear
  <2>6. QED
    BY <2>2, <2>5 DEF Map!Next
<1>8. QED
  BY <1>4, <1>5, <1>6, <1>7 DEF TableNext

\* The empty table is sound and maps to the empty map.
LEMMA TableStart == TableInit => Sound(freezes, heap) /\ Map!Init
<1> SUFFICES ASSUME TableInit PROVE Sound(freezes, heap) /\ Map!Init
  OBVIOUS
<1>1. \A i \in Slots : freezes[i] = EmptyBlock
  BY DEF TableInit
<1>2. Sound(freezes, heap)
  BY <1>1 DEF TableInit, Sound, EmptyBlock, Block
<1>3. \A a : ValueAt(a) = Free
  BY <1>1, ValueOfNone, HeldValues DEF EmptyBlock
<1>4. QED
  BY <1>2, <1>3 DEF Map!Init

\* For non-zero addresses, any number of slots, buffers and values: the table and its
\* heap implement the map.  Every command changes only the address it names, no entry
\* is held twice, and the buffer of an entry is never freed or reused while the entry
\* lives.  About addToFreezeMap, removeFromFreezeMap and clearFreezes.
THEOREM TableImplementsMap ==
    ASSUME 0 \notin Addresses
    PROVE  TableSpec => ImplementsFreezeMap
<1> DEFINE Inv == Sound(freezes, heap)
<1>1. TableInit => Inv /\ Map!Init
  BY TableStart
<1>2. Inv /\ [TableNext]_tableVars => Inv' /\ [Map!Next]_([a \in Addresses |-> ValueAt(a)])
  BY TableStep
<1> HIDE DEF Inv
<1>3. QED
  BY <1>1, <1>2, PTL DEF TableSpec, ImplementsFreezeMap, Map!Spec
=============================================================================
