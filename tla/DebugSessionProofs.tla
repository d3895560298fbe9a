------------------------- MODULE DebugSessionProofs --------------------------
(***************************************************************************)
(* What one step of a debug worker can do, for any number of hits and      *)
(* faults: the shape of the state is kept, nothing of the other sessions   *)
(* is touched, the activity flag falls with the last locked section, and   *)
(* handles are taken at the attach and given back at the close.            *)
(*                                                                         *)
(* Then the sessions together, for any number of requests too: one session *)
(* at a time, stop requests that reach the session they were made for,     *)
(* handles with an owner that says so, and patches that are written over   *)
(* the expected bytes of a stopped application.                            *)
(*                                                                         *)
(* Last the clean-up and the hit limit: a session that was armed knows all *)
(* the registers it set until its last locked section, and when nothing    *)
(* that went wrong in its clean-up is reported, none of them is left on    *)
(* any core; and no session records more hits than it was asked for, nor   *)
(* more than it has seen.                                                  *)
(***************************************************************************)
EXTENDS DebugSession, SequenceTheorems, FiniteSetTheorems, TLAPS

\* A worker between its start and the end of its last locked section.
Live == WorkerPcs \ {"off", "exit"}

\* A worker's locals, and a session's state with nothing said yet of how far the hits can count.
Worker  == [pc : WorkerPcs, attached : SUBSET Procs, resumed : SUBSET Procs, exited : SUBSET Procs,
           pending : SUBSET Procs, armed : Seq(Regs), batch : Seq(Regs), reached : Cores, at : Procs,
           stepBad : BOOLEAN, bad : BOOLEAN]
Session == [threadStarted : BOOLEAN, active : BOOLEAN, everArmed : BOOLEAN, stop : BOOLEAN, err : BOOLEAN,
            hits : Nat, seen : 0 .. MaxHits, max : 0 .. MaxHits, ring : BOOLEAN, targets : SUBSET Procs]
CountingSessions == [Kinds -> Session]
RegisterFiles == [Cores -> SUBSET Regs]

WorkerTypes ==
    /\ tgt \in Targets
    /\ regs \in RegisterFiles
    /\ ses \in CountingSessions
    /\ wk \in Workers

\* A trace that runs has a process to trace.
Traced == wk["trace"].pc \in Live => traced \in Procs

-----------------------------------------------------------------------------
(* What a step of worker k does to the state others look at.               *)

Alone(k) ==
    /\ UNCHANGED <<main, mem, dmntSeen, code>>
    /\ \A j \in Kinds \ {k} : ses'[j] = ses[j] /\ wk'[j] = wk[j]

Control(k) ==
    \/ /\ wk[k].pc \in Live \ {"finish"} /\ wk'[k].pc \in Live \ {"detach"}
       /\ ses'[k].active = ses[k].active /\ ses'[k].stop = ses[k].stop
       /\ ses'[k].max = ses[k].max /\ ses'[k].ring = ses[k].ring
       /\ ses'[k].targets = ses[k].targets
    \/ /\ wk[k].pc = "finish" /\ wk'[k].pc = "exit"
       /\ ~ses'[k].active /\ ~ses'[k].stop
    \/ /\ wk[k].pc = "exit" /\ wk'[k] = noWorker
       /\ UNCHANGED <<ses, tgt, regs>>

Handles(k) ==
    \/ /\ wk[k].pc \in Live \ {"close", "finish"} /\ wk'[k].pc # "finish"
       /\ wk'[k].pc = "attach" => wk[k].pc = "detach"
       /\ wk'[k].attached = wk[k].attached
       /\ \A p \in Procs : \/ tgt'[p].owner = tgt[p].owner
                           \/ tgt[p].owner = "dmnt" /\ tgt'[p].owner = "none"
    \/ /\ wk[k].pc = "attach" /\ wk'[k].pc # "finish"
       /\ wk'[k].pc = "attach" => k = "multi"
       /\ \E p \in Procs :
             /\ tgt[p].owner = "none" /\ tgt'[p].owner = k
             /\ wk'[k].attached = IF k = "multi" THEN wk[k].attached \cup {p} ELSE {p}
             /\ \A q \in Procs \ {p} : tgt'[q].owner = tgt[q].owner
    \/ /\ wk[k].pc = "close" /\ wk'[k].pc = "finish"
       /\ wk'[k].attached = wk[k].attached
       /\ \A p \in Procs : tgt'[p].owner = IF p \in wk[k].attached THEN "none" ELSE tgt[p].owner
    \/ /\ wk[k].pc \in {"finish", "exit"}
       /\ UNCHANGED tgt

Footprint(k) == WorkerTypes' /\ Alone(k) /\ Control(k) /\ Handles(k)

-----------------------------------------------------------------------------
(* The processes.                                                          *)

Owners == {"none", "dmnt", "mem", "main"} \cup Kinds
Events == {"attach", "hit", "step", "exit"}

\* A target is updated field by field; every field keeps its type.
LEMMA TargetTypes ==
    ASSUME NEW t \in Targets, NEW p \in Procs
    PROVE  /\ \A q \in Seq(Events) : [t EXCEPT ![p].queue = q] \in Targets
           /\ \A o \in Owners : [t EXCEPT ![p].owner = o] \in Targets
           /\ \A b \in BOOLEAN : [t EXCEPT ![p].stopped = b] \in Targets
           /\ \A b \in BOOLEAN : [t EXCEPT ![p].step = b] \in Targets
           /\ \A b, c \in BOOLEAN : [t EXCEPT ![p].stopped = b, ![p].step = c] \in Targets
           /\ \A b \in BOOLEAN, q \in Seq(Events) :
                 [t EXCEPT ![p].stopped = b, ![p].queue = q] \in Targets
           /\ \A b, c \in BOOLEAN, q \in Seq(Events) :
                 [t EXCEPT ![p].step = b, ![p].stopped = c, ![p].queue = q] \in Targets
           /\ \A o \in Owners, b \in BOOLEAN, q \in Seq(Events) :
                 [t EXCEPT ![p].owner = o, ![p].stopped = b, ![p].queue = q] \in Targets
           /\ \A b, c \in BOOLEAN, o \in Owners, q \in Seq(Events) :
                 [t EXCEPT ![p].alive = b, ![p].step = c, ![p].queue = q, ![p].owner = o] \in Targets
<1>1. Targets = [Procs -> [alive : BOOLEAN, owner : Owners, stopped : BOOLEAN, step : BOOLEAN,
                           queue : Seq(Events)]]
  BY DEF Targets, Owners, Events
<1>2. \A q \in Seq(Events) : [t EXCEPT ![p].queue = q] \in Targets
  BY <1>1
<1>3. \A o \in Owners : [t EXCEPT ![p].owner = o] \in Targets
  BY <1>1
<1>4. \A b \in BOOLEAN : [t EXCEPT ![p].stopped = b] \in Targets
  BY <1>1
<1>5. \A b \in BOOLEAN : [t EXCEPT ![p].step = b] \in Targets
  BY <1>1
<1>6. \A b, c \in BOOLEAN : [t EXCEPT ![p].stopped = b, ![p].step = c] \in Targets
  BY <1>1
<1>7. \A b \in BOOLEAN, q \in Seq(Events) :
         [t EXCEPT ![p].stopped = b, ![p].queue = q] \in Targets
  BY <1>1
<1>8. \A b, c \in BOOLEAN, q \in Seq(Events) :
         [t EXCEPT ![p].step = b, ![p].stopped = c, ![p].queue = q] \in Targets
  BY <1>1
<1>9. \A o \in Owners, b \in BOOLEAN, q \in Seq(Events) :
         [t EXCEPT ![p].owner = o, ![p].stopped = b, ![p].queue = q] \in Targets
  BY <1>1
<1>10. \A b, c \in BOOLEAN, o \in Owners, q \in Seq(Events) :
         [t EXCEPT ![p].alive = b, ![p].step = c, ![p].queue = q, ![p].owner = o] \in Targets
  <2> TAKE b, c \in BOOLEAN, o \in Owners, q \in Seq(Events)
  <2>1. [t[p] EXCEPT !.alive = b, !.step = c, !.queue = q, !.owner = o]
           \in [alive : BOOLEAN, owner : Owners, stopped : BOOLEAN, step : BOOLEAN, queue : Seq(Events)]
    BY <1>1, Zenon
  <2>2. QED
    BY <1>1, <2>1
<1>11. QED
  BY <1>2, <1>3, <1>4, <1>5, <1>6, <1>7, <1>8, <1>9, <1>10, Zenon

\* svcDebugActiveProcess gives the process the new owner and leaves the others alone.
LEMMA AttachedByFacts ==
    ASSUME NEW t \in Targets, NEW p \in Procs, NEW o \in Owners
    PROVE  /\ attachedBy(t, p, o) \in Targets
           /\ attachedBy(t, p, o)[p].owner = o /\ attachedBy(t, p, o)[p].stopped
           /\ \A q \in Procs \ {p} : attachedBy(t, p, o)[q] = t[q]
<1>1. <<"attach">> \in Seq(Events)
  BY DEF Events
<1>2. attachedBy(t, p, o) \in Targets
  BY <1>1, TargetTypes, Zenon DEF attachedBy
<1>3. QED
  BY <1>2 DEF attachedBy, Targets

\* svcCloseHandle takes the processes from their owner and leaves the others alone.
LEMMA ClosedFacts ==
    ASSUME tgt \in Targets, NEW P
    PROVE  /\ closed(P) \in Targets
           /\ \A p \in Procs : closed(P)[p].owner = IF p \in P THEN "none" ELSE tgt[p].owner
           /\ \A p \in Procs \ P : closed(P)[p] = tgt[p]
<1>1. Targets = [Procs -> [alive : BOOLEAN, owner : Owners, stopped : BOOLEAN, step : BOOLEAN,
                           queue : Seq(Events)]]
  BY DEF Targets, Owners, Events
<1>2. "none" \in Owners /\ <<>> \in Seq(Events)
  BY DEF Owners
<1>3. \A p \in Procs : [tgt[p] EXCEPT !.owner = "none", !.stopped = FALSE, !.step = FALSE, !.queue = <<>>]
                          \in [alive : BOOLEAN, owner : Owners, stopped : BOOLEAN, step : BOOLEAN,
                              queue : Seq(Events)]
  BY <1>1, <1>2
<1>4. closed(P) \in Targets
  BY <1>1, <1>3 DEF closed
<1>5. QED
  BY <1>1, <1>4 DEF closed

\* Reading events and letting a process run on keep its owner.
LEMMA KeepsOwner ==
    ASSUME NEW t \in Targets, NEW p \in Procs
    PROVE  /\ drained(t, p) \in Targets /\ running(t, p) \in Targets
           /\ \A q \in Procs : drained(t, p)[q].owner = t[q].owner
           /\ \A q \in Procs : running(t, p)[q].owner = t[q].owner
<1>1. <<>> \in Seq(Events) /\ FALSE \in BOOLEAN
  BY SMTT(30)
<1>2. drained(t, p) \in Targets /\ running(t, p) \in Targets
  BY <1>1, TargetTypes, Zenon DEF drained, running
<1>3. QED
  BY <1>2 DEF drained, running, Targets

\* One event is taken from a queue.
LEMMA ReadEvent ==
    ASSUME tgt \in Targets, NEW p \in Procs, tgt[p].queue # <<>>,
           tgt' = [tgt EXCEPT ![p].queue = Tail(tgt[p].queue)]
    PROVE  tgt' \in Targets /\ \A q \in Procs : tgt'[q].owner = tgt[q].owner
<1>1. tgt[p].queue \in Seq(Events)
  BY DEF Targets, Events
<1>2. Tail(tgt[p].queue) \in Seq(Events)
  BY <1>1, SMTT(30)
<1>3. tgt' \in Targets
  BY <1>2, TargetTypes
<1>4. QED
  BY <1>3 DEF Targets

\* debugHwBpQuiesce keeps the owners.
LEMMA QuiescedFacts ==
    ASSUME tgt \in Targets, NEW P, NEW pending, NEW F
    PROVE  /\ quiesced(P, pending, F) \in Targets
           /\ \A p \in Procs : quiesced(P, pending, F)[p].owner = tgt[p].owner
<1>1. Targets = [Procs -> [alive : BOOLEAN, owner : Owners, stopped : BOOLEAN, step : BOOLEAN,
                           queue : Seq(Events)]]
  BY DEF Targets, Owners, Events
<1>2. <<>> \in Seq(Events)
  OBVIOUS
<1>3. \A p \in Procs, b \in BOOLEAN :
         [tgt[p] EXCEPT !.queue = <<>>, !.step = FALSE, !.stopped = b]
            \in [alive : BOOLEAN, owner : Owners, stopped : BOOLEAN, step : BOOLEAN, queue : Seq(Events)]
  BY <1>1, <1>2
<1>4. \A p \in Procs : (p \notin pending \/ tgt[p].stopped) \in BOOLEAN
  OBVIOUS
<1>5. quiesced(P, pending, F) \in Targets
  BY <1>1, <1>3, <1>4 DEF quiesced
<1>6. QED
  BY <1>1, <1>5 DEF quiesced

\* dmntClientForceClose touches the owner of the application only, and only if it is the service.
LEMMA DmntClosedFacts ==
    ASSUME tgt \in Targets
    PROVE  /\ dmntClosed \in Targets
           /\ \A p \in Procs : \/ dmntClosed[p].owner = tgt[p].owner
                               \/ tgt[p].owner = "dmnt" /\ dmntClosed[p].owner = "none"
           /\ \A p \in Procs : tgt[p].owner # "dmnt" => dmntClosed[p] = tgt[p]
<1>1. "app" \in Procs /\ "none" \in Owners
  BY DEF Procs, Owners
<1>2. tgt["app"].owner \in Owners
  BY <1>1, SMTT(30) DEF Targets, Owners
<1>3. dmntClosed \in Targets
  BY <1>1, <1>2, TargetTypes, Zenon DEF dmntClosed
<1>4. QED
  BY <1>1, <1>3 DEF dmntClosed, Targets

-----------------------------------------------------------------------------
(* The breakpoint registers.                                               *)

\* A batch that is written, on all cores or on some, keeps the shape of the registers.
LEMMA WrittenType ==
    ASSUME NEW g \in RegisterFiles, NEW R \in Seq(Regs), NEW on \in BOOLEAN, NEW r \in Nat,
           NEW i \in 0 .. Len(R)
    PROVE  written(g, R, on, r, i) \in RegisterFiles
<1>1. Range(R) \subseteq Regs /\ {R[j] : j \in 1 .. i} \subseteq Regs
  BY DEF Range
<1>2. QED
  BY <1>1 DEF written, RegisterFiles

\* A batch written on every core keeps the shape too.
LEMMA WrittenAllType ==
    ASSUME NEW g \in RegisterFiles, NEW R \in Seq(Regs), NEW on \in BOOLEAN
    PROVE  writtenAll(g, R, on) \in RegisterFiles
<1>1. Range(R) \subseteq Regs /\ {R[j] : j \in 1 .. 0} \subseteq Regs
  BY DEF Range
<1>2. QED
  BY <1>1 DEF writtenAll, written, RegisterFiles

\* So does the rollback of a batch.
LEMMA RolledBackType ==
    ASSUME NEW g \in RegisterFiles, NEW R, NEW S
    PROVE  rolledBack(g, R, S) \in RegisterFiles
  BY DEF rolledBack, RegisterFiles

\* So does a batch that fails and is rolled back, whatever of it remains.
LEMMA FailedSetsType ==
    ASSUME NEW G \in SUBSET RegisterFiles, NEW R \in Seq(Regs), NEW on \in BOOLEAN
    PROVE  failedSets(G, R, on) \in SUBSET RegisterFiles
<1> DEFINE one(g, r, i, S) == rolledBack(written(g, R, on, r, i), R, S \cap (0 .. r))
           places == 0 .. Len(R) - 1
           pinned == SUBSET Cores
<1>1. failedSets(G, R, on)
         = UNION { { one(g, r, i, S) : r \in Cores, i \in places, S \in pinned } : g \in G }
  BY DEF failedSets
<1>2. ASSUME NEW g \in G, NEW r \in Cores, NEW i \in places, NEW S \in pinned
      PROVE  one(g, r, i, S) \in RegisterFiles
  <2>1. g \in RegisterFiles /\ r \in Nat /\ i \in 0 .. Len(R)
    BY DEF Cores
  <2>2. QED
    BY <2>1, WrittenType, RolledBackType
<1> HIDE DEF one, places, pinned
<1>3. QED
  BY <1>1, <1>2

\* So do three attempts to clear a batch that all fail.
LEMMA FailedClearsType ==
    ASSUME regs \in RegisterFiles, NEW R \in Seq(Regs)
    PROVE  failedClears(R) \in SUBSET RegisterFiles
<1>1. {regs} \in SUBSET RegisterFiles
  OBVIOUS
<1>2. failedSets({regs}, R, FALSE) \in SUBSET RegisterFiles
  BY <1>1, FailedSetsType
<1>3. failedSets(failedSets({regs}, R, FALSE), R, FALSE) \in SUBSET RegisterFiles
  BY <1>2, FailedSetsType, Zenon
<1>4. QED
  BY <1>3, FailedSetsType DEF failedClears

\* So do the probes for free slots, which write zero.
LEMMA ProbedType ==
    ASSUME regs \in RegisterFiles
    PROVE  probed \in SUBSET RegisterFiles
  BY DEF probed, RegisterFiles

-----------------------------------------------------------------------------
(* The workers and the sessions.                                           *)

\* The locals of a worker are updated field by field; every field keeps its type.
LEMMA WorkerUpdates ==
    ASSUME NEW w \in Workers, NEW k \in Kinds, NEW pc \in WorkerPcs
    PROVE  /\ [w EXCEPT ![k].pc = pc] \in Workers
           /\ \A P \in SUBSET Procs : [w EXCEPT ![k].attached = P, ![k].pc = pc] \in Workers
           /\ \A P \in SUBSET Procs : [w EXCEPT ![k].resumed = P, ![k].pc = pc] \in Workers
           /\ \A P \in SUBSET Procs : [w EXCEPT ![k].exited = P, ![k].pc = pc] \in Workers
           /\ \A P \in SUBSET Procs : [w EXCEPT ![k].pending = P, ![k].pc = pc] \in Workers
           /\ \A P \in SUBSET Procs : [w EXCEPT ![k].pending = P] \in Workers
           /\ \A P, Q \in SUBSET Procs :
                 [w EXCEPT ![k].pending = P, ![k].exited = Q, ![k].pc = pc] \in Workers
           /\ \A P \in SUBSET Procs, p \in Procs :
                 [w EXCEPT ![k].attached = P, ![k].at = p, ![k].pc = pc] \in Workers
           /\ \A p \in Procs : [w EXCEPT ![k].at = p, ![k].pc = pc] \in Workers
           /\ \A R \in Seq(Regs) : [w EXCEPT ![k].armed = R, ![k].pc = pc] \in Workers
           /\ \A R \in Seq(Regs), r \in Cores :
                 [w EXCEPT ![k].batch = R, ![k].reached = r, ![k].pc = pc] \in Workers
           /\ \A b \in BOOLEAN : [w EXCEPT ![k].stepBad = b, ![k].pc = pc] \in Workers
           /\ \A b \in BOOLEAN : [w EXCEPT ![k].pc = pc, ![k].bad = b] \in Workers
<1>1. [w EXCEPT ![k].pc = pc] \in Workers
  BY ZenonT(40) DEF Workers
<1>2. \A P \in SUBSET Procs : [w EXCEPT ![k].attached = P, ![k].pc = pc] \in Workers
  BY ZenonT(40) DEF Workers
<1>3. \A P \in SUBSET Procs : [w EXCEPT ![k].resumed = P, ![k].pc = pc] \in Workers
  BY ZenonT(60) DEF Workers
<1>4. \A P \in SUBSET Procs : [w EXCEPT ![k].exited = P, ![k].pc = pc] \in Workers
  BY ZenonT(40) DEF Workers
<1>5. \A P \in SUBSET Procs : [w EXCEPT ![k].pending = P, ![k].pc = pc] \in Workers
  BY ZenonT(40) DEF Workers
<1>6. \A P \in SUBSET Procs : [w EXCEPT ![k].pending = P] \in Workers
  BY DEF Workers
<1>7. \A P, Q \in SUBSET Procs :
         [w EXCEPT ![k].pending = P, ![k].exited = Q, ![k].pc = pc] \in Workers
  <2> TAKE P, Q \in SUBSET Procs
  <2>1. [w[k] EXCEPT !.pending = P, !.exited = Q, !.pc = pc] \in Worker
    BY DEF Workers, Worker
  <2>2. QED
    BY <2>1 DEF Workers, Worker
<1>8. \A P \in SUBSET Procs, p \in Procs :
         [w EXCEPT ![k].attached = P, ![k].at = p, ![k].pc = pc] \in Workers
  <2> TAKE P \in SUBSET Procs, p \in Procs
  <2>1. [w[k] EXCEPT !.attached = P, !.at = p, !.pc = pc] \in Worker
    BY DEF Workers, Worker
  <2>2. QED
    BY <2>1 DEF Workers, Worker
<1>9. \A p \in Procs : [w EXCEPT ![k].at = p, ![k].pc = pc] \in Workers
  BY ZenonT(40) DEF Workers
<1>10. \A R \in Seq(Regs) : [w EXCEPT ![k].armed = R, ![k].pc = pc] \in Workers
  BY ZenonT(40) DEF Workers
<1>11. \A R \in Seq(Regs), r \in Cores :
         [w EXCEPT ![k].batch = R, ![k].reached = r, ![k].pc = pc] \in Workers
  <2> TAKE R \in Seq(Regs), r \in Cores
  <2>1. [w[k] EXCEPT !.batch = R, !.reached = r, !.pc = pc] \in Worker
    BY DEF Workers, Worker
  <2>2. QED
    BY <2>1 DEF Workers, Worker
<1>12. \A b \in BOOLEAN : [w EXCEPT ![k].stepBad = b, ![k].pc = pc] \in Workers
  BY ZenonT(40) DEF Workers
<1>13. \A b \in BOOLEAN : [w EXCEPT ![k].pc = pc, ![k].bad = b] \in Workers
  BY ZenonT(40) DEF Workers
<1>14. QED
  BY <1>1, <1>2, <1>3, <1>4, <1>5, <1>6, <1>7, <1>8, <1>9, <1>10, <1>11, <1>12, <1>13, Zenon

\* The same for the state of a session manager.
LEMMA SessionUpdates ==
    ASSUME NEW s \in CountingSessions, NEW k \in Kinds
    PROVE  /\ \A b \in BOOLEAN : [s EXCEPT ![k].err = b] \in CountingSessions
           /\ \A b \in BOOLEAN : [s EXCEPT ![k].stop = b] \in CountingSessions
           /\ \A b \in BOOLEAN : [s EXCEPT ![k].threadStarted = b] \in CountingSessions
           /\ \A b, c \in BOOLEAN : [s EXCEPT ![k].everArmed = b, ![k].err = c] \in CountingSessions
           /\ \A n \in Nat : [s EXCEPT ![k].hits = n] \in CountingSessions
           /\ \A n \in 0 .. MaxHits : [s EXCEPT ![k].seen = n] \in CountingSessions
           /\ \A b, c, d \in BOOLEAN :
                 [s EXCEPT ![k].threadStarted = b, ![k].active = c, ![k].stop = d] \in CountingSessions
<1>1. \A b \in BOOLEAN : [s EXCEPT ![k].err = b] \in CountingSessions
  BY DEF CountingSessions, Session
<1>2. \A b \in BOOLEAN : [s EXCEPT ![k].stop = b] \in CountingSessions
  BY DEF CountingSessions, Session
<1>3. \A b \in BOOLEAN : [s EXCEPT ![k].threadStarted = b] \in CountingSessions
  BY DEF CountingSessions, Session
<1>4. \A b, c \in BOOLEAN : [s EXCEPT ![k].everArmed = b, ![k].err = c] \in CountingSessions
  <2> TAKE b, c \in BOOLEAN
  <2>1. [s[k] EXCEPT !.everArmed = b, !.err = c] \in Session
    BY DEF CountingSessions, Session
  <2>2. QED
    BY <2>1 DEF CountingSessions, Session
<1>5. \A n \in Nat : [s EXCEPT ![k].hits = n] \in CountingSessions
  BY DEF CountingSessions, Session
<1>6. \A n \in 0 .. MaxHits : [s EXCEPT ![k].seen = n] \in CountingSessions
  BY DEF CountingSessions, Session
<1>7. \A b, c, d \in BOOLEAN :
         [s EXCEPT ![k].threadStarted = b, ![k].active = c, ![k].stop = d] \in CountingSessions
  <2> TAKE b, c, d \in BOOLEAN
  <2>1. [s[k] EXCEPT !.threadStarted = b, !.active = c, !.stop = d] \in Session
    BY DEF CountingSessions, Session
  <2>2. QED
    BY <2>1 DEF CountingSessions, Session
<1>8. QED
  BY <1>1, <1>2, <1>3, <1>4, <1>5, <1>6, <1>7

\* A step that goes on with the session: no handle is taken or given back.
LEMMA GoOn ==
    ASSUME WorkerTypes, WorkerTypes', Frame, NEW k \in Kinds,
           \A j \in Kinds \ {k} : ses'[j] = ses[j] /\ wk'[j] = wk[j],
           wk[k].pc \in Live \ {"close", "finish"},
           wk'[k].pc \in Live \ {"detach", "attach", "finish"},
           wk'[k].attached = wk[k].attached,
           ses'[k].active = ses[k].active, ses'[k].stop = ses[k].stop,
           ses'[k].max = ses[k].max, ses'[k].ring = ses[k].ring,
           ses'[k].targets = ses[k].targets,
           \A p \in Procs : tgt'[p].owner = tgt[p].owner
    PROVE  Footprint(k)
<1>1. Alone(k)
  BY DEF Alone, Frame
<1>2. Control(k)
  BY DEF Control, Live
<1>3. Handles(k)
  BY DEF Handles
<1>4. QED
  BY <1>1, <1>2, <1>3 DEF Footprint

\* setError and the way to the clean-up.
LEMMA FailStep ==
    ASSUME WorkerTypes, NEW k \in Kinds, Fail(k), Frame,
           wk[k].pc \in Live \ {"close", "finish"},
           tgt' \in Targets, regs' \in RegisterFiles,
           \A p \in Procs : tgt'[p].owner = tgt[p].owner
    PROVE  Footprint(k)
<1>1. "quiesce" \in WorkerPcs /\ "quiesce" \in Live \ {"detach", "attach", "finish"}
  BY SMTT(30) DEF WorkerPcs, Live
<1>2. WorkerTypes'
  BY <1>1, WorkerUpdates, SessionUpdates, Zenon DEF WorkerTypes, Fail, Goto
<1>3. \A j \in Kinds \ {k} : ses'[j] = ses[j] /\ wk'[j] = wk[j]
  BY DEF WorkerTypes, Fail, Goto, Workers, CountingSessions
<1>4. wk'[k].pc = "quiesce" /\ wk'[k].attached = wk[k].attached
  BY DEF WorkerTypes, Fail, Goto, Workers
<1>5. /\ ses'[k].active = ses[k].active /\ ses'[k].stop = ses[k].stop
      /\ ses'[k].max = ses[k].max /\ ses'[k].ring = ses[k].ring
      /\ ses'[k].targets = ses[k].targets
  BY DEF WorkerTypes, Fail, CountingSessions, Session
<1>6. QED
  BY <1>1, <1>2, <1>3, <1>4, <1>5, GoOn

\* A batch that is not written on every core is rolled back next.
LEMMA BatchFails ==
    ASSUME WorkerTypes, NEW k \in Kinds, Frame, wk[k].pc \in Live \ {"close", "finish"},
           NEW R \in Seq(Regs), NEW g \in RegisterFiles, NEW r \in Cores, NEW i \in 0 .. Len(R) - 1,
           regs' = written(g, R, TRUE, r, i),
           wk' = [wk EXCEPT ![k].batch = R, ![k].reached = r, ![k].pc = "rollback"],
           tgt' = tgt, ses' = ses
    PROVE  Footprint(k)
<1>1. "rollback" \in WorkerPcs /\ "rollback" \in Live \ {"detach", "attach", "finish"}
  BY DEF WorkerPcs, Live
<1>2. r \in Nat /\ i \in 0 .. Len(R)
  BY DEF Cores
<1>3. WorkerTypes'
  BY <1>1, <1>2, WorkerUpdates, WrittenType, Zenon DEF WorkerTypes
<1>4. \A j \in Kinds \ {k} : ses'[j] = ses[j] /\ wk'[j] = wk[j]
  BY DEF WorkerTypes, Workers
<1>5. wk'[k].pc = "rollback" /\ wk'[k].attached = wk[k].attached
  BY DEF WorkerTypes, Workers
<1>6. QED
  BY <1>1, <1>3, <1>4, <1>5, GoOn

-----------------------------------------------------------------------------
(* The steps the workers have in common.                                   *)

\* The loop ends because the session was stopped or its time is over.
LEMMA LoopEndStep ==
    ASSUME WorkerTypes, NEW k \in Kinds, LoopStop(k) \/ Expire(k) PROVE Footprint(k)
<1>1. /\ wk[k].pc = "loop" /\ Frame /\ UNCHANGED <<tgt, regs, ses>>
      /\ wk' = [wk EXCEPT ![k].pc = "quiesce"]
  BY DEF LoopStop, Expire, At, Goto, kernelVars
<1>2. /\ "quiesce" \in WorkerPcs /\ "quiesce" \in Live \ {"detach", "attach", "finish"}
      /\ "loop" \in Live \ {"close", "finish"}
  BY SMTT(30) DEF WorkerPcs, Live
<1>3. WorkerTypes'
  BY <1>1, <1>2, WorkerUpdates DEF WorkerTypes
<1>4. /\ \A j \in Kinds \ {k} : wk'[j] = wk[j]
      /\ wk'[k].pc = "quiesce" /\ wk'[k].attached = wk[k].attached
  BY <1>1 DEF WorkerTypes, Workers
<1>5. QED
  BY <1>1, <1>2, <1>3, <1>4, GoOn

\* A handle is signalled, or the wait fails.
LEMMA LoopWaitStep ==
    ASSUME WorkerTypes, NEW k \in Kinds, LoopWait(k) PROVE Footprint(k)
<1>1. wk[k].pc = "loop" /\ Frame /\ UNCHANGED <<tgt, regs>>
  BY DEF LoopWait, At
<1>2. /\ "events" \in WorkerPcs /\ "events" \in Live \ {"detach", "attach", "finish"}
      /\ "loop" \in Live \ {"close", "finish"}
  BY DEF WorkerPcs, Live
<1>3. CASE Fail(k)
  BY <1>1, <1>2, <1>3, FailStep DEF WorkerTypes
<1>4. ASSUME NEW p \in wk[k].attached, ses' = ses,
             wk' = [wk EXCEPT ![k].at = p, ![k].pc = "events"]
      PROVE  Footprint(k)
  <2>1. p \in Procs
    BY <1>4 DEF WorkerTypes, Workers
  <2>2. WorkerTypes'
    BY <1>1, <1>2, <1>4, <2>1, WorkerUpdates DEF WorkerTypes
  <2>3. /\ \A j \in Kinds \ {k} : wk'[j] = wk[j]
        /\ wk'[k].pc = "events" /\ wk'[k].attached = wk[k].attached
    BY <1>4 DEF WorkerTypes, Workers
  <2>4. QED
    BY <1>1, <1>2, <1>4, <2>2, <2>3, GoOn
<1>5. QED
  BY <1>3, <1>4 DEF LoopWait

\* The process goes on after its events.
LEMMA LoopContinueStep ==
    ASSUME WorkerTypes, NEW k \in Kinds, LoopContinue(k) PROVE Footprint(k)
<1>1. wk[k].pc = "continue" /\ Frame /\ regs' = regs
  BY DEF LoopContinue, At
<1>2. /\ "loop" \in WorkerPcs /\ "loop" \in Live \ {"detach", "attach", "finish"}
      /\ "continue" \in Live \ {"close", "finish"}
  BY DEF WorkerPcs, Live
<1>3. CASE Fail(k) /\ tgt' = tgt
  BY <1>1, <1>2, <1>3, FailStep DEF WorkerTypes
<1>4. CASE /\ tgt' = running(tgt, wk[k].at) /\ ses' = ses
           /\ wk' = [wk EXCEPT ![k].pending = wk[k].pending \ {wk[k].at}, ![k].pc = "loop"]
  <2>1. wk[k].at \in Procs /\ wk[k].pending \ {wk[k].at} \in SUBSET Procs
    BY DEF WorkerTypes, Workers
  <2>2. tgt' \in Targets /\ \A p \in Procs : tgt'[p].owner = tgt[p].owner
    BY <1>4, <2>1, KeepsOwner DEF WorkerTypes
  <2>3. WorkerTypes'
    BY <1>1, <1>2, <1>4, <2>1, <2>2, WorkerUpdates DEF WorkerTypes
  <2>4. /\ \A j \in Kinds \ {k} : wk'[j] = wk[j]
        /\ wk'[k].pc = "loop" /\ wk'[k].attached = wk[k].attached
    BY <1>4 DEF WorkerTypes, Workers
  <2>5. QED
    BY <1>1, <1>2, <1>4, <2>2, <2>3, <2>4, GoOn
<1>5. QED
  BY <1>3, <1>4 DEF LoopContinue

\* The processes are stopped for the clean-up.
LEMMA QuiesceStep ==
    ASSUME WorkerTypes, NEW k \in Kinds, NEW counts \in BOOLEAN, Quiesce(k, counts)
    PROVE  Footprint(k)
<1>1. wk[k].pc = "quiesce" /\ Frame /\ UNCHANGED <<regs, ses>>
  BY DEF Quiesce, At
<1>2. /\ "clear" \in WorkerPcs /\ "clear" \in Live \ {"detach", "attach", "finish"}
      /\ "quiesce" \in Live \ {"close", "finish"}
  BY DEF WorkerPcs, Live
<1>3. PICK F :
         /\ tgt' = quiesced(breakFailures(k).asked, wk[k].pending \cup (Procs \ wk[k].resumed),
                            breakFailures(k).always \cup F)
         /\ wk' = [wk EXCEPT ![k].pc = "clear",
                             ![k].bad = @ \/ (counts /\ breakFailures(k).always \cup F # {})]
  BY DEF Quiesce
<1>4. tgt' \in Targets /\ \A p \in Procs : tgt'[p].owner = tgt[p].owner
  BY <1>3, QuiescedFacts DEF WorkerTypes
<1>5. PICK b \in BOOLEAN : wk' = [wk EXCEPT ![k].pc = "clear", ![k].bad = b]
  BY <1>3
<1>6. wk' \in Workers
  BY <1>2, <1>5, WorkerUpdates DEF WorkerTypes
<1>7. WorkerTypes'
  BY <1>1, <1>4, <1>6 DEF WorkerTypes
<1>8. /\ \A j \in Kinds \ {k} : wk'[j] = wk[j]
      /\ wk'[k].pc = "clear" /\ wk'[k].attached = wk[k].attached
  BY <1>5 DEF WorkerTypes, Workers
<1>9. QED
  BY <1>1, <1>2, <1>4, <1>7, <1>8, GoOn

\* One clean-up call on the registers.
LEMMA ClearStep ==
    ASSUME WorkerTypes, NEW k \in Kinds, NEW pc \in {"clear", "clearData"},
           NEW next \in {"clearData", "close"}, NEW R \in Seq(Regs), Clear(k, pc, R, next)
    PROVE  Footprint(k)
<1>1. wk[k].pc = pc /\ Frame /\ UNCHANGED <<tgt, ses>>
  BY DEF Clear, At
<1>2. /\ next \in WorkerPcs /\ next \in Live \ {"detach", "attach", "finish"}
      /\ pc \in Live \ {"close", "finish"}
  BY DEF WorkerPcs, Live
<1>3. regs' \in RegisterFiles
  BY WrittenAllType, FailedClearsType DEF Clear, WorkerTypes
<1>4. wk' \in Workers /\ wk'[k].pc = next /\ wk'[k].attached = wk[k].attached
      /\ \A j \in Kinds \ {k} : wk'[j] = wk[j]
  <2>1. CASE wk' = [wk EXCEPT ![k].pc = next]
    <3>1. wk' \in Workers
      BY <1>2, <2>1, WorkerUpdates DEF WorkerTypes
    <3>2. QED
      BY <2>1, <3>1 DEF WorkerTypes, Workers
  <2>2. CASE wk' = [wk EXCEPT ![k].pc = next, ![k].bad = TRUE]
    <3>1. wk' \in Workers
      BY <1>2, <2>2, WorkerUpdates DEF WorkerTypes
    <3>2. QED
      BY <2>2, <3>1, SMTT(30) DEF WorkerTypes, Workers
  <2>3. QED
    BY <2>1, <2>2 DEF Clear, Goto
<1>5. WorkerTypes'
  BY <1>1, <1>3, <1>4 DEF WorkerTypes
<1>6. QED
  BY <1>1, <1>2, <1>4, <1>5, GoOn

\* A batch is taken back.
LEMMA RollbackStep ==
    ASSUME WorkerTypes, NEW k \in Kinds, Rollback(k) PROVE Footprint(k)
<1>1. wk[k].pc = "rollback" /\ Frame /\ tgt' = tgt /\ Fail(k)
  BY DEF Rollback, At
<1>2. "rollback" \in Live \ {"close", "finish"}
  BY DEF WorkerPcs, Live
<1>3. regs' \in RegisterFiles
  BY RolledBackType DEF Rollback, WorkerTypes
<1>4. QED
  BY <1>1, <1>2, <1>3, FailStep DEF WorkerTypes

\* Every handle the worker holds is given back.
LEMMA CloseHandlesStep ==
    ASSUME WorkerTypes, NEW k \in Kinds, CloseHandles(k) PROVE Footprint(k)
<1>1. /\ wk[k].pc = "close" /\ Frame /\ UNCHANGED <<regs, ses>>
      /\ tgt' = closed(wk[k].attached) /\ wk' = [wk EXCEPT ![k].pc = "finish"]
  BY DEF CloseHandles, At, Goto
<1>2. /\ "finish" \in WorkerPcs /\ "finish" \in Live \ {"detach"}
      /\ "close" \in Live \ {"finish"}
  BY SMTT(30) DEF WorkerPcs, Live
<1>3. WorkerTypes'
  BY <1>1, <1>2, WorkerUpdates, ClosedFacts DEF WorkerTypes
<1>4. /\ \A j \in Kinds \ {k} : wk'[j] = wk[j]
      /\ wk'[k].pc = "finish" /\ wk'[k].attached = wk[k].attached
  BY <1>1 DEF WorkerTypes, Workers
<1>5. Alone(k)
  BY <1>1, <1>4 DEF Alone, Frame
<1>6. Control(k)
  BY <1>1, <1>2, <1>4 DEF Control
<1>7. Handles(k)
  BY <1>1, <1>4, ClosedFacts DEF Handles, WorkerTypes
<1>8. QED
  BY <1>3, <1>5, <1>6, <1>7 DEF Footprint

\* The last locked section.
LEMMA FinishStep ==
    ASSUME WorkerTypes, NEW k \in Kinds, Finish(k) PROVE Footprint(k)
<1>1. /\ wk[k].pc = "finish" /\ Frame /\ UNCHANGED <<tgt, regs>>
      /\ wk' = [wk EXCEPT ![k].pc = "exit"]
  BY DEF Finish, At, Goto, kernelVars
<1>2. "exit" \in WorkerPcs
  BY SMTT(30) DEF WorkerPcs
<1>3. PICK b \in BOOLEAN :
         ses' = [ses EXCEPT ![k].active = FALSE, ![k].stop = FALSE, ![k].err = b,
                            ![k].hits = 0, ![k].seen = 0, ![k].max = 1, ![k].ring = FALSE,
                            ![k].targets = {}]
  <2>1. (ses[k].err \/ wk[k].bad) \in BOOLEAN
    OBVIOUS
  <2>2. QED
    BY <2>1 DEF Finish
<1>4. [ses[k] EXCEPT !.active = FALSE, !.stop = FALSE, !.err = b, !.hits = 0, !.seen = 0, !.max = 1,
                     !.ring = FALSE, !.targets = {}] \in Session
  <2>1. 0 \in 0 .. MaxHits /\ 1 \in 0 .. MaxHits /\ {} \in SUBSET Procs /\ ses[k] \in Session
    BY KernelAssumption DEF WorkerTypes, CountingSessions
  <2>2. QED
    BY <2>1, ZenonT(40) DEF Session
<1>5. ses' \in CountingSessions
  BY <1>3, <1>4 DEF WorkerTypes, CountingSessions
<1>6. WorkerTypes'
  BY <1>1, <1>2, <1>5, WorkerUpdates DEF WorkerTypes
<1>7. /\ \A j \in Kinds \ {k} : wk'[j] = wk[j] /\ ses'[j] = ses[j]
      /\ wk'[k].pc = "exit" /\ wk'[k].attached = wk[k].attached
  BY <1>1, <1>3 DEF WorkerTypes, Workers, CountingSessions
<1>8. ~ses'[k].active /\ ~ses'[k].stop
  BY <1>3 DEF WorkerTypes, CountingSessions, Session
<1>9. Alone(k)
  BY <1>1, <1>7 DEF Alone, Frame
<1>10. Control(k)
  BY <1>1, <1>7, <1>8 DEF Control
<1>11. Handles(k)
  BY <1>1 DEF Handles
<1>12. QED
  BY <1>6, <1>9, <1>10, <1>11 DEF Footprint

\* A worker that does not exist yet, or any more, has the locals of a worker.
LEMMA NoWorkerType == noWorker \in Worker
<1>1. /\ "off" \in WorkerPcs /\ "app" \in Procs /\ 0 \in Cores /\ <<>> \in Seq(Regs)
      /\ {} \in SUBSET Procs
  BY DEF WorkerPcs, Procs, Cores
<1>2. QED
  BY <1>1 DEF noWorker, Worker

\* The thread is gone.
LEMMA ThreadExitStep ==
    ASSUME WorkerTypes, NEW k \in Kinds, ThreadExit(k) PROVE Footprint(k)
<1>1. /\ wk[k].pc = "exit" /\ Frame /\ UNCHANGED <<tgt, regs, ses>>
      /\ wk' = [wk EXCEPT ![k] = noWorker]
  BY DEF ThreadExit, At, kernelVars
<1>2. wk' \in Workers
  <2>1. Workers = [Kinds -> Worker]
    BY DEF Workers, Worker
  <2>2. QED
    BY <1>1, <2>1, NoWorkerType DEF WorkerTypes
<1>3. WorkerTypes'
  BY <1>1, <1>2 DEF WorkerTypes
<1>4. wk'[k] = noWorker /\ \A j \in Kinds \ {k} : wk'[j] = wk[j]
  BY <1>1 DEF WorkerTypes, Workers
<1>5. Alone(k)
  BY <1>1, <1>4 DEF Alone, Frame
<1>6. Control(k)
  BY <1>1, <1>4 DEF Control
<1>7. Handles(k)
  BY <1>1 DEF Handles
<1>8. QED
  BY <1>3, <1>5, <1>6, <1>7 DEF Footprint

-----------------------------------------------------------------------------
(* Stepping over a breakpoint.                                             *)

\* The registers a session programs.
LEMMA RegisterTypes ==
    /\ registersOf["watch"] = <<"ctx2", "d1">> /\ registersOf["trace"] = <<"ctx1", "i1">>
    /\ registersOf["multi"] = <<"ctx1", "ctx2", "i1", "i2">>
    /\ \A k \in Kinds : registersOf[k] \in Seq(Regs)
    /\ \A k \in Kinds, p \in Procs : triggerOf(k, p) \in Regs /\ <<triggerOf(k, p)>> \in Seq(Regs)
    /\ \A r \in Regs : <<r>> \in Seq(Regs)
<1>1. /\ registersOf["watch"] = <<"ctx2", "d1">> /\ registersOf["trace"] = <<"ctx1", "i1">>
      /\ registersOf["multi"] = <<"ctx1", "ctx2", "i1", "i2">>
  BY DEF registersOf
<1>2. <<"ctx2", "d1">> \in Seq(Regs) /\ <<"ctx1", "i1">> \in Seq(Regs)
  BY DEF Regs
<1>3. <<"ctx1", "ctx2", "i1", "i2">> \in Seq(Regs)
  BY DEF Regs
<1>4. \A k \in Kinds : registersOf[k] \in Seq(Regs)
  BY <1>1, <1>2, <1>3 DEF Kinds
<1>5. \A k \in Kinds, p \in Procs : triggerOf(k, p) \in Regs
  BY DEF triggerOf, Regs
<1>6. \A r \in Regs : <<r>> \in Seq(Regs)
  OBVIOUS
<1>7. QED
  BY <1>1, <1>4, <1>5, <1>6

\* The breakpoint is cleared and the thread told to step.
LEMMA StepBeginStep ==
    ASSUME WorkerTypes, NEW k \in Kinds, StepBegin(k) PROVE Footprint(k)
<1> DEFINE p == wk[k].at
           R == <<triggerOf(k, p)>>
<1>1. wk[k].pc = "step" /\ Frame
  BY DEF StepBegin, At
<1>2. /\ {"stepWait", "rearm"} \subseteq WorkerPcs
      /\ {"stepWait", "rearm"} \subseteq Live \ {"detach", "attach", "finish"}
      /\ "step" \in Live \ {"close", "finish"}
  BY DEF WorkerPcs, Live
<1>3. p \in Procs /\ R \in Seq(Regs)
  BY RegisterTypes DEF WorkerTypes, Workers
<1>4. CASE regs' \in failedClears(R) /\ Fail(k) /\ tgt' = tgt
  <2>1. regs' \in RegisterFiles
    BY <1>3, <1>4, FailedClearsType DEF WorkerTypes
  <2>2. QED
    BY <1>1, <1>2, <1>4, <2>1, FailStep DEF WorkerTypes
<1>5. ASSUME regs' = writtenAll(regs, R, FALSE), ses' = ses,
             NEW b \in BOOLEAN, NEW pc \in {"stepWait", "rearm"},
             tgt' \in {tgt, [tgt EXCEPT ![p].stopped = FALSE, ![p].step = TRUE]},
             wk' = [wk EXCEPT ![k].stepBad = b, ![k].pc = pc]
      PROVE  Footprint(k)
  <2>1. regs' \in RegisterFiles
    BY <1>3, <1>5, WrittenAllType DEF WorkerTypes
  <2>2. tgt' \in Targets
    <3>1. FALSE \in BOOLEAN /\ TRUE \in BOOLEAN
      OBVIOUS
    <3>2. [tgt EXCEPT ![p].stopped = FALSE, ![p].step = TRUE] \in Targets
      BY <1>3, <3>1, TargetTypes, Zenon DEF WorkerTypes
    <3>3. QED
      BY <1>5, <3>2, Zenon DEF WorkerTypes
  <2>3. \A q \in Procs : tgt'[q].owner = tgt[q].owner
    BY <1>3, <1>5, SMTT(30) DEF WorkerTypes, Targets
  <2>4. WorkerTypes'
    BY <1>2, <1>5, <2>1, <2>2, WorkerUpdates, Zenon DEF WorkerTypes
  <2>5. /\ \A j \in Kinds \ {k} : wk'[j] = wk[j]
        /\ wk'[k].pc = pc /\ wk'[k].attached = wk[k].attached
    BY <1>5 DEF WorkerTypes, Workers
  <2>6. QED
    BY <1>1, <1>2, <1>5, <2>3, <2>4, <2>5, GoOn
<1>6. QED
  BY <1>4, <1>5 DEF StepBegin

\* Events are read up to the step's own.
LEMMA StepWaitStep ==
    ASSUME WorkerTypes, NEW k \in Kinds, StepWait(k) PROVE Footprint(k)
<1> DEFINE p == wk[k].at
<1>1. wk[k].pc = "stepWait" /\ Frame /\ UNCHANGED <<regs, ses>>
  BY DEF StepWait, At
<1>2. /\ {"stepWait", "rearm"} \subseteq WorkerPcs
      /\ {"stepWait", "rearm"} \subseteq Live \ {"detach", "attach", "finish"}
      /\ "stepWait" \in Live \ {"close", "finish"}
  BY DEF WorkerPcs, Live
<1>3. p \in Procs
  BY DEF WorkerTypes, Workers
<1>4. ASSUME NEW b \in BOOLEAN, NEW pc \in {"stepWait", "rearm"},
             tgt' \in Targets, \A q \in Procs : tgt'[q].owner = tgt[q].owner,
             wk' = [wk EXCEPT ![k].stepBad = b, ![k].pc = pc]
      PROVE  Footprint(k)
  <2>1. WorkerTypes'
    BY <1>1, <1>2, <1>4, WorkerUpdates DEF WorkerTypes
  <2>2. /\ \A j \in Kinds \ {k} : wk'[j] = wk[j]
        /\ wk'[k].pc = pc /\ wk'[k].attached = wk[k].attached
    BY <1>4 DEF WorkerTypes, Workers
  <2>3. QED
    BY <1>1, <1>2, <1>4, <2>1, <2>2, GoOn
<1>5. CASE /\ tgt[p].queue # <<>>
           /\ tgt' = [tgt EXCEPT ![p].queue = Tail(tgt[p].queue)]
           /\ wk' = [wk EXCEPT ![k].stepBad = Head(tgt[p].queue) = "exit",
                               ![k].pc = IF Head(tgt[p].queue) \in {"step", "exit"}
                                         THEN "rearm" ELSE "stepWait"]
  <2>1. tgt' \in Targets /\ \A q \in Procs : tgt'[q].owner = tgt[q].owner
    BY <1>3, <1>5, ReadEvent, Zenon DEF WorkerTypes
  <2>2. QED
    BY <1>4, <1>5, <2>1
<1>6. CASE /\ tgt' = tgt \/ tgt' = quiesced({p}, {}, {})
           /\ wk' = [wk EXCEPT ![k].stepBad = TRUE, ![k].pc = "rearm"]
  <2>1. tgt' \in Targets /\ \A q \in Procs : tgt'[q].owner = tgt[q].owner
    BY <1>6, QuiescedFacts DEF WorkerTypes
  <2>2. QED
    BY <1>4, <1>6, <2>1
<1>7. QED
  BY <1>5, <1>6 DEF StepWait

\* The breakpoint is set again.
LEMMA RearmStep ==
    ASSUME WorkerTypes, NEW k \in Kinds, Rearm(k) PROVE Footprint(k)
<1> DEFINE R == <<triggerOf(k, wk[k].at)>>
<1>1. wk[k].pc = "rearm" /\ Frame /\ tgt' = tgt
  BY DEF Rearm, At
<1>2. /\ {"quiesce", "events", "rollback"} \subseteq WorkerPcs
      /\ {"quiesce", "events", "rollback"} \subseteq Live \ {"detach", "attach", "finish"}
      /\ "rearm" \in Live \ {"close", "finish"}
  BY DEF WorkerPcs, Live
<1>3. R \in Seq(Regs)
  BY RegisterTypes DEF WorkerTypes, Workers
<1>4. /\ ses' \in CountingSessions
      /\ \A j \in Kinds \ {k} : ses'[j] = ses[j]
      /\ ses'[k].active = ses[k].active /\ ses'[k].stop = ses[k].stop
      /\ ses'[k].max = ses[k].max /\ ses'[k].ring = ses[k].ring
      /\ ses'[k].targets = ses[k].targets
  <2>1. CASE ses' = ses
    BY <2>1 DEF WorkerTypes
  <2>2. CASE ses' = [ses EXCEPT ![k].err = TRUE]
    <3>1. ses' \in CountingSessions
      BY <2>2, SessionUpdates DEF WorkerTypes
    <3>2. QED
      BY <2>2, <3>1 DEF WorkerTypes, CountingSessions, Session
  <2>3. QED
    BY <2>1, <2>2 DEF Rearm
<1>5. ASSUME regs' \in RegisterFiles, wk' \in Workers,
             \A j \in Kinds \ {k} : wk'[j] = wk[j],
             wk'[k].pc \in {"quiesce", "events", "rollback"}, wk'[k].attached = wk[k].attached
      PROVE  Footprint(k)
  <2>1. WorkerTypes'
    BY <1>1, <1>4, <1>5 DEF WorkerTypes
  <2>2. QED
    BY <1>1, <1>2, <1>4, <1>5, <2>1, GoOn
<1>6. ASSUME regs' = writtenAll(regs, R, TRUE), NEW pc \in {"quiesce", "events"},
             wk' = [wk EXCEPT ![k].pc = pc]
      PROVE  Footprint(k)
  <2>1. regs' \in RegisterFiles
    BY <1>3, <1>6, WrittenAllType DEF WorkerTypes
  <2>2. wk' \in Workers
    BY <1>2, <1>6, WorkerUpdates DEF WorkerTypes
  <2>3. /\ \A j \in Kinds \ {k} : wk'[j] = wk[j]
        /\ wk'[k].pc = pc /\ wk'[k].attached = wk[k].attached
    BY <1>6 DEF WorkerTypes, Workers
  <2>4. QED
    BY <1>5, <2>1, <2>2, <2>3
<1>7. ASSUME NEW r \in Cores, NEW i \in 0 .. Len(R) - 1, regs' = written(regs, R, TRUE, r, i),
             wk' = [wk EXCEPT ![k].batch = R, ![k].reached = r, ![k].pc = "rollback"]
      PROVE  Footprint(k)
  <2>1. r \in Nat /\ i \in 0 .. Len(R)
    BY DEF Cores
  <2>2. regs' \in RegisterFiles
    BY <1>3, <1>7, <2>1, WrittenType DEF WorkerTypes
  <2>3. wk' \in Workers
    BY <1>2, <1>3, <1>7, WorkerUpdates DEF WorkerTypes
  <2>4. /\ \A j \in Kinds \ {k} : wk'[j] = wk[j]
        /\ wk'[k].pc = "rollback" /\ wk'[k].attached = wk[k].attached
    BY <1>7 DEF WorkerTypes, Workers
  <2>5. QED
    BY <1>5, <2>2, <2>3, <2>4
<1>8. QED
  <2>1. CASE regs' = writtenAll(regs, R, TRUE)
             /\ wk' = [wk EXCEPT ![k].pc = IF wk[k].stepBad THEN "quiesce" ELSE "events"]
    BY <1>6, <2>1
  <2>2. QED
    BY <1>7, <2>1 DEF Rearm, WriteBatch

-----------------------------------------------------------------------------
(* debug_watch.c.                                                          *)

\* A handle is taken.
LEMMA AttachStep ==
    ASSUME WorkerTypes, NEW k \in Kinds, Frame, wk[k].pc = "attach", regs' = regs, ses' = ses,
           NEW p \in Procs, attachable(p), tgt' = attachedBy(tgt, p, k),
           wk' \in Workers, \A j \in Kinds \ {k} : wk'[j] = wk[j],
           wk'[k].pc = "drain" \/ (wk'[k].pc = "attach" /\ k = "multi"),
           wk'[k].attached = IF k = "multi" THEN wk[k].attached \cup {p} ELSE {p}
    PROVE  Footprint(k)
<1>1. /\ "attach" \in Live \ {"finish"} /\ {"attach", "drain"} \subseteq Live \ {"detach"}
      /\ k \in Owners
  BY DEF WorkerPcs, Live, Owners
<1>2. /\ tgt' \in Targets /\ tgt'[p].owner = k
      /\ \A q \in Procs \ {p} : tgt'[q].owner = tgt[q].owner
  BY <1>1, AttachedByFacts DEF WorkerTypes
<1>3. WorkerTypes'
  BY <1>2 DEF WorkerTypes
<1>4. Alone(k)
  BY DEF Alone, Frame
<1>5. Control(k)
  BY <1>1 DEF Control
<1>6. tgt[p].owner = "none"
  BY DEF attachable
<1>7. Handles(k)
  BY <1>2, <1>6 DEF Handles
<1>8. QED
  BY <1>3, <1>4, <1>5, <1>7 DEF Footprint

\* The watch thread attaches to the application, after the cheat service let go, or gives up.
LEMMA watchAttachStep ==
    ASSUME WorkerTypes, watchAttach PROVE Footprint("watch")
<1>1. /\ "watch" \in Kinds /\ "app" \in Procs /\ {"app"} \in SUBSET Procs /\ "drain" \in WorkerPcs
      /\ "attach" \in Live \ {"close", "finish"}
  BY DEF Kinds, Procs, WorkerPcs, Live
<1>2. wk["watch"].pc = "attach" /\ regs' = regs /\ Frame
  BY DEF watchAttach, At
<1>3. CASE tgt' = tgt /\ Fail("watch")
  BY <1>1, <1>2, <1>3, FailStep DEF WorkerTypes
<1>4. CASE /\ attachable("app")
           /\ tgt' = attachedBy(tgt, "app", "watch")
           /\ wk' = [wk EXCEPT !["watch"].attached = {"app"}, !["watch"].pc = "drain"]
           /\ UNCHANGED ses
  <2>1. wk' \in Workers
    BY <1>1, <1>4, WorkerUpdates DEF WorkerTypes
  <2>2. /\ \A j \in Kinds \ {"watch"} : wk'[j] = wk[j]
        /\ wk'["watch"].pc = "drain" /\ wk'["watch"].attached = {"app"}
    BY <1>1, <1>4 DEF WorkerTypes, Workers
  <2>3. QED
    BY <1>1, <1>2, <1>4, <2>1, <2>2, AttachStep
<1>5. QED
  BY <1>3, <1>4 DEF watchAttach

\* The watch thread reads the attach events.
LEMMA watchDrainStep ==
    ASSUME WorkerTypes, watchDrain PROVE Footprint("watch")
<1>1. /\ "watch" \in Kinds /\ "app" \in Procs /\ {"app"} \in SUBSET Procs
      /\ {"arm", "quiesce"} \subseteq WorkerPcs
      /\ {"arm", "quiesce"} \subseteq Live \ {"detach", "attach", "finish"}
      /\ "drain" \in Live \ {"close", "finish"}
  BY DEF Kinds, Procs, WorkerPcs, Live
<1>2. wk["watch"].pc = "drain" /\ regs' = regs /\ Frame /\ tgt' = drained(tgt, "app")
  BY DEF watchDrain, At
<1>3. tgt' \in Targets /\ \A p \in Procs : tgt'[p].owner = tgt[p].owner
  BY <1>1, <1>2, KeepsOwner DEF WorkerTypes
<1>4. CASE Fail("watch")
  BY <1>1, <1>2, <1>3, <1>4, FailStep DEF WorkerTypes
<1>5. CASE ses' = ses /\ wk' = [wk EXCEPT !["watch"].exited = {"app"}, !["watch"].pc = "quiesce"]
  <2>1. WorkerTypes'
    BY <1>1, <1>2, <1>3, <1>5, WorkerUpdates DEF WorkerTypes
  <2>2. /\ \A j \in Kinds \ {"watch"} : wk'[j] = wk[j]
        /\ wk'["watch"].pc = "quiesce" /\ wk'["watch"].attached = wk["watch"].attached
    BY <1>1, <1>5 DEF WorkerTypes, Workers
  <2>3. QED
    BY <1>1, <1>2, <1>3, <1>5, <2>1, <2>2, GoOn
<1>6. CASE ses' = ses /\ Goto("watch", "arm")
  <2>1. WorkerTypes'
    BY <1>1, <1>2, <1>3, <1>6, WorkerUpdates DEF WorkerTypes, Goto
  <2>2. /\ \A j \in Kinds \ {"watch"} : wk'[j] = wk[j]
        /\ wk'["watch"].pc = "arm" /\ wk'["watch"].attached = wk["watch"].attached
    BY <1>1, <1>6 DEF WorkerTypes, Workers, Goto
  <2>3. QED
    BY <1>1, <1>2, <1>3, <1>6, <2>1, <2>2, GoOn, SMTT(30)
<1>7. QED
  BY <1>4, <1>5, <1>6 DEF watchDrain

\* A batch is written and noted as armed.
LEMMA BatchArmed ==
    ASSUME WorkerTypes, NEW k \in Kinds, Frame, wk[k].pc \in Live \ {"close", "finish"},
           NEW g \in RegisterFiles, NEW R \in Seq(Regs), NEW A \in Seq(Regs),
           NEW pc \in {"armData", "resume", "loop"},
           regs' = writtenAll(g, R, TRUE),
           wk' = [wk EXCEPT ![k].armed = A, ![k].pc = pc],
           tgt' = tgt,
           \/ ses' = ses
           \/ ses' = [ses EXCEPT ![k].everArmed = TRUE, ![k].err = FALSE]
    PROVE  Footprint(k)
<1>1. pc \in WorkerPcs /\ pc \in Live \ {"detach", "attach", "finish"}
  BY DEF WorkerPcs, Live
<1>2. wk' \in Workers
  BY <1>1, WorkerUpdates DEF WorkerTypes
<1>3. /\ ses' \in CountingSessions
      /\ \A j \in Kinds \ {k} : ses'[j] = ses[j]
      /\ ses'[k].active = ses[k].active /\ ses'[k].stop = ses[k].stop
      /\ ses'[k].max = ses[k].max /\ ses'[k].ring = ses[k].ring
      /\ ses'[k].targets = ses[k].targets
  <2>1. CASE ses' = ses
    BY <2>1 DEF WorkerTypes
  <2>2. CASE ses' = [ses EXCEPT ![k].everArmed = TRUE, ![k].err = FALSE]
    <3>1. TRUE \in BOOLEAN /\ FALSE \in BOOLEAN
      OBVIOUS
    <3>2. ses' \in CountingSessions
      BY <2>2, <3>1, SessionUpdates DEF WorkerTypes
    <3>3. QED
      BY <2>2, <3>2 DEF WorkerTypes, CountingSessions, Session
  <2>3. QED
    BY <2>1, <2>2
<1>4. WorkerTypes'
  BY <1>2, <1>3, WrittenAllType DEF WorkerTypes
<1>5. /\ \A j \in Kinds \ {k} : wk'[j] = wk[j]
      /\ wk'[k].pc = pc /\ wk'[k].attached = wk[k].attached
  BY DEF WorkerTypes, Workers
<1>6. QED
  BY <1>1, <1>3, <1>4, <1>5, GoOn, Zenon

\* The watch thread programs its context slot.
LEMMA watchArmContextStep ==
    ASSUME WorkerTypes, watchArmContext PROVE Footprint("watch")
<1>1. /\ "watch" \in Kinds /\ "arm" \in Live \ {"close", "finish"} /\ <<"ctx2">> \in Seq(Regs)
  BY DEF Kinds, WorkerPcs, Live, Regs
<1>2. wk["watch"].pc = "arm" /\ tgt' = tgt /\ Frame
  BY DEF watchArmContext, At
<1>3. PICK g \in RegisterFiles :
          \/ /\ WriteBatch("watch", g, <<"ctx2">>,
                   wk' = [wk EXCEPT !["watch"].armed = <<"ctx2">>, !["watch"].pc = "armData"])
             /\ UNCHANGED ses
          \/ regs' = g /\ Fail("watch")
  BY ProbedType DEF watchArmContext, WorkerTypes
<1>4. CASE regs' = g /\ Fail("watch")
  BY <1>1, <1>2, <1>4, FailStep DEF WorkerTypes
<1>5. CASE /\ regs' = writtenAll(g, <<"ctx2">>, TRUE) /\ ses' = ses
           /\ wk' = [wk EXCEPT !["watch"].armed = <<"ctx2">>, !["watch"].pc = "armData"]
  BY <1>1, <1>2, <1>5, BatchArmed
<1>6. ASSUME NEW r \in Cores, NEW i \in 0 .. Len(<<"ctx2">>) - 1, ses' = ses,
             regs' = written(g, <<"ctx2">>, TRUE, r, i),
             wk' = [wk EXCEPT !["watch"].batch = <<"ctx2">>, !["watch"].reached = r,
                              !["watch"].pc = "rollback"]
      PROVE  Footprint("watch")
  BY <1>1, <1>2, <1>6, BatchFails
<1>7. QED
  BY <1>3, <1>4, <1>5, <1>6 DEF WriteBatch

\* The watch thread programs its data register.
LEMMA watchArmDataStep ==
    ASSUME WorkerTypes, watchArmData PROVE Footprint("watch")
<1>1. /\ "watch" \in Kinds /\ "armData" \in Live \ {"close", "finish"} /\ <<"d1">> \in Seq(Regs)
      /\ regs \in RegisterFiles
  BY DEF Kinds, WorkerPcs, Live, Regs, WorkerTypes
<1>2. registersOf["watch"] \in Seq(Regs)
  BY <1>1, RegisterTypes
<1>3. wk["watch"].pc = "armData" /\ tgt' = tgt /\ Frame /\ ses' = ses
  BY DEF watchArmData, At
<1>4. CASE /\ regs' = writtenAll(regs, <<"d1">>, TRUE)
           /\ wk' = [wk EXCEPT !["watch"].armed = registersOf["watch"], !["watch"].pc = "resume"]
  BY <1>1, <1>2, <1>3, <1>4, BatchArmed
<1>5. ASSUME NEW r \in Cores, NEW i \in 0 .. Len(<<"d1">>) - 1,
             regs' = written(regs, <<"d1">>, TRUE, r, i),
             wk' = [wk EXCEPT !["watch"].batch = <<"d1">>, !["watch"].reached = r,
                              !["watch"].pc = "rollback"]
      PROVE  Footprint("watch")
  BY <1>1, <1>3, <1>5, BatchFails
<1>6. QED
  BY <1>4, <1>5 DEF watchArmData, WriteBatch

\* A process runs for the first time, and the session may be armed with that.
LEMMA ResumedStep ==
    ASSUME WorkerTypes, NEW k \in Kinds, Frame, wk[k].pc = "resume", regs' = regs,
           NEW p \in Procs, tgt' = running(tgt, p), NEW P \in SUBSET Procs,
           NEW pc \in {"loop", "arm", "resume"},
           wk' = [wk EXCEPT ![k].resumed = P, ![k].pc = pc],
           \/ ses' = ses
           \/ ses' = [ses EXCEPT ![k].everArmed = TRUE, ![k].err = FALSE]
    PROVE  Footprint(k)
<1>1. /\ pc \in WorkerPcs /\ pc \in Live \ {"detach", "attach", "finish"}
      /\ "resume" \in Live \ {"close", "finish"}
  BY DEF WorkerPcs, Live
<1>2. wk' \in Workers
  BY <1>1, WorkerUpdates DEF WorkerTypes
<1>3. /\ ses' \in CountingSessions
      /\ \A j \in Kinds \ {k} : ses'[j] = ses[j]
      /\ ses'[k].active = ses[k].active /\ ses'[k].stop = ses[k].stop
      /\ ses'[k].max = ses[k].max /\ ses'[k].ring = ses[k].ring
      /\ ses'[k].targets = ses[k].targets
  <2>1. CASE ses' = ses
    BY <2>1 DEF WorkerTypes
  <2>2. CASE ses' = [ses EXCEPT ![k].everArmed = TRUE, ![k].err = FALSE]
    <3>1. TRUE \in BOOLEAN /\ FALSE \in BOOLEAN
      OBVIOUS
    <3>2. ses' \in CountingSessions
      BY <2>2, <3>1, SessionUpdates DEF WorkerTypes
    <3>3. QED
      BY <2>2, <3>2 DEF WorkerTypes, CountingSessions, Session
  <2>3. QED
    BY <2>1, <2>2
<1>4. tgt' \in Targets /\ \A q \in Procs : tgt'[q].owner = tgt[q].owner
  BY KeepsOwner DEF WorkerTypes
<1>5. WorkerTypes'
  BY <1>2, <1>3, <1>4 DEF WorkerTypes
<1>6. /\ \A j \in Kinds \ {k} : wk'[j] = wk[j]
      /\ wk'[k].pc = pc /\ wk'[k].attached = wk[k].attached
  BY DEF WorkerTypes, Workers
<1>7. QED
  BY <1>1, <1>3, <1>4, <1>5, <1>6, GoOn, Zenon

\* The watch thread lets the application go on, armed.
LEMMA watchResumeStep ==
    ASSUME WorkerTypes, watchResume PROVE Footprint("watch")
<1>1. /\ "watch" \in Kinds /\ "app" \in Procs /\ {"app"} \in SUBSET Procs
      /\ "resume" \in Live \ {"close", "finish"}
  BY DEF Kinds, Procs, WorkerPcs, Live
<1>2. wk["watch"].pc = "resume" /\ regs' = regs /\ Frame
  BY DEF watchResume, At
<1>3. CASE tgt' = tgt /\ Fail("watch")
  BY <1>1, <1>2, <1>3, FailStep DEF WorkerTypes
<1>4. CASE /\ tgt' = running(tgt, "app")
           /\ wk' = [wk EXCEPT !["watch"].resumed = {"app"}, !["watch"].pc = "loop"]
           /\ ses' = [ses EXCEPT !["watch"].everArmed = TRUE, !["watch"].err = FALSE]
  BY <1>1, <1>2, <1>4, ResumedStep
<1>5. QED
  BY <1>3, <1>4 DEF watchResume

\* An event is read: the worker goes on with the events, the step or the clean-up, or the process
\* goes on; a hit may be counted and an exit may be an error.
LEMMA EventStep ==
    ASSUME WorkerTypes, NEW k \in Kinds, Frame, wk[k].pc = "events", regs' = regs,
           tgt' \in Targets, \A q \in Procs : tgt'[q].owner = tgt[q].owner,
           wk' \in Workers, \A j \in Kinds \ {k} : wk'[j] = wk[j],
           wk'[k].pc \in {"events", "continue", "step", "quiesce"},
           wk'[k].attached = wk[k].attached,
           \/ ses' = ses
           \/ ses' = [ses EXCEPT ![k].hits = ses[k].hits + 1]
           \/ ses' = [ses EXCEPT ![k].err = TRUE]
    PROVE  Footprint(k)
<1>1. /\ {"events", "continue", "step", "quiesce"} \subseteq Live \ {"detach", "attach", "finish"}
      /\ "events" \in Live \ {"close", "finish"}
  BY DEF WorkerPcs, Live
<1>2. /\ ses' \in CountingSessions
      /\ \A j \in Kinds \ {k} : ses'[j] = ses[j]
      /\ ses'[k].active = ses[k].active /\ ses'[k].stop = ses[k].stop
      /\ ses'[k].max = ses[k].max /\ ses'[k].ring = ses[k].ring
      /\ ses'[k].targets = ses[k].targets
  <2>1. CASE ses' = ses
    BY <2>1 DEF WorkerTypes
  <2>2. CASE ses' = [ses EXCEPT ![k].hits = ses[k].hits + 1]
    <3>1. ses[k].hits + 1 \in Nat
      BY DEF WorkerTypes, CountingSessions, Session
    <3>2. ses' \in CountingSessions
      BY <2>2, <3>1, SessionUpdates DEF WorkerTypes
    <3>3. QED
      BY <2>2, <3>2 DEF WorkerTypes, CountingSessions, Session
  <2>3. CASE ses' = [ses EXCEPT ![k].err = TRUE]
    <3>1. ses' \in CountingSessions
      BY <2>3, SessionUpdates DEF WorkerTypes
    <3>2. QED
      BY <2>3, <3>1 DEF WorkerTypes, CountingSessions, Session
  <2>4. QED
    BY <2>1, <2>2, <2>3
<1>3. WorkerTypes'
  BY <1>2 DEF WorkerTypes
<1>4. QED
  BY <1>1, <1>2, <1>3, GoOn

\* The four ways a worker's locals change at an event.
LEMMA EventLocals ==
    ASSUME WorkerTypes, NEW k \in Kinds, NEW P \in SUBSET Procs, NEW Q \in SUBSET Procs,
           NEW pc \in {"events", "step", "quiesce"}, wk[k].pc = "events",
           \/ wk' = [wk EXCEPT ![k].pc = "continue"]
           \/ wk' = [wk EXCEPT ![k].pending = P, ![k].exited = Q, ![k].pc = "quiesce"]
           \/ wk' = [wk EXCEPT ![k].pending = P]
           \/ wk' = [wk EXCEPT ![k].pending = P, ![k].pc = pc]
    PROVE  /\ wk' \in Workers /\ \A j \in Kinds \ {k} : wk'[j] = wk[j]
           /\ wk'[k].pc \in {"events", "continue", "step", "quiesce"}
           /\ wk'[k].attached = wk[k].attached
<1>1. {"events", "continue", "step", "quiesce"} \subseteq WorkerPcs
  BY DEF WorkerPcs
<1>2. CASE wk' = [wk EXCEPT ![k].pc = "continue"]
  <2>1. wk' \in Workers
    BY <1>1, <1>2, WorkerUpdates DEF WorkerTypes
  <2>2. QED
    BY <1>2, <2>1 DEF WorkerTypes, Workers
<1>3. CASE wk' = [wk EXCEPT ![k].pending = P, ![k].exited = Q, ![k].pc = "quiesce"]
  <2>1. wk' \in Workers
    BY <1>1, <1>3, WorkerUpdates DEF WorkerTypes
  <2>2. QED
    BY <1>3, <2>1, SMTT(30) DEF WorkerTypes, Workers
<1>4. CASE wk' = [wk EXCEPT ![k].pending = P]
  <2>1. wk' \in Workers
    BY <1>1, <1>4, WorkerUpdates DEF WorkerTypes
  <2>2. QED
    BY <1>4, <2>1, Zenon DEF WorkerTypes, Workers
<1>5. CASE wk' = [wk EXCEPT ![k].pending = P, ![k].pc = pc]
  <2>1. wk' \in Workers
    BY <1>1, <1>5, WorkerUpdates DEF WorkerTypes
  <2>2. QED
    BY <1>5, <2>1, SMTT(30) DEF WorkerTypes, Workers
<1>6. QED
  BY <1>2, <1>3, <1>4, <1>5

\* The watch thread reads one event of the application.
LEMMA watchEventStep ==
    ASSUME WorkerTypes, watchEvent PROVE Footprint("watch")
<1> DEFINE pc == IF watchLimitReached(ses["watch"].hits + 1) THEN "quiesce" ELSE "events"
<1>1. "watch" \in Kinds /\ "app" \in Procs /\ {"app"} \in SUBSET Procs
  BY DEF Kinds, Procs
<1>2. wk["watch"].pc = "events" /\ regs' = regs /\ Frame
  BY DEF watchEvent, At
<1>3. tgt' \in Targets /\ \A q \in Procs : tgt'[q].owner = tgt[q].owner
  <2>1. CASE tgt' = tgt
    BY <2>1 DEF WorkerTypes
  <2>2. CASE /\ tgt["app"].queue # <<>>
             /\ tgt' = [tgt EXCEPT !["app"].queue = Tail(tgt["app"].queue)]
    BY <1>1, <2>2, ReadEvent, Zenon DEF WorkerTypes
  <2>3. QED
    BY <2>1, <2>2 DEF watchEvent
<1>4. \/ wk' = [wk EXCEPT !["watch"].pc = "continue"]
      \/ wk' = [wk EXCEPT !["watch"].pending = {"app"}, !["watch"].exited = {"app"}, !["watch"].pc = "quiesce"]
      \/ wk' = [wk EXCEPT !["watch"].pending = {"app"}]
      \/ wk' = [wk EXCEPT !["watch"].pending = {"app"}, !["watch"].pc = pc]
  BY Zenon DEF watchEvent, Goto
<1>5. ses' = ses \/ ses' = [ses EXCEPT !["watch"].hits = ses["watch"].hits + 1]
  BY SMTT(30) DEF watchEvent
<1>6. /\ wk' \in Workers /\ \A j \in Kinds \ {"watch"} : wk'[j] = wk[j]
      /\ wk'["watch"].pc \in {"events", "continue", "step", "quiesce"}
      /\ wk'["watch"].attached = wk["watch"].attached
  BY <1>1, <1>2, <1>4, EventLocals, Zenon
<1>7. QED
  BY <1>1, <1>2, <1>3, <1>5, <1>6, EventStep

\* Every step of the watch worker.
LEMMA watchStep ==
    ASSUME WorkerTypes, watchNext PROVE Footprint("watch")
<1>1. "watch" \in Kinds /\ "ctx2" \in Regs /\ "d1" \in Regs
  BY DEF Kinds, Regs
<1>2. watchArmed("ctx2") \in Seq(Regs) /\ watchArmed("d1") \in Seq(Regs)
  BY <1>1 DEF watchArmed
<1>3. CASE watchLoop
  BY <1>1, <1>3, LoopEndStep, LoopWaitStep, LoopContinueStep, watchEventStep DEF watchLoop
<1>4. CASE watchCleanup
  <2>1. CASE Quiesce("watch", TRUE)
    BY <1>1, <2>1, QuiesceStep
  <2>2. CASE Clear("watch", "clear", watchArmed("ctx2"), "clearData")
    BY <1>1, <1>2, <2>2, ClearStep
  <2>3. CASE Clear("watch", "clearData", watchArmed("d1"), "close")
    BY <1>1, <1>2, <2>3, ClearStep
  <2>4. QED
    BY <1>1, <1>4, <2>1, <2>2, <2>3, CloseHandlesStep, FinishStep DEF watchCleanup
<1>5. QED
  BY <1>1, <1>3, <1>4, watchAttachStep, watchDrainStep, watchArmContextStep, watchArmDataStep,
     watchResumeStep, RollbackStep, ThreadExitStep DEF watchNext

-----------------------------------------------------------------------------
(* debug_trace.c.                                                          *)

\* The cheat service is told to let go before the first attach.
LEMMA DetachStep ==
    ASSUME WorkerTypes, NEW k \in Kinds, Frame, wk[k].pc = "detach", UNCHANGED <<regs, ses>>,
           tgt' = tgt \/ tgt' = dmntClosed, Goto(k, "attach")
    PROVE  Footprint(k)
<1>1. /\ "attach" \in WorkerPcs /\ "attach" \in Live \ {"detach"}
      /\ "detach" \in Live \ {"close", "finish"}
  BY DEF WorkerPcs, Live
<1>2. /\ tgt' \in Targets
      /\ \A p \in Procs : \/ tgt'[p].owner = tgt[p].owner
                          \/ tgt[p].owner = "dmnt" /\ tgt'[p].owner = "none"
  BY DmntClosedFacts, SMTT(30) DEF WorkerTypes
<1>3. WorkerTypes'
  BY <1>1, <1>2, WorkerUpdates DEF WorkerTypes, Goto
<1>4. /\ \A j \in Kinds \ {k} : wk'[j] = wk[j]
      /\ wk'[k].pc = "attach" /\ wk'[k].attached = wk[k].attached
  BY DEF WorkerTypes, Workers, Goto
<1>5. Alone(k)
  BY <1>4 DEF Alone, Frame
<1>6. Control(k)
  BY <1>1, <1>4 DEF Control
<1>7. Handles(k)
  BY <1>1, <1>2, <1>4 DEF Handles
<1>8. QED
  BY <1>3, <1>5, <1>6, <1>7 DEF Footprint

\* The trace thread makes the cheat service let go.
LEMMA traceDetachStep ==
    ASSUME WorkerTypes, traceDetach PROVE Footprint("trace")
<1>1. "trace" \in Kinds
  BY DEF Kinds
<1>2. /\ Frame /\ wk["trace"].pc = "detach" /\ UNCHANGED <<regs, ses>>
      /\ tgt' = tgt \/ tgt' = dmntClosed
      /\ Goto("trace", "attach")
  BY DEF traceDetach, At
<1>3. QED
  BY <1>1, <1>2, DetachStep

\* The trace thread attaches to the traced process.
LEMMA traceAttachStep ==
    ASSUME WorkerTypes, Traced, traceAttach PROVE Footprint("trace")
<1>1. /\ "trace" \in Kinds /\ "drain" \in WorkerPcs /\ "attach" \in Live \ {"close", "finish"}
  BY DEF Kinds, WorkerPcs, Live
<1>2. wk["trace"].pc = "attach" /\ regs' = regs /\ Frame
  BY DEF traceAttach, At
<1>3. traced \in Procs /\ {traced} \in SUBSET Procs
  BY <1>1, <1>2 DEF Traced
<1>4. CASE tgt' = tgt /\ Fail("trace")
  BY <1>1, <1>2, <1>4, FailStep DEF WorkerTypes
<1>5. CASE /\ attachable(traced)
           /\ tgt' = attachedBy(tgt, traced, "trace")
           /\ wk' = [wk EXCEPT !["trace"].attached = {traced}, !["trace"].at = traced,
                               !["trace"].pc = "drain"]
           /\ UNCHANGED ses
  <2>1. wk' \in Workers
    BY <1>1, <1>3, <1>5, WorkerUpdates DEF WorkerTypes
  <2>2. /\ \A j \in Kinds \ {"trace"} : wk'[j] = wk[j]
        /\ wk'["trace"].pc = "drain" /\ wk'["trace"].attached = {traced}
    BY <1>1, <1>5 DEF WorkerTypes, Workers
  <2>3. QED
    BY <1>1, <1>2, <1>3, <1>5, <2>1, <2>2, AttachStep
<1>6. QED
  BY <1>4, <1>5 DEF traceAttach

\* The trace thread reads the attach events.
LEMMA traceDrainStep ==
    ASSUME WorkerTypes, Traced, traceDrain PROVE Footprint("trace")
<1>1. /\ "trace" \in Kinds
      /\ {"arm", "quiesce"} \subseteq WorkerPcs
      /\ {"arm", "quiesce"} \subseteq Live \ {"detach", "attach", "finish"}
      /\ "drain" \in Live \ {"close", "finish"}
  BY DEF Kinds, WorkerPcs, Live
<1>2. wk["trace"].pc = "drain" /\ regs' = regs /\ Frame /\ tgt' = drained(tgt, traced)
  BY DEF traceDrain, At
<1>3. traced \in Procs /\ {traced} \in SUBSET Procs
  BY <1>1, <1>2 DEF Traced
<1>4. tgt' \in Targets /\ \A p \in Procs : tgt'[p].owner = tgt[p].owner
  BY <1>2, <1>3, KeepsOwner DEF WorkerTypes
<1>5. CASE Fail("trace")
  BY <1>1, <1>2, <1>4, <1>5, FailStep DEF WorkerTypes
<1>6. CASE ses' = ses /\ wk' = [wk EXCEPT !["trace"].exited = {traced}, !["trace"].pc = "quiesce"]
  <2>1. WorkerTypes'
    BY <1>1, <1>2, <1>3, <1>4, <1>6, WorkerUpdates DEF WorkerTypes
  <2>2. /\ \A j \in Kinds \ {"trace"} : wk'[j] = wk[j]
        /\ wk'["trace"].pc = "quiesce" /\ wk'["trace"].attached = wk["trace"].attached
    BY <1>1, <1>6 DEF WorkerTypes, Workers
  <2>3. QED
    BY <1>1, <1>2, <1>4, <1>6, <2>1, <2>2, GoOn
<1>7. CASE ses' = ses /\ Goto("trace", "arm")
  <2>1. WorkerTypes'
    BY <1>1, <1>2, <1>4, <1>7, WorkerUpdates DEF WorkerTypes, Goto
  <2>2. /\ \A j \in Kinds \ {"trace"} : wk'[j] = wk[j]
        /\ wk'["trace"].pc = "arm" /\ wk'["trace"].attached = wk["trace"].attached
    BY <1>1, <1>7 DEF WorkerTypes, Workers, Goto
  <2>3. QED
    BY <1>1, <1>2, <1>4, <1>7, <2>1, <2>2, GoOn, SMTT(30)
<1>8. QED
  BY <1>5, <1>6, <1>7 DEF traceDrain

\* The trace thread programs its context and instruction slots.
LEMMA traceArmStep ==
    ASSUME WorkerTypes, traceArm PROVE Footprint("trace")
<1> DEFINE R == registersOf["trace"]
<1>1. "trace" \in Kinds /\ "arm" \in Live \ {"close", "finish"}
  BY DEF Kinds, WorkerPcs, Live
<1>2. R \in Seq(Regs)
  BY <1>1, RegisterTypes
<1>3. wk["trace"].pc = "arm" /\ tgt' = tgt /\ Frame
  BY DEF traceArm, At
<1>4. PICK g \in RegisterFiles :
          \/ /\ WriteBatch("trace", g, R,
                   wk' = [wk EXCEPT !["trace"].armed = R, !["trace"].pc = "resume"])
             /\ UNCHANGED ses
          \/ regs' = g /\ Fail("trace")
  BY ProbedType DEF traceArm, WorkerTypes
<1> HIDE DEF R
<1>5. CASE regs' = g /\ Fail("trace")
  BY <1>1, <1>3, <1>5, FailStep DEF WorkerTypes
<1>6. CASE /\ regs' = writtenAll(g, R, TRUE) /\ ses' = ses
           /\ wk' = [wk EXCEPT !["trace"].armed = R, !["trace"].pc = "resume"]
  BY <1>1, <1>2, <1>3, <1>6, BatchArmed
<1>7. ASSUME NEW r \in Cores, NEW i \in 0 .. Len(R) - 1, ses' = ses,
             regs' = written(g, R, TRUE, r, i),
             wk' = [wk EXCEPT !["trace"].batch = R, !["trace"].reached = r, !["trace"].pc = "rollback"]
      PROVE  Footprint("trace")
  BY <1>1, <1>2, <1>3, <1>7, BatchFails
<1>8. QED
  BY <1>4, <1>5, <1>6, <1>7 DEF WriteBatch

\* The trace thread lets the process go on, armed.
LEMMA traceResumeStep ==
    ASSUME WorkerTypes, Traced, traceResume PROVE Footprint("trace")
<1>1. "trace" \in Kinds /\ "resume" \in Live \ {"close", "finish"}
  BY DEF Kinds, WorkerPcs, Live
<1>2. wk["trace"].pc = "resume" /\ regs' = regs /\ Frame
  BY DEF traceResume, At
<1>3. traced \in Procs /\ {traced} \in SUBSET Procs
  BY <1>1, <1>2 DEF Traced
<1>4. CASE tgt' = tgt /\ Fail("trace")
  BY <1>1, <1>2, <1>4, FailStep DEF WorkerTypes
<1>5. CASE /\ tgt' = running(tgt, traced)
           /\ wk' = [wk EXCEPT !["trace"].resumed = {traced}, !["trace"].pc = "loop"]
           /\ ses' = [ses EXCEPT !["trace"].everArmed = TRUE, !["trace"].err = FALSE]
  BY <1>1, <1>2, <1>3, <1>5, ResumedStep
<1>6. QED
  BY <1>4, <1>5 DEF traceResume

\* The trace thread reads one event of the process.
LEMMA traceEventStep ==
    ASSUME WorkerTypes, Traced, traceEvent PROVE Footprint("trace")
<1> DEFINE pc == IF traceLimitReached("trace", ses["trace"].hits + 1) THEN "quiesce" ELSE "step"
<1>1. "trace" \in Kinds /\ "events" \in Live
  BY DEF Kinds, WorkerPcs, Live
<1>2. wk["trace"].pc = "events" /\ regs' = regs /\ Frame
  BY DEF traceEvent, At
<1>3. traced \in Procs /\ {traced} \in SUBSET Procs
  BY <1>1, <1>2 DEF Traced
<1>4. tgt' \in Targets /\ \A q \in Procs : tgt'[q].owner = tgt[q].owner
  <2>1. CASE tgt' = tgt
    BY <2>1 DEF WorkerTypes
  <2>2. CASE /\ tgt[traced].queue # <<>>
             /\ tgt' = [tgt EXCEPT ![traced].queue = Tail(tgt[traced].queue)]
    BY <1>3, <2>2, ReadEvent, Zenon DEF WorkerTypes
  <2>3. QED
    BY <2>1, <2>2 DEF traceEvent
<1>5. \/ wk' = [wk EXCEPT !["trace"].pc = "continue"]
      \/ wk' = [wk EXCEPT !["trace"].pending = {traced}, !["trace"].exited = {traced},
                          !["trace"].pc = "quiesce"]
      \/ wk' = [wk EXCEPT !["trace"].pending = {traced}]
      \/ wk' = [wk EXCEPT !["trace"].pending = {traced}, !["trace"].pc = pc]
  BY DEF traceEvent, Goto
<1>6. ses' = ses \/ ses' = [ses EXCEPT !["trace"].hits = ses["trace"].hits + 1]
  BY SMTT(30) DEF traceEvent
<1>7. /\ wk' \in Workers /\ \A j \in Kinds \ {"trace"} : wk'[j] = wk[j]
      /\ wk'["trace"].pc \in {"events", "continue", "step", "quiesce"}
      /\ wk'["trace"].attached = wk["trace"].attached
  BY <1>1, <1>2, <1>3, <1>5, EventLocals, Zenon
<1>8. QED
  BY <1>1, <1>2, <1>4, <1>6, <1>7, EventStep

\* Every step of the trace worker.
LEMMA traceStep ==
    ASSUME WorkerTypes, Traced, traceNext PROVE Footprint("trace")
<1>1. "trace" \in Kinds /\ wk["trace"].armed \in Seq(Regs)
  BY DEF Kinds, WorkerTypes, Workers
<1>2. CASE traceLoop
  BY <1>1, <1>2, LoopEndStep, LoopWaitStep, LoopContinueStep, traceEventStep DEF traceLoop
<1>3. CASE traceCleanup
  <2>1. CASE Quiesce("trace", FALSE)
    BY <1>1, <2>1, QuiesceStep
  <2>2. CASE Clear("trace", "clear", wk["trace"].armed, "close")
    BY <1>1, <2>2, ClearStep
  <2>3. QED
    BY <1>1, <1>3, <2>1, <2>2, CloseHandlesStep, FinishStep DEF traceCleanup
<1>4. CASE StepOver("trace")
  BY <1>1, <1>4, StepBeginStep, StepWaitStep, RearmStep DEF StepOver
<1>5. QED
  BY <1>1, <1>2, <1>3, <1>4, traceDetachStep, traceAttachStep, traceDrainStep, traceArmStep,
     traceResumeStep, RollbackStep, ThreadExitStep DEF traceNext

-----------------------------------------------------------------------------
(* debug_multitrace.c.                                                     *)

\* The process whose turn it is, is one of the two.
LEMMA NextOfType ==
    /\ \A P : nextOf(P) \in Procs /\ nextOf(P) \in {"app", "sys"}
    /\ order[1] = "app" /\ order[2] = "sys"
  BY DEF nextOf, order, Procs

\* The multitrace thread makes the cheat service let go.
LEMMA multiDetachStep ==
    ASSUME WorkerTypes, multiDetach PROVE Footprint("multi")
<1>1. "multi" \in Kinds
  BY DEF Kinds
<1>2. /\ Frame /\ wk["multi"].pc = "detach" /\ UNCHANGED <<regs, ses>>
      /\ tgt' = tgt \/ tgt' = dmntClosed
      /\ Goto("multi", "attach")
  BY DEF multiDetach, At
<1>3. QED
  BY <1>1, <1>2, DetachStep

\* The multitrace thread attaches to its processes, one after the other.
LEMMA multiAttachStep ==
    ASSUME WorkerTypes, multiAttach PROVE Footprint("multi")
<1> DEFINE p == nextOf(wk["multi"].attached)
           pc == IF p = order[2] THEN "drain" ELSE "attach"
<1>1. /\ "multi" \in Kinds /\ {"drain", "attach"} \subseteq WorkerPcs
      /\ "attach" \in Live \ {"close", "finish"}
  BY DEF Kinds, WorkerPcs, Live
<1>2. wk["multi"].pc = "attach" /\ regs' = regs /\ Frame
  BY DEF multiAttach, At
<1>3. p \in Procs /\ wk["multi"].attached \cup {p} \in SUBSET Procs
  BY <1>1, NextOfType DEF WorkerTypes, Workers
<1>4. CASE tgt' = tgt /\ Fail("multi")
  BY <1>1, <1>2, <1>4, FailStep DEF WorkerTypes
<1>5. CASE /\ attachable(p)
           /\ tgt' = attachedBy(tgt, p, "multi")
           /\ wk' = [wk EXCEPT !["multi"].attached = wk["multi"].attached \cup {p},
                               !["multi"].pc = pc]
           /\ UNCHANGED ses
  <2> HIDE DEF p
  <2>1. pc \in {"drain", "attach"}
    OBVIOUS
  <2> HIDE DEF pc
  <2>2. wk' \in Workers
    BY <1>1, <1>3, <1>5, <2>1, WorkerUpdates DEF WorkerTypes
  <2>3. /\ \A j \in Kinds \ {"multi"} : wk'[j] = wk[j]
        /\ wk'["multi"].pc = pc
        /\ wk'["multi"].attached = wk["multi"].attached \cup {p}
    BY <1>1, <1>5 DEF WorkerTypes, Workers
  <2>4. QED
    BY <1>1, <1>2, <1>3, <1>5, <2>1, <2>2, <2>3, AttachStep
<1>6. QED
  BY <1>4, <1>5 DEF multiAttach

\* The multitrace thread reads the attach events of each process.
LEMMA multiDrainStep ==
    ASSUME WorkerTypes, multiDrain PROVE Footprint("multi")
<1> DEFINE p == wk["multi"].at
<1>1. /\ "multi" \in Kinds /\ "app" \in Procs /\ "sys" \in Procs
      /\ {"drain", "resume", "quiesce"} \subseteq WorkerPcs
      /\ {"drain", "resume", "quiesce"} \subseteq Live \ {"detach", "attach", "finish"}
      /\ "drain" \in Live \ {"close", "finish"}
  BY DEF Kinds, WorkerPcs, Live, Procs
<1>2. wk["multi"].pc = "drain" /\ regs' = regs /\ Frame /\ tgt' = drained(tgt, p)
  BY DEF multiDrain, At
<1>3. p \in Procs /\ wk["multi"].exited \cup {p} \in SUBSET Procs
  BY <1>1 DEF WorkerTypes, Workers
<1>4. tgt' \in Targets /\ \A q \in Procs : tgt'[q].owner = tgt[q].owner
  BY <1>2, <1>3, KeepsOwner DEF WorkerTypes
<1>5. CASE Fail("multi")
  BY <1>1, <1>2, <1>4, <1>5, FailStep DEF WorkerTypes
<1>6. CASE /\ wk' = [wk EXCEPT !["multi"].exited = wk["multi"].exited \cup {p}, !["multi"].pc = "quiesce"]
           /\ ses' = [ses EXCEPT !["multi"].err = TRUE]
  <2>1. wk' \in Workers
    BY <1>1, <1>3, <1>6, WorkerUpdates DEF WorkerTypes
  <2>2. ses' \in CountingSessions
    BY <1>1, <1>6, SessionUpdates DEF WorkerTypes
  <2>3. WorkerTypes'
    BY <1>2, <1>4, <2>1, <2>2 DEF WorkerTypes
  <2>4. /\ \A j \in Kinds \ {"multi"} : wk'[j] = wk[j] /\ ses'[j] = ses[j]
        /\ wk'["multi"].pc = "quiesce" /\ wk'["multi"].attached = wk["multi"].attached
    BY <1>1, <1>6 DEF WorkerTypes, Workers, CountingSessions
  <2>5. /\ ses'["multi"].active = ses["multi"].active /\ ses'["multi"].stop = ses["multi"].stop
        /\ ses'["multi"].max = ses["multi"].max /\ ses'["multi"].ring = ses["multi"].ring
        /\ ses'["multi"].targets = ses["multi"].targets
    BY <1>1, <1>6 DEF WorkerTypes, CountingSessions, Session
  <2>6. QED
    BY <1>1, <1>2, <1>4, <2>3, <2>4, <2>5, GoOn
<1>7. CASE /\ ses' = ses
           /\ wk' = [wk EXCEPT !["multi"].at = IF p = order[1] THEN order[2] ELSE order[1],
                               !["multi"].pc = IF p = order[1] THEN "drain" ELSE "resume"]
  <2>1. PICK q \in Procs, pc \in {"drain", "resume"} :
             wk' = [wk EXCEPT !["multi"].at = q, !["multi"].pc = pc]
    BY <1>1, <1>7, NextOfType
  <2>2. wk' \in Workers
    BY <1>1, <2>1, WorkerUpdates DEF WorkerTypes
  <2>3. WorkerTypes'
    BY <1>2, <1>4, <1>7, <2>2 DEF WorkerTypes
  <2>4. /\ \A j \in Kinds \ {"multi"} : wk'[j] = wk[j]
        /\ wk'["multi"].pc = pc /\ wk'["multi"].attached = wk["multi"].attached
    BY <1>1, <2>1 DEF WorkerTypes, Workers
  <2>5. QED
    BY <1>1, <1>2, <1>4, <1>7, <2>3, <2>4, GoOn
<1>8. QED
  BY <1>5, <1>6, <1>7 DEF multiDrain

\* The multitrace thread lets its processes go on, before it arms them.
LEMMA multiResumeStep ==
    ASSUME WorkerTypes, multiResume PROVE Footprint("multi")
<1> DEFINE p == nextOf(wk["multi"].resumed)
           pc == IF p = order[2] THEN "arm" ELSE "resume"
<1>1. "multi" \in Kinds /\ "resume" \in Live \ {"close", "finish"}
  BY DEF Kinds, WorkerPcs, Live
<1>2. wk["multi"].pc = "resume" /\ regs' = regs /\ Frame
  BY DEF multiResume, At
<1>3. p \in Procs /\ wk["multi"].resumed \cup {p} \in SUBSET Procs
  BY <1>1, NextOfType DEF WorkerTypes, Workers
<1>4. CASE tgt' = tgt /\ Fail("multi")
  BY <1>1, <1>2, <1>4, FailStep DEF WorkerTypes
<1>5. CASE /\ tgt' = running(tgt, p) /\ ses' = ses
           /\ wk' = [wk EXCEPT !["multi"].resumed = wk["multi"].resumed \cup {p}, !["multi"].pc = pc]
  <2> HIDE DEF p
  <2>1. pc \in {"loop", "arm", "resume"}
    OBVIOUS
  <2> HIDE DEF pc
  <2>2. QED
    BY <1>1, <1>2, <1>3, <1>5, <2>1, ResumedStep
<1>6. QED
  BY <1>4, <1>5 DEF multiResume

\* The multitrace thread programs both context slots and one instruction slot per process.
LEMMA multiArmStep ==
    ASSUME WorkerTypes, multiArm PROVE Footprint("multi")
<1> DEFINE R == registersOf["multi"]
<1>1. "multi" \in Kinds /\ "arm" \in Live \ {"close", "finish"}
  BY DEF Kinds, WorkerPcs, Live
<1>2. R \in Seq(Regs)
  BY <1>1, RegisterTypes
<1>3. wk["multi"].pc = "arm" /\ tgt' = tgt /\ Frame
  BY DEF multiArm, At
<1>4. PICK g \in RegisterFiles :
          \/ /\ WriteBatch("multi", g, R,
                   wk' = [wk EXCEPT !["multi"].armed = R, !["multi"].pc = "loop"])
             /\ ses' = IF wk'["multi"].pc = "loop"
                       THEN [ses EXCEPT !["multi"].everArmed = TRUE, !["multi"].err = FALSE] ELSE ses
          \/ regs' = g /\ Fail("multi")
  BY ProbedType DEF multiArm, WorkerTypes
<1> HIDE DEF R
<1>5. CASE regs' = g /\ Fail("multi")
  BY <1>1, <1>3, <1>5, FailStep DEF WorkerTypes
<1>6. CASE /\ regs' = writtenAll(g, R, TRUE)
           /\ \/ ses' = ses
              \/ ses' = [ses EXCEPT !["multi"].everArmed = TRUE, !["multi"].err = FALSE]
           /\ wk' = [wk EXCEPT !["multi"].armed = R, !["multi"].pc = "loop"]
  BY <1>1, <1>2, <1>3, <1>6, BatchArmed
<1>7. ASSUME NEW r \in Cores, NEW i \in 0 .. Len(R) - 1,
             ses' = IF wk'["multi"].pc = "loop"
                    THEN [ses EXCEPT !["multi"].everArmed = TRUE, !["multi"].err = FALSE] ELSE ses,
             regs' = written(g, R, TRUE, r, i),
             wk' = [wk EXCEPT !["multi"].batch = R, !["multi"].reached = r, !["multi"].pc = "rollback"]
      PROVE  Footprint("multi")
  <2>1. wk'["multi"].pc = "rollback"
    BY <1>1, <1>7 DEF WorkerTypes, Workers
  <2>2. QED
    BY <1>1, <1>2, <1>3, <1>7, <2>1, BatchFails
<1>8. QED
  BY <1>4, <1>5, <1>6, <1>7 DEF WriteBatch

\* The multitrace thread reads one event of the process that was signalled.
LEMMA multiEventStep ==
    ASSUME WorkerTypes, multiEvent PROVE Footprint("multi")
<1> DEFINE p == wk["multi"].at
           P == wk["multi"].pending \cup {p}
           Q == wk["multi"].exited \cup {p}
           pc == IF traceLimitReached("multi", ses["multi"].hits + 1) THEN "quiesce" ELSE "step"
<1>1. "multi" \in Kinds
  BY DEF Kinds
<1>2. wk["multi"].pc = "events" /\ regs' = regs /\ Frame
  BY DEF multiEvent, At
<1>3. p \in Procs /\ P \in SUBSET Procs /\ Q \in SUBSET Procs
  BY <1>1 DEF WorkerTypes, Workers
<1>4. tgt' \in Targets /\ \A q \in Procs : tgt'[q].owner = tgt[q].owner
  <2>1. CASE tgt' = tgt
    BY <2>1 DEF WorkerTypes
  <2>2. CASE /\ tgt[p].queue # <<>>
             /\ tgt' = [tgt EXCEPT ![p].queue = Tail(tgt[p].queue)]
    BY <1>3, <2>2, ReadEvent, Zenon DEF WorkerTypes
  <2>3. QED
    BY <2>1, <2>2 DEF multiEvent
<1>5. \/ wk' = [wk EXCEPT !["multi"].pc = "continue"]
      \/ wk' = [wk EXCEPT !["multi"].pending = P, !["multi"].exited = Q, !["multi"].pc = "quiesce"]
      \/ wk' = [wk EXCEPT !["multi"].pending = P]
      \/ wk' = [wk EXCEPT !["multi"].pending = P, !["multi"].pc = pc]
  BY DEF multiEvent, Goto
<1>6. \/ ses' = ses
      \/ ses' = [ses EXCEPT !["multi"].hits = ses["multi"].hits + 1]
      \/ ses' = [ses EXCEPT !["multi"].err = TRUE]
  BY DEF multiEvent
<1>7. pc \in {"events", "step", "quiesce"}
  BY SMTT(30)
<1> HIDE DEF P, Q, pc
<1>8. /\ wk' \in Workers /\ \A j \in Kinds \ {"multi"} : wk'[j] = wk[j]
      /\ wk'["multi"].pc \in {"events", "continue", "step", "quiesce"}
      /\ wk'["multi"].attached = wk["multi"].attached
  BY <1>1, <1>2, <1>3, <1>5, <1>7, EventLocals, Zenon
<1>9. QED
  BY <1>1, <1>2, <1>4, <1>6, <1>8, EventStep

\* Every step of the multitrace worker.
LEMMA multiStep ==
    ASSUME WorkerTypes, multiNext PROVE Footprint("multi")
<1>1. "multi" \in Kinds /\ wk["multi"].armed \in Seq(Regs)
  BY DEF Kinds, WorkerTypes, Workers
<1>2. CASE multiLoop
  BY <1>1, <1>2, LoopEndStep, LoopWaitStep, LoopContinueStep, multiEventStep DEF multiLoop
<1>3. CASE multiCleanup
  <2>1. CASE Quiesce("multi", TRUE)
    BY <1>1, <2>1, QuiesceStep
  <2>2. CASE Clear("multi", "clear", wk["multi"].armed, "close")
    BY <1>1, <2>2, ClearStep
  <2>3. QED
    BY <1>1, <1>3, <2>1, <2>2, CloseHandlesStep, FinishStep DEF multiCleanup
<1>4. CASE StepOver("multi")
  BY <1>1, <1>4, StepBeginStep, StepWaitStep, RearmStep DEF StepOver
<1>5. QED
  BY <1>1, <1>2, <1>3, <1>4, multiDetachStep, multiAttachStep, multiDrainStep, multiResumeStep,
     multiArmStep, RollbackStep, ThreadExitStep DEF multiNext

\* Whatever a worker does, and when its time is over: its footprint.
LEMMA WorkerStep ==
    ASSUME WorkerTypes, Traced,
           watchNext \/ traceNext \/ multiNext \/ \E k \in Kinds : Expire(k)
    PROVE  \E k \in Kinds : Footprint(k)
<1>1. "watch" \in Kinds /\ "trace" \in Kinds /\ "multi" \in Kinds
  BY DEF Kinds
<1>2. QED
  BY <1>1, watchStep, traceStep, multiStep, LoopEndStep

-----------------------------------------------------------------------------
\* The points of the main loop outside `debug patch-code' and the inspections.
SessionPcs == {"idle", "reap", "create", "await", "join"}

\* The points at which `debug patch-code' relies on the application being stopped.
StoppedPcs == {"inspect", "verify", "write"}

\* The types of what the commands keep; only the layout probe sets registers itself, two of them.
MainTypes ==
    /\ main \in Mains /\ mem \in Memory /\ dmntSeen \in BOOLEAN /\ code \in Codes
    /\ main.pc \notin {"setContext", "clearContext"} => main.armed = <<>>
    /\ main.pc = "setContext" => Len(main.armed) <= 1

\* A trace that runs has a process to trace.
HasTarget == wk["trace"].pc \in Live => \E p \in Procs : p \in ses["trace"].targets

\* The activity flag of a session says whether its worker is between its start and its last locked
\* section, and the main loop starts nothing else while a session is active.
Activity ==
    /\ \A k \in Kinds : ses[k].active <=> wk[k].pc \in Live
    /\ main.pc \notin {"idle", "await", "join"} => \A k \in Kinds : ~ses[k].active

\* Who owns a process is who has its handle in a local variable.
HandlesMatch ==
    /\ \A p \in Procs, k \in Kinds :
          tgt[p].owner = k <=> p \in wk[k].attached /\ wk[k].pc \notin {"finish", "exit"}
    /\ \A p \in Procs : tgt[p].owner = "main" <=> p \in main.held
    /\ \A p \in Procs : tgt[p].owner = "mem"
                           <=> p = "app" /\ mem.pc = "open" /\ mem.backend = "direct"
    /\ \A k \in Kinds : \/ wk[k].pc = "off"
                        \/ wk[k].pc \in {"detach", "attach"} /\ k # "multi"
                        => wk[k].attached = {}
    /\ main.pc \in SessionPcs => main.held = {}

\* What `debug patch-code' has made sure of when it comes to the write.
PatchReady ==
    /\ main.job = "patch" => main.p = "app"
    /\ main.pc \in StoppedPcs \cup {"readback"} => main.job = "patch"
    /\ main.job = "patch" /\ main.pc \in StoppedPcs \cup {"drain", "pause"} => "app" \in main.held
    /\ main.pc \in StoppedPcs => tgt["app"].stopped
    /\ main.pc \in {"verify", "write"} /\ main.check => code.inside # "seen"
    /\ main.pc = "write" => main.skip \/ code.bytes = "orig"

SessionInv ==
    /\ WorkerTypes /\ MainTypes /\ HasTarget
    /\ Activity /\ OneSession /\ StopIsCurrent
    /\ HandlesMatch
    /\ PatchReady

-----------------------------------------------------------------------------
(* A worker moves.                                                         *)

\* A trace picks its process from the targets it was given.
LEMMA TargetExists == HasTarget => Traced
<1> SUFFICES ASSUME HasTarget, wk["trace"].pc \in Live PROVE traced \in Procs
  BY DEF Traced
<1>1. \E p \in Procs : p \in ses["trace"].targets
  BY DEF HasTarget
<1>2. QED
  BY <1>1 DEF traced

\* No step of a worker touches the state of the others; its session ends with its last locked
\* section, when its handles are closed already.
LEMMA WorkerInv ==
    ASSUME SessionInv, NEW k \in Kinds, Footprint(k) PROVE SessionInv'
<1>1. /\ WorkerTypes' /\ UNCHANGED <<main, mem, dmntSeen, code>>
      /\ \A j \in Kinds \ {k} : ses'[j] = ses[j] /\ wk'[j] = wk[j]
  BY DEF Footprint, Alone
<1>2. MainTypes'
  BY <1>1 DEF SessionInv, MainTypes
<1>3. Control(k) /\ Handles(k)
  BY DEF Footprint
<1>4. Live = WorkerPcs \ {"off", "exit"} /\ "finish" \in Live /\ "close" \in Live
  BY DEF Live, WorkerPcs
<1>5. HasTarget'
  <2>1. CASE k = "trace"
    BY <1>3, <1>4, <2>1 DEF Control, SessionInv, HasTarget, noWorker
  <2>2. CASE k # "trace"
    BY <1>1, <2>2 DEF SessionInv, HasTarget, Kinds
  <2>3. QED
    BY <2>1, <2>2
<1>6. \A j \in Kinds : (ses'[j].active <=> wk'[j].pc \in Live) /\ (ses'[j].active => ses[j].active)
  <2>1. \A j \in Kinds \ {k} : (ses'[j].active <=> wk'[j].pc \in Live) /\ (ses'[j].active => ses[j].active)
    BY <1>1 DEF SessionInv, Activity
  <2>2. (ses'[k].active <=> wk'[k].pc \in Live) /\ (ses'[k].active => ses[k].active)
    BY <1>3, <1>4 DEF Control, SessionInv, Activity, noWorker
  <2>3. QED
    BY <2>1, <2>2
<1>7. Activity'
  BY <1>1, <1>6 DEF SessionInv, Activity
<1>8. OneSession'
  BY <1>6 DEF SessionInv, OneSession
<1>9. StopIsCurrent'
  <2>1. \A j \in Kinds : ses'[j].active /\ ses'[j].stop => ses[j].active /\ ses[j].stop
    <3>1. ses'[k].active /\ ses'[k].stop => ses[k].active /\ ses[k].stop
      BY <1>3 DEF Control
    <3>2. QED
      BY <1>1, <3>1
  <2>2. QED
    BY <1>1, <2>1 DEF SessionInv, StopIsCurrent
<1>10. HandlesMatch'
  <2>1. ASSUME NEW p \in Procs, NEW j \in Kinds
        PROVE  tgt'[p].owner = j <=> p \in wk'[j].attached /\ wk'[j].pc \notin {"finish", "exit"}
    <3>1. /\ tgt[p].owner = j <=> p \in wk[j].attached /\ wk[j].pc \notin {"finish", "exit"}
          /\ tgt[p].owner = k <=> p \in wk[k].attached /\ wk[k].pc \notin {"finish", "exit"}
          /\ j # "none" /\ j # "dmnt" /\ k # "none" /\ k # "dmnt"
      BY DEF SessionInv, HandlesMatch, Kinds
    <3>2. wk'[k].pc = "exit" => wk[k].pc = "finish"
      BY <1>3, <1>4 DEF Control, noWorker
    <3>3. CASE /\ wk[k].pc \in Live \ {"close", "finish"} /\ wk'[k].pc # "finish"
               /\ wk'[k].attached = wk[k].attached
               /\ \/ tgt'[p].owner = tgt[p].owner
                  \/ tgt[p].owner = "dmnt" /\ tgt'[p].owner = "none"
      BY <1>1, <1>4, <3>1, <3>2, <3>3
    <3>4. CASE /\ wk[k].pc = "attach" /\ wk'[k].pc # "finish"
               /\ \E q \in Procs :
                    /\ tgt[q].owner = "none" /\ tgt'[q].owner = k
                    /\ wk'[k].attached = IF k = "multi" THEN wk[k].attached \cup {q} ELSE {q}
                    /\ \A o \in Procs \ {q} : tgt'[o].owner = tgt[o].owner
      <4>1. k # "multi" => wk[k].attached = {}
        BY <3>4 DEF SessionInv, HandlesMatch
      <4>2. PICK q \in Procs :
                 /\ tgt[q].owner = "none" /\ tgt'[q].owner = k
                 /\ wk'[k].attached = wk[k].attached \cup {q}
                 /\ \A o \in Procs \ {q} : tgt'[o].owner = tgt[o].owner
        BY <3>4, <4>1
      <4>3. QED
        BY <1>1, <3>1, <3>2, <3>4, <4>2
    <3>5. CASE /\ wk[k].pc = "close" /\ wk'[k].pc = "finish"
               /\ wk'[k].attached = wk[k].attached
               /\ tgt'[p].owner = IF p \in wk[k].attached THEN "none" ELSE tgt[p].owner
      BY <1>1, <3>1, <3>5
    <3>6. CASE wk[k].pc \in {"finish", "exit"} /\ UNCHANGED tgt
      <4>1. wk'[k].pc \in {"finish", "exit"} \/ wk'[k].attached = {}
        BY <1>3, <1>4, <3>6 DEF Control, noWorker
      <4>2. QED
        BY <1>1, <3>1, <3>6, <4>1
    <3>7. QED
      BY <1>3, <3>3, <3>4, <3>5, <3>6 DEF Handles
  <2>2. ASSUME NEW p \in Procs, NEW o \in {"main", "mem"}
        PROVE  tgt'[p].owner = o <=> tgt[p].owner = o
    BY <1>3, <1>4 DEF Handles, SessionInv, HandlesMatch, Kinds
  <2>3. ASSUME NEW j \in Kinds,
               wk'[j].pc = "off" \/ (wk'[j].pc \in {"detach", "attach"} /\ j # "multi")
        PROVE  wk'[j].attached = {}
    BY <1>1, <1>3, <1>4, <2>3 DEF Control, Handles, SessionInv, HandlesMatch, noWorker
  <2>4. QED
    BY <1>1, <2>1, <2>2, <2>3 DEF SessionInv, HandlesMatch
<1>11. PatchReady'
  <2>1. main.pc \in StoppedPcs => UNCHANGED tgt
    <3>1. StoppedPcs \cap {"idle", "await", "join"} = {}
      BY DEF StoppedPcs
    <3>2. main.pc \in StoppedPcs => wk[k].pc \notin Live
      BY <3>1 DEF SessionInv, Activity
    <3>3. QED
      BY <1>3, <1>4, <3>2 DEF Control
  <2>2. QED
    BY <1>1, <2>1 DEF SessionInv, PatchReady
<1>12. QED
  BY <1>1, <1>2, <1>5, <1>7, <1>8, <1>9, <1>10, <1>11 DEF SessionInv

-----------------------------------------------------------------------------
(* The processes, the cheat service and the memory sessions.               *)

\* A step that leaves the workers and the main loop alone, and gives no process of theirs away.
LEMMA OutsideInv ==
    ASSUME SessionInv, WorkerTypes', MainTypes', UNCHANGED <<wk, main>>,
           \A k \in Kinds : /\ ses'[k].active = ses[k].active /\ ses'[k].stop = ses[k].stop
                            /\ ses'[k].targets = ses[k].targets,
           \A p \in Procs, o \in Kinds \cup {"main"} : tgt'[p].owner = o <=> tgt[p].owner = o,
           \A p \in Procs : tgt'[p].owner = "mem"
                              <=> p = "app" /\ mem'.pc = "open" /\ mem'.backend = "direct",
           main.pc \in StoppedPcs => tgt'["app"].stopped /\ code' = code
    PROVE  SessionInv'
<1>1. HasTarget'
  BY DEF SessionInv, HasTarget, Kinds
<1>2. Activity'
  BY DEF SessionInv, Activity
<1>3. OneSession'
  BY DEF SessionInv, OneSession
<1>4. StopIsCurrent'
  BY DEF SessionInv, StopIsCurrent
<1>5. HandlesMatch'
  BY DEF SessionInv, HandlesMatch
<1>6. PatchReady'
  BY DEF SessionInv, PatchReady, StoppedPcs
<1>7. QED
  BY <1>1, <1>2, <1>3, <1>4, <1>5, <1>6 DEF SessionInv

\* While `debug patch-code' inspects, checks and writes, the application is its own and stopped.
LEMMA PatchOwns ==
    ASSUME SessionInv, main.pc \in StoppedPcs
    PROVE  tgt["app"].owner = "main" /\ tgt["app"].stopped
  BY DEF SessionInv, PatchReady, HandlesMatch, Procs

\* A memory session with a handle of its own is open as long as it owns the application.
LEMMA MemOwns ==
    ASSUME SessionInv
    PROVE  \A p \in Procs : tgt[p].owner = "mem"
                              <=> p = "app" /\ mem.pc = "open" /\ mem.backend = "direct"
  BY DEF SessionInv, HandlesMatch

\* A breakpoint hit stops a process that a session owns.
LEMMA HitInv ==
    ASSUME SessionInv, NEW p \in Procs, Hit(p) PROVE SessionInv'
<1> DEFINE k == tgt[p].owner
<1>1. PICK n \in 1 .. 2 :
         /\ ses[k].seen + n <= MaxHits
         /\ ses' = [ses EXCEPT ![k].seen = ses[k].seen + n]
         /\ tgt' = [tgt EXCEPT ![p].stopped = TRUE,
                               ![p].queue = tgt[p].queue \o [i \in 1 .. n |-> "hit"]]
  BY DEF Hit
<1>2. k \in Kinds /\ UNCHANGED <<regs, wk, main, mem, dmntSeen, code>> /\ ~tgt[p].stopped
  BY DEF Hit
<1>3. tgt' \in Targets
  <2>1. tgt[p].queue \in Seq(Events) /\ [i \in 1 .. n |-> "hit"] \in Seq(Events)
    BY DEF SessionInv, WorkerTypes, Targets, Events
  <2>2. tgt[p].queue \o [i \in 1 .. n |-> "hit"] \in Seq(Events)
    BY <2>1
  <2>3. QED
    BY <1>1, <2>2, TargetTypes DEF SessionInv, WorkerTypes
<1>4. ses' \in CountingSessions
  <2>1. ses[k].seen + n \in 0 .. MaxHits
    BY <1>1, <1>2, KernelAssumption DEF SessionInv, WorkerTypes, CountingSessions, Session
  <2>2. QED
    BY <1>1, <1>2, <2>1, SessionUpdates DEF SessionInv, WorkerTypes
<1>5. WorkerTypes' /\ MainTypes'
  BY <1>2, <1>3, <1>4 DEF SessionInv, WorkerTypes, MainTypes
<1>6. \A j \in Kinds : /\ ses'[j].active = ses[j].active /\ ses'[j].stop = ses[j].stop
                       /\ ses'[j].targets = ses[j].targets
  BY <1>1, <1>2 DEF SessionInv, WorkerTypes, CountingSessions, Session
<1>7. \A q \in Procs : tgt'[q].owner = tgt[q].owner
  BY <1>1 DEF SessionInv, WorkerTypes, Targets
<1>8. main.pc \in StoppedPcs => tgt'["app"].stopped /\ code' = code
  BY <1>1, <1>2, PatchOwns DEF SessionInv, WorkerTypes, Targets
<1>9. \A q \in Procs : tgt'[q].owner = "mem"
                          <=> q = "app" /\ mem'.pc = "open" /\ mem'.backend = "direct"
  BY <1>2, <1>7, MemOwns
<1>10. QED
  BY <1>2, <1>5, <1>6, <1>7, <1>8, <1>9, OutsideInv

\* A finished single step stops its process.
LEMMA StepDoneInv ==
    ASSUME SessionInv, NEW p \in Procs, StepDone(p) PROVE SessionInv'
<1>1. /\ tgt' = [tgt EXCEPT ![p].step = FALSE, ![p].stopped = TRUE,
                            ![p].queue = Append(tgt[p].queue, "step")]
      /\ UNCHANGED <<regs, ses, wk, main, mem, dmntSeen, code>>
  BY SMTT(30) DEF StepDone
<1>2. tgt' \in Targets
  <2>1. tgt[p].queue \in Seq(Events) /\ "step" \in Events
    BY DEF SessionInv, WorkerTypes, Targets, Events
  <2>2. Append(tgt[p].queue, "step") \in Seq(Events) /\ TRUE \in BOOLEAN /\ FALSE \in BOOLEAN
    BY <2>1
  <2>3. QED
    BY <1>1, <2>2, TargetTypes, Zenon DEF SessionInv, WorkerTypes
<1>3. WorkerTypes' /\ MainTypes'
  BY <1>1, <1>2 DEF SessionInv, WorkerTypes, MainTypes
<1>4. \A q \in Procs : tgt'[q].owner = tgt[q].owner /\ (tgt[q].stopped => tgt'[q].stopped)
  BY <1>1 DEF SessionInv, WorkerTypes, Targets
<1>5. main.pc \in StoppedPcs => tgt'["app"].stopped /\ code' = code
  BY <1>1, <1>4, PatchOwns DEF Procs
<1>6. \A q \in Procs : tgt'[q].owner = "mem"
                          <=> q = "app" /\ mem'.pc = "open" /\ mem'.backend = "direct"
  BY <1>1, <1>4, MemOwns
<1>7. QED
  BY <1>1, <1>3, <1>4, <1>5, <1>6, OutsideInv

\* The exit of a process leaves its debugger's handle alone.
LEMMA ExitInv ==
    ASSUME SessionInv, NEW p \in Procs, Exit(p) PROVE SessionInv'
<1> DEFINE q == IF tgt[p].owner \in {"none", "dmnt"} THEN <<>> ELSE Append(tgt[p].queue, "exit")
           o == IF tgt[p].owner = "dmnt" THEN "none" ELSE tgt[p].owner
<1>1. /\ tgt' = [tgt EXCEPT ![p].alive = FALSE, ![p].step = FALSE, ![p].queue = q, ![p].owner = o]
      /\ UNCHANGED <<regs, ses, wk, main, mem, dmntSeen, code>>
  BY DEF Exit
<1>2. q \in Seq(Events) /\ o \in Owners /\ FALSE \in BOOLEAN
  <2>1. tgt[p].queue \in Seq(Events) /\ "exit" \in Events /\ tgt[p].owner \in Owners
    BY DEF SessionInv, WorkerTypes, Targets, Events, Owners
  <2>2. "none" \in Owners
    BY DEF Owners
  <2>3. QED
    BY <2>1, <2>2
<1>3. o = tgt[p].owner \/ (tgt[p].owner = "dmnt" /\ o = "none")
  BY SMTT(30)
<1> HIDE DEF q, o
<1>4. tgt' \in Targets
  BY <1>1, <1>2, TargetTypes, Zenon DEF SessionInv, WorkerTypes
<1>5. WorkerTypes' /\ MainTypes'
  BY <1>1, <1>4 DEF SessionInv, WorkerTypes, MainTypes
<1>6. \A r \in Procs : /\ \/ tgt'[r].owner = tgt[r].owner
                          \/ tgt[r].owner = "dmnt" /\ tgt'[r].owner = "none"
                       /\ tgt'[r].stopped = tgt[r].stopped
  BY <1>1, <1>3 DEF SessionInv, WorkerTypes, Targets
<1>7. main.pc \in StoppedPcs => tgt'["app"].stopped /\ code' = code
  BY <1>1, <1>6, PatchOwns DEF Procs
<1>8. \A r \in Procs : tgt'[r].owner = "mem"
                          <=> r = "app" /\ mem'.pc = "open" /\ mem'.backend = "direct"
  BY <1>1, <1>6, MemOwns, ZenonT(40)
<1>9. \A r \in Procs, x \in Kinds \cup {"main"} : tgt'[r].owner = x <=> tgt[r].owner = x
  BY <1>6 DEF Kinds
<1>10. QED
  BY <1>1, <1>5, <1>7, <1>8, <1>9, OutsideInv

\* Threads move only in a process that is not stopped.
LEMMA WanderInv ==
    ASSUME SessionInv, Wander PROVE SessionInv'
<1>1. PICK i \in {"none", "seen", "hidden"} : code' = [code EXCEPT !.inside = i]
  BY DEF Wander
<1>2. UNCHANGED <<tgt, regs, ses, wk, main, mem, dmntSeen>> /\ ~tgt["app"].stopped
  BY DEF Wander
<1>3. WorkerTypes' /\ MainTypes'
  BY <1>1, <1>2 DEF SessionInv, WorkerTypes, MainTypes, Codes
<1>4. main.pc \notin StoppedPcs
  BY <1>2, PatchOwns
<1>5. \A q \in Procs : tgt'[q].owner = "mem"
                          <=> q = "app" /\ mem'.pc = "open" /\ mem'.backend = "direct"
  BY <1>2, MemOwns
<1>6. QED
  BY <1>2, <1>3, <1>4, <1>5, OutsideInv

\* The cheat service takes or gives back the application, without a debugger in between.
LEMMA DmntInv ==
    ASSUME SessionInv, UNCHANGED <<regs, ses, wk, main, code>>, MainTypes',
           \A p \in Procs : p = "app" /\ mem'.pc = "open" /\ mem'.backend = "direct"
                              <=> p = "app" /\ mem.pc = "open" /\ mem.backend = "direct",
           \/ tgt' = tgt \/ tgt' = dmntClosed
           \/ attachable("app") /\ tgt' = [tgt EXCEPT !["app"].owner = "dmnt"]
    PROVE  SessionInv'
<1>1. tgt \in Targets /\ "app" \in Procs /\ "dmnt" \in Owners
  BY DEF SessionInv, WorkerTypes, Procs, Owners
<1>2. tgt' \in Targets
  <2>1. [tgt EXCEPT !["app"].owner = "dmnt"] \in Targets
    BY <1>1, TargetTypes, Zenon
  <2>2. QED
    BY <1>1, <2>1, DmntClosedFacts
<1>3. WorkerTypes'
  BY <1>2 DEF SessionInv, WorkerTypes
<1>4. \A p \in Procs : \/ tgt'[p].owner = tgt[p].owner
                       \/ {tgt[p].owner, tgt'[p].owner} = {"none", "dmnt"}
  BY <1>1, DmntClosedFacts, ZenonT(40) DEF attachable, Targets
<1>5. \A p \in Procs, o \in Kinds \cup {"main", "mem"} : tgt'[p].owner = o <=> tgt[p].owner = o
  BY <1>4 DEF Kinds
<1>6. \A p \in Procs : tgt[p].owner = "main" => tgt'[p] = tgt[p]
  BY <1>1, DmntClosedFacts DEF attachable, Targets
<1>7. main.pc \in StoppedPcs => tgt'["app"].stopped /\ code' = code
  BY <1>1, <1>6, PatchOwns
<1>8. \A p \in Procs : tgt'[p].owner = "mem"
                          <=> p = "app" /\ mem'.pc = "open" /\ mem'.backend = "direct"
  BY <1>5, MemOwns
<1>9. QED
  BY <1>3, <1>5, <1>7, <1>8, OutsideInv

\* The cheat service takes the application from nobody, and is made to let go of it.
LEMMA DmntAttachInv ==
    ASSUME SessionInv, DmntAttach \/ ForceClose PROVE SessionInv'
<1>1. /\ UNCHANGED <<regs, ses, wk, main, mem, dmntSeen, code>>
      /\ \/ tgt' = dmntClosed
         \/ attachable("app") /\ tgt' = [tgt EXCEPT !["app"].owner = "dmnt"]
  BY DEF DmntAttach, ForceClose, CommandFrame
<1>2. MainTypes'
  BY <1>1 DEF SessionInv, MainTypes
<1>3. QED
  BY <1>1, <1>2, DmntInv

\* What becomes of a memory session in one step of opening it.
LEMMA MemUpdates ==
    ASSUME MainTypes
    PROVE  /\ memIdle \in Memory /\ memIdle.pc = "idle"
           /\ \A policy \in Policies, pc \in {"dmnt", "direct"} :
                 /\ [mem EXCEPT !.policy = policy, !.pc = pc] \in Memory
                 /\ [mem EXCEPT !.policy = policy, !.pc = pc].pc = pc
           /\ \A pc \in {"force", "direct"} : /\ [mem EXCEPT !.pc = pc] \in Memory
                                             /\ [mem EXCEPT !.pc = pc].pc = pc
           /\ \A b \in {"dmnt", "direct"} : opened(b) \in Memory /\ opened(b).pc = "open"
                                             /\ opened(b).backend = b
           /\ \A acquired : afterDmnt(acquired) \in Memory
                             /\ afterDmnt(acquired).pc \in {"idle", "direct"}
<1>1. mem \in Memory
  BY DEF MainTypes
<1>2. memIdle \in Memory /\ memIdle.pc = "idle"
  BY DEF memIdle, Memory, MemPcs, Policies
<1>3. \A policy \in Policies, pc \in {"dmnt", "direct"} :
         /\ [mem EXCEPT !.policy = policy, !.pc = pc] \in Memory
         /\ [mem EXCEPT !.policy = policy, !.pc = pc].pc = pc
  BY <1>1 DEF Memory, MemPcs
<1>4. \A pc \in {"force", "direct"} : /\ [mem EXCEPT !.pc = pc] \in Memory
                                     /\ [mem EXCEPT !.pc = pc].pc = pc
  BY <1>1 DEF Memory, MemPcs
<1>5. \A b \in {"dmnt", "direct"} : opened(b) \in Memory /\ opened(b).pc = "open"
                                    /\ opened(b).backend = b
  BY <1>1 DEF opened, Memory, MemPcs
<1>6. \A acquired : afterDmnt(acquired) \in Memory /\ afterDmnt(acquired).pc \in {"idle", "direct"}
  BY <1>2, <1>4 DEF afterDmnt
<1>7. QED
  BY <1>2, <1>3, <1>4, <1>5, <1>6

\* Opening by way of the cheat service.
LEMMA OpenInv ==
    ASSUME SessionInv, (\E policy \in Policies : openLocked(policy)) \/ openDmnt \/ forceOpen
    PROVE  SessionInv'
<1>1. mem.pc \in {"idle", "dmnt", "force"} /\ UNCHANGED <<regs, ses, wk, main, code>>
  BY DEF openLocked, openDmnt, forceOpen, MemFrame
<1>2. \/ tgt' = tgt
      \/ attachable("app") /\ tgt' = [tgt EXCEPT !["app"].owner = "dmnt"]
  BY DEF openLocked, openDmnt, forceOpen
<1>3. dmntSeen' \in BOOLEAN
  BY DEF openLocked, openDmnt, forceOpen, SessionInv, MainTypes
<1>4. MainTypes
  BY DEF SessionInv
<1>5. mem' \in Memory /\ ~(mem'.pc = "open" /\ mem'.backend = "direct")
  <2>1. ASSUME NEW policy \in Policies, openLocked(policy)
        PROVE  mem' \in Memory /\ mem'.pc # "open"
    BY <1>4, <2>1, MemUpdates DEF openLocked
  <2>2. ASSUME openDmnt \/ forceOpen
        PROVE  mem' \in Memory /\ (mem'.pc = "open" => mem'.backend = "dmnt")
    <3>1. CASE mem' = opened("dmnt")
      BY <1>4, <3>1, MemUpdates
    <3>2. CASE mem' = [mem EXCEPT !.pc = "force"]
      BY <1>4, <3>2, MemUpdates
    <3>3. ASSUME NEW acquired, mem' = afterDmnt(acquired)
          PROVE  mem' \in Memory /\ mem'.pc # "open"
      BY <1>4, <3>3, MemUpdates
    <3>4. \/ mem' = opened("dmnt") \/ mem' = [mem EXCEPT !.pc = "force"]
          \/ mem' = afterDmnt(TRUE) \/ mem' = afterDmnt(FALSE) \/ mem' = afterDmnt(dmntSeen)
      BY <2>2 DEF openDmnt, forceOpen
    <3>5. QED
      BY <3>1, <3>2, <3>3, <3>4
  <2>3. QED
    BY <2>1, <2>2
<1>6. MainTypes'
  BY <1>1, <1>3, <1>4, <1>5 DEF MainTypes
<1>7. QED
  BY <1>1, <1>2, <1>5, <1>6, DmntInv

\* Opening with a handle of its own, and closing that again.
LEMMA OpenDirectInv ==
    ASSUME SessionInv, openDirect PROVE SessionInv'
<1>1. /\ mem.pc = "direct" /\ UNCHANGED <<regs, ses, wk, main, dmntSeen, code>>
      /\ MainTypes /\ tgt \in Targets /\ "app" \in Procs /\ "mem" \in Owners
  BY DEF openDirect, MemFrame, SessionInv, WorkerTypes, Procs, Owners
<1>2. CASE tgt' = tgt /\ mem' = memIdle
  <2>1. MainTypes' /\ mem'.pc = "idle"
    BY <1>1, <1>2, MemUpdates DEF MainTypes
  <2>2. QED
    BY <1>1, <1>2, <2>1, DmntInv
<1>3. CASE attachable("app") /\ tgt' = attachedBy(tgt, "app", "mem") /\ mem' = opened("direct")
  <2>1. MainTypes' /\ mem'.pc = "open" /\ mem'.backend = "direct"
    BY <1>1, <1>3, MemUpdates DEF MainTypes
  <2>2. tgt' \in Targets /\ tgt'["app"].owner = "mem" /\ \A q \in Procs \ {"app"} : tgt'[q] = tgt[q]
    BY <1>1, <1>3, AttachedByFacts
  <2>3. tgt["app"].owner = "none"
    BY <1>3 DEF attachable
  <2>4. WorkerTypes'
    BY <1>1, <2>2 DEF SessionInv, WorkerTypes
  <2>5. \A p \in Procs, o \in Kinds \cup {"main"} : tgt'[p].owner = o <=> tgt[p].owner = o
    BY <2>2, <2>3 DEF Kinds
  <2>6. \A p \in Procs : tgt'[p].owner = "mem"
                            <=> p = "app" /\ mem'.pc = "open" /\ mem'.backend = "direct"
    BY <1>1, <2>1, <2>2, MemOwns
  <2>7. main.pc \notin StoppedPcs
    BY <2>3, PatchOwns
  <2>8. QED
    BY <1>1, <2>1, <2>4, <2>5, <2>6, <2>7, OutsideInv
<1>4. QED
  BY <1>2, <1>3 DEF openDirect

\* processMemoryClose gives the handle back.
LEMMA MemCloseInv ==
    ASSUME SessionInv, processMemoryClose PROVE SessionInv'
<1>1. /\ mem.pc = "open" /\ UNCHANGED <<regs, ses, wk, main, dmntSeen, code>>
      /\ MainTypes /\ tgt \in Targets /\ "app" \in Procs /\ mem' = memIdle
      /\ tgt' = IF mem.backend = "direct" THEN closed({"app"}) ELSE tgt
  BY DEF processMemoryClose, MemFrame, SessionInv, WorkerTypes, Procs
<1>2. MainTypes' /\ mem'.pc = "idle"
  BY <1>1, MemUpdates DEF MainTypes
<1>3. CASE mem.backend # "direct"
  BY <1>1, <1>2, <1>3, DmntInv
<1>4. CASE mem.backend = "direct"
  <2>1. /\ tgt' \in Targets /\ tgt'["app"].owner = "none"
        /\ \A p \in Procs \ {"app"} : tgt'[p] = tgt[p]
    BY <1>1, <1>4, ClosedFacts
  <2>2. tgt["app"].owner = "mem"
    BY <1>1, <1>4, MemOwns
  <2>3. WorkerTypes'
    BY <1>1, <2>1 DEF SessionInv, WorkerTypes
  <2>4. \A p \in Procs, o \in Kinds \cup {"main"} : tgt'[p].owner = o <=> tgt[p].owner = o
    BY <2>1, <2>2 DEF Kinds
  <2>5. \A p \in Procs : tgt'[p].owner = "mem"
                            <=> p = "app" /\ mem'.pc = "open" /\ mem'.backend = "direct"
    BY <1>2, <2>1, MemOwns
  <2>6. main.pc \notin StoppedPcs
    BY <2>2, PatchOwns
  <2>7. QED
    BY <1>1, <1>2, <2>3, <2>4, <2>5, <2>6, OutsideInv
<1>5. QED
  BY <1>3, <1>4

\* A memory session whose handle is good is not in the way of a patch: the patch holds the process.
LEMMA MemWriteInv ==
    ASSUME SessionInv, processMemoryWrite PROVE SessionInv'
<1>1. /\ UNCHANGED <<tgt, regs, ses, wk, main, mem, dmntSeen>> /\ code' = [code EXCEPT !.bytes = "other"]
      /\ tgt["app"].owner \in {"dmnt", "mem"}
  BY DEF processMemoryWrite, MemFrame
<1>2. WorkerTypes' /\ MainTypes'
  BY <1>1 DEF SessionInv, WorkerTypes, MainTypes, Codes
<1>3. main.pc \notin StoppedPcs
  BY <1>1, PatchOwns
<1>4. \A q \in Procs : tgt'[q].owner = "mem"
                          <=> q = "app" /\ mem'.pc = "open" /\ mem'.backend = "direct"
  BY <1>1, MemOwns
<1>5. QED
  BY <1>1, <1>2, <1>3, <1>4, OutsideInv

-----------------------------------------------------------------------------
(* The main loop.                                                          *)

\* What the main loop knows of a command is updated field by field; every field keeps its type.
LEMMA MainUpdates ==
    ASSUME main \in Mains, NEW pc \in MainPcs
    PROVE  /\ [main EXCEPT !.pc = pc] \in Mains
           /\ [main EXCEPT !.pc = pc, !.bad = TRUE] \in Mains
           /\ \A k \in Kinds : [main EXCEPT !.job = "session", !.k = k, !.pc = pc] \in Mains
           /\ \A P \in SUBSET Procs, p \in Procs :
                 [main EXCEPT !.held = P, !.pc = pc, !.p = p] \in Mains
           /\ \A P \in SUBSET Procs : [main EXCEPT !.going = P, !.pc = pc] \in Mains
           /\ \A R \in Seq(Regs) : [main EXCEPT !.armed = R, !.pc = pc] \in Mains
           /\ \A R \in Seq(Regs) : [main EXCEPT !.armed = R] \in Mains
           /\ \A R \in Seq(Regs) : [main EXCEPT !.armed = R, !.bad = TRUE] \in Mains
<1>1. "session" \in Jobs /\ TRUE \in BOOLEAN
  BY DEF Jobs
<1>2. [main EXCEPT !.pc = pc] \in Mains
  BY <1>1 DEF Mains
<1>3. [main EXCEPT !.pc = pc, !.bad = TRUE] \in Mains
  BY <1>1 DEF Mains
<1>4. \A k \in Kinds : [main EXCEPT !.job = "session", !.k = k, !.pc = pc] \in Mains
  BY <1>1 DEF Mains
<1>5. \A P \in SUBSET Procs, p \in Procs :
         [main EXCEPT !.held = P, !.pc = pc, !.p = p] \in Mains
  BY <1>1 DEF Mains
<1>6. \A P \in SUBSET Procs : [main EXCEPT !.going = P, !.pc = pc] \in Mains
  BY <1>1 DEF Mains
<1>7. \A R \in Seq(Regs) : [main EXCEPT !.armed = R, !.pc = pc] \in Mains
  BY <1>1 DEF Mains
<1>8. \A R \in Seq(Regs) : [main EXCEPT !.armed = R] \in Mains
  BY <1>1 DEF Mains
<1>9. \A R \in Seq(Regs) : [main EXCEPT !.armed = R, !.bad = TRUE] \in Mains
  BY <1>1 DEF Mains
<1>10. QED
  BY <1>2, <1>3, <1>4, <1>5, <1>6, <1>7, <1>8, <1>9

\* The main loop between two commands, and at the start of one.
LEMMA MainIdleType ==
    /\ mainIdle \in Mains /\ mainIdle.pc = "idle" /\ mainIdle.held = {} /\ mainIdle.job = "none"
    /\ mainIdle.armed = <<>>
    /\ \A job \in Jobs, p \in Procs, check, skip \in BOOLEAN :
          [mainIdle EXCEPT !.pc = "open", !.job = job, !.p = p, !.check = check, !.skip = skip] \in Mains
<1>1. /\ "idle" \in MainPcs /\ "open" \in MainPcs /\ "none" \in Jobs /\ "watch" \in Kinds /\ "app" \in Procs
      /\ {} \in SUBSET Procs /\ <<>> \in Seq(Regs)
  BY DEF MainPcs, Jobs, Kinds, Procs
<1>2. mainIdle \in Mains
  BY <1>1 DEF mainIdle, Mains
<1>3. mainIdle.pc = "idle" /\ mainIdle.held = {} /\ mainIdle.job = "none" /\ mainIdle.armed = <<>>
  BY DEF mainIdle
<1>4. ASSUME NEW job \in Jobs, NEW p \in Procs, NEW check \in BOOLEAN, NEW skip \in BOOLEAN
      PROVE  [mainIdle EXCEPT !.pc = "open", !.job = job, !.p = p, !.check = check, !.skip = skip]
                \in Mains
  BY <1>1, <1>2 DEF Mains
<1>5. QED
  BY <1>2, <1>3, <1>4

\* How a command of the main loop takes and gives back handles.
MainHandles ==
    \/ /\ main'.held = main.held
       /\ main'.pc \notin SessionPcs
       /\ \A p \in Procs : \/ tgt'[p].owner = tgt[p].owner
                           \/ tgt[p].owner = "dmnt" /\ tgt'[p].owner = "none"
    \/ /\ main'.pc \notin SessionPcs
       /\ \E p \in Procs : /\ tgt[p].owner = "none" /\ tgt'[p].owner = "main"
                           /\ main'.held = main.held \cup {p}
                           /\ \A q \in Procs \ {p} : tgt'[q].owner = tgt[q].owner
    \/ /\ main'.held = {}
       /\ \A p \in Procs : tgt'[p].owner = IF p \in main.held THEN "none" ELSE tgt[p].owner

\* A step of a command that holds handles itself: no session is active meanwhile.
LEMMA JobInv ==
    ASSUME SessionInv, WorkerTypes', MainTypes', PatchReady', UNCHANGED <<ses, wk, mem>>,
           main.pc \notin SessionPcs, MainHandles
    PROVE  SessionInv'
<1>1. \A k \in Kinds : ~ses[k].active
  BY DEF SessionInv, Activity, SessionPcs
<1>2. HasTarget'
  BY DEF SessionInv, HasTarget
<1>3. Activity' /\ OneSession' /\ StopIsCurrent'
  BY <1>1 DEF SessionInv, Activity, OneSession, StopIsCurrent
<1>4. /\ \A p \in Procs, o \in Kinds \cup {"mem"} : tgt'[p].owner = o <=> tgt[p].owner = o
      /\ \A p \in Procs : tgt'[p].owner = "main" <=> p \in main'.held
  <2>1. \A p \in Procs : tgt[p].owner = "main" <=> p \in main.held
    BY DEF SessionInv, HandlesMatch
  <2>2. QED
    BY <2>1 DEF MainHandles, Kinds
<1>5. main'.pc \in SessionPcs => main'.held = {}
  BY DEF MainHandles
<1>6. HandlesMatch'
  BY <1>4, <1>5 DEF SessionInv, HandlesMatch
<1>7. QED
  BY <1>2, <1>3, <1>6 DEF SessionInv

\* A step of a command that starts, awaits or stops a session, without starting a thread.
LEMMA SessionStepInv ==
    ASSUME SessionInv, UNCHANGED <<regs, wk, mem, dmntSeen, code>>,
           main.pc \in SessionPcs, tgt' = tgt \/ tgt' = dmntClosed, ses' \in CountingSessions,
           main' \in Mains, main'.pc \in SessionPcs, main'.held = {}, main'.armed = <<>>,
           main' = main \/ main'.job \in {"none", "session"},
           \A k \in Kinds : ses'[k].targets = ses[k].targets,
           Activity', StopIsCurrent'
    PROVE  SessionInv'
<1>1. tgt \in Targets
  BY DEF SessionInv, WorkerTypes
<1>2. /\ tgt' \in Targets
      /\ \A p \in Procs : \/ tgt'[p].owner = tgt[p].owner
                          \/ tgt[p].owner = "dmnt" /\ tgt'[p].owner = "none"
  BY <1>1, DmntClosedFacts
<1>3. WorkerTypes' /\ MainTypes'
  BY <1>2 DEF SessionInv, WorkerTypes, MainTypes, SessionPcs
<1>4. HasTarget'
  BY DEF SessionInv, HasTarget, Kinds
<1>5. OneSession'
  BY DEF SessionInv, Activity, OneSession
<1>6. \A p \in Procs, o \in Kinds \cup {"main", "mem"} : tgt'[p].owner = o <=> tgt[p].owner = o
  BY <1>2 DEF Kinds
<1>7. HandlesMatch'
  <2>1. main.held = {}
    BY DEF SessionInv, HandlesMatch
  <2>2. \A p \in Procs : tgt'[p].owner # "main"
    <3>1. \A p \in Procs : tgt[p].owner # "main"
      BY <2>1 DEF SessionInv, HandlesMatch
    <3>2. QED
      BY <1>6, <3>1
  <2>3. \A p \in Procs, k \in Kinds :
           tgt'[p].owner = k <=> p \in wk'[k].attached /\ wk'[k].pc \notin {"finish", "exit"}
    BY <1>6 DEF SessionInv, HandlesMatch
  <2>4. \A p \in Procs : tgt'[p].owner = "mem"
                             <=> p = "app" /\ mem'.pc = "open" /\ mem'.backend = "direct"
    BY <1>6 DEF SessionInv, HandlesMatch
  <2>5. QED
    BY <2>2, <2>3, <2>4 DEF SessionInv, HandlesMatch
<1>8. PatchReady'
  BY DEF SessionInv, PatchReady, SessionPcs, StoppedPcs
<1>9. QED
  BY <1>3, <1>4, <1>5, <1>7, <1>8 DEF SessionInv

\* The start functions: a session is only begun when none is active.
LEMMA StartInv ==
    ASSUME SessionInv, NEW k \in Kinds, StartSession(k) PROVE SessionInv'
<1>1. /\ main.pc = "idle" /\ UNCHANGED <<regs, wk, mem, dmntSeen, code>>
      /\ tgt' = tgt \/ tgt' = dmntClosed
      /\ main \in Mains /\ ses \in CountingSessions /\ main.held = {} /\ main.armed = <<>>
  BY DEF StartSession, MainAt, CommandFrame, closesDmnt, SessionInv, MainTypes, WorkerTypes,
         HandlesMatch, SessionPcs
<1>2. "idle" \in SessionPcs /\ {"reap", "create"} \subseteq SessionPcs /\ {"reap", "create"} \subseteq MainPcs
  BY DEF SessionPcs, MainPcs
<1>3. CASE ses' = [ses EXCEPT ![k].err = TRUE] /\ main' = main
  <2>1. ses' \in CountingSessions
    BY <1>1, <1>3, SessionUpdates
  <2>2. \A j \in Kinds : /\ ses'[j].active = ses[j].active /\ ses'[j].stop = ses[j].stop
                         /\ ses'[j].targets = ses[j].targets
    BY <1>1, <1>3 DEF CountingSessions, Session
  <2>3. Activity' /\ StopIsCurrent'
    BY <1>1, <1>3, <2>2 DEF SessionInv, Activity, StopIsCurrent
  <2>4. QED
    BY <1>1, <1>2, <1>3, <2>1, <2>2, <2>3, SessionStepInv
<1>4. CASE UNCHANGED <<ses, main>>
  <2>1. Activity' /\ StopIsCurrent'
    BY <1>1, <1>4 DEF SessionInv, Activity, StopIsCurrent
  <2>2. QED
    BY <1>1, <1>2, <1>4, <2>1, SessionStepInv
<1>5. ASSUME NEW pc \in {"reap", "create"}, ses' = ses, \A other \in Kinds : ~ses[other].active,
             main' = [main EXCEPT !.job = "session", !.k = k, !.pc = pc]
      PROVE  SessionInv'
  <2>1. main' \in Mains
    BY <1>1, <1>2, <1>5, MainUpdates
  <2>2. main'.pc = pc /\ main'.held = {} /\ main'.armed = <<>> /\ main'.job = "session"
    BY <1>1, <1>5 DEF Mains
  <2>3. Activity' /\ StopIsCurrent'
    BY <1>1, <1>5 DEF SessionInv, Activity, StopIsCurrent
  <2>4. QED
    BY <1>1, <1>2, <1>5, <2>1, <2>2, <2>3, SessionStepInv, SMTT(30)
<1>6. QED
  BY <1>3, <1>4, <1>5 DEF StartSession

\* The thread before is waited for.
LEMMA ReapInv ==
    ASSUME SessionInv, ReapThread PROVE SessionInv'
<1>1. /\ main.pc = "reap" /\ UNCHANGED <<tgt, regs, wk, mem, dmntSeen, code>>
      /\ main' = [main EXCEPT !.pc = "create"]
      /\ ses' = [ses EXCEPT ![main.k].threadStarted = FALSE]
      /\ main \in Mains /\ ses \in CountingSessions /\ main.held = {} /\ main.armed = <<>>
      /\ main.k \in Kinds
  BY DEF ReapThread, MainAt, MainGoto, CommandFrame, kernelVars, SessionInv, MainTypes, WorkerTypes,
         HandlesMatch, SessionPcs, Mains
<1>2. "reap" \in SessionPcs /\ "create" \in SessionPcs /\ "create" \in MainPcs
  BY DEF SessionPcs, MainPcs
<1>3. ses' \in CountingSessions
  BY <1>1, SessionUpdates
<1>4. \A j \in Kinds : /\ ses'[j].active = ses[j].active /\ ses'[j].stop = ses[j].stop
                       /\ ses'[j].targets = ses[j].targets
  BY <1>1, SMTT(30) DEF CountingSessions, Session
<1>5. main' \in Mains
  BY <1>1, <1>2, MainUpdates
<1>6. main'.pc = "create" /\ main'.held = {} /\ main'.armed = <<>> /\ main'.job = main.job /\ main'.p = main.p
  BY <1>1 DEF Mains
<1>7. \A j \in Kinds : ~ses[j].active
  BY <1>1 DEF SessionInv, Activity
<1>8. Activity' /\ StopIsCurrent'
  BY <1>1, <1>4, <1>7 DEF SessionInv, Activity, StopIsCurrent
<1>9. WorkerTypes' /\ MainTypes'
  BY <1>1, <1>3, <1>5, <1>6 DEF SessionInv, WorkerTypes, MainTypes
<1>10. HasTarget' /\ OneSession'
  BY <1>1, <1>4, <1>7 DEF SessionInv, HasTarget, OneSession, Kinds
<1>11. HandlesMatch'
  BY <1>1, <1>6 DEF SessionInv, HandlesMatch
<1>12. PatchReady'
  BY <1>1, <1>6 DEF SessionInv, PatchReady, StoppedPcs
<1>13. QED
  BY <1>8, <1>9, <1>10, <1>11, <1>12 DEF SessionInv

\* A command waits for its session to be armed, and stops it otherwise.
LEMMA AwaitInv ==
    ASSUME SessionInv, AwaitArmed PROVE SessionInv'
<1>1. /\ main.pc = "await" /\ UNCHANGED <<tgt, regs, wk, mem, dmntSeen, code>>
      /\ main \in Mains /\ ses \in CountingSessions /\ main.held = {} /\ main.armed = <<>>
      /\ main.k \in Kinds
  BY DEF AwaitArmed, MainAt, CommandFrame, kernelVars, SessionInv, MainTypes, WorkerTypes,
         HandlesMatch, SessionPcs, Mains
<1>2. {"idle", "await", "join"} \subseteq SessionPcs /\ {"idle", "join"} \subseteq MainPcs
  BY DEF SessionPcs, MainPcs
<1>3. \A j \in Kinds : ~(ses[j].active /\ ses[j].stop)
  BY <1>1 DEF SessionInv, StopIsCurrent
<1>4. CASE ses' = ses /\ main' = mainIdle
  <2>1. Activity' /\ StopIsCurrent'
    BY <1>1, <1>3, <1>4, MainIdleType DEF SessionInv, Activity, StopIsCurrent
  <2>2. QED
    BY <1>1, <1>2, <1>4, <2>1, MainIdleType, SessionStepInv
<1>5. CASE /\ ses' = [ses EXCEPT ![main.k].stop = TRUE]
           /\ main' = [main EXCEPT !.pc = "join"]
  <2>1. ses' \in CountingSessions
    BY <1>1, <1>5, SessionUpdates
  <2>2. /\ \A j \in Kinds : ses'[j].active = ses[j].active /\ ses'[j].targets = ses[j].targets
        /\ \A j \in Kinds \ {main.k} : ses'[j].stop = ses[j].stop
    BY <1>1, <1>5, Zenon DEF CountingSessions, Session
  <2>3. main' \in Mains
    BY <1>1, <1>2, <1>5, MainUpdates
  <2>4. /\ main'.pc = "join" /\ main'.held = {} /\ main'.armed = <<>> /\ main'.k = main.k
        /\ main'.job = main.job
        /\ main'.p = main.p
    BY <1>1, <1>5 DEF Mains
  <2>5. Activity' /\ StopIsCurrent'
    BY <1>1, <1>3, <2>2, <2>4 DEF SessionInv, Activity, StopIsCurrent
  <2>6. WorkerTypes' /\ MainTypes'
    BY <1>1, <2>1, <2>3, <2>4 DEF SessionInv, WorkerTypes, MainTypes
  <2>7. HasTarget' /\ OneSession'
    BY <1>1, <2>2 DEF SessionInv, HasTarget, OneSession, Kinds
  <2>8. HandlesMatch'
    BY <1>1, <2>4 DEF SessionInv, HandlesMatch
  <2>9. PatchReady'
    BY <1>1, <2>4 DEF SessionInv, PatchReady, StoppedPcs
  <2>10. QED
    BY <2>5, <2>6, <2>7, <2>8, <2>9 DEF SessionInv
<1>6. QED
  BY <1>4, <1>5 DEF AwaitArmed, MainGoto

\* The stop functions: whoever is told to stop is waited for, if there is anybody.
LEMMA StopInv ==
    ASSUME SessionInv, NEW k \in Kinds, StopSession(k) PROVE SessionInv'
<1>1. /\ main.pc = "idle" /\ UNCHANGED <<tgt, regs, wk, mem, dmntSeen, code>>
      /\ ses' = [ses EXCEPT ![k].stop = TRUE]
      /\ main \in Mains /\ ses \in CountingSessions /\ main.held = {} /\ main.armed = <<>>
  BY DEF StopSession, MainAt, CommandFrame, kernelVars, SessionInv, MainTypes, WorkerTypes,
         HandlesMatch, SessionPcs
<1>2. {"idle", "join"} \subseteq SessionPcs /\ "join" \in MainPcs
  BY DEF SessionPcs, MainPcs
<1>3. \A j \in Kinds : ~(ses[j].active /\ ses[j].stop)
  BY <1>1 DEF SessionInv, StopIsCurrent
<1>4. ses' \in CountingSessions
  BY <1>1, SessionUpdates
<1>5. /\ \A j \in Kinds : ses'[j].active = ses[j].active /\ ses'[j].targets = ses[j].targets
      /\ \A j \in Kinds \ {k} : ses'[j].stop = ses[j].stop
  BY <1>1 DEF CountingSessions, Session
<1>6. CASE ~ses[k].active /\ main' = main
  <2>1. Activity' /\ StopIsCurrent'
    BY <1>1, <1>3, <1>5, <1>6 DEF SessionInv, Activity, StopIsCurrent
  <2>2. QED
    BY <1>1, <1>2, <1>4, <1>5, <1>6, <2>1, SessionStepInv
<1>7. CASE main' = [main EXCEPT !.job = "session", !.k = k, !.pc = "join"]
  <2>1. main' \in Mains
    BY <1>1, <1>2, <1>7, MainUpdates
  <2>2. main'.pc = "join" /\ main'.held = {} /\ main'.armed = <<>> /\ main'.k = k /\ main'.job = "session"
    BY <1>1, <1>7 DEF Mains
  <2>3. Activity' /\ StopIsCurrent'
    BY <1>1, <1>3, <1>5, <2>2 DEF SessionInv, Activity, StopIsCurrent
  <2>4. QED
    BY <1>1, <1>2, <1>4, <1>5, <2>1, <2>2, <2>3, SessionStepInv, SMTT(30)
<1>8. QED
  BY <1>6, <1>7 DEF StopSession

\* The thread that was stopped is gone, and with it the wish.
LEMMA JoinInv ==
    ASSUME SessionInv, JoinThread PROVE SessionInv'
<1>1. /\ main.pc = "join" /\ UNCHANGED <<tgt, regs, wk, mem, dmntSeen, code>>
      /\ wk[main.k].pc = "off" /\ main' = mainIdle
      /\ ses' = [ses EXCEPT ![main.k].threadStarted = FALSE, ![main.k].active = FALSE,
                            ![main.k].stop = FALSE]
      /\ main \in Mains /\ ses \in CountingSessions /\ main.k \in Kinds
  BY DEF JoinThread, MainAt, At, CommandFrame, kernelVars, SessionInv, MainTypes, WorkerTypes, Mains
<1>2. {"idle", "join"} \subseteq SessionPcs
  BY DEF SessionPcs
<1>3. FALSE \in BOOLEAN
  OBVIOUS
<1>4. ses' \in CountingSessions
  BY <1>1, <1>3, SessionUpdates
<1>5. /\ ~ses[main.k].active
      /\ \A j \in Kinds : ses[j].active /\ ses[j].stop => j = main.k
  BY <1>1 DEF SessionInv, Activity, StopIsCurrent, Live
<1>6. /\ \A j \in Kinds \ {main.k} : ses'[j] = ses[j]
      /\ ~ses'[main.k].active /\ ses'[main.k].targets = ses[main.k].targets
  BY <1>1 DEF CountingSessions, Session
<1>7. \A j \in Kinds : (ses'[j].active <=> ses[j].active) /\ ses'[j].targets = ses[j].targets
  BY <1>5, <1>6
<1>8. Activity' /\ StopIsCurrent'
  BY <1>1, <1>5, <1>6, <1>7, MainIdleType DEF SessionInv, Activity, StopIsCurrent
<1>9. QED
  BY <1>1, <1>2, <1>4, <1>7, <1>8, MainIdleType, SessionStepInv

\* What a command's arguments come to: a limit of one hit unless they ask for a ring, and at least
\* one process.
LEMMA ArgumentFacts ==
    ASSUME NEW k \in Kinds, NEW a \in Arguments(k)
    PROVE  /\ a.max \in {0, 1} /\ a.ring \in BOOLEAN /\ a.targets \in SUBSET Procs
           /\ \E p \in Procs : p \in a.targets
           /\ ~a.ring => a.max = 1
<1>1. "app" \in Procs
  BY DEF Procs
<1>2. CASE a \in watchArguments
  <2>1. PICK ring \in BOOLEAN : a = request(1, ring, {"app"})
    BY <1>2 DEF watchArguments
  <2>2. QED
    BY <1>1, <2>1 DEF request
<1>3. CASE a \in traceArguments
  <2>1. PICK p \in Procs : a \in { request(IF ring THEN 0 ELSE 1, ring, {p}) : ring \in BOOLEAN }
    BY <1>3 DEF traceArguments
  <2>2. PICK ring \in BOOLEAN : a = request(IF ring THEN 0 ELSE 1, ring, {p})
    BY <2>1
  <2>3. QED
    BY <2>2 DEF request
<1>4. CASE a \in multiArguments
  <2>1. PICK ring \in BOOLEAN : a = request(IF ring THEN 0 ELSE 1, ring, Procs)
    BY <1>4 DEF multiArguments
  <2>2. QED
    BY <1>1, <2>1 DEF request
<1>5. QED
  BY <1>2, <1>3, <1>4 DEF Arguments, Kinds

\* The state a session begins with.
begun(a) == [noSession EXCEPT !.threadStarted = TRUE, !.active = TRUE, !.max = a.max,
                              !.ring = a.ring, !.targets = a.targets]

\* Such a state has its type, and nothing of the session before is left in it.
LEMMA BegunFacts ==
    ASSUME NEW k \in Kinds, NEW a \in Arguments(k)
    PROVE  /\ begun(a) \in Session
           /\ begun(a).active /\ ~begun(a).stop /\ ~begun(a).everArmed
           /\ begun(a).hits = 0 /\ begun(a).seen = 0
           /\ begun(a).max = a.max /\ begun(a).ring = a.ring /\ begun(a).targets = a.targets
<1>1. /\ 0 \in 0 .. MaxHits /\ 1 \in 0 .. MaxHits /\ {} \in SUBSET Procs
  BY KernelAssumption
<1>2. noSession \in Session
  BY <1>1 DEF noSession, Session
<1>3. a.max \in 0 .. MaxHits /\ a.ring \in BOOLEAN /\ a.targets \in SUBSET Procs
  BY <1>1, ArgumentFacts
<1>4. begun(a) \in Session
  BY <1>2, <1>3 DEF begun, Session
<1>5. QED
  BY <1>3, <1>4 DEF begun, noSession

\* The locals a worker begins with.
started(k) == [noWorker EXCEPT !.pc = IF k = "watch" THEN "attach" ELSE "detach"]

\* A worker begins before its first attach, with no handle and no register.
LEMMA StartedFacts ==
    ASSUME NEW k \in Kinds
    PROVE  /\ started(k) \in Worker /\ started(k).pc \in {"attach", "detach"}
           /\ started(k).pc \in Live
           /\ started(k).attached = {} /\ started(k).armed = <<>> /\ ~started(k).bad
<1>1. {"attach", "detach"} \subseteq WorkerPcs /\ {"attach", "detach"} \subseteq Live
  BY DEF WorkerPcs, Live
<1>2. started(k) \in Worker
  BY <1>1, NoWorkerType DEF started, Worker
<1>3. started(k).pc = IF k = "watch" THEN "attach" ELSE "detach"
  BY NoWorkerType DEF started, Worker
<1>4. started(k).attached = {} /\ started(k).armed = <<>> /\ ~started(k).bad
  BY DEF started, noWorker
<1>5. QED
  BY <1>1, <1>2, <1>3, <1>4

\* The one place where a session becomes active.
LEMMA CreateInv ==
    ASSUME SessionInv, CreateThread PROVE SessionInv'
<1> DEFINE k == main.k
<1>1. /\ main.pc = "create" /\ UNCHANGED <<tgt, regs, mem, dmntSeen, code>>
      /\ main \in Mains /\ ses \in CountingSessions /\ wk \in Workers /\ main.held = {}
      /\ main.armed = <<>> /\ k \in Kinds
  BY DEF CreateThread, MainAt, CommandFrame, SessionInv, MainTypes, WorkerTypes, HandlesMatch,
         SessionPcs, Mains
<1>2. {"idle", "create", "await"} \subseteq SessionPcs /\ "await" \in MainPcs
  BY DEF SessionPcs, MainPcs
<1>3. \A j \in Kinds : ~ses[j].active /\ wk[j].pc \notin Live
  BY <1>1 DEF SessionInv, Activity
<1>4. CASE ses' = [ses EXCEPT ![k].err = TRUE] /\ main' = mainIdle /\ wk' = wk
  <2>1. ses' \in CountingSessions
    BY <1>1, <1>4, SessionUpdates
  <2>2. \A j \in Kinds : /\ ses'[j].active = ses[j].active /\ ses'[j].stop = ses[j].stop
                         /\ ses'[j].targets = ses[j].targets
    BY <1>1, <1>4 DEF CountingSessions, Session
  <2>3. Activity' /\ StopIsCurrent'
    BY <1>3, <1>4, <2>2 DEF SessionInv, Activity, StopIsCurrent
  <2>4. QED
    BY <1>1, <1>2, <1>4, <2>1, <2>2, <2>3, MainIdleType, SessionStepInv
<1>5. ASSUME NEW a \in Arguments(k),
             ses' = [ses EXCEPT ![k] = begun(a)], wk' = [wk EXCEPT ![k] = started(k)],
             main' = [main EXCEPT !.pc = "await"]
      PROVE  SessionInv'
  <2>1. ses' \in CountingSessions
    BY <1>1, <1>5, BegunFacts DEF CountingSessions
  <2>2. wk' \in Workers
    <3>1. Workers = [Kinds -> Worker]
      BY SMTT(30) DEF Workers, Worker
    <3>2. QED
      BY <1>1, <1>5, <3>1, StartedFacts
  <2>3. main' \in Mains
    BY <1>1, <1>2, <1>5, MainUpdates
  <2>4. /\ main'.pc = "await" /\ main'.held = {} /\ main'.armed = <<>> /\ main'.k = k /\ main'.job = main.job
        /\ main'.p = main.p
    BY <1>1, <1>5 DEF Mains
  <2>5. /\ ses'[k] = begun(a) /\ wk'[k] = started(k)
        /\ \A j \in Kinds \ {k} : ses'[j] = ses[j] /\ wk'[j] = wk[j]
    BY <1>1, <1>5 DEF CountingSessions, Workers
  <2>6. WorkerTypes' /\ MainTypes'
    BY <1>1, <2>1, <2>2, <2>3, <2>4 DEF SessionInv, WorkerTypes, MainTypes
  <2>7. HasTarget'
    BY <1>1, <1>5, <2>5, BegunFacts, ArgumentFacts DEF SessionInv, HasTarget, Kinds
  <2>8. Activity'
    BY <1>1, <1>3, <1>5, <2>4, <2>5, BegunFacts, StartedFacts DEF Activity
  <2>9. OneSession' /\ StopIsCurrent'
    BY <1>1, <1>3, <1>5, <2>5, BegunFacts DEF OneSession, StopIsCurrent
  <2>10. HandlesMatch'
    <3>1. \A p \in Procs : tgt[p].owner # k
      <4>1. wk[k].pc \in {"off", "exit"}
        BY <1>1, <1>3 DEF Live, Workers
      <4>2. wk[k].pc = "off" => wk[k].attached = {}
        BY <1>1 DEF SessionInv, HandlesMatch
      <4>3. \A p \in Procs : tgt[p].owner = k
                 <=> p \in wk[k].attached /\ wk[k].pc \notin {"finish", "exit"}
        BY <1>1 DEF SessionInv, HandlesMatch
      <4>4. QED
        BY <4>1, <4>2, <4>3
    <3>2. \A p \in Procs, j \in Kinds :
             tgt'[p].owner = j <=> p \in wk'[j].attached /\ wk'[j].pc \notin {"finish", "exit"}
      BY <1>1, <2>5, <3>1, StartedFacts DEF SessionInv, HandlesMatch
    <3>3. \A j \in Kinds : \/ wk'[j].pc = "off"
                           \/ wk'[j].pc \in {"detach", "attach"} /\ j # "multi"
                           => wk'[j].attached = {}
      BY <1>1, <2>5, StartedFacts DEF SessionInv, HandlesMatch
    <3>4. QED
      BY <1>1, <2>4, <3>2, <3>3 DEF SessionInv, HandlesMatch
  <2>11. PatchReady'
    BY <1>1, <2>4 DEF SessionInv, PatchReady, StoppedPcs
  <2>12. QED
    BY <2>6, <2>7, <2>8, <2>9, <2>10, <2>11 DEF SessionInv
<1>6. QED
  BY <1>4, <1>5 DEF CreateThread, MainGoto, begun, started

-----------------------------------------------------------------------------
(* The commands that hold handles themselves.                              *)

JobPcs == MainPcs \ SessionPcs

\* `debug patch-code' and the inspections begin when no session is active, and hold nothing yet.
LEMMA BeginInv ==
    ASSUME SessionInv, NEW job \in Jobs, NEW p \in Procs, NEW check \in BOOLEAN, NEW skip \in BOOLEAN,
           job = "patch" => p = "app", BeginJob(job, p, check, skip)
    PROVE  SessionInv'
<1>1. /\ main.pc = "idle" /\ UNCHANGED <<tgt, regs, ses, wk, mem, dmntSeen>>
      /\ \A k \in Kinds : ~ses[k].active
      /\ main' = [mainIdle EXCEPT !.pc = "open", !.job = job, !.p = p, !.check = check, !.skip = skip]
  BY DEF BeginJob, MainAt, nobodyDebugs, MainFrame, kernelVars
<1>2. main' \in Mains
  BY <1>1, MainIdleType
<1>3. /\ main'.pc = "open" /\ main'.held = {} /\ main'.job = job /\ main'.p = p
      /\ main'.armed = <<>>
  BY <1>1, MainIdleType DEF Mains
<1>4. code' \in Codes
  <2>1. code \in Codes
    BY DEF SessionInv, MainTypes
  <2>2. QED
    BY <2>1 DEF BeginJob, Codes
<1>5. WorkerTypes' /\ MainTypes'
  BY <1>1, <1>2, <1>3, <1>4 DEF SessionInv, WorkerTypes, MainTypes
<1>6. HasTarget' /\ Activity' /\ OneSession' /\ StopIsCurrent'
  BY <1>1 DEF SessionInv, HasTarget, Activity, OneSession, StopIsCurrent
<1>7. HandlesMatch'
  BY <1>1, <1>3 DEF SessionInv, HandlesMatch, SessionPcs
<1>8. PatchReady'
  BY <1>3 DEF PatchReady, StoppedPcs
<1>9. QED
  BY <1>5, <1>6, <1>7, <1>8 DEF SessionInv

\* A command goes on to the point pc; what it was asked and what it holds stay.
KeepsCommand(pc) ==
    /\ main' \in Mains /\ main'.pc = pc
    /\ main'.held = main.held /\ main'.job = main.job /\ main'.p = main.p
    /\ main'.check = main.check /\ main'.skip = main.skip

\* Whether it goes there with an error or not.
LEMMA KeepsCommandStep ==
    ASSUME main \in Mains, NEW pc \in MainPcs, MainGoto(pc) \/ MainFail(pc)
    PROVE  KeepsCommand(pc) /\ main'.armed = main.armed
<1>1. [main EXCEPT !.pc = pc] \in Mains /\ [main EXCEPT !.pc = pc, !.bad = TRUE] \in Mains
  BY MainUpdates
<1>2. QED
  BY <1>1 DEF MainGoto, MainFail, KeepsCommand, Mains

\* A command goes on to the point pc, with what the write needs if it is on the way there.
GoesOn(pc) ==
    /\ main.pc \in JobPcs
    /\ KeepsCommand(pc)
    /\ pc \notin {"setContext", "clearContext"} => main'.armed = <<>>
    /\ pc = "setContext" => Len(main'.armed) <= 1
    /\ UNCHANGED <<ses, wk, mem, dmntSeen>>
    /\ tgt' \in Targets /\ regs' \in RegisterFiles /\ code' \in Codes
    /\ \A p \in Procs : \/ tgt'[p].owner = tgt[p].owner
                        \/ tgt[p].owner = "dmnt" /\ tgt'[p].owner = "none"
    /\ pc \in StoppedPcs \cup {"readback"} => main.job = "patch"
    /\ main.job = "patch" /\ pc \in StoppedPcs \cup {"drain", "pause"} => "app" \in main.held
    /\ pc \in StoppedPcs => tgt'["app"].stopped
    /\ pc \in {"verify", "write"} /\ main.check => code'.inside # "seen"
    /\ pc = "write" => main.skip \/ code'.bytes = "orig"

\* Such a step keeps what the sessions rely on.
LEMMA GoesOnInv ==
    ASSUME SessionInv, NEW pc \in JobPcs, GoesOn(pc) PROVE SessionInv'
<1>1. main \in Mains /\ main.pc \notin SessionPcs /\ pc \notin SessionPcs /\ pc \in MainPcs
  BY DEF SessionInv, MainTypes, JobPcs, GoesOn
<1>2. main' \in Mains
  BY DEF GoesOn, KeepsCommand
<1>3. /\ main'.pc = pc /\ main'.held = main.held /\ main'.job = main.job /\ main'.p = main.p
      /\ main'.check = main.check /\ main'.skip = main.skip
  BY DEF GoesOn, KeepsCommand
<1>4. WorkerTypes' /\ MainTypes'
  BY <1>2, <1>3 DEF SessionInv, WorkerTypes, MainTypes, GoesOn
<1>5. PatchReady'
  BY <1>3 DEF SessionInv, PatchReady, GoesOn
<1>6. MainHandles
  BY <1>1, <1>3 DEF MainHandles, GoesOn
<1>7. QED
  BY <1>1, <1>4, <1>5, <1>6, JobInv DEF GoesOn

\* The points a command goes on to.
LEMMA JobPoints ==
    /\ {"open", "attach", "drain", "pause", "inspect", "verify", "write", "readback", "resume",
        "setContext", "clearContext", "close"} = JobPcs
    /\ {"open", "attach", "resume", "setContext", "clearContext", "close"}
          \cap (StoppedPcs \cup {"readback", "drain", "pause"}) = {}
  BY DEF JobPcs, MainPcs, SessionPcs, StoppedPcs

\* What the commands find: the state is what it was, in type.
LEMMA JobTypes ==
    ASSUME SessionInv
    PROVE  /\ tgt \in Targets /\ regs \in RegisterFiles /\ code \in Codes /\ main \in Mains
           /\ main.p \in Procs /\ main.held \in SUBSET Procs /\ main.armed \in Seq(Regs)
           /\ main.going \in SUBSET Procs /\ main.job \in Jobs
           /\ main.pc \notin {"setContext", "clearContext"} => main.armed = <<>>
           /\ main.pc = "setContext" => Len(main.armed) <= 1
  BY DEF SessionInv, WorkerTypes, MainTypes, Mains

\* debugProcessOpen: the cheat service lets go, if it holds the application.
LEMMA ProcessOpenInv ==
    ASSUME SessionInv, debugProcessOpen PROVE SessionInv'
<1>1. /\ main.pc = "open" /\ MainGoto("attach")
      /\ UNCHANGED <<ses, wk, mem, dmntSeen, regs, code>>
      /\ tgt' = tgt \/ tgt' = dmntClosed
  BY DEF debugProcessOpen, MainAt, MainFrame
<1>2. /\ tgt' \in Targets
      /\ \A p \in Procs : \/ tgt'[p].owner = tgt[p].owner
                          \/ tgt[p].owner = "dmnt" /\ tgt'[p].owner = "none"
  BY <1>1, JobTypes, DmntClosedFacts
<1>3. "attach" \in JobPcs /\ "attach" \in MainPcs /\ "attach" \notin StoppedPcs \cup {"readback", "drain", "pause", "verify", "write"}
  BY DEF JobPcs, MainPcs, SessionPcs, StoppedPcs
<1>4. GoesOn("attach")
  BY <1>1, <1>2, <1>3, JobTypes, JobPoints, KeepsCommandStep DEF GoesOn
<1>5. QED
  BY <1>3, <1>4, GoesOnInv
\* What the points between the open and the write ask for.
LEMMA Elsewhere ==
    \A pc \in {"open", "attach", "resume", "setContext", "clearContext", "close"} :
        pc \in JobPcs /\ pc \notin StoppedPcs \cup {"readback", "drain", "pause", "verify", "write"}
  BY DEF JobPcs, MainPcs, SessionPcs, StoppedPcs

\* A command that fails or ends goes to its clean-up, with the owners as they were.
LEMMA LeavesInv ==
    ASSUME SessionInv, main.pc \in JobPcs \ {"setContext", "clearContext"},
           UNCHANGED <<ses, wk, mem, dmntSeen>>,
           tgt' \in Targets, regs' \in RegisterFiles, code' \in Codes,
           \A p \in Procs : tgt'[p].owner = tgt[p].owner,
           NEW pc \in {"resume", "clearContext", "setContext", "close"},
           MainGoto(pc) \/ MainFail(pc)
    PROVE  SessionInv'
<1>1. KeepsCommand(pc) /\ main'.armed = <<>>
  BY JobTypes, Elsewhere, KeepsCommandStep DEF JobPcs
<1>2. Len(<<>>) <= 1
  OBVIOUS
<1>3. GoesOn(pc)
  BY <1>1, <1>2, Elsewhere DEF GoesOn
<1>4. QED
  BY <1>3, Elsewhere, GoesOnInv

\* debugProcessAttach: the handle is taken from nobody.
LEMMA ProcessAttachInv ==
    ASSUME SessionInv, debugProcessAttach PROVE SessionInv'
<1>1. /\ main.pc = "attach" /\ main.pc \in JobPcs /\ main.pc \notin SessionPcs
      /\ UNCHANGED <<ses, wk, mem, dmntSeen, regs, code>>
      /\ tgt \in Targets /\ main \in Mains /\ main.p \in Procs /\ main.held \in SUBSET Procs
  BY JobTypes, Elsewhere DEF debugProcessAttach, MainAt, MainFrame, SessionPcs
<1>2. CASE MainFail("close") /\ tgt' = tgt
  BY <1>1, <1>2, JobTypes, LeavesInv
<1> DEFINE p == main.p
           q == IF main.job = "layout" THEN "sys" ELSE main.p
<1>3. CASE /\ attachable(p) /\ tgt' = attachedBy(tgt, p, "main")
           /\ main' = [main EXCEPT !.held = @ \cup {p}, !.pc = afterAttach, !.p = q]
  <2>1. afterAttach \in {"close", "open", "drain"}
    BY DEF afterAttach
  <2>2. afterAttach \in MainPcs /\ afterAttach \notin SessionPcs /\ q \in Procs /\ "main" \in Owners
    BY <1>1, <2>1 DEF MainPcs, SessionPcs, Procs, Owners
  <2>3. main.held \cup {p} \in SUBSET Procs
    BY <1>1, SMTT(30)
  <2>4. main' \in Mains
    BY <1>1, <1>3, <2>2, <2>3, MainUpdates
  <2>5. /\ main'.pc = afterAttach /\ main'.held = main.held \cup {p} /\ main'.p = q
        /\ main'.job = main.job /\ main'.armed = <<>>
    BY <1>1, <1>3, JobTypes DEF Mains
  <2>6. /\ tgt' \in Targets /\ tgt'[p].owner = "main"
        /\ \A r \in Procs \ {p} : tgt'[r] = tgt[r]
    BY <1>1, <1>3, <2>2, AttachedByFacts
  <2>7. tgt[p].owner = "none"
    BY <1>3 DEF attachable
  <2>8. MainHandles
    BY <1>1, <2>2, <2>5, <2>6, <2>7 DEF MainHandles
  <2>9. PatchReady'
    <3>1. main.job = "patch" => p = "app"
      BY DEF SessionInv, PatchReady
    <3>2. QED
      BY <2>1, <2>5, <3>1 DEF PatchReady, StoppedPcs
  <2>10. WorkerTypes' /\ MainTypes'
    BY <1>1, <2>1, <2>4, <2>5, <2>6 DEF SessionInv, WorkerTypes, MainTypes
  <2>11. QED
    BY <1>1, <2>8, <2>9, <2>10, JobInv
<1>4. QED
  BY <1>2, <1>3 DEF debugProcessAttach

\* debugProcessDrain reads the events of what is held.
LEMMA ProcessDrainInv ==
    ASSUME SessionInv, debugProcessDrain PROVE SessionInv'
<1>1. /\ main.pc = "drain" /\ UNCHANGED <<ses, wk, mem, dmntSeen, regs, code>>
      /\ tgt \in Targets
      /\ tgt' = [p \in Procs |-> IF p \in main.held THEN [tgt[p] EXCEPT !.queue = <<>>] ELSE tgt[p]]
  BY JobTypes DEF debugProcessDrain, MainAt, MainFrame
<1>2. tgt' \in Targets /\ \A p \in Procs : tgt'[p].owner = tgt[p].owner
  <2>1. <<>> \in Seq({"attach", "hit", "step", "exit"})
    OBVIOUS
  <2>2. QED
    BY <1>1, <2>1 DEF Targets
<1>3. main.pc \in JobPcs
  BY <1>1, JobPoints
<1>4. CASE \E pc \in {"close", "resume"} : MainGoto(pc) \/ MainFail(pc)
  BY <1>1, <1>2, <1>3, <1>4, JobTypes, LeavesInv
<1>5. CASE MainGoto("pause")
  <2>1. main.job = "patch" => "app" \in main.held
    BY <1>1 DEF SessionInv, PatchReady
  <2>2. "pause" \in JobPcs /\ "pause" \notin StoppedPcs \cup {"readback", "verify", "write"}
    BY JobPoints DEF StoppedPcs
  <2>3. GoesOn("pause")
    BY <1>1, <1>2, <1>3, <1>5, <2>1, <2>2, JobTypes, KeepsCommandStep DEF GoesOn, JobPcs
  <2>4. QED
    BY <2>2, <2>3, GoesOnInv
<1>6. QED
  BY <1>4, <1>5 DEF debugProcessDrain
\* The break of debugProcessPause and pauseProcess stops the process, and keeps the owners.
LEMMA BrokenInto ==
    ASSUME SessionInv, NEW p \in Procs, tgt' = quiesced({p}, {}, {})
    PROVE  /\ tgt' \in Targets /\ tgt'[p].stopped
           /\ \A q \in Procs : tgt'[q].owner = tgt[q].owner
<1>1. tgt \in Targets
  BY JobTypes
<1>2. tgt' \in Targets /\ \A q \in Procs : tgt'[q].owner = tgt[q].owner
  BY <1>1, QuiescedFacts
<1>3. tgt'[p] = [tgt[p] EXCEPT !.queue = <<>>, !.step = FALSE, !.stopped = TRUE]
  BY DEF quiesced
<1>4. tgt'[p].stopped
  BY <1>1, <1>3 DEF Targets
<1>5. QED
  BY <1>2, <1>4

\* debugProcessPause, for `debug threads'.
LEMMA ProcessPauseInv ==
    ASSUME SessionInv, debugProcessPause PROVE SessionInv'
<1>1. /\ main.pc = "pause" /\ UNCHANGED <<ses, wk, mem, dmntSeen, regs, code>>
      /\ main.pc \in JobPcs
  BY JobPoints DEF debugProcessPause, MainAt, MainFrame
<1>2. CASE tgt' = quiesced({main.p}, {}, {}) /\ MainGoto("resume")
  BY <1>1, <1>2, JobTypes, BrokenInto, LeavesInv
<1>3. CASE MainFail("close") /\ tgt' = tgt
  BY <1>1, <1>3, JobTypes, LeavesInv
<1>4. QED
  BY <1>2, <1>3 DEF debugProcessPause

\* debugProcessResume: the process goes on, and stays held.
LEMMA ProcessResumeInv ==
    ASSUME SessionInv, debugProcessResume PROVE SessionInv'
<1> DEFINE p == IF main.job = "layout" /\ "app" \notin main.going THEN "app" ELSE main.p
           pc == CASE main.job # "layout" -> "close"
                   [] p = "app"           -> "resume"
                   [] OTHER               -> "setContext"
<1>1. /\ main.pc = "resume" /\ UNCHANGED <<ses, wk, mem, dmntSeen, regs, code>>
      /\ main.pc \in JobPcs /\ main \in Mains /\ p \in Procs /\ main.going \in SUBSET Procs
  BY JobPoints, JobTypes DEF debugProcessResume, MainAt, MainFrame, Procs
<1>2. CASE MainFail("close") /\ tgt' = tgt
  BY <1>1, <1>2, JobTypes, LeavesInv
<1>3. CASE /\ tgt' = running(tgt, p)
           /\ main' = [main EXCEPT !.going = @ \cup {p}, !.pc = pc]
  <2>1. pc \in {"close", "resume", "setContext"}
    OBVIOUS
  <2> HIDE DEF p, pc
  <2>2. pc \in JobPcs /\ pc \in MainPcs
    BY <2>1, Elsewhere DEF JobPcs
  <2>3. main.going \cup {p} \in SUBSET Procs
    BY <1>1, SMTT(30)
  <2>4. [main EXCEPT !.going = main.going \cup {p}, !.pc = pc] \in Mains
    BY <1>1, <2>2, <2>3, MainUpdates
  <2>5. KeepsCommand(pc) /\ main'.armed = <<>> /\ Len(<<>>) <= 1
    BY <1>1, <1>3, <2>4, JobTypes DEF KeepsCommand, Mains
  <2>6. tgt' \in Targets /\ \A q \in Procs : tgt'[q].owner = tgt[q].owner
    BY <1>1, <1>3, JobTypes, KeepsOwner
  <2>7. GoesOn(pc)
    BY <1>1, <2>1, <2>5, <2>6, JobTypes, Elsewhere DEF GoesOn
  <2>8. QED
    BY <2>2, <2>7, GoesOnInv
<1>4. QED
  BY <1>2, <1>3 DEF debugProcessResume

\* debugProcessClose gives back everything there is.
LEMMA ProcessCloseInv ==
    ASSUME SessionInv, debugProcessClose PROVE SessionInv'
<1>1. /\ main.pc = "close" /\ UNCHANGED <<ses, wk, mem, dmntSeen, regs>>
      /\ tgt' = closed(main.held) /\ main' = mainIdle /\ code' = noPatch
      /\ main.pc \in JobPcs
  BY JobPoints DEF debugProcessClose, MainAt, MainFrame
<1>2. tgt' \in Targets /\ \A p \in Procs : tgt'[p].owner = IF p \in main.held THEN "none" ELSE tgt[p].owner
  BY <1>1, JobTypes, ClosedFacts
<1>3. code' \in Codes
  BY <1>1 DEF noPatch, Codes
<1>4. WorkerTypes' /\ MainTypes'
  BY <1>1, <1>2, <1>3, MainIdleType DEF SessionInv, WorkerTypes, MainTypes
<1>5. MainHandles
  BY <1>1, <1>2, MainIdleType DEF MainHandles
<1>6. PatchReady'
  BY <1>1, MainIdleType DEF PatchReady, StoppedPcs
<1>7. QED
  BY <1>1, <1>4, <1>5, <1>6, JobInv DEF JobPcs

\* A batch of one register, and a batch with one register more.
LEMMA SingleRegister ==
    ASSUME NEW r \in Regs PROVE <<r>> \in Seq(Regs) /\ Len(<<r>>) = 1
  OBVIOUS

\* Setting one register more lengthens what is armed by one.
LEMMA OneMore ==
    ASSUME NEW A \in Seq(Regs), NEW B \in Seq(Regs), Len(B) = 1
    PROVE  A \o B \in Seq(Regs) /\ Len(A \o B) = Len(A) + 1
<1>1. A \o B \in Seq(Regs) /\ Len(A \o B) = Len(A) + Len(B)
  BY ConcatProperties, Zenon
<1>2. QED
  BY <1>1, Zenon

\* debugHwBpProbeLayout, the arming: there is a slot left to set.
LEMMA SetContextsInv ==
    ASSUME SessionInv, setContexts PROVE SessionInv'
<1> DEFINE done == Len(main.armed)
           R    == <<contextSlots[done + 1]>>
           next == IF done = 0 THEN "setContext" ELSE "clearContext"
           G    == IF done = 0 THEN probed ELSE {regs}
<1>1. /\ main.pc = "setContext" /\ UNCHANGED <<ses, wk, mem, dmntSeen, tgt, code>>
      /\ main.pc \in JobPcs /\ main \in Mains /\ main.armed \in Seq(Regs)
      /\ regs \in RegisterFiles /\ done \in {0, 1}
  BY JobPoints, JobTypes DEF setContexts, MainAt, MainFrame
<1>2. R \in Seq(Regs) /\ Len(R) = 1
  <2>1. contextSlots[1] \in Regs /\ contextSlots[2] \in Regs
    BY DEF contextSlots, Regs
  <2> HIDE DEF done
  <2>2. done + 1 \in {1, 2}
    BY <1>1
  <2>3. contextSlots[done + 1] \in Regs
    BY <2>1, <2>2
  <2>4. QED
    BY <2>3, SingleRegister
<1>3. G \in SUBSET RegisterFiles
  BY <1>1, ProbedType
<1> HIDE DEF R, G
<1>4. PICK g \in G :
         \/ /\ regs' = writtenAll(g, R, TRUE)
            /\ main' = [main EXCEPT !.armed = @ \o R, !.pc = next]
         \/ regs' \in failedSets({g}, R, TRUE) /\ MainFail("clearContext")
  BY DEF setContexts, R, G
<1>5. g \in RegisterFiles /\ TRUE \in BOOLEAN
  BY <1>3
<1>6. {g} \in SUBSET RegisterFiles
  BY <1>5
<1>7. regs' \in RegisterFiles
  BY <1>2, <1>4, <1>5, <1>6, WrittenAllType, FailedSetsType
<1>8. next \in JobPcs /\ "clearContext" \in JobPcs /\ next \in MainPcs /\ "clearContext" \in MainPcs
  BY Elsewhere DEF JobPcs
<1>9. CASE main' = [main EXCEPT !.armed = @ \o R, !.pc = next]
  <2>1. main.armed \o R \in Seq(Regs) /\ Len(main.armed \o R) = Len(main.armed) + 1
    BY <1>1, <1>2, OneMore, SMTT(30)
  <2>2. [main EXCEPT !.armed = main.armed \o R, !.pc = next] \in Mains
    BY <1>1, <1>8, <2>1, MainUpdates
  <2>3. KeepsCommand(next) /\ main'.armed = main.armed \o R
    BY <1>1, <1>9, <2>2 DEF KeepsCommand, Mains
  <2>4. next = "setContext" => Len(main'.armed) <= 1
    BY <1>1, <2>1, <2>3
  <2>5. GoesOn(next)
    BY <1>1, <1>7, <2>3, <2>4, JobTypes, Elsewhere DEF GoesOn
  <2>6. QED
    BY <1>8, <2>5, GoesOnInv
<1>10. CASE MainFail("clearContext")
  <2>1. GoesOn("clearContext")
    BY <1>1, <1>7, <1>8, <1>10, JobTypes, Elsewhere, KeepsCommandStep DEF GoesOn
  <2>2. QED
    BY <1>8, <2>1, GoesOnInv
<1>11. QED
  BY <1>4, <1>9, <1>10

\* Its clean-up.
LEMMA ClearContextsInv ==
    ASSUME SessionInv, clearContexts PROVE SessionInv'
<1>1. /\ main.pc = "clearContext" /\ UNCHANGED <<ses, wk, mem, dmntSeen, tgt, code>>
      /\ main.pc \in JobPcs /\ main \in Mains /\ main.armed \in Seq(Regs)
      /\ regs \in RegisterFiles
  BY JobPoints, JobTypes DEF clearContexts, MainAt, MainFrame
<1>2. /\ "clearContext" \in JobPcs /\ "clearContext" \in MainPcs
      /\ "close" \in JobPcs /\ "close" \in MainPcs
  BY Elsewhere DEF JobPcs
<1>3. CASE main.armed = <<>> /\ MainGoto("close") /\ regs' = regs
  <2>1. GoesOn("close")
    BY <1>1, <1>2, <1>3, JobTypes, Elsewhere, KeepsCommandStep DEF GoesOn
  <2>2. QED
    BY <1>2, <2>1, GoesOnInv
<1> DEFINE R    == <<main.armed[Len(main.armed)]>>
           rest == SubSeq(main.armed, 1, Len(main.armed) - 1)
<1>4. CASE /\ main.armed # <<>>
           /\ \/ regs' = writtenAll(regs, R, FALSE) /\ main' = [main EXCEPT !.armed = rest]
              \/ regs' \in failedClears(R) /\ main' = [main EXCEPT !.armed = rest, !.bad = TRUE]
  <2>1. R \in Seq(Regs) /\ rest \in Seq(Regs)
    BY <1>1, <1>4
  <2> HIDE DEF R, rest
  <2>2. regs' \in RegisterFiles
    BY <1>1, <1>4, <2>1, WrittenAllType, FailedClearsType
  <2>3. [main EXCEPT !.armed = rest] \in Mains /\ [main EXCEPT !.armed = rest, !.bad = TRUE] \in Mains
    BY <1>1, <1>2, <2>1, MainUpdates
  <2>4. KeepsCommand("clearContext")
    BY <1>1, <1>4, <2>3 DEF KeepsCommand, Mains
  <2>5. GoesOn("clearContext")
    BY <1>1, <2>2, <2>4, JobTypes, Elsewhere DEF GoesOn
  <2>6. QED
    BY <1>2, <2>5, GoesOnInv
<1>5. QED
  BY <1>3, <1>4 DEF clearContexts
\* pauseProcess stops the application that is held.
LEMMA PauseProcessInv ==
    ASSUME SessionInv, pauseProcess PROVE SessionInv'
<1>1. /\ main.pc = "pause" /\ main.job = "patch" /\ UNCHANGED <<ses, wk, mem, dmntSeen, regs, code>>
      /\ main.pc \in JobPcs
  BY JobPoints DEF pauseProcess, MainAt, MainFrame
<1>2. CASE tgt' = quiesced({main.p}, {}, {}) /\ MainGoto("inspect")
  <2>1. main.p = "app" /\ "app" \in Procs /\ "app" \in main.held
    BY <1>1 DEF SessionInv, PatchReady, Procs
  <2>2. tgt' \in Targets /\ tgt'["app"].stopped /\ \A q \in Procs : tgt'[q].owner = tgt[q].owner
    BY <1>2, <2>1, BrokenInto
  <2>3. "inspect" \in JobPcs /\ "inspect" \in MainPcs
    BY JobPoints DEF JobPcs
  <2>4. KeepsCommand("inspect") /\ main'.armed = <<>>
    BY <1>1, <1>2, <2>3, JobTypes, KeepsCommandStep
  <2>5. GoesOn("inspect")
    BY <1>1, <2>1, <2>2, <2>4, JobTypes DEF GoesOn
  <2>6. QED
    BY <2>3, <2>5, GoesOnInv
<1>3. CASE MainFail("close") /\ tgt' = tgt
  BY <1>1, <1>3, JobTypes, LeavesInv
<1>4. QED
  BY <1>2, <1>3 DEF pauseProcess

\* inspectThreads looks whether a thread is inside.
LEMMA InspectInv ==
    ASSUME SessionInv, inspectThreads PROVE SessionInv'
<1>1. /\ main.pc = "inspect" /\ UNCHANGED <<ses, wk, mem, dmntSeen, tgt, regs, code>>
      /\ main.pc \in JobPcs
  BY JobPoints DEF inspectThreads, MainAt, MainFrame
<1>2. CASE MainFail("resume")
  BY <1>1, <1>2, JobTypes, LeavesInv
<1>3. CASE ~(main.check /\ code.inside = "seen") /\ MainGoto("verify")
  <2>1. main.job = "patch" /\ "app" \in main.held /\ tgt["app"].stopped
    BY <1>1 DEF SessionInv, PatchReady, StoppedPcs
  <2>2. "verify" \in JobPcs /\ "verify" \in MainPcs
    BY JobPoints DEF JobPcs
  <2>3. KeepsCommand("verify") /\ main'.armed = <<>>
    BY <1>1, <1>3, <2>2, JobTypes, KeepsCommandStep
  <2>4. GoesOn("verify")
    BY <1>1, <1>3, <2>1, <2>3, JobTypes DEF GoesOn
  <2>5. QED
    BY <2>2, <2>4, GoesOnInv
<1>4. QED
  BY <1>2, <1>3 DEF inspectThreads

\* The bytes are compared, unless the command said not to.
LEMMA VerifyInv ==
    ASSUME SessionInv, verifyBytes PROVE SessionInv'
<1>1. /\ main.pc = "verify" /\ UNCHANGED <<ses, wk, mem, dmntSeen, tgt, regs, code>>
      /\ main.pc \in JobPcs
  BY JobPoints DEF verifyBytes, MainAt, MainFrame
<1>2. CASE MainFail("resume")
  BY <1>1, <1>2, JobTypes, LeavesInv
<1>3. CASE (main.skip \/ code.bytes = "orig") /\ MainGoto("write")
  <2>1. /\ main.job = "patch" /\ "app" \in main.held /\ tgt["app"].stopped
        /\ main.check => code.inside # "seen"
    BY <1>1 DEF SessionInv, PatchReady, StoppedPcs
  <2>2. "write" \in JobPcs /\ "write" \in MainPcs
    BY JobPoints DEF JobPcs
  <2>3. KeepsCommand("write") /\ main'.armed = <<>>
    BY <1>1, <1>3, <2>2, JobTypes, KeepsCommandStep
  <2>4. GoesOn("write")
    BY <1>1, <1>3, <2>1, <2>3, JobTypes DEF GoesOn
  <2>5. QED
    BY <2>2, <2>4, GoesOnInv
<1>4. QED
  BY <1>2, <1>3 DEF verifyBytes

\* The write.
LEMMA WriteInv ==
    ASSUME SessionInv, writePatch PROVE SessionInv'
<1>1. /\ main.pc = "write" /\ UNCHANGED <<ses, wk, mem, dmntSeen, tgt, regs>>
      /\ main.pc \in JobPcs
  BY JobPoints DEF writePatch, MainAt, MainFrame
<1>2. CASE MainFail("resume") /\ code' = code
  BY <1>1, <1>2, JobTypes, LeavesInv
<1>3. CASE code' = [code EXCEPT !.bytes = "patched"] /\ MainGoto("readback")
  <2>1. main.job = "patch" /\ code' \in Codes
    BY <1>1, <1>3, JobTypes DEF SessionInv, PatchReady, StoppedPcs, Codes
  <2>2. "readback" \in JobPcs /\ "readback" \in MainPcs /\ "readback" \notin StoppedPcs
    BY JobPoints DEF JobPcs, StoppedPcs
  <2>3. KeepsCommand("readback") /\ main'.armed = <<>>
    BY <1>1, <1>3, <2>2, JobTypes, KeepsCommandStep
  <2>4. GoesOn("readback")
    BY <1>1, <2>1, <2>2, <2>3, JobTypes DEF GoesOn
  <2>5. QED
    BY <2>2, <2>4, GoesOnInv
<1>4. QED
  BY <1>2, <1>3 DEF writePatch

\* The patch is read back, and the application goes on.
LEMMA PatchEndInv ==
    ASSUME SessionInv, readBack \/ patchResume PROVE SessionInv'
<1>1. CASE readBack
  <2>1. /\ main.pc = "readback" /\ UNCHANGED <<ses, wk, mem, dmntSeen, tgt, regs, code>>
        /\ (MainGoto("resume") \/ MainFail("resume")) /\ main.pc \in JobPcs
    BY <1>1, JobPoints DEF readBack, MainAt, MainFrame
  <2>2. main.pc \in JobPcs \ {"setContext", "clearContext"}
    BY <2>1, JobPoints
  <2>3. QED
    BY <2>1, <2>2, JobTypes, LeavesInv
<1>2. CASE patchResume
  <2>1. /\ main.pc = "resume" /\ UNCHANGED <<ses, wk, mem, dmntSeen, regs, code>>
        /\ MainGoto("close") /\ main.pc \in JobPcs
        /\ tgt' = running(drained(tgt, main.p), main.p) \/ tgt' = drained(tgt, main.p)
    BY <1>2, JobPoints DEF patchResume, MainAt, MainFrame
  <2>2. /\ drained(tgt, main.p) \in Targets
        /\ \A p \in Procs : drained(tgt, main.p)[p].owner = tgt[p].owner
    BY JobTypes, KeepsOwner
  <2>3. /\ running(drained(tgt, main.p), main.p) \in Targets
        /\ \A p \in Procs : running(drained(tgt, main.p), main.p)[p].owner = tgt[p].owner
    BY <2>2, JobTypes, KeepsOwner
  <2>4. tgt' \in Targets /\ \A p \in Procs : tgt'[p].owner = tgt[p].owner
    BY <2>1, <2>2, <2>3
  <2>5. QED
    BY <2>1, <2>4, JobTypes, LeavesInv
<1>3. QED
  BY <1>1, <1>2
-----------------------------------------------------------------------------
(* The specification.                                                      *)

\* Nothing runs and nothing is held at the start.
LEMMA InitInv == Init => SessionInv
<1> SUFFICES ASSUME Init PROVE SessionInv
  OBVIOUS
<1>1. /\ main = mainIdle /\ mem = memIdle /\ dmntSeen = FALSE /\ code = noPatch
      /\ tgt = [p \in Procs |-> [alive |-> TRUE, owner |-> "none", stopped |-> FALSE,
                                 step |-> FALSE, queue |-> <<>>]]
      /\ regs = [c \in Cores |-> {}]
      /\ ses = [k \in Kinds |-> noSession] /\ wk = [k \in Kinds |-> noWorker]
  BY DEF Init, KernelInit
<1>2. noSession \in Session
  <2>1. 0 \in 0 .. MaxHits /\ 1 \in 0 .. MaxHits /\ {} \in SUBSET Procs
    BY KernelAssumption
  <2>2. QED
    BY <2>1 DEF noSession, Session
<1>3. WorkerTypes
  <2>1. <<>> \in Seq({"attach", "hit", "step", "exit"})
    OBVIOUS
  <2>2. tgt \in Targets
    BY <1>1, <2>1 DEF Targets
  <2>3. regs \in RegisterFiles
    BY <1>1 DEF RegisterFiles
  <2>4. ses \in CountingSessions
    BY <1>1, <1>2 DEF CountingSessions
  <2>5. Workers = [Kinds -> Worker]
    BY DEF Workers, Worker
  <2>6. wk \in Workers
    BY <1>1, <2>5, NoWorkerType
  <2>7. QED
    BY <2>2, <2>3, <2>4, <2>6 DEF WorkerTypes
<1>4. memIdle \in Memory /\ memIdle.pc = "idle"
  BY DEF memIdle, Memory, MemPcs, Policies
<1>5. MainTypes
  <2>1. noPatch \in Codes
    BY DEF noPatch, Codes
  <2>2. FALSE \in BOOLEAN
    OBVIOUS
  <2>3. QED
    BY <1>1, <1>4, <2>1, <2>2, MainIdleType DEF MainTypes
<1>6. \A k \in Kinds : /\ ~ses[k].active /\ wk[k].pc = "off" /\ wk[k].attached = {}
  BY <1>1 DEF noSession, noWorker
<1>7. HasTarget /\ Activity /\ OneSession /\ StopIsCurrent
  BY <1>1, <1>6, MainIdleType DEF HasTarget, Activity, OneSession, StopIsCurrent, Live, Kinds
<1>8. HandlesMatch
  <2>1. \A p \in Procs : tgt[p].owner = "none"
    BY <1>1
  <2>2. QED
    BY <1>1, <1>4, <1>6, <2>1, MainIdleType DEF HandlesMatch, Kinds
<1>9. PatchReady
  BY <1>1, MainIdleType DEF PatchReady, StoppedPcs
<1>10. QED
  BY <1>3, <1>5, <1>7, <1>8, <1>9 DEF SessionInv

\* What the main loop does on its own.
LEMMA MainStepInv ==
    ASSUME SessionInv, mainSteps PROVE SessionInv'
<1>1. CASE ReapThread \/ JoinThread
  BY <1>1, ReapInv, JoinInv
<1>2. CASE CreateThread
  BY <1>2, CreateInv
<1>3. CASE AwaitArmed
  BY <1>3, AwaitInv
<1>4. CASE jobSteps
  BY <1>4, ProcessOpenInv, ProcessAttachInv, ProcessDrainInv, ProcessPauseInv, ProcessResumeInv,
     ProcessCloseInv, SetContextsInv, ClearContextsInv, PauseProcessInv, InspectInv, VerifyInv,
     WriteInv, PatchEndInv
     DEF jobSteps
<1>5. QED
  BY <1>1, <1>2, <1>3, <1>4 DEF mainSteps, watchThreadStart, traceThreadStart, multiThreadStart,
     watchAwait, traceAwait, multiAwait

\* What the main loop is asked to do.
LEMMA CommandInv ==
    ASSUME SessionInv, Commands PROVE SessionInv'
<1>1. "watch" \in Kinds /\ "trace" \in Kinds /\ "multi" \in Kinds
  BY DEF Kinds
<1>2. CASE debugWatchStart \/ debugTraceStart \/ debugMultiTraceStart
  BY <1>1, <1>2, StartInv DEF debugWatchStart, debugTraceStart, debugMultiTraceStart
<1>3. CASE debugWatchStop \/ debugTraceStop \/ debugMultiTraceStop
  BY <1>1, <1>3, StopInv DEF debugWatchStop, debugTraceStop, debugMultiTraceStop
<1>4. CASE ForceClose
  BY <1>4, DmntAttachInv
<1>5. /\ {"patch", "threads", "maps", "read", "layout"} \subseteq Jobs /\ "app" \in Procs
      /\ FALSE \in BOOLEAN
  BY DEF Jobs, Procs
<1>6. CASE \E check, skip \in BOOLEAN : BeginJob("patch", "app", check, skip)
  BY <1>5, <1>6, BeginInv
<1>7. CASE \E p \in Procs : BeginJob("threads", p, FALSE, FALSE)
  <2>1. PICK p \in Procs : BeginJob("threads", p, FALSE, FALSE)
    BY <1>7
  <2>2. "threads" # "patch"
    OBVIOUS
  <2>3. QED
    BY <1>5, <2>1, <2>2, BeginInv
<1>8. CASE \/ \E job \in {"maps", "read"} : BeginJob(job, "app", FALSE, FALSE)
           \/ BeginJob("layout", "app", FALSE, FALSE)
  BY <1>5, <1>8, BeginInv
<1>9. QED
  BY <1>2, <1>3, <1>4, <1>6, <1>7, <1>8 DEF Commands

\* Every step keeps what the sessions rely on.
LEMMA NextInv ==
    ASSUME SessionInv, [Next]_vars PROVE SessionInv'
<1>1. CASE UNCHANGED vars
  BY <1>1 DEF vars, SessionInv, WorkerTypes, MainTypes, HasTarget, Activity, OneSession,
     StopIsCurrent, HandlesMatch, PatchReady
<1>2. CASE Commands \/ DmntAttach \/ \E policy \in Policies : openLocked(policy)
  BY <1>2, CommandInv, DmntAttachInv, OpenInv
<1>3. CASE Environment
  BY <1>3, HitInv, StepDoneInv, ExitInv, WanderInv DEF Environment
<1>4. CASE mainSteps
  BY <1>4, MainStepInv
<1>5. CASE watchNext \/ traceNext \/ multiNext \/ \E k \in Kinds : Expire(k)
  <2>1. WorkerTypes /\ Traced
    BY TargetExists DEF SessionInv
  <2>2. \E k \in Kinds : Footprint(k)
    BY <1>5, <2>1, WorkerStep
  <2>3. QED
    BY <2>2, WorkerInv
<1>6. CASE processMemoryWrite \/ memSteps
  BY <1>6, MemWriteInv, OpenInv, OpenDirectInv, MemCloseInv DEF memSteps
<1>7. QED
  BY <1>1, <1>2, <1>3, <1>4, <1>5, <1>6 DEF Next

\* The inductive invariant of the debug sessions.
THEOREM SessionInvHolds == SafeSpec => []SessionInv
<1>1. Init => SessionInv
  BY InitInv
<1>2. SessionInv /\ [Next]_vars => SessionInv'
  BY NextInv
<1>3. QED
  BY <1>1, <1>2, PTL DEF SafeSpec

(* Whatever is requested, fails and exits: at most one of watch, trace and multitrace is active,   *)
(* although debugWatchStart, debugTraceStart and debugMultiTraceStart only ask the others.         *)
THEOREM OneSessionHolds == SafeSpec => []OneSession
<1>1. SessionInv => OneSession
  BY DEF SessionInv
<1>2. QED
  BY <1>1, SessionInvHolds, PTL

(* A stop request that an active session sees is the one the main loop is waiting on: the flag a   *)
(* stop of nothing leaves behind is reset before the next session can see it.                      *)
THEOREM StopIsCurrentHolds == SafeSpec => []StopIsCurrent
<1>1. SessionInv => StopIsCurrent
  BY DEF SessionInv
<1>2. QED
  BY <1>1, SessionInvHolds, PTL

(* Every debug handle belongs to an active session, to the command in progress or to an open       *)
(* direct memory session, on every error path and after every exit.                                *)
THEOREM HandleIsOwnedHolds == SafeSpec => []HandleIsOwned
<1>1. SessionInv => HandleIsOwned
  <2> SUFFICES ASSUME SessionInv, NEW p \in Procs
               PROVE  /\ tgt[p].owner \in Kinds => ses[tgt[p].owner].active
                      /\ tgt[p].owner = "main"  => p \in main.held
                      /\ tgt[p].owner = "mem"   => mem.pc = "open" /\ mem.backend = "direct"
    BY DEF HandleIsOwned
  <2>1. ASSUME tgt[p].owner \in Kinds PROVE ses[tgt[p].owner].active
    <3> DEFINE k == tgt[p].owner
    <3>1. k \in Kinds /\ p \in wk[k].attached /\ wk[k].pc \notin {"finish", "exit"}
      BY <2>1 DEF SessionInv, HandlesMatch
    <3>2. wk[k].pc # "off"
      BY <3>1 DEF SessionInv, HandlesMatch
    <3>3. wk[k].pc \in WorkerPcs
      BY <3>1 DEF SessionInv, WorkerTypes, Workers
    <3>4. QED
      BY <3>1, <3>2, <3>3 DEF SessionInv, Activity, Live
  <2>2. QED
    BY <2>1 DEF SessionInv, HandlesMatch
<1>2. QED
  BY <1>1, SessionInvHolds, PTL

\* Nobody but the write of `debug patch-code' puts the patch there.
LEMMA OnlyThePatch ==
    ASSUME SessionInv, [Next]_vars, code.bytes # "patched", code'.bytes = "patched"
    PROVE  writePatch
<1>0. code \in Codes
  BY JobTypes
<1>1. CASE UNCHANGED code
  BY <1>1
<1>2. CASE Commands
  <2>1. CASE UNCHANGED code
    BY <2>1
  <2>2. CASE \E job \in Jobs, p \in Procs, check, skip \in BOOLEAN : BeginJob(job, p, check, skip)
    BY <1>0, <2>2 DEF BeginJob, Codes
  <2>3. /\ {"patch", "threads", "maps", "read", "layout"} \subseteq Jobs /\ "app" \in Procs
        /\ FALSE \in BOOLEAN
    BY DEF Jobs, Procs
  <2>4. QED
    BY <1>2, <2>1, <2>2, <2>3, Zenon DEF Commands, debugWatchStart, debugTraceStart, debugMultiTraceStart,
       debugWatchStop, debugTraceStop, debugMultiTraceStop, StartSession, StopSession, ForceClose,
       CommandFrame
<1>3. CASE Environment
  BY <1>0, <1>3, Zenon DEF Environment, Hit, StepDone, Exit, Wander, Codes
<1>4. CASE DmntAttach \/ (\E policy \in Policies : openLocked(policy)) \/ memSteps
  BY <1>4 DEF DmntAttach, openLocked, memSteps, openDmnt, forceOpen, openDirect, processMemoryClose,
     MemFrame
<1>5. CASE watchNext \/ traceNext \/ multiNext \/ \E k \in Kinds : Expire(k)
  <2>1. WorkerTypes /\ Traced
    BY TargetExists DEF SessionInv
  <2>2. \E k \in Kinds : Footprint(k)
    BY <1>5, <2>1, WorkerStep
  <2>3. QED
    BY <2>2 DEF Footprint, Alone
<1>6. CASE processMemoryWrite
  BY <1>0, <1>6 DEF processMemoryWrite, Codes
<1>7. CASE mainSteps
  <2>1. CASE jobSteps
    <3>1. CASE debugProcessClose
      BY <3>1 DEF debugProcessClose, noPatch
    <3>2. CASE \/ debugProcessOpen \/ debugProcessAttach \/ debugProcessDrain
               \/ debugProcessPause \/ debugProcessResume
      BY <3>2 DEF debugProcessOpen, debugProcessAttach, debugProcessDrain, debugProcessPause,
         debugProcessResume
    <3>3. CASE setContexts \/ clearContexts
      BY <3>3 DEF setContexts, clearContexts
    <3>4. CASE pauseProcess \/ inspectThreads \/ verifyBytes \/ readBack \/ patchResume
      BY <3>4 DEF pauseProcess, inspectThreads, verifyBytes, readBack, patchResume
    <3>5. QED
      BY <2>1, <3>1, <3>2, <3>3, <3>4 DEF jobSteps
  <2>2. QED
    BY <1>7, <2>1 DEF mainSteps, ReapThread, JoinThread, watchThreadStart, traceThreadStart,
       multiThreadStart, watchAwait, traceAwait, multiAwait, CreateThread, AwaitArmed, CommandFrame
<1>8. QED
  BY <1>1, <1>2, <1>3, <1>4, <1>5, <1>6, <1>7 DEF Next, vars

(* patch-code writes only while it holds the stopped application, over the bytes it expects, and   *)
(* not under a thread it could see, whatever other sessions, the cheat service and the application *)
(* do between its checks and its write.                                                            *)
THEOREM PatchIsGuardedHolds == SafeSpec => PatchIsGuarded
<1> DEFINE guarded == (code.bytes # "patched" /\ code'.bytes = "patched")
                      => /\ tgt["app"].owner = "main" /\ tgt["app"].stopped
                         /\ main.skip \/ code.bytes = "orig"
                         /\ main.check => code.inside # "seen"
<1>1. ASSUME SessionInv, [Next]_vars PROVE [guarded]_vars
  <2> SUFFICES ASSUME code.bytes # "patched", code'.bytes = "patched"
               PROVE  /\ tgt["app"].owner = "main" /\ tgt["app"].stopped
                      /\ main.skip \/ code.bytes = "orig"
                      /\ main.check => code.inside # "seen"
    OBVIOUS
  <2>1. writePatch
    BY <1>1, OnlyThePatch
  <2>2. main.pc = "write" /\ main.pc \in StoppedPcs
    BY <2>1 DEF writePatch, MainAt, StoppedPcs
  <2>3. tgt["app"].owner = "main" /\ tgt["app"].stopped
    BY <1>1, <2>2, PatchOwns
  <2>4. QED
    BY <1>1, <2>2, <2>3 DEF SessionInv, PatchReady
<1>2. QED
  BY <1>1, SessionInvHolds, PTL DEF SafeSpec, PatchIsGuarded

-----------------------------------------------------------------------------
\* The points of a worker before its session is armed.
Setup == {"detach", "attach", "drain", "arm", "armData", "resume"}

\* What one call of the clean-up clears.
ClearedBy(k) ==
    IF k # "watch" THEN wk[k].armed
    ELSE IF wk[k].pc = "clear" THEN watchArmed("ctx2") ELSE watchArmed("d1")

Remembers(k) == ses'[k].everArmed = ses[k].everArmed /\ wk'[k].armed = wk[k].armed

\* How a step of worker k deals with its registers: it sets them up, is armed, goes on, clears
\* them, or is done.
SetsUp(k) ==
    /\ wk[k].pc \in Setup /\ wk'[k].pc \in Setup \cup {"rollback", "quiesce"}
    /\ ses'[k].everArmed = ses[k].everArmed
    /\ wk'[k].pc = "resume" /\ k # "multi" => wk'[k].armed = registersOf[k]
Arms(k) ==
    /\ wk[k].pc \in Setup /\ wk'[k].pc = "loop"
    /\ \/ wk'[k].armed = registersOf[k]
       \/ k # "multi" /\ wk[k].pc = "resume" /\ wk'[k].armed = wk[k].armed
GoesRound(k) ==
    /\ wk[k].pc \in Live \ Setup /\ wk'[k].pc \in Live \ (Setup \cup {"clearData", "close", "finish"})
    /\ Remembers(k)
Clears(k) ==
    /\ \/ k = "watch" /\ wk[k].pc = "clear" /\ wk'[k].pc = "clearData"
       \/ k = "watch" /\ wk[k].pc = "clearData" /\ wk'[k].pc = "close"
       \/ k # "watch" /\ wk[k].pc = "clear" /\ wk'[k].pc = "close"
    /\ Remembers(k)
    /\ \/ wk'[k].bad
       \/ wk'[k].bad = wk[k].bad /\ \A c \in Cores : regs'[c] = regs[c] \ Range(ClearedBy(k))
LetsGo(k) ==
    /\ regs' = regs
    /\ \/ /\ wk[k].pc = "close" /\ wk'[k].pc = "finish"
          /\ Remembers(k) /\ wk'[k].bad = wk[k].bad
       \/ /\ wk[k].pc \in {"finish", "exit"} /\ wk'[k].pc \in {"exit", "off"}
          /\ wk[k].pc = "finish" /\ wk[k].bad => ses'[k].err
Registers(k) == SetsUp(k) \/ Arms(k) \/ GoesRound(k) \/ Clears(k) \/ LetsGo(k)

-----------------------------------------------------------------------------
(* The steps the workers have in common.                                   *)

\* The kinds of points.
LEMMA Points ==
    /\ Live \ (Setup \cup {"clearData", "close", "finish"})
          = {"rollback", "loop", "events", "continue", "step", "stepWait", "rearm", "quiesce", "clear"}
    /\ Live \ Setup = {"rollback", "loop", "events", "continue", "step", "stepWait", "rearm", "quiesce",
                       "clear", "clearData", "close", "finish"}
    /\ Setup \subseteq Live
  BY DEF Live, WorkerPcs, Setup

\* setError and the way to the clean-up, before the session is armed or after.
LEMMA FailRegisters ==
    ASSUME WorkerTypes, NEW k \in Kinds, Fail(k),
           wk[k].pc \in Setup \cup {"rollback", "loop", "continue", "step", "rearm"}
    PROVE  Registers(k)
<1>1. /\ wk'[k].pc = "quiesce" /\ wk'[k].armed = wk[k].armed
      /\ ses'[k].everArmed = ses[k].everArmed
  BY DEF Fail, Goto, WorkerTypes, Workers, CountingSessions, Session
<1>2. QED
  BY <1>1, Points DEF Registers, SetsUp, GoesRound, Remembers

\* The loop, the step over a breakpoint and the way to the clean-up leave the armed registers alone.
LEMMA LoopRegisters ==
    ASSUME WorkerTypes, NEW k \in Kinds,
           LoopStop(k) \/ Expire(k) \/ LoopWait(k) \/ LoopContinue(k)
    PROVE  Registers(k)
<1>1. CASE Fail(k)
  BY <1>1, FailRegisters DEF LoopStop, Expire, LoopWait, LoopContinue, At
<1>2. CASE (LoopStop(k) \/ Expire(k)) /\ wk' = [wk EXCEPT ![k].pc = "quiesce"]
  <2>1. wk[k].pc = "loop" /\ wk'[k].pc = "quiesce" /\ wk'[k].armed = wk[k].armed /\ ses' = ses
    BY <1>2 DEF LoopStop, Expire, At, WorkerTypes, Workers
  <2>2. QED
    BY <2>1, Points DEF Registers, GoesRound, Remembers
<1>3. CASE \E p \in Procs : wk' = [wk EXCEPT ![k].at = p, ![k].pc = "events"] /\ ses' = ses /\ wk[k].pc = "loop"
  <2>1. wk[k].pc = "loop" /\ wk'[k].pc = "events" /\ wk'[k].armed = wk[k].armed /\ ses' = ses
    BY <1>3 DEF WorkerTypes, Workers
  <2>2. QED
    BY <2>1, Points DEF Registers, GoesRound, Remembers
<1>4. CASE \E P \in SUBSET Procs : /\ wk' = [wk EXCEPT ![k].pending = P, ![k].pc = "loop"]
                                   /\ ses' = ses /\ wk[k].pc = "continue"
  <2>1. wk[k].pc = "continue" /\ wk'[k].pc = "loop" /\ wk'[k].armed = wk[k].armed /\ ses' = ses
    BY <1>4 DEF WorkerTypes, Workers
  <2>2. QED
    BY <2>1, Points DEF Registers, GoesRound, Remembers
<1>5. wk[k].attached \in SUBSET Procs /\ wk[k].pending \in SUBSET Procs
  BY DEF WorkerTypes, Workers
<1>6. CASE LoopStop(k) \/ Expire(k)
  BY <1>2, <1>6 DEF LoopStop, Expire, Goto
<1>7. CASE LoopWait(k)
  <2>1. wk[k].pc = "loop"
    BY <1>7 DEF LoopWait, At
  <2>2. \/ Fail(k)
        \/ \E p \in wk[k].attached : wk' = [wk EXCEPT ![k].at = p, ![k].pc = "events"] /\ ses' = ses
    BY <1>7 DEF LoopWait
  <2>3. QED
    BY <1>1, <1>3, <1>5, <2>1, <2>2
<1>8. CASE LoopContinue(k)
  <2>1. wk[k].pc = "continue"
    BY <1>8 DEF LoopContinue, At
  <2>2. \/ Fail(k)
        \/ /\ wk' = [wk EXCEPT ![k].pending = wk[k].pending \ {wk[k].at}, ![k].pc = "loop"]
           /\ ses' = ses
    BY <1>8 DEF LoopContinue
  <2>3. wk[k].pending \ {wk[k].at} \in SUBSET Procs
    BY <1>5
  <2>4. QED
    BY <1>1, <1>4, <2>1, <2>2, <2>3
<1>9. QED
  BY <1>6, <1>7, <1>8

\* The step over a breakpoint.
LEMMA StepRegisters ==
    ASSUME WorkerTypes, NEW k \in Kinds, StepOver(k) PROVE Registers(k)
<1>1. CASE Fail(k) /\ wk[k].pc = "step"
  BY <1>1, FailRegisters
<1>2. CASE \E b \in BOOLEAN, pc \in {"stepWait", "rearm"} :
              /\ wk' = [wk EXCEPT ![k].stepBad = b, ![k].pc = pc]
              /\ ses' = ses /\ wk[k].pc \in {"step", "stepWait"}
  <2>1. wk'[k].pc \in {"stepWait", "rearm"} /\ wk'[k].armed = wk[k].armed
    BY <1>2 DEF WorkerTypes, Workers
  <2>2. QED
    BY <1>2, <2>1, Points DEF Registers, GoesRound, Remembers
<1>3. CASE Rearm(k)
  <2>1. wk[k].pc = "rearm" /\ ses'[k].everArmed = ses[k].everArmed
    BY <1>3 DEF Rearm, At, WorkerTypes, CountingSessions, Session
  <2>2. wk'[k].pc \in {"quiesce", "events", "rollback"} /\ wk'[k].armed = wk[k].armed
    <3>1. CASE wk' = [wk EXCEPT ![k].pc = IF wk[k].stepBad THEN "quiesce" ELSE "events"]
      BY <3>1 DEF WorkerTypes, Workers
    <3>2. CASE \E R, r : wk' = [wk EXCEPT ![k].batch = R, ![k].reached = r, ![k].pc = "rollback"]
      BY <3>2 DEF WorkerTypes, Workers
    <3>3. QED
      BY <1>3, <3>1, <3>2 DEF Rearm, WriteBatch
  <2>3. QED
    BY <2>1, <2>2, Points DEF Registers, GoesRound, Remembers
<1>4. CASE StepBegin(k)
  <2>1. \/ Fail(k) /\ wk[k].pc = "step"
        \/ \E b \in BOOLEAN, pc \in {"stepWait", "rearm"} :
              /\ wk' = [wk EXCEPT ![k].stepBad = b, ![k].pc = pc]
              /\ ses' = ses /\ wk[k].pc \in {"step", "stepWait"}
    BY <1>4 DEF StepBegin, At
  <2>2. QED
    BY <1>1, <1>2, <2>1
<1>5. CASE StepWait(k)
  <2>1. \E b \in BOOLEAN, pc \in {"stepWait", "rearm"} :
              /\ wk' = [wk EXCEPT ![k].stepBad = b, ![k].pc = pc]
              /\ ses' = ses /\ wk[k].pc \in {"step", "stepWait"}
    BY <1>5 DEF StepWait, At
  <2>2. QED
    BY <1>2, <2>1
<1>6. QED
  BY <1>3, <1>4, <1>5 DEF StepOver

\* The rollback of a batch, and the quiesce.
LEMMA QuiesceRegisters ==
    ASSUME WorkerTypes, NEW k \in Kinds, NEW counts \in BOOLEAN, Rollback(k) \/ Quiesce(k, counts)
    PROVE  Registers(k)
<1>1. CASE Rollback(k)
  BY <1>1, FailRegisters DEF Rollback, At
<1>2. CASE Quiesce(k, counts)
  <2>1. PICK b \in BOOLEAN : wk' = [wk EXCEPT ![k].pc = "clear", ![k].bad = b]
    BY <1>2 DEF Quiesce
  <2>2. wk[k].pc = "quiesce" /\ ses' = ses
    BY <1>2 DEF Quiesce, At
  <2>3. wk'[k].pc = "clear" /\ wk'[k].armed = wk[k].armed
    BY <2>1 DEF WorkerTypes, Workers
  <2>4. QED
    BY <2>2, <2>3, Points DEF Registers, GoesRound, Remembers
<1>3. QED
  BY <1>1, <1>2

\* A batch that is cleared without a failure is cleared on every core.
LEMMA AllCores ==
    ASSUME NEW g \in RegisterFiles, NEW R \in Seq(Regs), NEW c \in Cores
    PROVE  writtenAll(g, R, FALSE)[c] = g[c] \ Range(R)
<1>1. Cardinality(Cores) = 2
  <2>1. 0 \in Int /\ 1 \in Int /\ ~(0 > 1) /\ 1 - 0 + 1 = 2
    OBVIOUS
  <2>2. Cardinality(0 .. 1) = IF 0 > 1 THEN 0 ELSE 1 - 0 + 1
    BY <2>1, FS_Interval, Zenon
  <2>3. QED
    BY <2>1, <2>2 DEF Cores
<1>2. c < 2
  BY DEF Cores
<1>3. QED
  BY <1>1, <1>2 DEF writtenAll, written

\* One call of the clean-up.
LEMMA ClearRegisters ==
    ASSUME WorkerTypes, NEW k \in Kinds, NEW pc, NEW next,
           \/ k = "watch" /\ pc = "clear" /\ next = "clearData"
           \/ k = "watch" /\ pc = "clearData" /\ next = "close"
           \/ k # "watch" /\ pc = "clear" /\ next = "close",
           wk[k].pc = pc, ClearedBy(k) \in Seq(Regs), Clear(k, pc, ClearedBy(k), next)
    PROVE  Registers(k)
<1> DEFINE R == ClearedBy(k)
<1> HIDE DEF R
<1>1. /\ wk'[k].pc = next /\ wk'[k].armed = wk[k].armed /\ ses' = ses
      /\ wk'[k].bad \/ wk'[k].bad = wk[k].bad
  BY ZenonT(40) DEF Clear, Goto, WorkerTypes, Workers
<1>2. CASE R = <<>> /\ regs' = regs /\ wk' = [wk EXCEPT ![k].pc = next]
  <2>1. Range(R) = {}
    BY <1>2 DEF Range
  <2>2. wk'[k].bad = wk[k].bad
    BY <1>2 DEF WorkerTypes, Workers
  <2>3. \A c \in Cores : regs'[c] = regs[c] \ Range(R)
    BY <1>2, <2>1 DEF WorkerTypes, RegisterFiles
  <2>4. QED
    BY <1>1, <2>2, <2>3 DEF Registers, Clears, Remembers, R
<1>3. CASE regs' = writtenAll(regs, R, FALSE) /\ wk' = [wk EXCEPT ![k].pc = next]
  <2>1. wk'[k].bad = wk[k].bad
    BY <1>3 DEF WorkerTypes, Workers
  <2>2. \A c \in Cores : regs'[c] = regs[c] \ Range(R)
    BY <1>3, AllCores DEF WorkerTypes, R
  <2>3. QED
    BY <1>1, <2>1, <2>2 DEF Registers, Clears, Remembers, R
<1>4. CASE wk' = [wk EXCEPT ![k].pc = next, ![k].bad = TRUE]
  <2>1. wk'[k].bad
    BY <1>4 DEF WorkerTypes, Workers
  <2>2. QED
    BY <1>1, <2>1 DEF Registers, Clears, Remembers
<1>5. QED
  BY <1>2, <1>3, <1>4 DEF Clear, Goto, R

\* The close, the last locked section and the end of the thread.
LEMMA EndRegisters ==
    ASSUME WorkerTypes, NEW k \in Kinds, CloseHandles(k) \/ Finish(k) \/ ThreadExit(k)
    PROVE  Registers(k)
<1>1. CASE CloseHandles(k)
  <2>1. /\ wk[k].pc = "close" /\ wk'[k].pc = "finish" /\ wk'[k].armed = wk[k].armed
        /\ wk'[k].bad = wk[k].bad /\ ses' = ses /\ regs' = regs
    BY <1>1 DEF CloseHandles, At, Goto, WorkerTypes, Workers
  <2>2. QED
    BY <2>1 DEF Registers, LetsGo, Remembers
<1>2. CASE Finish(k)
  <2>1. wk[k].pc = "finish" /\ wk'[k].pc = "exit" /\ regs' = regs
    BY <1>2 DEF Finish, At, Goto, WorkerTypes, Workers, kernelVars
  <2>2. wk[k].bad => ses'[k].err
    BY <1>2 DEF Finish, WorkerTypes, CountingSessions, Session
  <2>3. QED
    BY <2>1, <2>2 DEF Registers, LetsGo
<1>3. CASE ThreadExit(k)
  <2>1. wk[k].pc = "exit" /\ wk'[k] = noWorker /\ regs' = regs
    BY <1>3 DEF ThreadExit, At, WorkerTypes, Workers, kernelVars
  <2>2. QED
    BY <2>1 DEF Registers, LetsGo, noWorker
<1>4. QED
  BY <1>1, <1>2, <1>3

\* A step on the way to the armed session that does not arm it.
LEMMA SetupRegisters ==
    ASSUME NEW k \in Kinds, wk[k].pc \in Setup, ses'[k].everArmed = ses[k].everArmed,
           \/ wk'[k].pc \in Setup \cup {"rollback", "quiesce"} /\ wk'[k].pc # "resume"
           \/ wk'[k].pc = "resume" /\ (k = "multi" \/ wk'[k].armed = registersOf[k])
    PROVE  Registers(k)
  BY DEF Registers, SetsUp, Setup

\* A batch that is not written on every core.
LEMMA BatchRegisters ==
    ASSUME WorkerTypes, NEW k \in Kinds, wk[k].pc \in Setup, ses' = ses, NEW R, NEW r,
           wk' = [wk EXCEPT ![k].batch = R, ![k].reached = r, ![k].pc = "rollback"]
    PROVE  Registers(k)
<1>1. wk'[k].pc = "rollback"
  BY DEF WorkerTypes, Workers
<1>2. QED
  BY <1>1, SetupRegisters

\* The resume of a watch or a trace arms the session.
LEMMA ResumeRegisters ==
    ASSUME WorkerTypes, NEW k \in Kinds \ {"multi"}, NEW P \in SUBSET Procs, wk[k].pc = "resume",
           wk' = [wk EXCEPT ![k].resumed = P, ![k].pc = "loop"]
    PROVE  Registers(k)
<1>1. wk'[k].pc = "loop" /\ wk'[k].armed = wk[k].armed
  BY DEF WorkerTypes, Workers
<1>2. QED
  BY <1>1 DEF Registers, Arms, Setup

\* An event is read.
LEMMA EventRegisters ==
    ASSUME WorkerTypes, NEW k \in Kinds, NEW P \in SUBSET Procs, NEW Q \in SUBSET Procs,
           NEW pc \in {"events", "step", "quiesce"}, wk[k].pc = "events",
           \/ wk' = [wk EXCEPT ![k].pc = "continue"]
           \/ wk' = [wk EXCEPT ![k].pending = P, ![k].exited = Q, ![k].pc = "quiesce"]
           \/ wk' = [wk EXCEPT ![k].pending = P]
           \/ wk' = [wk EXCEPT ![k].pending = P, ![k].pc = pc],
           \/ ses' = ses
           \/ ses' = [ses EXCEPT ![k].hits = ses[k].hits + 1]
           \/ ses' = [ses EXCEPT ![k].err = TRUE]
    PROVE  Registers(k)
<1>1. ses'[k].everArmed = ses[k].everArmed
  BY DEF WorkerTypes, CountingSessions, Session
<1>2. wk'[k].armed = wk[k].armed
  BY SMTT(30) DEF WorkerTypes, Workers
<1>3. wk'[k].pc \in {"events", "continue", "step", "quiesce"}
  BY EventLocals, ZenonT(40)
<1>4. QED
  BY <1>1, <1>2, <1>3, Points DEF Registers, GoesRound, Remembers

-----------------------------------------------------------------------------
(* debug_watch.c.                                                          *)

\* The way of the watch to its armed session.
LEMMA watchSetupRegisters ==
    ASSUME WorkerTypes, watchAttach \/ watchDrain \/ watchArmContext \/ watchArmData \/ watchResume
    PROVE  Registers("watch")
<1>1. "watch" \in Kinds /\ "watch" \in Kinds \ {"multi"} /\ {"app"} \in SUBSET Procs
  BY DEF Kinds, Procs
<1>2. wk["watch"].pc \in Setup
  BY DEF watchAttach, watchDrain, watchArmContext, watchArmData, watchResume, At, Setup
<1>3. CASE Fail("watch")
  BY <1>1, <1>2, <1>3, FailRegisters
<1>4. CASE \E R, r : wk' = [wk EXCEPT !["watch"].batch = R, !["watch"].reached = r,
                                     !["watch"].pc = "rollback"] /\ ses' = ses
  BY <1>1, <1>2, <1>4, BatchRegisters
<1>5. CASE watchAttach
  <2>1. CASE /\ wk' = [wk EXCEPT !["watch"].attached = {"app"}, !["watch"].pc = "drain"]
             /\ ses' = ses
    <3>1. wk'["watch"].pc = "drain"
      BY <1>1, <2>1 DEF WorkerTypes, Workers
    <3>2. QED
      BY <1>1, <1>2, <2>1, <3>1, SetupRegisters DEF Setup
  <2>2. QED
    BY <1>3, <1>5, <2>1 DEF watchAttach
<1>6. CASE watchDrain
  <2>1. CASE /\ wk' = [wk EXCEPT !["watch"].exited = {"app"}, !["watch"].pc = "quiesce"]
             /\ ses' = ses
    <3>1. wk'["watch"].pc = "quiesce"
      BY <1>1, <2>1 DEF WorkerTypes, Workers
    <3>2. QED
      BY <1>1, <1>2, <2>1, <3>1, SetupRegisters
  <2>2. CASE wk' = [wk EXCEPT !["watch"].pc = "arm"] /\ ses' = ses
    <3>1. wk'["watch"].pc = "arm"
      BY <1>1, <2>2 DEF WorkerTypes, Workers
    <3>2. QED
      BY <1>1, <1>2, <2>2, <3>1, SetupRegisters DEF Setup
  <2>3. QED
    BY <1>3, <1>6, <2>1, <2>2 DEF watchDrain, Goto
<1>7. CASE watchArmContext
  <2>1. CASE /\ wk' = [wk EXCEPT !["watch"].armed = <<"ctx2">>, !["watch"].pc = "armData"]
             /\ ses' = ses
    <3>1. wk'["watch"].pc = "armData"
      BY <1>1, <2>1 DEF WorkerTypes, Workers
    <3>2. QED
      BY <1>1, <1>2, <2>1, <3>1, SetupRegisters DEF Setup
  <2>2. QED
    BY <1>3, <1>4, <1>7, <2>1 DEF watchArmContext, WriteBatch
<1>8. CASE watchArmData
  <2>1. CASE /\ wk' = [wk EXCEPT !["watch"].armed = registersOf["watch"], !["watch"].pc = "resume"]
             /\ ses' = ses
    <3>1. wk'["watch"].pc = "resume" /\ wk'["watch"].armed = registersOf["watch"]
      BY <1>1, <2>1 DEF WorkerTypes, Workers
    <3>2. QED
      BY <1>1, <1>2, <2>1, <3>1, SetupRegisters
  <2>2. QED
    BY <1>4, <1>8, <2>1 DEF watchArmData, WriteBatch
<1>9. CASE watchResume
  <2>1. wk["watch"].pc = "resume"
    BY <1>9 DEF watchResume, At
  <2>2. CASE wk' = [wk EXCEPT !["watch"].resumed = {"app"}, !["watch"].pc = "loop"]
    BY <1>1, <2>1, <2>2, ResumeRegisters
  <2>3. QED
    BY <1>3, <1>9, <2>2 DEF watchResume
<1>10. QED
  BY <1>5, <1>6, <1>7, <1>8, <1>9

\* Every step of the watch worker.
LEMMA watchRegisters ==
    ASSUME WorkerTypes, watchNext PROVE Registers("watch")
<1>1. /\ "watch" \in Kinds /\ "ctx2" \in Regs /\ "d1" \in Regs /\ {"app"} \in SUBSET Procs
      /\ TRUE \in BOOLEAN
  BY DEF Kinds, Regs, Procs
<1>2. watchArmed("ctx2") \in Seq(Regs) /\ watchArmed("d1") \in Seq(Regs)
  BY <1>1 DEF watchArmed
<1>3. CASE watchLoop
  <2>1. CASE watchEvent
    <3> DEFINE pc == IF watchLimitReached(ses["watch"].hits + 1) THEN "quiesce" ELSE "events"
    <3>1. wk["watch"].pc = "events"
      BY <2>1 DEF watchEvent, At
    <3>2. \/ wk' = [wk EXCEPT !["watch"].pc = "continue"]
          \/ wk' = [wk EXCEPT !["watch"].pending = {"app"}, !["watch"].exited = {"app"},
                              !["watch"].pc = "quiesce"]
          \/ wk' = [wk EXCEPT !["watch"].pending = {"app"}]
          \/ wk' = [wk EXCEPT !["watch"].pending = {"app"}, !["watch"].pc = pc]
      BY <2>1, Zenon DEF watchEvent, Goto
    <3>3. ses' = ses \/ ses' = [ses EXCEPT !["watch"].hits = ses["watch"].hits + 1]
      BY <2>1 DEF watchEvent
    <3>4. pc \in {"events", "step", "quiesce"}
      OBVIOUS
    <3> HIDE DEF pc
    <3>5. QED
      BY <1>1, <3>1, <3>2, <3>3, <3>4, EventRegisters, Zenon
  <2>2. QED
    BY <1>1, <1>3, <2>1, LoopRegisters, SMTT(30) DEF watchLoop
<1>4. CASE watchCleanup
  <2>1. CASE Quiesce("watch", TRUE)
    BY <1>1, <2>1, QuiesceRegisters
  <2>2. CASE Clear("watch", "clear", watchArmed("ctx2"), "clearData")
    <3>1. wk["watch"].pc = "clear" /\ ClearedBy("watch") = watchArmed("ctx2")
      BY <2>2 DEF Clear, At, ClearedBy
    <3>2. QED
      BY <1>1, <1>2, <2>2, <3>1, ClearRegisters
  <2>3. CASE Clear("watch", "clearData", watchArmed("d1"), "close")
    <3>1. wk["watch"].pc = "clearData" /\ ClearedBy("watch") = watchArmed("d1")
      BY <2>3 DEF Clear, At, ClearedBy
    <3>2. QED
      BY <1>1, <1>2, <2>3, <3>1, ClearRegisters
  <2>4. QED
    BY <1>1, <1>4, <2>1, <2>2, <2>3, EndRegisters DEF watchCleanup
<1>5. QED
  BY <1>1, <1>3, <1>4, watchSetupRegisters, QuiesceRegisters, EndRegisters DEF watchNext
-----------------------------------------------------------------------------
(* debug_trace.c and debug_multitrace.c.                                   *)

\* The cheat service is told to let go.
LEMMA DetachRegisters ==
    ASSUME WorkerTypes, NEW k \in Kinds, wk[k].pc = "detach", ses' = ses, Goto(k, "attach")
    PROVE  Registers(k)
<1>1. wk'[k].pc = "attach"
  BY DEF Goto, WorkerTypes, Workers
<1>2. QED
  BY <1>1, SetupRegisters DEF Setup

\* The way of the trace to its armed session.
LEMMA traceSetupRegisters ==
    ASSUME WorkerTypes, Traced,
           traceDetach \/ traceAttach \/ traceDrain \/ traceArm \/ traceResume
    PROVE  Registers("trace")
<1>1. "trace" \in Kinds /\ "trace" \in Kinds \ {"multi"}
  BY DEF Kinds
<1>2. wk["trace"].pc \in Setup
  BY DEF traceDetach, traceAttach, traceDrain, traceArm, traceResume, At, Setup
<1>3. traced \in Procs /\ {traced} \in SUBSET Procs
  BY <1>2, Points DEF Traced
<1>4. CASE Fail("trace")
  BY <1>1, <1>2, <1>4, FailRegisters
<1>5. CASE traceDetach
  BY <1>1, <1>5, DetachRegisters DEF traceDetach, At
<1>6. CASE traceAttach
  <2>1. CASE /\ wk' = [wk EXCEPT !["trace"].attached = {traced}, !["trace"].at = traced,
                                 !["trace"].pc = "drain"]
             /\ ses' = ses
    <3>1. wk'["trace"].pc = "drain"
      BY <1>1, <2>1 DEF WorkerTypes, Workers
    <3>2. QED
      BY <1>1, <1>2, <2>1, <3>1, SetupRegisters DEF Setup
  <2>2. QED
    BY <1>4, <1>6, <2>1 DEF traceAttach
<1>7. CASE traceDrain
  <2>1. CASE /\ wk' = [wk EXCEPT !["trace"].exited = {traced}, !["trace"].pc = "quiesce"]
             /\ ses' = ses
    <3>1. wk'["trace"].pc = "quiesce"
      BY <1>1, <2>1 DEF WorkerTypes, Workers
    <3>2. QED
      BY <1>1, <1>2, <2>1, <3>1, SetupRegisters
  <2>2. CASE wk' = [wk EXCEPT !["trace"].pc = "arm"] /\ ses' = ses
    <3>1. wk'["trace"].pc = "arm"
      BY <1>1, <2>2 DEF WorkerTypes, Workers
    <3>2. QED
      BY <1>1, <1>2, <2>2, <3>1, SetupRegisters DEF Setup
  <2>3. QED
    BY <1>4, <1>7, <2>1, <2>2 DEF traceDrain, Goto
<1>8. CASE traceArm
  <2>1. CASE /\ wk' = [wk EXCEPT !["trace"].armed = registersOf["trace"], !["trace"].pc = "resume"]
             /\ ses' = ses
    <3>1. wk'["trace"].pc = "resume" /\ wk'["trace"].armed = registersOf["trace"]
      BY <1>1, <2>1 DEF WorkerTypes, Workers
    <3>2. QED
      BY <1>1, <1>2, <2>1, <3>1, SetupRegisters
  <2>2. CASE \E R, r : wk' = [wk EXCEPT !["trace"].batch = R, !["trace"].reached = r,
                                       !["trace"].pc = "rollback"] /\ ses' = ses
    BY <1>1, <1>2, <2>2, BatchRegisters
  <2>3. QED
    BY <1>4, <1>8, <2>1, <2>2 DEF traceArm, WriteBatch
<1>9. CASE traceResume
  <2>1. wk["trace"].pc = "resume"
    BY <1>9 DEF traceResume, At
  <2>2. CASE wk' = [wk EXCEPT !["trace"].resumed = {traced}, !["trace"].pc = "loop"]
    BY <1>1, <1>3, <2>1, <2>2, ResumeRegisters
  <2>3. QED
    BY <1>4, <1>9, <2>2 DEF traceResume
<1>10. QED
  BY <1>5, <1>6, <1>7, <1>8, <1>9

\* Every step of the trace worker.
LEMMA traceRegisters ==
    ASSUME WorkerTypes, Traced, traceNext PROVE Registers("trace")
<1>1. "trace" \in Kinds /\ wk["trace"].armed \in Seq(Regs) /\ FALSE \in BOOLEAN
  BY DEF Kinds, WorkerTypes, Workers
<1>2. CASE traceLoop
  <2>1. CASE traceEvent
    <3> DEFINE pc == IF traceLimitReached("trace", ses["trace"].hits + 1) THEN "quiesce" ELSE "step"
    <3>1. wk["trace"].pc = "events" /\ "events" \in Live
      BY <2>1 DEF traceEvent, At, Live, WorkerPcs
    <3>2. traced \in Procs /\ {traced} \in SUBSET Procs
      BY <3>1 DEF Traced
    <3>3. \/ wk' = [wk EXCEPT !["trace"].pc = "continue"]
          \/ wk' = [wk EXCEPT !["trace"].pending = {traced}, !["trace"].exited = {traced},
                              !["trace"].pc = "quiesce"]
          \/ wk' = [wk EXCEPT !["trace"].pending = {traced}]
          \/ wk' = [wk EXCEPT !["trace"].pending = {traced}, !["trace"].pc = pc]
      BY <2>1 DEF traceEvent, Goto
    <3>4. ses' = ses \/ ses' = [ses EXCEPT !["trace"].hits = ses["trace"].hits + 1]
      BY <2>1 DEF traceEvent
    <3>5. pc \in {"events", "step", "quiesce"}
      OBVIOUS
    <3> HIDE DEF pc
    <3>6. QED
      BY <1>1, <3>1, <3>2, <3>3, <3>4, <3>5, EventRegisters, Zenon
  <2>2. QED
    BY <1>1, <1>2, <2>1, LoopRegisters DEF traceLoop
<1>3. CASE traceCleanup
  <2>1. CASE Quiesce("trace", FALSE)
    BY <1>1, <2>1, QuiesceRegisters
  <2>2. CASE Clear("trace", "clear", wk["trace"].armed, "close")
    <3>1. wk["trace"].pc = "clear" /\ ClearedBy("trace") = wk["trace"].armed
      BY <2>2 DEF Clear, At, ClearedBy
    <3>2. QED
      BY <1>1, <2>2, <3>1, ClearRegisters
  <2>3. QED
    BY <1>1, <1>3, <2>1, <2>2, EndRegisters DEF traceCleanup
<1>4. QED
  BY <1>1, <1>2, <1>3, traceSetupRegisters, StepRegisters, QuiesceRegisters, EndRegisters
     DEF traceNext

\* The way of the multitrace to its armed session.
LEMMA multiSetupRegisters ==
    ASSUME WorkerTypes, multiDetach \/ multiAttach \/ multiDrain \/ multiResume \/ multiArm
    PROVE  Registers("multi")
<1>1. "multi" \in Kinds
  BY DEF Kinds
<1>2. wk["multi"].pc \in Setup
  BY DEF multiDetach, multiAttach, multiDrain, multiResume, multiArm, At, Setup
<1>3. CASE Fail("multi")
  BY <1>1, <1>2, <1>3, FailRegisters
<1>4. CASE multiDetach
  BY <1>1, <1>4, DetachRegisters DEF multiDetach, At
<1>5. CASE multiAttach
  <2> DEFINE p == nextOf(wk["multi"].attached)
  <2>1. CASE /\ wk' = [wk EXCEPT !["multi"].attached = @ \cup {p},
                                 !["multi"].pc = IF p = order[2] THEN "drain" ELSE "attach"]
             /\ ses' = ses
    <3>1. wk'["multi"].pc \in {"drain", "attach"}
      BY <1>1, <2>1 DEF WorkerTypes, Workers
    <3>2. QED
      BY <1>1, <1>2, <2>1, <3>1, SetupRegisters DEF Setup
  <2>2. QED
    BY <1>3, <1>5, <2>1 DEF multiAttach
<1>6. CASE multiDrain
  <2> DEFINE p == wk["multi"].at
  <2>1. CASE /\ wk' = [wk EXCEPT !["multi"].exited = @ \cup {p}, !["multi"].pc = "quiesce"]
             /\ ses' = [ses EXCEPT !["multi"].err = TRUE]
    <3>1. wk'["multi"].pc = "quiesce"
      BY <1>1, <2>1 DEF WorkerTypes, Workers
    <3>2. ses'["multi"].everArmed = ses["multi"].everArmed
      BY <1>1, <2>1 DEF WorkerTypes, CountingSessions, Session
    <3>3. QED
      BY <1>1, <1>2, <3>1, <3>2, SetupRegisters
  <2>2. CASE /\ wk' = [wk EXCEPT !["multi"].at = IF p = order[1] THEN order[2] ELSE order[1],
                                 !["multi"].pc = IF p = order[1] THEN "drain" ELSE "resume"]
             /\ ses' = ses
    <3>1. wk'["multi"].pc \in {"drain", "resume"}
      BY <1>1, <2>2 DEF WorkerTypes, Workers
    <3>2. QED
      BY <1>1, <1>2, <2>2, <3>1, SetupRegisters DEF Setup
  <2>3. QED
    BY <1>3, <1>6, <2>1, <2>2 DEF multiDrain
<1>7. CASE multiResume
  <2> DEFINE p == nextOf(wk["multi"].resumed)
  <2>1. CASE /\ wk' = [wk EXCEPT !["multi"].resumed = @ \cup {p},
                                 !["multi"].pc = IF p = order[2] THEN "arm" ELSE "resume"]
             /\ ses' = ses
    <3>1. wk'["multi"].pc \in {"arm", "resume"}
      BY <1>1, <2>1 DEF WorkerTypes, Workers
    <3>2. QED
      BY <1>1, <1>2, <2>1, <3>1, SetupRegisters DEF Setup
  <2>2. QED
    BY <1>3, <1>7, <2>1 DEF multiResume
<1>8. CASE multiArm
  <2>1. CASE wk' = [wk EXCEPT !["multi"].armed = registersOf["multi"], !["multi"].pc = "loop"]
    <3>1. wk'["multi"].pc = "loop" /\ wk'["multi"].armed = registersOf["multi"]
      BY <1>1, <2>1 DEF WorkerTypes, Workers
    <3>2. QED
      BY <1>2, <3>1 DEF Registers, Arms
  <2>2. CASE \E R, r : /\ wk' = [wk EXCEPT !["multi"].batch = R, !["multi"].reached = r,
                                          !["multi"].pc = "rollback"]
                       /\ wk'["multi"].pc # "loop" => ses' = ses
    <3>1. wk'["multi"].pc = "rollback"
      BY <1>1, <2>2 DEF WorkerTypes, Workers
    <3>2. QED
      BY <1>1, <1>2, <2>2, <3>1, SetupRegisters
  <2>3. QED
    BY <1>3, <1>8, <2>1, <2>2 DEF multiArm, WriteBatch
<1>9. QED
  BY <1>4, <1>5, <1>6, <1>7, <1>8

\* Every step of the multitrace worker.
LEMMA multiRegisters ==
    ASSUME WorkerTypes, multiNext PROVE Registers("multi")
<1>1. "multi" \in Kinds /\ wk["multi"].armed \in Seq(Regs) /\ TRUE \in BOOLEAN
  BY DEF Kinds, WorkerTypes, Workers
<1>2. CASE multiLoop
  <2>1. CASE multiEvent
    <3> DEFINE p  == wk["multi"].at
               P  == wk["multi"].pending \cup {p}
               Q  == wk["multi"].exited \cup {p}
               pc == IF traceLimitReached("multi", ses["multi"].hits + 1) THEN "quiesce" ELSE "step"
    <3>1. wk["multi"].pc = "events"
      BY <2>1 DEF multiEvent, At
    <3>2. P \in SUBSET Procs /\ Q \in SUBSET Procs
      BY <1>1 DEF WorkerTypes, Workers
    <3>3. \/ wk' = [wk EXCEPT !["multi"].pc = "continue"]
          \/ wk' = [wk EXCEPT !["multi"].pending = P, !["multi"].exited = Q, !["multi"].pc = "quiesce"]
          \/ wk' = [wk EXCEPT !["multi"].pending = P]
          \/ wk' = [wk EXCEPT !["multi"].pending = P, !["multi"].pc = pc]
      BY <2>1 DEF multiEvent, Goto
    <3>4. \/ ses' = ses
          \/ ses' = [ses EXCEPT !["multi"].hits = ses["multi"].hits + 1]
          \/ ses' = [ses EXCEPT !["multi"].err = TRUE]
      BY <2>1 DEF multiEvent
    <3>5. pc \in {"events", "step", "quiesce"}
      OBVIOUS
    <3> HIDE DEF P, Q, pc
    <3>6. QED
      BY <1>1, <3>1, <3>2, <3>3, <3>4, <3>5, EventRegisters, Zenon
  <2>2. QED
    BY <1>1, <1>2, <2>1, LoopRegisters, SMTT(30) DEF multiLoop
<1>3. CASE multiCleanup
  <2>1. CASE Quiesce("multi", TRUE)
    BY <1>1, <2>1, QuiesceRegisters
  <2>2. CASE Clear("multi", "clear", wk["multi"].armed, "close")
    <3>1. wk["multi"].pc = "clear" /\ ClearedBy("multi") = wk["multi"].armed
      BY <2>2 DEF Clear, At, ClearedBy
    <3>2. QED
      BY <1>1, <2>2, <3>1, ClearRegisters
  <2>3. QED
    BY <1>1, <1>3, <2>1, <2>2, EndRegisters DEF multiCleanup
<1>4. QED
  BY <1>1, <1>2, <1>3, multiSetupRegisters, StepRegisters, QuiesceRegisters, EndRegisters
     DEF multiNext
-----------------------------------------------------------------------------
(* The specification.                                                      *)

\* What session k knows of its registers: all of them once it is armed, and which of them are
\* cleared, unless its clean-up has failed.
CleanInv(k) ==
    /\ ses[k].everArmed /\ wk[k].pc \in Live => wk[k].pc \notin Setup /\ wk[k].armed = registersOf[k]
    /\ k # "multi" /\ wk[k].pc = "resume" => wk[k].armed = registersOf[k]
    /\ ses[k].everArmed /\ ~wk[k].bad /\ wk[k].pc = "clearData"
          => k = "watch" /\ \A c \in Cores : "ctx2" \notin regs[c]
    /\ ses[k].everArmed /\ ~wk[k].bad /\ wk[k].pc \in {"close", "finish"}
          => \A c \in Cores : regs[c] \cap Range(registersOf[k]) = {}
CleanupInv == \A k \in Kinds : CleanInv(k)

\* The registers of a watch.
LEMMA WatchRange == /\ Range(registersOf["watch"]) = {"ctx2", "d1"}
                    /\ Range(<<"ctx2">>) = {"ctx2"} /\ Range(<<"d1">>) = {"d1"}
<1>1. registersOf["watch"] = <<"ctx2", "d1">>
  BY DEF registersOf
<1>2. QED
  BY <1>1 DEF Range

\* A worker's own step keeps what it knows of its registers.
LEMMA OwnStep ==
    ASSUME NEW k \in Kinds, CleanInv(k), Registers(k), wk[k].pc \in WorkerPcs
    PROVE  CleanInv(k)'
<1>1. CASE SetsUp(k)
  <2>1. ~ses'[k].everArmed
    BY <1>1, Points DEF SetsUp, CleanInv
  <2>2. QED
    BY <1>1, <2>1 DEF SetsUp, CleanInv
<1>2. CASE Arms(k)
  BY <1>2, Points DEF Arms, CleanInv, Setup
<1>3. CASE GoesRound(k)
  BY <1>3, Points DEF GoesRound, Remembers, CleanInv, Setup
<1>4. CASE Clears(k)
  <2>1. ses[k].everArmed => wk[k].armed = registersOf[k]
    BY <1>4, Points DEF Clears, CleanInv
  <2>2. wk'[k].pc \in {"clearData", "close"} /\ wk'[k].pc \notin Setup
    BY <1>4 DEF Clears, Setup
  <2>3. ASSUME ses'[k].everArmed, ~wk'[k].bad, wk'[k].pc = "clearData"
        PROVE  k = "watch" /\ \A c \in Cores : "ctx2" \notin regs'[c]
    <3>1. k = "watch" /\ wk[k].pc = "clear" /\ wk[k].armed = registersOf["watch"]
      BY <1>4, <2>1, <2>3 DEF Clears, Remembers
    <3>2. ClearedBy(k) = <<"ctx2">>
      BY <3>1, WatchRange DEF ClearedBy, watchArmed
    <3>3. QED
      BY <1>4, <2>3, <3>1, <3>2, WatchRange DEF Clears
  <2>4. ASSUME ses'[k].everArmed, ~wk'[k].bad, wk'[k].pc = "close"
        PROVE  \A c \in Cores : regs'[c] \cap Range(registersOf[k]) = {}
    <3>1. /\ ses[k].everArmed /\ ~wk[k].bad /\ wk[k].armed = registersOf[k]
          /\ \A c \in Cores : regs'[c] = regs[c] \ Range(ClearedBy(k))
      BY <1>4, <2>1, <2>4 DEF Clears, Remembers
    <3>2. CASE k = "watch"
      <4>1. wk[k].pc = "clearData"
        BY <1>4, <2>4, <3>2 DEF Clears
      <4>2. ClearedBy(k) = <<"d1">>
        BY <3>1, <3>2, <4>1, WatchRange DEF ClearedBy, watchArmed
      <4>3. \A c \in Cores : "ctx2" \notin regs[c]
        BY <3>1, <4>1 DEF CleanInv
      <4>4. QED
        BY <3>1, <3>2, <4>2, <4>3, WatchRange
    <3>3. CASE k # "watch"
      BY <3>1, <3>3 DEF ClearedBy
    <3>4. QED
      BY <3>2, <3>3
  <2>5. QED
    BY <1>4, <2>1, <2>2, <2>3, <2>4 DEF Clears, Remembers, CleanInv, Setup
<1>5. CASE LetsGo(k)
  <2>1. CASE wk[k].pc = "close"
    BY <1>5, <2>1, Points DEF LetsGo, Remembers, CleanInv, Setup
  <2>2. CASE wk'[k].pc \in {"exit", "off"}
    BY <2>2 DEF CleanInv, Live
  <2>3. QED
    BY <1>5, <2>1, <2>2 DEF LetsGo
<1>6. QED
  BY <1>1, <1>2, <1>3, <1>4, <1>5 DEF Registers

\* Nobody touches the registers of an armed session but its own worker.
LEMMA OthersStep ==
    ASSUME SessionInv, NEW k \in Kinds, CleanInv(k), ses'[k].everArmed = ses[k].everArmed,
           wk'[k] = wk[k], regs' = regs \/ ~ses[k].active
    PROVE  CleanInv(k)'
<1>1. CASE regs' = regs
  BY <1>1 DEF CleanInv
<1>2. CASE ~ses[k].active
  <2>1. wk[k].pc \notin Live
    BY <1>2 DEF SessionInv, Activity
  <2>2. QED
    BY <2>1, Points DEF CleanInv, Live, Setup, WorkerPcs
<1>3. QED
  BY <1>1, <1>2

\* Every step of a worker.
LEMMA WorkersStep ==
    ASSUME SessionInv, CleanupInv,
           watchNext \/ traceNext \/ multiNext \/ \E k \in Kinds : Expire(k)
    PROVE  CleanupInv'
<1>1. WorkerTypes /\ Traced
  BY TargetExists DEF SessionInv
<1>2. "watch" \in Kinds /\ "trace" \in Kinds /\ "multi" \in Kinds
  BY DEF Kinds
<1>3. PICK k \in Kinds : Footprint(k) /\ Registers(k)
  BY <1>1, <1>2, watchStep, traceStep, multiStep, LoopEndStep, watchRegisters, traceRegisters,
     multiRegisters, LoopRegisters
<1>4. CleanInv(k)'
  BY <1>1, <1>3, OwnStep DEF CleanupInv, WorkerTypes, Workers
<1>5. ASSUME NEW j \in Kinds \ {k} PROVE CleanInv(j)'
  <2>1. ses'[j] = ses[j] /\ wk'[j] = wk[j]
    BY <1>3 DEF Footprint, Alone
  <2>2. regs' = regs \/ wk[k].pc \in Live
    BY <1>3, Points DEF Footprint, Control, Live, WorkerPcs
  <2>3. regs' = regs \/ ~ses[j].active
    BY <2>2 DEF SessionInv, Activity, OneSession
  <2>4. QED
    BY <2>1, <2>3, OthersStep DEF CleanupInv
<1>6. QED
  BY <1>4, <1>5 DEF CleanupInv

-----------------------------------------------------------------------------
(* The steps outside the workers, and the theorems.                        *)

\* A step outside the workers that starts no thread.
Bystander ==
    /\ \A k \in Kinds : wk'[k] = wk[k] /\ ses'[k].everArmed = ses[k].everArmed
    /\ regs' = regs \/ \A k \in Kinds : ~ses[k].active

\* Such a step leaves every session's registers alone.
LEMMA BystanderStep ==
    ASSUME SessionInv, CleanupInv, Bystander PROVE CleanupInv'
<1> SUFFICES ASSUME NEW k \in Kinds PROVE CleanInv(k)'
  BY DEF CleanupInv
<1>1. QED
  BY OthersStep DEF Bystander, CleanupInv

\* The environment, the memory sessions and the cheat service.
LEMMA OutsideStep ==
    ASSUME SessionInv, \/ Environment \/ DmntAttach \/ processMemoryWrite \/ memSteps
                       \/ \E policy \in Policies : openLocked(policy)
    PROVE  Bystander
<1>1. ses \in CountingSessions
  BY DEF SessionInv, WorkerTypes
<1>2. CASE \E p \in Procs : Hit(p)
  <2>1. PICK p \in Procs : Hit(p)
    BY <1>2
  <2>2. PICK k \in Kinds, n \in 1 .. 2 : ses' = [ses EXCEPT ![k].seen = @ + n]
    BY <2>1, Zenon DEF Hit
  <2>3. \A j \in Kinds : ses'[j].everArmed = ses[j].everArmed
    BY <1>1, <2>2 DEF CountingSessions, Session
  <2>4. wk' = wk /\ regs' = regs
    BY <2>1 DEF Hit
  <2>5. QED
    BY <2>3, <2>4 DEF Bystander
<1>3. CASE \/ \E p \in Procs : StepDone(p) \/ Exit(p)
           \/ Wander \/ DmntAttach \/ processMemoryWrite
  BY <1>3, Zenon DEF StepDone, Exit, Wander, DmntAttach, processMemoryWrite, MemFrame, Bystander
<1>4. CASE memSteps \/ \E policy \in Policies : openLocked(policy)
  BY <1>4 DEF memSteps, openLocked, openDmnt, forceOpen, openDirect, processMemoryClose, MemFrame,
     Bystander
<1>5. QED
  BY <1>2, <1>3, <1>4 DEF Environment

\* The commands and the steps of the main loop, without the start of a thread.
LEMMA MainStep ==
    ASSUME SessionInv, Commands \/ ReapThread \/ JoinThread \/ AwaitArmed \/ jobSteps
    PROVE  Bystander
<1>1. ses \in CountingSessions /\ main.k \in Kinds
  BY DEF SessionInv, WorkerTypes, MainTypes, Mains
<1>2. ASSUME NEW k \in Kinds, StartSession(k) \/ StopSession(k) PROVE Bystander
  <2>1. wk' = wk /\ regs' = regs
    BY <1>2 DEF StartSession, StopSession, kernelVars
  <2>2. \A j \in Kinds : ses'[j].everArmed = ses[j].everArmed
    BY <1>1, <1>2 DEF StartSession, StopSession, CountingSessions, Session
  <2>3. QED
    BY <2>1, <2>2 DEF Bystander
<1>3. CASE ReapThread \/ JoinThread \/ AwaitArmed
  <2>1. wk' = wk /\ regs' = regs
    BY <1>3 DEF ReapThread, JoinThread, AwaitArmed, kernelVars
  <2>2. \A j \in Kinds : ses'[j].everArmed = ses[j].everArmed
    BY <1>1, <1>3 DEF ReapThread, JoinThread, AwaitArmed, CountingSessions, Session
  <2>3. QED
    BY <2>1, <2>2 DEF Bystander
<1>4. CASE jobSteps
  <2>1. ses' = ses /\ wk' = wk
    BY <1>4 DEF jobSteps, debugProcessOpen, debugProcessAttach, debugProcessDrain, debugProcessPause,
       debugProcessResume, debugProcessClose, setContexts, clearContexts, pauseProcess,
       inspectThreads, verifyBytes, writePatch, readBack, patchResume, MainFrame
  <2>2. main.pc \notin {"idle", "await", "join"}
    BY <1>4 DEF jobSteps, debugProcessOpen, debugProcessAttach, debugProcessDrain, debugProcessPause,
       debugProcessResume, debugProcessClose, setContexts, clearContexts, pauseProcess,
       inspectThreads, verifyBytes, writePatch, readBack, patchResume, MainAt
  <2>3. \A k \in Kinds : ~ses[k].active
    BY <2>2 DEF SessionInv, Activity
  <2>4. QED
    BY <2>1, <2>3 DEF Bystander
<1>5. CASE ForceClose \/ \E job, p, check, skip : BeginJob(job, p, check, skip)
  BY <1>5 DEF ForceClose, BeginJob, MainFrame, kernelVars, Bystander
<1>6. CASE Commands
  <2>1. "watch" \in Kinds /\ "trace" \in Kinds /\ "multi" \in Kinds
    BY DEF Kinds
  <2>2. QED
    BY <1>2, <1>5, <1>6, <2>1 DEF Commands, debugWatchStart, debugTraceStart, debugMultiTraceStart,
       debugWatchStop, debugTraceStop, debugMultiTraceStop
<1>7. QED
  BY <1>3, <1>4, <1>6

\* A thread is started, with nothing armed.
LEMMA CreateStep ==
    ASSUME SessionInv, CleanupInv, CreateThread PROVE CleanupInv'
<1>1. ses \in CountingSessions /\ wk \in Workers /\ main.k \in Kinds /\ regs' = regs
  BY DEF CreateThread, SessionInv, WorkerTypes, MainTypes, Mains
<1>2. PICK k \in Kinds : k = main.k
  BY <1>1
<1>3. CASE ses' = [ses EXCEPT ![k].err = TRUE] /\ wk' = wk
  <2>1. \A j \in Kinds : ses'[j].everArmed = ses[j].everArmed
    BY <1>1, <1>3 DEF CountingSessions, Session
  <2>2. QED
    BY <1>1, <1>3, <2>1, BystanderStep DEF Bystander
<1>4. ASSUME NEW a \in Arguments(k),
             ses' = [ses EXCEPT ![k] = begun(a)], wk' = [wk EXCEPT ![k] = started(k)]
      PROVE  CleanupInv'
  <2>1. /\ ses'[k] = begun(a) /\ wk'[k] = started(k)
        /\ \A j \in Kinds \ {k} : ses'[j] = ses[j] /\ wk'[j] = wk[j]
    BY <1>1, <1>4 DEF CountingSessions, Workers
  <2>2. ~ses'[k].everArmed /\ wk'[k].pc # "resume"
    BY <2>1, BegunFacts, StartedFacts
  <2>3. CleanInv(k)'
    BY <2>2 DEF CleanInv
  <2>4. \A j \in Kinds \ {k} : CleanInv(j)'
    BY <1>1, <2>1, OthersStep DEF CleanupInv
  <2>5. QED
    BY <2>3, <2>4 DEF CleanupInv
<1>5. QED
  BY <1>2, <1>3, <1>4 DEF CreateThread, begun, started

\* Every step is one of a worker, the start of a thread, or one of a bystander.
LEMMA StepsOfThree ==
    ASSUME SessionInv, [Next]_vars
    PROVE  \/ watchNext \/ traceNext \/ multiNext \/ \E k \in Kinds : Expire(k)
           \/ CreateThread
           \/ Bystander
<1>1. CASE UNCHANGED vars
  BY <1>1 DEF vars, Bystander
<1>2. CASE Commands \/ ReapThread \/ JoinThread \/ AwaitArmed \/ jobSteps
  BY <1>2, MainStep
<1>3. CASE \/ Environment \/ DmntAttach \/ processMemoryWrite \/ memSteps
           \/ \E policy \in Policies : openLocked(policy)
  BY <1>3, OutsideStep
<1>4. QED
  BY <1>1, <1>2, <1>3 DEF Next, mainSteps, watchThreadStart, traceThreadStart,
     multiThreadStart, watchAwait, traceAwait, multiAwait

\* The inductive invariant of the clean-up.
THEOREM CleanupInvHolds == SafeSpec => []CleanupInv
<1>1. Init => CleanupInv
  <2> SUFFICES ASSUME Init, NEW k \in Kinds PROVE CleanInv(k)
    BY DEF CleanupInv
  <2>1. ses[k] = noSession /\ wk[k] = noWorker
    BY DEF Init, KernelInit
  <2>2. QED
    BY <2>1 DEF CleanInv, noSession, noWorker
<1>2. SessionInv /\ CleanupInv /\ [Next]_vars => CleanupInv'
  <2> SUFFICES ASSUME SessionInv, CleanupInv, [Next]_vars PROVE CleanupInv'
    OBVIOUS
  <2>1. QED
    BY StepsOfThree, CreateStep, WorkersStep, BystanderStep
<1>3. QED
  BY <1>1, <1>2, SessionInvHolds, PTL DEF SafeSpec

\* A session ends only in the last locked section of its worker, which reports what went wrong and
\* touches neither a register nor a process.
LEMMA EndsInFinish ==
    ASSUME SessionInv, SessionInv', [Next]_vars, NEW k \in Kinds, ses[k].active, ~ses'[k].active
    PROVE  /\ wk[k].pc = "finish" /\ regs' = regs /\ tgt' = tgt
           /\ wk[k].bad => ses'[k].err
<1>1. WorkerTypes /\ Traced
  BY TargetExists DEF SessionInv
<1>2. wk[k].pc \in Live /\ wk'[k].pc \notin Live
  BY DEF SessionInv, Activity
<1>3. ~Bystander
  BY <1>2 DEF Bystander
<1>4. ~CreateThread
  BY DEF SessionInv, Activity, CreateThread, MainAt
<1>5. "watch" \in Kinds /\ "trace" \in Kinds /\ "multi" \in Kinds
  BY DEF Kinds
<1>6. watchNext \/ traceNext \/ multiNext \/ \E j \in Kinds : Expire(j)
  BY <1>3, <1>4, StepsOfThree
<1>7. PICK j \in Kinds : Footprint(j) /\ Registers(j)
  BY <1>1, <1>5, <1>6, watchStep, traceStep, multiStep, LoopEndStep, watchRegisters, traceRegisters,
     multiRegisters, LoopRegisters
<1>8. j = k
  BY <1>2, <1>7 DEF Footprint, Alone
<1>9. wk[k].pc = "finish" /\ wk'[k].pc = "exit"
  BY <1>2, <1>7, <1>8 DEF Footprint, Control, Live
<1>10. tgt' = tgt
  BY <1>7, <1>8, <1>9 DEF Footprint, Handles, Live
<1>11. LetsGo(k)
  BY <1>7, <1>8, <1>9, Points DEF Registers, SetsUp, Arms, GoesRound, Clears, Setup
<1>12. QED
  BY <1>9, <1>10, <1>11 DEF LetsGo

(* A session that was armed and ends without an error leaves none of its    *)
(* registers on a core and no process in its hands (debug_watch.c,          *)
(* debug_trace.c and debug_multitrace.c, the clean-up of the workers), for  *)
(* any number of requests, faults and hits.                                 *)
THEOREM CleanOrReportedHolds == SafeSpec => CleanOrReported
<1> DEFINE clean == \A k \in Kinds :
              (ses[k].active /\ ~ses'[k].active /\ ses[k].everArmed /\ ~ses'[k].err)
              => /\ \A c \in Cores : regs'[c] \cap Range(registersOf[k]) = {}
                 /\ \A p \in Procs : tgt'[p].owner # k
<1>1. ASSUME SessionInv, SessionInv', CleanupInv, [Next]_vars PROVE [clean]_vars
  <2> SUFFICES ASSUME NEW k \in Kinds, ses[k].active, ~ses'[k].active, ses[k].everArmed,
                      ~ses'[k].err
               PROVE  /\ \A c \in Cores : regs'[c] \cap Range(registersOf[k]) = {}
                      /\ \A p \in Procs : tgt'[p].owner # k
    OBVIOUS
  <2>1. /\ wk[k].pc = "finish" /\ regs' = regs /\ tgt' = tgt
        /\ ~wk[k].bad
    BY <1>1, EndsInFinish
  <2>2. \A c \in Cores : regs[c] \cap Range(registersOf[k]) = {}
    BY <1>1, <2>1 DEF CleanupInv, CleanInv
  <2>3. \A p \in Procs : tgt[p].owner # k
    BY <1>1, <2>1 DEF SessionInv, HandlesMatch
  <2>4. QED
    BY <2>1, <2>2, <2>3
<1>2. QED
  BY <1>1, SessionInvHolds, CleanupInvHolds, PTL DEF SafeSpec, CleanOrReported

-----------------------------------------------------------------------------
(* The hits that are queued and not yet read.                              *)

hitsOf(q) == {i \in 1 .. Len(q) : q[i] = "hit"}
HitsIn(q) == Cardinality(hitsOf(q))

\* A queue holds finitely many hits, and none of them when it is empty or new.
LEMMA HitsType ==
    /\ \A q \in Seq(Events) : IsFiniteSet(hitsOf(q)) /\ HitsIn(q) \in Nat
    /\ HitsIn(<<>>) = 0 /\ HitsIn(<<"attach">>) = 0
<1>1. ASSUME NEW q \in Seq(Events) PROVE IsFiniteSet(hitsOf(q)) /\ HitsIn(q) \in Nat
  <2>1. 1 \in Int /\ Len(q) \in Int
    OBVIOUS
  <2>2. IsFiniteSet(1 .. Len(q))
    BY <2>1, FS_Interval, Zenon
  <2>3. hitsOf(q) \in SUBSET (1 .. Len(q))
    BY DEF hitsOf
  <2>4. IsFiniteSet(hitsOf(q))
    BY <2>2, <2>3, FS_Subset, Zenon
  <2>5. QED
    BY <2>4, FS_CardinalityType, Zenon DEF HitsIn
<1>2. hitsOf(<<>>) = {} /\ hitsOf(<<"attach">>) = {}
  BY DEF hitsOf
<1>3. QED
  BY <1>1, <1>2, FS_EmptySet, Zenon DEF HitsIn

\* A queue that has lost its first event has lost that hit, if it was one.
LEMMA HitsTail ==
    ASSUME NEW q \in Seq(Events), q # <<>>
    PROVE  HitsIn(Tail(q)) + (IF Head(q) = "hit" THEN 1 ELSE 0) <= HitsIn(q)
<1> DEFINE S == hitsOf(q)
           T == hitsOf(Tail(q))
           f == [i \in T |-> i + 1]
<1>1. Tail(q) \in Seq(Events) /\ Len(Tail(q)) = Len(q) - 1 /\ Len(q) \in Nat \ {0}
  OBVIOUS
<1>2. \A i \in 1 .. Len(q) - 1 : Tail(q)[i] = q[i + 1]
  OBVIOUS
<1>3. T \subseteq Nat /\ \A i \in T : i + 1 \in S \ {1}
  BY <1>1, <1>2 DEF hitsOf
<1>4. IsFiniteSet(S) /\ Cardinality(S) \in Nat /\ Cardinality(T) \in Nat
  BY <1>1, HitsType DEF HitsIn
<1>5. 1 \in S <=> Head(q) = "hit"
  BY <1>1 DEF hitsOf
<1> HIDE DEF S, T
<1>6. f \in Injection(T, S \ {1})
  <2>1. f \in [T -> S \ {1}]
    BY <1>3
  <2>2. \A i, j \in T : f[i] = f[j] => i = j
    BY <1>3
  <2>3. QED
    BY <2>1, <2>2 DEF Injection, IsInjective
<1> HIDE DEF f
<1>7. /\ IsFiniteSet(S \ {1})
      /\ Cardinality(S \ {1}) = IF 1 \in S THEN Cardinality(S) - 1 ELSE Cardinality(S)
  BY <1>4, FS_RemoveElement, Zenon
<1>8. Cardinality(T) <= Cardinality(S \ {1})
  BY <1>6, <1>7, FS_Injection, Zenon
<1>9. Cardinality(T) + (IF Head(q) = "hit" THEN 1 ELSE 0) <= Cardinality(S)
  BY <1>4, <1>5, <1>7, <1>8
<1>10. QED
  BY <1>9 DEF HitsIn, S, T

\* A queue with one more event has one more hit, if it is one.
LEMMA HitsAppend ==
    ASSUME NEW q \in Seq(Events), NEW e \in Events
    PROVE  HitsIn(Append(q, e)) = HitsIn(q) + (IF e = "hit" THEN 1 ELSE 0)
<1> DEFINE n == Len(q) + 1
           S == hitsOf(q)
           T == hitsOf(Append(q, e))
<1>1. /\ Len(Append(q, e)) = n /\ Len(q) \in Nat /\ Append(q, e)[n] = e
      /\ \A i \in 1 .. Len(q) : Append(q, e)[i] = q[i]
  OBVIOUS
<1>2. T = IF e = "hit" THEN S \cup {n} ELSE S
  BY <1>1 DEF hitsOf
<1>3. n \notin S /\ IsFiniteSet(S) /\ Cardinality(S) \in Nat
  BY <1>1, HitsType DEF hitsOf, HitsIn
<1> HIDE DEF n, S, T
<1>4. Cardinality(S \cup {n}) = IF n \in S THEN Cardinality(S) ELSE Cardinality(S) + 1
  BY <1>3, FS_AddElement, Zenon
<1>5. Cardinality(T) = Cardinality(S) + (IF e = "hit" THEN 1 ELSE 0)
  BY <1>2, <1>3, <1>4
<1>6. QED
  BY <1>5 DEF HitsIn, S, T

\* The hits of one or two threads.
LEMMA HitsMore ==
    ASSUME NEW q \in Seq(Events), NEW n \in 1 .. 2
    PROVE  /\ q \o [i \in 1 .. n |-> "hit"] \in Seq(Events)
           /\ HitsIn(q \o [i \in 1 .. n |-> "hit"]) = HitsIn(q) + n
<1>1. "hit" \in Events /\ Append(q, "hit") \in Seq(Events)
  BY DEF Events
<1>2. [i \in 1 .. 1 |-> "hit"] = <<"hit">> /\ [i \in 1 .. 2 |-> "hit"] = <<"hit", "hit">>
  OBVIOUS
<1>3. q \o <<"hit">> = Append(q, "hit") /\ q \o <<"hit", "hit">> = Append(Append(q, "hit"), "hit")
  OBVIOUS
<1>4. /\ HitsIn(Append(q, "hit")) = HitsIn(q) + 1
      /\ HitsIn(Append(Append(q, "hit"), "hit")) = HitsIn(q) + 1 + 1
  BY <1>1, HitsAppend
<1>5. Append(Append(q, "hit"), "hit") \in Seq(Events) /\ HitsIn(q) \in Nat
  BY <1>1, HitsType
<1>6. \/ n = 1 /\ [i \in 1 .. n |-> "hit"] = <<"hit">>
      \/ n = 2 /\ [i \in 1 .. n |-> "hit"] = <<"hit", "hit">>
  <2>1. n = 1 \/ n = 2
    OBVIOUS
  <2>2. QED
    BY <1>2, <2>1
<1>7. CASE n = 1
  <2>1. q \o [i \in 1 .. n |-> "hit"] = Append(q, "hit")
    BY <1>3, <1>6, <1>7
  <2>2. QED
    BY <1>1, <1>4, <1>7, <2>1
<1>8. CASE n = 2
  <2>1. q \o [i \in 1 .. n |-> "hit"] = Append(Append(q, "hit"), "hit")
    BY <1>3, <1>6, <1>8
  <2>2. HitsIn(q) + 1 + 1 = HitsIn(q) + n
    BY <1>5, <1>8
  <2>3. QED
    BY <1>4, <1>5, <2>1, <2>2
<1>9. QED
  BY <1>6, <1>7, <1>8
-----------------------------------------------------------------------------
(* What a step does to the hits that are queued and to those that are      *)
(* counted.                                                                *)

\* The points of a worker from which no further hit is recorded.
After == {"quiesce", "clear", "clearData", "close", "finish"}

\* No process has more hits queued than before, unless they are read away, and none keeps hits for
\* somebody else.
Calm ==
    \A p \in Procs :
        \/ HitsIn(tgt'[p].queue) = 0
        \/ /\ tgt'[p].owner = tgt[p].owner \/ tgt[p].owner \notin Kinds
           /\ HitsIn(tgt'[p].queue) <= HitsIn(tgt[p].queue)

\* The kernel calls of the workers, of the commands and of the memory sessions.
KernelCall ==
    \/ tgt' = tgt \/ tgt' = dmntClosed
    \/ \E p \in Procs : \/ tgt' = drained(tgt, p) \/ tgt' = running(tgt, p)
                        \/ tgt' = running(drained(tgt, p), p)
                        \/ tgt' = [tgt EXCEPT ![p].stopped = FALSE, ![p].step = TRUE]
                        \/ tgt[p].queue # <<>> /\ tgt' = [tgt EXCEPT ![p].queue = Tail(tgt[p].queue)]
    \/ \E p \in Procs, o \in Owners : tgt' = attachedBy(tgt, p, o)
    \/ \E P : tgt' = closed(P)
    \/ \E P, pending, F : tgt' = quiesced(P, pending, F)

\* None of them queues a hit.
LEMMA CallsAreCalm ==
    ASSUME tgt \in Targets, KernelCall PROVE Calm
<1>1. \A p \in Procs : /\ tgt[p].queue \in Seq(Events) /\ HitsIn(tgt[p].queue) \in Nat
                       /\ tgt[p] \in [alive : BOOLEAN, owner : Owners, stopped : BOOLEAN, step : BOOLEAN,
                                      queue : Seq(Events)]
  BY HitsType DEF Targets, Events, Owners
<1>2. ASSUME \A p \in Procs : \/ tgt'[p].queue = <<>> \/ tgt'[p].queue = <<"attach">>
                              \/ /\ tgt'[p].owner = tgt[p].owner \/ tgt[p].owner \notin Kinds
                                 /\ tgt'[p].queue = tgt[p].queue
      PROVE  Calm
  BY <1>1, <1>2, HitsType DEF Calm
<1>3. CASE tgt' = tgt \/ tgt' = dmntClosed
  <2>1. \A p \in Procs : \/ tgt'[p] = tgt[p]
                         \/ tgt[p].owner = "dmnt" /\ tgt'[p].queue = tgt[p].queue
    BY <1>3 DEF dmntClosed, Targets
  <2>2. QED
    BY <1>2, <2>1 DEF Kinds
<1>4. ASSUME NEW q \in Procs,
             \/ tgt' = drained(tgt, q) \/ tgt' = running(tgt, q)
             \/ tgt' = running(drained(tgt, q), q)
             \/ tgt' = [tgt EXCEPT ![q].stopped = FALSE, ![q].step = TRUE]
      PROVE  Calm
  <2>1. \A p \in Procs : /\ tgt'[p].owner = tgt[p].owner
                         /\ tgt'[p].queue = <<>> \/ tgt'[p].queue = tgt[p].queue
    <3>1. ASSUME NEW t \in Targets, NEW p \in Procs
          PROVE  /\ drained(t, q)[p].owner = t[p].owner
                 /\ drained(t, q)[p].queue = <<>> \/ drained(t, q)[p].queue = t[p].queue
                 /\ running(t, q)[p].owner = t[p].owner /\ running(t, q)[p].queue = t[p].queue
      BY DEF drained, running, Targets
    <3>2. drained(tgt, q) \in Targets
      BY KeepsOwner
    <3>3. CASE \/ tgt' = drained(tgt, q) \/ tgt' = running(tgt, q)
               \/ tgt' = running(drained(tgt, q), q)
      BY <3>1, <3>2, <3>3
    <3>4. CASE tgt' = [tgt EXCEPT ![q].stopped = FALSE, ![q].step = TRUE]
      BY <3>4 DEF Targets
    <3>5. QED
      BY <1>4, <3>3, <3>4
  <2>2. QED
    BY <1>2, <2>1
<1>5. ASSUME NEW q \in Procs, tgt[q].queue # <<>>,
             tgt' = [tgt EXCEPT ![q].queue = Tail(tgt[q].queue)]
      PROVE  Calm
  <2>1. /\ \A p \in Procs : tgt'[p].owner = tgt[p].owner
        /\ tgt'[q].queue = Tail(tgt[q].queue)
        /\ \A p \in Procs \ {q} : tgt'[p].queue = tgt[p].queue
    BY <1>5 DEF Targets
  <2> DEFINE u == tgt[q].queue
  <2>0. u \in Seq(Events) /\ u # <<>> /\ Tail(u) \in Seq(Events)
    <3>1. u \in Seq(Events) /\ u # <<>>
      BY <1>1, <1>5
    <3> HIDE DEF u
    <3>2. QED
      BY <3>1
  <2>2. /\ HitsIn(Tail(tgt[q].queue)) + (IF Head(tgt[q].queue) = "hit" THEN 1 ELSE 0)
               <= HitsIn(tgt[q].queue)
        /\ HitsIn(Tail(tgt[q].queue)) \in Nat
    BY <2>0, HitsTail, HitsType
  <2>3. HitsIn(Tail(tgt[q].queue)) <= HitsIn(tgt[q].queue)
    BY <1>1, <2>2
  <2>4. QED
    BY <1>1, <2>1, <2>3 DEF Calm
<1>6. ASSUME NEW q \in Procs, NEW o \in Owners, tgt' = attachedBy(tgt, q, o) PROVE Calm
  <2>1. /\ tgt'[q].queue = <<"attach">>
        /\ \A p \in Procs \ {q} : tgt'[p] = tgt[p]
    BY <1>6 DEF attachedBy, Targets
  <2>2. QED
    BY <1>2, <2>1
<1>7. ASSUME NEW P, tgt' = closed(P) PROVE Calm
  <2>1. \A p \in Procs : tgt'[p].queue = <<>> \/ tgt'[p] = tgt[p]
    BY <1>1, <1>7 DEF closed
  <2>2. QED
    BY <1>2, <2>1
<1>8. ASSUME NEW P, NEW pending, NEW F, tgt' = quiesced(P, pending, F) PROVE Calm
  <2>1. \A p \in Procs : tgt'[p].queue = <<>> \/ tgt'[p] = tgt[p]
    BY <1>1, <1>8 DEF quiesced
  <2>2. QED
    BY <1>2, <2>1
<1>9. QED
  BY <1>3, <1>4, <1>5, <1>6, <1>7, <1>8 DEF KernelCall

KeepsCount(k) == ses'[k].hits = ses[k].hits /\ ses'[k].seen = ses[k].seen

\* Worker k goes on, records a hit, or is done.
GoesUncounted(k) ==
    /\ Calm /\ KeepsCount(k)
    /\ wk[k].pc \in After => wk'[k].pc \in After
Records(k) ==
    /\ ses'[k].hits = ses[k].hits + 1 /\ ses'[k].seen = ses[k].seen
    /\ \E p \in Procs : /\ tgt[p].queue # <<>> /\ Head(tgt[p].queue) = "hit"
                        /\ tgt' = [tgt EXCEPT ![p].queue = Tail(tgt[p].queue)]
    /\ wk[k].pc = "events"
    /\ ~ses[k].ring /\ ses[k].max > 0 /\ ses[k].hits + 1 >= ses[k].max => wk'[k].pc = "quiesce"
IsDone(k) ==
    /\ tgt' = tgt
    /\ \/ wk[k].pc = "finish" /\ ~ses'[k].active /\ ses'[k].hits = 0 /\ ses'[k].seen = 0
       \/ wk[k].pc = "exit" /\ ses' = ses
Counts(k) == GoesUncounted(k) \/ Records(k) \/ IsDone(k)

\* What the workers write of their session besides the hits.
SessionWrite(k) ==
    \/ ses' = ses
    \/ ses' = [ses EXCEPT ![k].err = TRUE]
    \/ ses' = [ses EXCEPT ![k].everArmed = TRUE, ![k].err = FALSE]

\* A step outside the clean-up that records nothing.
LEMMA StepCounts ==
    ASSUME WorkerTypes, NEW k \in Kinds, KernelCall, SessionWrite(k),
           wk[k].pc \notin After \/ wk'[k].pc \in After
    PROVE  Counts(k)
<1>1. Calm
  BY CallsAreCalm DEF WorkerTypes
<1>2. KeepsCount(k)
  BY DEF SessionWrite, KeepsCount, WorkerTypes, CountingSessions, Session
<1>3. QED
  BY <1>1, <1>2 DEF Counts, GoesUncounted
\* The loop and the step over a breakpoint.
LEMMA LoopCounts ==
    ASSUME WorkerTypes, NEW k \in Kinds,
           LoopStop(k) \/ Expire(k) \/ LoopWait(k) \/ LoopContinue(k) \/ StepOver(k) \/ Rollback(k)
    PROVE  Counts(k)
<1>1. wk[k].at \in Procs
  BY DEF WorkerTypes, Workers
<1>2. PICK p \in Procs : p = wk[k].at
  BY <1>1
<1>3. CASE LoopStop(k) \/ Expire(k) \/ LoopWait(k) \/ Rollback(k)
  <2>1. wk[k].pc \in {"loop", "rollback"} /\ tgt' = tgt
    BY <1>3 DEF LoopStop, Expire, LoopWait, Rollback, At, kernelVars
  <2>2. SessionWrite(k)
    BY <1>3 DEF LoopStop, Expire, LoopWait, Rollback, Fail, SessionWrite
  <2>3. QED
    BY <2>1, <2>2, StepCounts DEF KernelCall, After
<1>4. CASE LoopContinue(k)
  <2>1. wk[k].pc = "continue"
    BY <1>4 DEF LoopContinue, At
  <2>2. SessionWrite(k) /\ (tgt' = tgt \/ tgt' = running(tgt, p))
    BY <1>2, <1>4 DEF LoopContinue, Fail, SessionWrite
  <2>3. QED
    BY <2>1, <2>2, StepCounts DEF KernelCall, After
<1>5. CASE StepBegin(k)
  <2>1. wk[k].pc = "step"
    BY <1>5 DEF StepBegin, At
  <2>2. /\ SessionWrite(k)
        /\ tgt' = tgt \/ tgt' = [tgt EXCEPT ![p].stopped = FALSE, ![p].step = TRUE]
    BY <1>2, <1>5 DEF StepBegin, Fail, SessionWrite
  <2>3. QED
    BY <2>1, <2>2, StepCounts DEF KernelCall, After
<1>6. CASE StepWait(k)
  <2>1. wk[k].pc = "stepWait" /\ SessionWrite(k)
    BY <1>6 DEF StepWait, At, SessionWrite
  <2>2. \/ tgt' = tgt \/ tgt' = quiesced({p}, {}, {})
        \/ tgt[p].queue # <<>> /\ tgt' = [tgt EXCEPT ![p].queue = Tail(tgt[p].queue)]
    BY <1>2, <1>6 DEF StepWait
  <2>3. QED
    BY <2>1, <2>2, StepCounts DEF KernelCall, After
<1>7. CASE Rearm(k)
  <2>1. wk[k].pc = "rearm" /\ SessionWrite(k) /\ tgt' = tgt
    BY <1>7 DEF Rearm, At, SessionWrite
  <2>2. QED
    BY <2>1, StepCounts DEF KernelCall, After
<1>8. QED
  BY <1>3, <1>4, <1>5, <1>6, <1>7 DEF StepOver

\* The clean-up.
LEMMA CleanupCounts ==
    ASSUME WorkerTypes, NEW k \in Kinds,
           \/ \E counts \in BOOLEAN : Quiesce(k, counts)
           \/ \E pc, R : \E next \in {"clearData", "close"} : Clear(k, pc, R, next)
           \/ CloseHandles(k)
    PROVE  Counts(k)
<1>1. ses' = ses
  BY DEF Quiesce, Clear, CloseHandles
<1>2. wk'[k].pc \in After
  <2>1. CASE \E counts \in BOOLEAN : Quiesce(k, counts)
    <3>1. PICK b : wk' = [wk EXCEPT ![k].pc = "clear", ![k].bad = b]
      BY <2>1 DEF Quiesce
    <3>2. QED
      BY <3>1 DEF WorkerTypes, Workers, After
  <2>2. CASE \E pc, R : \E next \in {"clearData", "close"} : Clear(k, pc, R, next)
    <3>1. PICK next \in {"clearData", "close"} :
             wk' = [wk EXCEPT ![k].pc = next] \/ wk' = [wk EXCEPT ![k].pc = next, ![k].bad = TRUE]
      BY <2>2 DEF Clear, Goto
    <3>2. QED
      BY <3>1 DEF WorkerTypes, Workers, After
  <2>3. CASE CloseHandles(k)
    BY <2>3 DEF CloseHandles, Goto, WorkerTypes, Workers, After
  <2>4. QED
    BY <2>1, <2>2, <2>3
<1>3. KernelCall
  BY ZenonT(40) DEF Quiesce, Clear, CloseHandles, KernelCall
<1>4. QED
  BY <1>1, <1>2, <1>3, StepCounts DEF SessionWrite

\* The last locked section and the end of the thread.
LEMMA EndCounts ==
    ASSUME WorkerTypes, NEW k \in Kinds, Finish(k) \/ ThreadExit(k) PROVE Counts(k)
<1>1. CASE Finish(k)
  <2>1. wk[k].pc = "finish" /\ tgt' = tgt
    BY <1>1 DEF Finish, At, kernelVars
  <2>2. ~ses'[k].active /\ ses'[k].hits = 0 /\ ses'[k].seen = 0
    BY <1>1 DEF Finish, WorkerTypes, CountingSessions, Session
  <2>3. QED
    BY <2>1, <2>2 DEF Counts, IsDone
<1>2. CASE ThreadExit(k)
  BY <1>2 DEF ThreadExit, At, kernelVars, Counts, IsDone
<1>3. QED
  BY <1>1, <1>2

\* An event is read: only a hit that is recorded counts, and the last one ends the loop.
LEMMA EventCounts ==
    ASSUME WorkerTypes, NEW k \in Kinds, NEW p \in Procs, wk[k].pc = "events",
           \/ tgt' = tgt /\ ses' = ses
           \/ /\ tgt[p].queue # <<>> /\ tgt' = [tgt EXCEPT ![p].queue = Tail(tgt[p].queue)]
              /\ \/ SessionWrite(k)
                 \/ /\ Head(tgt[p].queue) = "hit"
                    /\ ses' = [ses EXCEPT ![k].hits = ses[k].hits + 1]
                    /\ ~ses[k].ring /\ ses[k].max > 0 /\ ses[k].hits + 1 >= ses[k].max
                          => wk'[k].pc = "quiesce"
    PROVE  Counts(k)
<1>1. CASE tgt' = tgt /\ ses' = ses
  BY <1>1, StepCounts DEF KernelCall, SessionWrite, After
<1>2. CASE /\ tgt[p].queue # <<>> /\ tgt' = [tgt EXCEPT ![p].queue = Tail(tgt[p].queue)]
           /\ SessionWrite(k)
  BY <1>2, StepCounts DEF KernelCall, After
<1>3. CASE /\ tgt[p].queue # <<>> /\ tgt' = [tgt EXCEPT ![p].queue = Tail(tgt[p].queue)]
           /\ Head(tgt[p].queue) = "hit"
           /\ ses' = [ses EXCEPT ![k].hits = ses[k].hits + 1]
           /\ ~ses[k].ring /\ ses[k].max > 0 /\ ses[k].hits + 1 >= ses[k].max
                 => wk'[k].pc = "quiesce"
  <2>1. ses'[k].hits = ses[k].hits + 1 /\ ses'[k].seen = ses[k].seen
    BY <1>3 DEF WorkerTypes, CountingSessions, Session
  <2>2. QED
    BY <1>3, <2>1 DEF Counts, Records
<1>4. QED
  BY <1>1, <1>2, <1>3
-----------------------------------------------------------------------------
(* The three workers.                                                      *)

\* Every step of the watch worker.
LEMMA watchCounts ==
    ASSUME WorkerTypes, watchNext PROVE Counts("watch")
<1>1. "watch" \in Kinds /\ "app" \in Procs /\ "watch" \in Owners
  BY DEF Kinds, Procs, Owners
<1>2. CASE watchAttach \/ watchDrain \/ watchArmContext \/ watchArmData \/ watchResume
  <2>1. wk["watch"].pc \notin After
    BY <1>2 DEF watchAttach, watchDrain, watchArmContext, watchArmData, watchResume, At, After
  <2>2. SessionWrite("watch")
    BY <1>2 DEF watchAttach, watchDrain, watchArmContext, watchArmData, watchResume, Fail,
       SessionWrite
  <2>3. \/ tgt' = tgt \/ tgt' = attachedBy(tgt, "app", "watch")
        \/ tgt' = drained(tgt, "app") \/ tgt' = running(tgt, "app")
    BY <1>2 DEF watchAttach, watchDrain, watchArmContext, watchArmData, watchResume
  <2>4. QED
    BY <1>1, <2>1, <2>2, <2>3, StepCounts DEF KernelCall
<1>3. CASE watchEvent
  <2>1. wk["watch"].pc = "events"
    BY <1>3 DEF watchEvent, At
  <2>2. CASE /\ ses' = [ses EXCEPT !["watch"].hits = ses["watch"].hits + 1]
             /\ tgt["app"].queue # <<>> /\ Head(tgt["app"].queue) = "hit"
             /\ tgt' = [tgt EXCEPT !["app"].queue = Tail(tgt["app"].queue)]
             /\ wk' = [wk EXCEPT !["watch"].pending = {"app"},
                                 !["watch"].pc = IF watchLimitReached(ses["watch"].hits + 1)
                                                 THEN "quiesce" ELSE "events"]
    <3>1. wk'["watch"].pc = IF watchLimitReached(ses["watch"].hits + 1) THEN "quiesce" ELSE "events"
      BY <1>1, <2>2 DEF WorkerTypes, Workers
    <3>2. QED
      BY <1>1, <2>1, <2>2, <3>1, EventCounts DEF watchLimitReached
  <2>3. CASE \/ tgt' = tgt /\ ses' = ses
             \/ /\ tgt["app"].queue # <<>>
                /\ tgt' = [tgt EXCEPT !["app"].queue = Tail(tgt["app"].queue)]
                /\ SessionWrite("watch")
    BY <1>1, <2>1, <2>3, EventCounts
  <2>4. QED
    BY <1>3, <2>2, <2>3 DEF watchEvent, SessionWrite
<1>4. CASE watchLoop \/ Rollback("watch")
  BY <1>1, <1>3, <1>4, LoopCounts DEF watchLoop
<1>5. CASE watchCleanup
  <2>1. TRUE \in BOOLEAN /\ "clearData" \in {"clearData", "close"} /\ "close" \in {"clearData", "close"}
    OBVIOUS
  <2>2. QED
    BY <1>1, <1>5, <2>1, CleanupCounts, EndCounts DEF watchCleanup
<1>6. QED
  BY <1>1, <1>2, <1>4, <1>5, EndCounts DEF watchNext

\* Every step of the trace worker.
LEMMA traceCounts ==
    ASSUME WorkerTypes, Traced, traceNext PROVE Counts("trace")
<1>1. "trace" \in Kinds /\ "trace" \in Owners
  BY DEF Kinds, Owners
<1>2. CASE traceDetach \/ traceAttach \/ traceDrain \/ traceArm \/ traceResume
  <2>1. wk["trace"].pc \notin After /\ wk["trace"].pc \in Live
    BY <1>2 DEF traceDetach, traceAttach, traceDrain, traceArm, traceResume, At, After, Live, WorkerPcs
  <2>2. SessionWrite("trace")
    BY <1>2 DEF traceDetach, traceAttach, traceDrain, traceArm, traceResume, Fail, SessionWrite
  <2>3. PICK p \in Procs : p = traced
    BY <2>1 DEF Traced
  <2>4. \/ tgt' = tgt \/ tgt' = dmntClosed \/ tgt' = attachedBy(tgt, p, "trace")
        \/ tgt' = drained(tgt, p) \/ tgt' = running(tgt, p)
    BY <1>2, <2>3 DEF traceDetach, traceAttach, traceDrain, traceArm, traceResume
  <2>5. QED
    BY <1>1, <2>1, <2>2, <2>4, StepCounts DEF KernelCall
<1>3. CASE traceEvent
  <2>1. wk["trace"].pc = "events"
    BY <1>3 DEF traceEvent, At
  <2>2. PICK p \in Procs : p = traced
    BY <2>1 DEF Traced, Live, WorkerPcs
  <2>3. CASE /\ ses' = [ses EXCEPT !["trace"].hits = ses["trace"].hits + 1]
             /\ tgt[p].queue # <<>> /\ Head(tgt[p].queue) = "hit"
             /\ tgt' = [tgt EXCEPT ![p].queue = Tail(tgt[p].queue)]
             /\ wk' = [wk EXCEPT !["trace"].pending = {p},
                                 !["trace"].pc = IF traceLimitReached("trace", ses["trace"].hits + 1)
                                                 THEN "quiesce" ELSE "step"]
    <3>1. wk'["trace"].pc = IF traceLimitReached("trace", ses["trace"].hits + 1)
                            THEN "quiesce" ELSE "step"
      BY <1>1, <2>3 DEF WorkerTypes, Workers
    <3>2. ses["trace"].max > 0 /\ ses["trace"].hits + 1 >= ses["trace"].max
             => wk'["trace"].pc = "quiesce"
      BY <3>1 DEF traceLimitReached
    <3>3. QED
      BY <1>1, <2>1, <2>3, <3>2, EventCounts
  <2>4. CASE \/ tgt' = tgt /\ ses' = ses
             \/ /\ tgt[p].queue # <<>>
                /\ tgt' = [tgt EXCEPT ![p].queue = Tail(tgt[p].queue)]
                /\ SessionWrite("trace")
    BY <1>1, <2>1, <2>4, EventCounts
  <2>5. QED
    BY <1>3, <2>2, <2>3, <2>4 DEF traceEvent, SessionWrite
<1>4. CASE traceLoop \/ Rollback("trace") \/ StepOver("trace")
  BY <1>1, <1>3, <1>4, LoopCounts DEF traceLoop
<1>5. CASE traceCleanup
  <2>1. FALSE \in BOOLEAN /\ "close" \in {"clearData", "close"}
    OBVIOUS
  <2>2. QED
    BY <1>1, <1>5, <2>1, CleanupCounts, EndCounts DEF traceCleanup
<1>6. QED
  BY <1>1, <1>2, <1>4, <1>5, EndCounts DEF traceNext

\* Every step of the multitrace worker.
LEMMA multiCounts ==
    ASSUME WorkerTypes, multiNext PROVE Counts("multi")
<1>1. "multi" \in Kinds /\ "multi" \in Owners
  BY DEF Kinds, Owners
<1>2. CASE multiDetach \/ multiAttach \/ multiDrain \/ multiArm \/ multiResume
  <2>1. wk["multi"].pc \notin After
    BY <1>2 DEF multiDetach, multiAttach, multiDrain, multiArm, multiResume, At, After
  <2>2. SessionWrite("multi")
    BY <1>2 DEF multiDetach, multiAttach, multiDrain, multiArm, multiResume, Fail, SessionWrite
  <2>3. \/ tgt' = tgt \/ tgt' = dmntClosed
        \/ \E p \in Procs : \/ tgt' = attachedBy(tgt, p, "multi")
                            \/ tgt' = drained(tgt, p) \/ tgt' = running(tgt, p)
    <3>1. /\ wk["multi"].at \in Procs
          /\ nextOf(wk["multi"].attached) \in Procs /\ nextOf(wk["multi"].resumed) \in Procs
      BY <1>1, NextOfType DEF WorkerTypes, Workers
    <3>2. QED
      BY <1>2, <3>1 DEF multiDetach, multiAttach, multiDrain, multiArm, multiResume
  <2>4. QED
    BY <1>1, <2>1, <2>2, <2>3, StepCounts DEF KernelCall
<1>3. CASE multiEvent
  <2>1. wk["multi"].pc = "events" /\ wk["multi"].at \in Procs
    BY <1>1, <1>3 DEF multiEvent, At, WorkerTypes, Workers
  <2>2. PICK p \in Procs : p = wk["multi"].at
    BY <2>1
  <2>3. CASE /\ ses' = [ses EXCEPT !["multi"].hits = ses["multi"].hits + 1]
             /\ tgt[p].queue # <<>> /\ Head(tgt[p].queue) = "hit"
             /\ tgt' = [tgt EXCEPT ![p].queue = Tail(tgt[p].queue)]
             /\ wk' = [wk EXCEPT !["multi"].pending = wk["multi"].pending \cup {p},
                                 !["multi"].pc = IF traceLimitReached("multi", ses["multi"].hits + 1)
                                                 THEN "quiesce" ELSE "step"]
    <3>1. wk'["multi"].pc = IF traceLimitReached("multi", ses["multi"].hits + 1)
                            THEN "quiesce" ELSE "step"
      BY <1>1, <2>3 DEF WorkerTypes, Workers
    <3>2. ses["multi"].max > 0 /\ ses["multi"].hits + 1 >= ses["multi"].max
             => wk'["multi"].pc = "quiesce"
      BY <3>1 DEF traceLimitReached
    <3>3. QED
      BY <1>1, <2>1, <2>3, <3>2, EventCounts
  <2>4. CASE \/ tgt' = tgt /\ ses' = ses
             \/ /\ tgt[p].queue # <<>>
                /\ tgt' = [tgt EXCEPT ![p].queue = Tail(tgt[p].queue)]
                /\ SessionWrite("multi")
    BY <1>1, <2>1, <2>4, EventCounts
  <2>5. QED
    BY <1>3, <2>2, <2>3, <2>4 DEF multiEvent, SessionWrite
<1>4. CASE multiLoop \/ Rollback("multi") \/ StepOver("multi")
  BY <1>1, <1>3, <1>4, LoopCounts DEF multiLoop
<1>5. CASE multiCleanup
  <2>1. TRUE \in BOOLEAN /\ "close" \in {"clearData", "close"}
    OBVIOUS
  <2>2. QED
    BY <1>1, <1>5, <2>1, CleanupCounts, EndCounts DEF multiCleanup
<1>6. QED
  BY <1>1, <1>2, <1>4, <1>5, EndCounts DEF multiNext
-----------------------------------------------------------------------------
(* The invariant.                                                          *)

Pending == HitsIn(tgt["app"].queue) + HitsIn(tgt["sys"].queue)

\* Hits are queued for the process of a session only.
Owned == \A p \in Procs : HitsIn(tgt[p].queue) = 0 \/ tgt[p].owner \in Kinds

\* A session has seen the hits it has counted and those that are queued for it.
Counted(k) == ses[k].hits + (IF ses[k].active THEN Pending ELSE 0) <= ses[k].seen

\* A session that has counted as many hits as it was asked for is on its way out.
Limited(k) ==
    ses[k].active /\ ~ses[k].ring
    => /\ ses[k].max > 0
       /\ \/ ses[k].hits < ses[k].max
          \/ ses[k].hits = ses[k].max /\ wk[k].pc \in After

LimitInv == Owned /\ \A k \in Kinds : Counted(k) /\ Limited(k)

\* The types of what is counted.
LEMMA QueueTypes ==
    ASSUME NEW t \in Targets, NEW p \in Procs
    PROVE  t[p].queue \in Seq(Events) /\ HitsIn(t[p].queue) \in Nat
<1>1. t[p].queue \in Seq(Events)
  BY DEF Targets, Events
<1>2. QED
  BY <1>1, HitsType

\* The same for the counters of a session.
LEMMA CounterTypes ==
    ASSUME NEW s \in CountingSessions, NEW k \in Kinds
    PROVE  /\ s[k].hits \in Nat /\ s[k].seen \in Nat /\ s[k].seen <= MaxHits /\ s[k].max \in Nat
           /\ s[k].ring \in BOOLEAN /\ s[k].active \in BOOLEAN
  BY KernelAssumption DEF CountingSessions, Session

\* After a calm step no more hits are queued than before, and still only for sessions.
LEMMA CalmStep ==
    ASSUME tgt \in Targets, tgt' \in Targets, Owned, Calm
    PROVE  Owned' /\ Pending' <= Pending /\ Pending \in Nat /\ Pending' \in Nat
<1>1. /\ \A p \in Procs : HitsIn(tgt[p].queue) \in Nat /\ HitsIn(tgt'[p].queue) \in Nat
      /\ "app" \in Procs /\ "sys" \in Procs
  BY QueueTypes DEF Procs
<1>2. \A p \in Procs : /\ HitsIn(tgt'[p].queue) <= HitsIn(tgt[p].queue)
                       /\ HitsIn(tgt'[p].queue) = 0 \/ tgt'[p].owner \in Kinds
  BY <1>1 DEF Calm, Owned
<1>3. QED
  BY <1>1, <1>2 DEF Owned, Pending

\* A hit that is queued belongs to the one session that is active.
LEMMA PendingIsOwned ==
    ASSUME SessionInv, Owned
    PROVE  /\ \A p \in Procs, k \in Kinds :
                 ses[k].active /\ HitsIn(tgt[p].queue) # 0 => tgt[p].owner = k
           /\ (\A k \in Kinds : ~ses[k].active) => Pending = 0
<1>1. ASSUME NEW p \in Procs, HitsIn(tgt[p].queue) # 0
      PROVE  tgt[p].owner \in Kinds /\ ses[tgt[p].owner].active
  <2>1. PICK j \in Kinds : j = tgt[p].owner
    BY <1>1 DEF Owned
  <2>2. p \in wk[j].attached /\ wk[j].pc \notin {"finish", "exit"} /\ wk[j].pc \in WorkerPcs
    BY <2>1 DEF SessionInv, HandlesMatch, WorkerTypes, Workers
  <2>3. wk[j].pc # "off"
    BY <2>2 DEF SessionInv, HandlesMatch
  <2>4. QED
    BY <2>1, <2>2, <2>3 DEF SessionInv, Activity, Live
<1>2. "app" \in Procs /\ "sys" \in Procs
  BY DEF Procs
<1>3. QED
  BY <1>1, <1>2 DEF Pending, SessionInv, OneSession

\* A step of a worker.
LEMMA WorkerCounted ==
    ASSUME SessionInv, SessionInv', LimitInv, NEW k \in Kinds, Footprint(k), Counts(k)
    PROVE  LimitInv'
<1>1. /\ tgt \in Targets /\ tgt' \in Targets /\ ses \in CountingSessions /\ ses' \in CountingSessions
      /\ Owned
  BY DEF SessionInv, WorkerTypes, LimitInv
<1>2. /\ \A j \in Kinds \ {k} : ses'[j] = ses[j] /\ wk'[j] = wk[j]
      /\ Control(k)
  BY DEF Footprint, Alone
<1>3. ASSUME Owned', Pending' <= Pending, Pending \in Nat, Pending' \in Nat, Counted(k)', Limited(k)'
      PROVE  LimitInv'
  <2>1. ASSUME NEW j \in Kinds \ {k} PROVE Counted(j)' /\ Limited(j)'
    BY <1>1, <1>2, <1>3, CounterTypes DEF LimitInv, Counted, Limited
  <2>2. QED
    BY <1>3, <2>1 DEF LimitInv
<1>4. CASE GoesUncounted(k)
  <2>1. Owned' /\ Pending' <= Pending /\ Pending \in Nat /\ Pending' \in Nat
    BY <1>1, <1>4, CalmStep DEF GoesUncounted
  <2>2. /\ ses'[k].active => ses[k].active
        /\ ses'[k].active => ses'[k].max = ses[k].max /\ ses'[k].ring = ses[k].ring
    BY <1>2 DEF Control
  <2>3. Counted(k)'
    BY <1>1, <1>4, <2>1, <2>2, CounterTypes DEF GoesUncounted, KeepsCount, LimitInv, Counted
  <2>4. Limited(k)'
    BY <1>1, <1>4, <2>2, CounterTypes DEF GoesUncounted, KeepsCount, LimitInv, Limited
  <2>5. QED
    BY <1>3, <2>1, <2>3, <2>4
<1>5. CASE Records(k)
  <2>1. PICK p \in Procs : /\ tgt[p].queue # <<>> /\ Head(tgt[p].queue) = "hit"
                           /\ tgt' = [tgt EXCEPT ![p].queue = Tail(tgt[p].queue)]
    BY <1>5 DEF Records
  <2>2. Calm
    BY <1>1, <2>1, CallsAreCalm DEF KernelCall
  <2>3. Owned' /\ Pending' <= Pending /\ Pending \in Nat /\ Pending' \in Nat
    BY <1>1, <2>2, CalmStep
  <2>4. wk[k].pc = "events" /\ ses[k].active
    BY <1>5 DEF Records, SessionInv, Activity, Live, WorkerPcs
  <2>5. ses'[k].active /\ ses'[k].max = ses[k].max /\ ses'[k].ring = ses[k].ring
    BY <1>2, <2>4 DEF Control
  <2>6. Pending' + 1 <= Pending
    <3>1. \A q \in Procs : /\ HitsIn(tgt[q].queue) \in Nat /\ HitsIn(tgt'[q].queue) \in Nat
                           /\ tgt[q].queue \in Seq(Events)
      BY <1>1, QueueTypes
    <3>2. /\ tgt'[p].queue = Tail(tgt[p].queue)
          /\ \A q \in Procs \ {p} : tgt'[q].queue = tgt[q].queue
      BY <1>1, <2>1 DEF Targets
    <3>3. HitsIn(tgt'[p].queue) + 1 <= HitsIn(tgt[p].queue)
      BY <2>1, <3>1, <3>2, HitsTail
    <3>4. Procs = {"app", "sys"} /\ "app" # "sys"
      BY DEF Procs
    <3>5. QED
      BY <3>1, <3>2, <3>3, <3>4 DEF Pending
  <2>7. Counted(k)'
    BY <1>1, <1>5, <2>3, <2>4, <2>5, <2>6, CounterTypes DEF Records, LimitInv, Counted
  <2>8. Limited(k)'
    BY <1>1, <1>5, <2>4, <2>5, CounterTypes DEF Records, LimitInv, Limited, After
  <2>9. QED
    BY <1>3, <2>3, <2>7, <2>8
<1>6. CASE IsDone(k)
  <2>1. KernelCall
    BY <1>6 DEF IsDone, KernelCall
  <2>2. Owned' /\ Pending' <= Pending /\ Pending \in Nat /\ Pending' \in Nat
    BY <1>1, <2>1, CallsAreCalm, CalmStep
  <2>3. CASE wk[k].pc = "finish" /\ ~ses'[k].active /\ ses'[k].hits = 0 /\ ses'[k].seen = 0
    BY <1>3, <2>2, <2>3 DEF Counted, Limited
  <2>4. CASE wk[k].pc = "exit" /\ ses' = ses
    <3>1. ~ses[k].active
      BY <2>4 DEF SessionInv, Activity, Live
    <3>2. QED
      BY <1>1, <1>3, <2>2, <2>4, <3>1, CounterTypes DEF LimitInv, Counted, Limited
  <2>5. QED
    BY <1>6, <2>3, <2>4 DEF IsDone
<1>7. QED
  BY <1>4, <1>5, <1>6 DEF Counts
-----------------------------------------------------------------------------
(* The steps outside the workers.                                          *)

\* A step that neither queues nor counts a hit and starts no session.
Quiet ==
    /\ Calm
    /\ \A k \in Kinds : /\ KeepsCount(k) /\ wk'[k] = wk[k]
                        /\ ses'[k].active => ses[k].active
                        /\ ses'[k].max = ses[k].max /\ ses'[k].ring = ses[k].ring

\* Such a step keeps the invariant.
LEMMA QuietStep ==
    ASSUME SessionInv, SessionInv', LimitInv, Quiet PROVE LimitInv'
<1>1. /\ tgt \in Targets /\ tgt' \in Targets /\ ses \in CountingSessions /\ ses' \in CountingSessions
      /\ Owned
  BY DEF SessionInv, WorkerTypes, LimitInv
<1>2. Owned' /\ Pending' <= Pending /\ Pending \in Nat /\ Pending' \in Nat
  BY <1>1, CalmStep DEF Quiet
<1>3. ASSUME NEW k \in Kinds PROVE Counted(k)' /\ Limited(k)'
  <2>1. /\ ses'[k].hits = ses[k].hits /\ ses'[k].seen = ses[k].seen /\ wk'[k] = wk[k]
        /\ ses'[k].active => ses[k].active
        /\ ses'[k].max = ses[k].max /\ ses'[k].ring = ses[k].ring
    BY DEF Quiet, KeepsCount
  <2>2. QED
    BY <1>1, <1>2, <2>1, CounterTypes DEF LimitInv, Counted, Limited
<1>4. QED
  BY <1>2, <1>3 DEF LimitInv

\* A step that leaves the sessions and the workers alone and only asks the kernel.
LEMMA CallIsQuiet ==
    ASSUME SessionInv, KernelCall, ses' = ses, wk' = wk PROVE Quiet
<1>1. Calm
  BY CallsAreCalm DEF SessionInv, WorkerTypes
<1>2. QED
  BY <1>1 DEF Quiet, KeepsCount

\* The end of a single step and the exit of a process.
LEMMA EventsAreQuiet ==
    ASSUME SessionInv, NEW p \in Procs, StepDone(p) \/ Exit(p) PROVE Quiet
<1>1. tgt \in Targets /\ ses' = ses /\ wk' = wk
  BY DEF StepDone, Exit, SessionInv, WorkerTypes
<1>2. \A q \in Procs : tgt[q].queue \in Seq(Events) /\ HitsIn(tgt[q].queue) \in Nat
  BY <1>1, QueueTypes
<1>3. /\ HitsIn(Append(tgt[p].queue, "step")) = HitsIn(tgt[p].queue)
      /\ HitsIn(Append(tgt[p].queue, "exit")) = HitsIn(tgt[p].queue)
  BY <1>2, HitsAppend DEF Events
<1>4. \A q \in Procs \ {p} : tgt'[q] = tgt[q]
  BY <1>1 DEF StepDone, Exit, Targets
<1>5. CASE StepDone(p)
  <2>1. tgt'[p].queue = Append(tgt[p].queue, "step") /\ tgt'[p].owner = tgt[p].owner
    BY <1>1, <1>5 DEF StepDone, Targets
  <2>2. Calm
    <3>1. HitsIn(tgt'[p].queue) = HitsIn(tgt[p].queue) /\ tgt'[p].owner = tgt[p].owner
      BY <1>3, <2>1, Zenon
    <3>2. QED
      BY <1>2, <1>4, <3>1 DEF Calm
  <2>3. QED
    BY <1>1, <2>2 DEF Quiet, KeepsCount
<1>6. CASE Exit(p)
  <2>1. \/ tgt'[p].queue = <<>>
        \/ tgt'[p].queue = Append(tgt[p].queue, "exit") /\ tgt'[p].owner = tgt[p].owner
    BY <1>1, <1>6 DEF Exit, Targets
  <2>2. Calm
    <3>1. \/ HitsIn(tgt'[p].queue) = 0
          \/ HitsIn(tgt'[p].queue) = HitsIn(tgt[p].queue) /\ tgt'[p].owner = tgt[p].owner
      BY <1>3, <2>1, HitsType, Zenon
    <3>2. QED
      BY <1>2, <1>4, <3>1 DEF Calm
  <2>3. QED
    BY <1>1, <2>2 DEF Quiet, KeepsCount
<1>7. QED
  BY <1>5, <1>6

\* The memory sessions and the cheat service.
LEMMA MemoryIsQuiet ==
    ASSUME SessionInv, \/ Wander \/ DmntAttach \/ ForceClose \/ processMemoryWrite \/ memSteps
                       \/ \E policy \in Policies : openLocked(policy)
    PROVE  Quiet
<1>1. /\ tgt \in Targets /\ "app" \in Procs /\ "mem" \in Owners
  BY DEF SessionInv, WorkerTypes, Procs, Owners
<1>2. ses' = ses /\ wk' = wk
  BY DEF Wander, DmntAttach, ForceClose, processMemoryWrite, memSteps, openLocked, openDmnt,
     forceOpen, openDirect, processMemoryClose, MemFrame
<1>3. CASE attachable("app") /\ tgt' = [tgt EXCEPT !["app"].owner = "dmnt"]
  <2>1. \A p \in Procs : /\ tgt'[p].queue = tgt[p].queue
                         /\ tgt'[p].owner = tgt[p].owner \/ tgt[p].owner = "none"
    BY <1>1, <1>3 DEF attachable, Targets
  <2>2. \A p \in Procs : HitsIn(tgt[p].queue) \in Nat
    BY <1>1, QueueTypes
  <2>3. Calm
    BY <2>1, <2>2 DEF Calm, Kinds
  <2>4. QED
    BY <1>2, <2>3 DEF Quiet, KeepsCount
<1>4. CASE \/ tgt' = tgt \/ tgt' = dmntClosed \/ tgt' = attachedBy(tgt, "app", "mem")
           \/ tgt' = closed({"app"})
  BY <1>1, <1>2, <1>4, CallIsQuiet DEF KernelCall
<1>5. QED
  BY <1>3, <1>4 DEF Wander, DmntAttach, ForceClose, processMemoryWrite, memSteps, openLocked, openDmnt,
     forceOpen, openDirect, processMemoryClose, MemFrame

\* The commands that hold a handle themselves.
LEMMA JobsAreQuiet ==
    ASSUME SessionInv, jobSteps \/ \E job, p, check, skip : BeginJob(job, p, check, skip)
    PROVE  Quiet
<1>1. tgt \in Targets /\ main.p \in Procs /\ "app" \in Procs /\ "main" \in Owners
  BY DEF SessionInv, WorkerTypes, MainTypes, Mains, Procs, Owners
<1>2. ses' = ses /\ wk' = wk
  BY DEF BeginJob, jobSteps, debugProcessOpen, debugProcessAttach, debugProcessDrain, debugProcessPause,
     debugProcessResume, debugProcessClose, setContexts, clearContexts, pauseProcess,
     inspectThreads, verifyBytes, writePatch, readBack, patchResume, MainFrame
<1>3. CASE debugProcessDrain
  <2>1. \A p \in Procs : tgt'[p] = tgt[p] \/ tgt'[p].queue = <<>>
    BY <1>1, <1>3 DEF debugProcessDrain, Targets
  <2>2. \A p \in Procs : HitsIn(tgt[p].queue) \in Nat
    BY <1>1, QueueTypes
  <2>3. Calm
    BY <2>1, <2>2, HitsType DEF Calm
  <2>4. QED
    BY <1>2, <2>3 DEF Quiet, KeepsCount
<1>4. ASSUME NEW p \in Procs, \/ tgt' = tgt \/ tgt' = dmntClosed \/ tgt' = attachedBy(tgt, p, "main")
                              \/ tgt' = quiesced({p}, {}, {}) \/ tgt' = closed(main.held)
                              \/ tgt' = running(tgt, p) \/ tgt' = drained(tgt, p)
                              \/ tgt' = running(drained(tgt, p), p)
      PROVE  Quiet
  BY <1>1, <1>2, <1>4, CallIsQuiet DEF KernelCall
<1>5. CASE \/ setContexts \/ clearContexts \/ inspectThreads \/ verifyBytes \/ writePatch \/ readBack
           \/ \E job, p, check, skip : BeginJob(job, p, check, skip)
  BY <1>1, <1>4, <1>5 DEF setContexts, clearContexts, inspectThreads, verifyBytes, writePatch, readBack,
     BeginJob, kernelVars
<1>6. CASE debugProcessOpen \/ debugProcessAttach \/ debugProcessPause \/ debugProcessClose
  BY <1>1, <1>4, <1>6 DEF debugProcessOpen, debugProcessAttach, debugProcessPause, debugProcessClose
<1>7. CASE debugProcessResume \/ pauseProcess \/ patchResume
  BY <1>1, <1>4, <1>7, Zenon DEF debugProcessResume, pauseProcess, patchResume
<1>8. QED
  BY <1>3, <1>5, <1>6, <1>7 DEF jobSteps
\* The commands that start and stop sessions, but for the start of the thread.
LEMMA CommandsAreQuiet ==
    ASSUME SessionInv,
           \/ ReapThread \/ JoinThread \/ AwaitArmed
           \/ \E k \in Kinds : StartSession(k) \/ StopSession(k)
    PROVE  Quiet
<1>1. ses \in CountingSessions /\ main.k \in Kinds
  BY DEF SessionInv, WorkerTypes, MainTypes, Mains
<1>2. wk' = wk /\ (tgt' = tgt \/ tgt' = dmntClosed)
  BY Zenon DEF ReapThread, JoinThread, AwaitArmed, StartSession, StopSession, closesDmnt, kernelVars
<1>3. Calm
  BY <1>2, CallsAreCalm, SMTT(30) DEF KernelCall, SessionInv, WorkerTypes
<1>4. PICK k \in Kinds :
         \/ ses' = ses \/ ses' = [ses EXCEPT ![k].err = TRUE]
         \/ ses' = [ses EXCEPT ![k].threadStarted = FALSE] \/ ses' = [ses EXCEPT ![k].stop = TRUE]
         \/ ses' = [ses EXCEPT ![k].threadStarted = FALSE, ![k].active = FALSE, ![k].stop = FALSE]
  BY <1>1, Zenon DEF ReapThread, JoinThread, AwaitArmed, StartSession, StopSession
<1>5. \A j \in Kinds : /\ ses'[j].hits = ses[j].hits /\ ses'[j].seen = ses[j].seen
                       /\ ses'[j].max = ses[j].max /\ ses'[j].ring = ses[j].ring
                       /\ ses'[j].active => ses[j].active
  BY <1>1, <1>4 DEF CountingSessions, Session
<1>6. QED
  BY <1>2, <1>3, <1>5 DEF Quiet, KeepsCount

\* A breakpoint is hit: the session sees as many hits as are queued.
LEMMA HitCounted ==
    ASSUME SessionInv, SessionInv', LimitInv, NEW p \in Procs, Hit(p) PROVE LimitInv'
<1>1. /\ tgt \in Targets /\ tgt' \in Targets /\ ses \in CountingSessions /\ ses' \in CountingSessions
      /\ Owned /\ wk' = wk
  BY DEF SessionInv, WorkerTypes, LimitInv, Hit
<1>2. PICK k \in Kinds, n \in 1 .. 2 :
         /\ k = tgt[p].owner
         /\ ses' = [ses EXCEPT ![k].seen = ses[k].seen + n]
         /\ tgt' = [tgt EXCEPT ![p].stopped = TRUE,
                               ![p].queue = tgt[p].queue \o [i \in 1 .. n |-> "hit"]]
  BY DEF Hit
<1>3. \A q \in Procs : /\ HitsIn(tgt[q].queue) \in Nat /\ HitsIn(tgt'[q].queue) \in Nat
                       /\ tgt[q].queue \in Seq(Events)
  BY <1>1, QueueTypes
<1>4. HitsIn(tgt[p].queue \o [i \in 1 .. n |-> "hit"]) = HitsIn(tgt[p].queue) + n
  BY <1>3, HitsMore
<1>5. /\ tgt'[p].queue = tgt[p].queue \o [i \in 1 .. n |-> "hit"]
      /\ \A q \in Procs : tgt'[q].owner = tgt[q].owner
      /\ \A q \in Procs \ {p} : tgt'[q].queue = tgt[q].queue
  BY <1>1, <1>2 DEF Targets
<1>6. HitsIn(tgt'[p].queue) = HitsIn(tgt[p].queue) + n
  BY <1>4, <1>5, Zenon
<1>7. Procs = {"app", "sys"} /\ "app" # "sys"
  BY DEF Procs
<1>8. Pending' = Pending + n /\ Pending \in Nat
  <2>1. \A q \in Procs \ {p} : HitsIn(tgt'[q].queue) = HitsIn(tgt[q].queue)
    BY <1>5
  <2>2. CASE p = "app"
    BY <1>3, <1>6, <1>7, <2>1, <2>2 DEF Pending
  <2>3. CASE p = "sys"
    BY <1>3, <1>6, <1>7, <2>1, <2>3 DEF Pending
  <2>4. QED
    BY <1>7, <2>2, <2>3
<1>9. Owned'
  BY <1>2, <1>5 DEF Owned, LimitInv
<1>10. /\ ses'[k].seen = ses[k].seen + n
       /\ \A j \in Kinds : /\ ses'[j].hits = ses[j].hits /\ ses'[j].active = ses[j].active
                           /\ ses'[j].max = ses[j].max /\ ses'[j].ring = ses[j].ring
       /\ \A j \in Kinds \ {k} : ses'[j].seen = ses[j].seen
  BY <1>1, <1>2 DEF CountingSessions, Session
<1>11. ses[k].active
  <2>1. p \in wk[k].attached /\ wk[k].pc \notin {"finish", "exit"} /\ wk[k].pc \in WorkerPcs
    BY <1>2 DEF SessionInv, HandlesMatch, WorkerTypes, Workers
  <2>2. wk[k].pc # "off"
    BY <2>1 DEF SessionInv, HandlesMatch
  <2>3. QED
    BY <2>1, <2>2 DEF SessionInv, Activity, Live
<1>12. ASSUME NEW j \in Kinds PROVE Counted(j)' /\ Limited(j)'
  <2>1. Limited(j)'
    BY <1>1, <1>10 DEF LimitInv, Limited
  <2>2. CASE j = k
    BY <1>1, <1>8, <1>10, <1>11, <2>1, <2>2, CounterTypes DEF LimitInv, Counted
  <2>3. CASE j # k
    <3>1. ~ses[j].active
      BY <1>11, <2>3 DEF SessionInv, OneSession
    <3>2. QED
      BY <1>1, <1>10, <2>1, <2>3, <3>1, CounterTypes DEF LimitInv, Counted
  <2>4. QED
    BY <2>2, <2>3
<1>13. QED
  BY <1>9, <1>12 DEF LimitInv

\* A session starts with nothing counted, nothing seen and nothing queued.
LEMMA CreateCounted ==
    ASSUME SessionInv, SessionInv', LimitInv, CreateThread PROVE LimitInv'
<1>1. /\ ses \in CountingSessions /\ wk \in Workers /\ main.k \in Kinds /\ tgt' = tgt /\ tgt \in Targets
      /\ ses' \in CountingSessions
  BY DEF CreateThread, SessionInv, WorkerTypes, MainTypes, Mains
<1>2. PICK k \in Kinds : k = main.k
  BY <1>1
<1>3. CASE ses' = [ses EXCEPT ![k].err = TRUE] /\ wk' = wk
  <2>1. Calm
    BY <1>1, CallsAreCalm DEF KernelCall
  <2>2. \A j \in Kinds : /\ ses'[j].hits = ses[j].hits /\ ses'[j].seen = ses[j].seen
                         /\ ses'[j].max = ses[j].max /\ ses'[j].ring = ses[j].ring
                         /\ ses'[j].active => ses[j].active
    BY <1>1, <1>3 DEF CountingSessions, Session
  <2>3. QED
    BY <1>3, <2>1, <2>2, QuietStep DEF Quiet, KeepsCount
<1>4. ASSUME NEW a \in Arguments(k),
             ses' = [ses EXCEPT ![k] = begun(a)], wk' = [wk EXCEPT ![k] = started(k)]
      PROVE  LimitInv'
  <2>1. /\ ses'[k] = begun(a)
        /\ \A j \in Kinds \ {k} : ses'[j] = ses[j] /\ wk'[j] = wk[j]
    BY <1>1, <1>4 DEF CountingSessions, Workers
  <2>2. \A j \in Kinds : ~ses[j].active
    BY DEF CreateThread, MainAt, SessionInv, Activity
  <2>3. Owned /\ Owned' /\ Pending' = Pending /\ Pending = 0
    BY <1>1, <2>2, PendingIsOwned DEF LimitInv, Owned, Pending
  <2>4. ses'[k].hits = 0 /\ ses'[k].seen = 0 /\ (~ses'[k].ring => ses'[k].max = 1)
    BY <2>1, ArgumentFacts DEF begun, noSession
  <2>5. Counted(k)' /\ Limited(k)'
    BY <2>3, <2>4 DEF Counted, Limited
  <2>6. \A j \in Kinds \ {k} : Counted(j)' /\ Limited(j)'
    BY <1>1, <2>1, <2>2, CounterTypes DEF LimitInv, Counted, Limited
  <2>7. QED
    BY <2>3, <2>5, <2>6 DEF LimitInv
<1>5. QED
  BY <1>2, <1>3, <1>4 DEF CreateThread, begun, started
-----------------------------------------------------------------------------
(* The specification.                                                      *)

\* Every step keeps the invariant.
LEMMA LimitStep ==
    ASSUME SessionInv, SessionInv', LimitInv, [Next]_vars PROVE LimitInv'
<1>1. "watch" \in Kinds /\ "trace" \in Kinds /\ "multi" \in Kinds
  BY DEF Kinds
<1>2. CASE UNCHANGED vars
  <2>1. ses' = ses /\ wk' = wk /\ KernelCall
    BY <1>2 DEF vars, KernelCall
  <2>2. QED
    BY <2>1, CallIsQuiet, QuietStep
<1>3. CASE Commands
  <2>1. CASE ForceClose \/ \E job, p, check, skip : BeginJob(job, p, check, skip)
    BY <2>1, MemoryIsQuiet, JobsAreQuiet, QuietStep
  <2>2. CASE \E k \in Kinds : StartSession(k) \/ StopSession(k)
    BY <2>2, CommandsAreQuiet, QuietStep
  <2>3. QED
    BY <1>1, <1>3, <2>1, <2>2 DEF Commands, debugWatchStart, debugTraceStart, debugMultiTraceStart,
       debugWatchStop, debugTraceStop, debugMultiTraceStop
<1>4. CASE Environment
  BY <1>4, HitCounted, EventsAreQuiet, MemoryIsQuiet, QuietStep DEF Environment
<1>5. CASE \/ DmntAttach \/ processMemoryWrite \/ memSteps
           \/ \E policy \in Policies : openLocked(policy)
  BY <1>5, MemoryIsQuiet, QuietStep
<1>6. CASE mainSteps
  BY <1>6, CommandsAreQuiet, JobsAreQuiet, QuietStep, CreateCounted
     DEF mainSteps, watchThreadStart, traceThreadStart, multiThreadStart, watchAwait, traceAwait,
     multiAwait
<1>7. CASE watchNext \/ traceNext \/ multiNext \/ \E k \in Kinds : Expire(k)
  <2>1. WorkerTypes /\ Traced
    BY TargetExists DEF SessionInv
  <2>2. PICK k \in Kinds : Footprint(k) /\ Counts(k)
    BY <1>1, <1>7, <2>1, watchStep, traceStep, multiStep, LoopEndStep, watchCounts, traceCounts,
       multiCounts, LoopCounts
  <2>3. QED
    BY <2>2, WorkerCounted
<1>8. QED
  BY <1>2, <1>3, <1>4, <1>5, <1>6, <1>7 DEF Next

\* The budgets of the model.
Budgets == faults \in 0 .. MaxFaults /\ requests \in 0 .. MaxRequests

\* Every call that fails uses up one of the faults.
LEMMA FaultStep ==
    ASSUME [Next]_vars PROVE faults' = faults \/ Fault
<1>1. /\ "watch" \in Kinds /\ "trace" \in Kinds /\ "multi" \in Kinds
      /\ TRUE \in BOOLEAN /\ FALSE \in BOOLEAN
  BY DEF Kinds
<1>2. CASE UNCHANGED vars
  BY <1>2 DEF vars
<1>3. CASE Commands
  BY <1>3, ZenonT(40) DEF Commands, debugWatchStart, debugTraceStart, debugMultiTraceStart,
     debugWatchStop, debugTraceStop, debugMultiTraceStop, StartSession, StopSession, ForceClose,
     BeginJob, kernelVars
<1>4. CASE Environment \/ DmntAttach \/ processMemoryWrite
  BY <1>4, Zenon DEF Environment, Hit, StepDone, Exit, Wander, DmntAttach, processMemoryWrite
<1>5. CASE memSteps \/ \E policy \in Policies : openLocked(policy)
  BY <1>5 DEF memSteps, openLocked, openDmnt, forceOpen, openDirect, processMemoryClose, NoFault
<1>6. CASE jobSteps
  BY <1>6 DEF jobSteps, debugProcessOpen, debugProcessAttach, debugProcessDrain, debugProcessPause,
     debugProcessResume, debugProcessClose, setContexts, clearContexts, pauseProcess,
     inspectThreads, verifyBytes, writePatch, readBack, patchResume, NoFault
<1>7. CASE ReapThread \/ JoinThread \/ CreateThread \/ AwaitArmed
  BY <1>7 DEF ReapThread, JoinThread, CreateThread, AwaitArmed, kernelVars, NoFault
<1>8. CASE \E k \in Kinds : \/ Expire(k) \/ LoopStop(k) \/ LoopWait(k) \/ LoopContinue(k)
                            \/ StepOver(k) \/ Rollback(k) \/ CloseHandles(k) \/ Finish(k) \/ ThreadExit(k)
  <2>1. PICK k \in Kinds : \/ Expire(k) \/ LoopStop(k) \/ LoopWait(k) \/ LoopContinue(k)
                           \/ StepOver(k) \/ Rollback(k) \/ CloseHandles(k) \/ Finish(k) \/ ThreadExit(k)
    BY <1>8
  <2>2. CASE \/ Expire(k) \/ LoopStop(k) \/ LoopWait(k) \/ LoopContinue(k)
             \/ Rollback(k) \/ CloseHandles(k) \/ Finish(k) \/ ThreadExit(k)
    BY <2>2 DEF Expire, LoopStop, LoopWait, LoopContinue, Rollback, CloseHandles, Finish, ThreadExit,
       kernelVars, NoFault
  <2>3. CASE StepBegin(k) \/ StepWait(k)
    BY <2>3 DEF StepBegin, StepWait, NoFault
  <2>4. CASE Rearm(k)
    BY <2>4 DEF Rearm, WriteBatch, NoFault
  <2>5. QED
    BY <2>1, <2>2, <2>3, <2>4 DEF StepOver
<1>9. CASE \/ \E k \in Kinds, counts \in BOOLEAN : Quiesce(k, counts)
           \/ \E k, pc, R, next : Clear(k, pc, R, next)
  BY <1>9 DEF Quiesce, Clear, NoFault
<1>10. CASE \/ watchAttach \/ watchDrain \/ watchArmContext \/ watchArmData \/ watchResume
            \/ watchEvent
  BY <1>10 DEF watchAttach, watchDrain, watchArmContext, watchArmData, watchResume, watchEvent, WriteBatch,
     NoFault
<1>11. CASE \/ traceDetach \/ traceAttach \/ traceDrain \/ traceArm \/ traceResume \/ traceEvent
  BY <1>11, ZenonT(40) DEF traceDetach, traceAttach, traceDrain, traceArm, traceResume, traceEvent, WriteBatch,
     NoFault
<1>12. CASE \/ multiDetach \/ multiAttach \/ multiDrain \/ multiArm \/ multiResume \/ multiEvent
  BY <1>12, Zenon DEF multiDetach, multiAttach, multiDrain, multiArm, multiResume, multiEvent, WriteBatch,
     NoFault
<1>13. CASE watchNext
  BY <1>1, <1>8, <1>9, <1>10, <1>13 DEF watchNext, watchLoop, watchCleanup
<1>14. CASE traceNext
  BY <1>1, <1>8, <1>9, <1>11, <1>14 DEF traceNext, traceLoop, traceCleanup
<1>15. CASE multiNext
  BY <1>1, <1>8, <1>9, <1>12, <1>15 DEF multiNext, multiLoop, multiCleanup
<1>16. CASE mainSteps
  BY <1>6, <1>7, <1>16 DEF mainSteps, watchThreadStart, traceThreadStart, multiThreadStart,
     watchAwait, traceAwait, multiAwait
<1>17. QED
  BY <1>2, <1>3, <1>4, <1>5, <1>8, <1>13, <1>14, <1>15, <1>16 DEF Next

\* The inductive invariant of the hit counters and of the model's budgets.
THEOREM LimitInvHolds == SafeSpec => [](LimitInv /\ Budgets)
<1>1. Init => LimitInv /\ Budgets
  <2> SUFFICES ASSUME Init PROVE LimitInv /\ Budgets
    OBVIOUS
  <2>1. /\ \A p \in Procs : tgt[p].queue = <<>>
        /\ \A k \in Kinds : ses[k] = noSession
        /\ faults = MaxFaults /\ requests = MaxRequests
    BY DEF Init, KernelInit
  <2>2. "app" \in Procs /\ "sys" \in Procs
    BY DEF Procs
  <2>3. Owned
    BY <2>1, HitsType DEF Owned
  <2>4. \A k \in Kinds : Counted(k) /\ Limited(k)
    BY <2>1 DEF Counted, Limited, noSession
  <2>5. QED
    BY <2>1, <2>3, <2>4, KernelAssumption, SessionAssumption DEF LimitInv, Budgets
<1>2. SessionInv /\ SessionInv' /\ LimitInv /\ [Next]_vars => LimitInv'
  BY LimitStep
<1>3. Budgets /\ [Next]_vars => Budgets'
  <2> SUFFICES ASSUME Budgets, [Next]_vars PROVE Budgets'
    OBVIOUS
  <2>1. faults' \in 0 .. MaxFaults
    BY FaultStep, KernelAssumption DEF Budgets, Fault
  <2>2. requests' \in 0 .. MaxRequests
    BY SessionAssumption DEF Budgets, Next, vars
  <2>3. QED
    BY <2>1, <2>2 DEF Budgets
<1>4. QED
  BY <1>1, <1>2, <1>3, SessionInvHolds, PTL DEF SafeSpec

(* All counters stay in range, and a session with a limit and no ring never records more hits than *)
(* it was asked for, also when two threads of both processes run into the breakpoints at once      *)
(* (hitLimitReached in debug_watch.c, debug_trace.c and debug_multitrace.c).                        *)
THEOREM HitLimitKeptHolds == SafeSpec => []HitLimitKept
<1>1. SessionInv /\ LimitInv /\ Budgets => HitLimitKept
  <2> SUFFICES ASSUME SessionInv, LimitInv, Budgets PROVE HitLimitKept
    OBVIOUS
  <2>1. ses \in CountingSessions /\ tgt \in Targets
    BY DEF SessionInv, WorkerTypes
  <2>2. Pending \in Nat
    <3>1. "app" \in Procs /\ "sys" \in Procs
      BY DEF Procs
    <3>2. HitsIn(tgt["app"].queue) \in Nat /\ HitsIn(tgt["sys"].queue) \in Nat
      BY <2>1, <3>1, QueueTypes
    <3>3. QED
      BY <3>2 DEF Pending
  <2>3. \A k \in Kinds : ses[k].hits \in 0 .. MaxHits
    BY <2>1, <2>2, CounterTypes, KernelAssumption DEF LimitInv, Counted
  <2>4. ses \in Sessions
    BY <2>1, <2>3 DEF CountingSessions, Session, Sessions
  <2>5. TypeOK
    BY <2>4 DEF TypeOK, SessionInv, WorkerTypes, MainTypes, RegisterFiles, Budgets
  <2>6. \A k \in Kinds : ses[k].active /\ ~ses[k].ring => ses[k].hits <= ses[k].max
    BY <2>1, CounterTypes DEF LimitInv, Limited
  <2>7. QED
    BY <2>5, <2>6 DEF HitLimitKept
<1>2. QED
  BY <1>1, SessionInvHolds, LimitInvHolds, PTL
=============================================================================
