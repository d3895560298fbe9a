----------------------------- MODULE FtpServer -----------------------------
(***************************************************************************)
(* The lifecycle of the FTP server (ftp_server.c): the control commands    *)
(* ftpStart, ftpStop, ftpRestart and ftpReload leave wishes under          *)
(* manager.mutex, and one worker thread carries them out against the       *)
(* ftpsrv library.  Each locked section, each library call and the reading *)
(* of the configuration file is a step, so that a command can arrive       *)
(* between any two of them.                                                *)
(*                                                                         *)
(* Byte, transfer and error counters only feed ftpStatus and are left out, *)
(* as is ftpServerShutdown, which the endless main loop never reaches.     *)
(***************************************************************************)
EXTENDS Integers

CONSTANT FTP_LOOP_ERROR_LIMIT
ASSUME FtpAssumption == FTP_LOOP_ERROR_LIMIT \in Nat \ {0}

VARIABLES
    threadCreated,
    desiredRunning, restartRequested, reloadRequested, serverInitialized,
    state, listenerUp,   \* manager.status
    configOk,            \* status.configResult = FtpConfigOk
    file,                \* what ftp.ini says: enabled, disabled or invalid
    bound,               \* the library holds a listener
    w,                   \* the worker: pc and the locals of one pass
    asked, clean         \* history: the last accepted command; it came with none outstanding

wishes  == <<desiredRunning, restartRequested, reloadRequested>>
shown   == <<state, listenerUp, configOk>>
history == <<asked, clean>>
serverVars == <<threadCreated, wishes, serverInitialized, shown, file, bound, w, history>>

States  == {"unavailable", "stopped", "starting", "running", "stopping", "error"}
Files   == {"enabled", "disabled", "invalid"}
Pcs     == {"snapshot", "retire", "retireExit", "retireMark", "apply", "adopt", "decide",
            "stopExit", "stopMark", "bind", "bound", "unbound", "loop", "dropExit", "dropMark"}
Worker  == [pc : Pcs, desired : BOOLEAN, restart : BOOLEAN, reload : BOOLEAN,
            initialized : BOOLEAN, errors : 0 .. FTP_LOOP_ERROR_LIMIT]

\* loadConfig, given what the file says.
loaded(f) == [ok |-> f # "invalid", desired |-> f = "enabled",
              state |-> CASE f = "enabled"  -> "starting"
                          [] f = "disabled" -> "stopped"
                          [] f = "invalid"  -> "error"]

(***************************************************************************)
(* ftpServerInitialize: without storage, or without a thread, every        *)
(* command is refused for good.                                            *)
(***************************************************************************)
ServerInit ==
    /\ file \in Files
    /\ \/ /\ threadCreated = TRUE
          /\ configOk = loaded(file).ok
          /\ desiredRunning = loaded(file).desired
          /\ state = loaded(file).state
       \/ /\ threadCreated = FALSE            \* threadCreate or threadStart failed
          /\ configOk = loaded(file).ok
          /\ desiredRunning = FALSE
          /\ state = "error"
       \/ /\ threadCreated = FALSE            \* no SD card
          /\ configOk = FALSE
          /\ desiredRunning = FALSE
          /\ state = "unavailable"
    /\ restartRequested = FALSE /\ reloadRequested = FALSE
    /\ serverInitialized = FALSE /\ listenerUp = FALSE /\ bound = FALSE
    /\ w = [pc |-> "snapshot", desired |-> FALSE, restart |-> FALSE, reload |-> FALSE,
            initialized |-> FALSE, errors |-> 0]
    /\ asked = "none" /\ clean = TRUE

-----------------------------------------------------------------------------
(* The commands.                                                           *)

\* A restart or a reload has been accepted and not yet been turned into desiredRunning.
outstanding ==
    \/ restartRequested \/ reloadRequested
    \/ /\ w.pc \in {"retire", "retireExit", "retireMark", "apply"}
       /\ w.restart \/ w.reload

Accepted(name) == /\ asked' = name
                  /\ clean' = ~outstanding
                  /\ UNCHANGED <<threadCreated, serverInitialized, listenerUp, configOk, file,
                                 bound, w>>

ftpServerStart ==
    /\ threadCreated /\ configOk
    /\ desiredRunning' = TRUE
    /\ state' = "starting"
    /\ Accepted("start")
    /\ UNCHANGED <<restartRequested, reloadRequested>>

\* Mutated form of ftpServerStop: a server that is not up yet is taken to be stopped.
ftpServerStopIfUp ==
    /\ threadCreated
    /\ desiredRunning' = (desiredRunning /\ ~serverInitialized)
    /\ state' = IF serverInitialized THEN "stopping" ELSE "stopped"
    /\ Accepted("stop")
    /\ UNCHANGED <<restartRequested, reloadRequested>>

ftpServerStop ==
    /\ threadCreated
    /\ desiredRunning' = FALSE
    /\ state' = IF serverInitialized THEN "stopping" ELSE "stopped"
    /\ Accepted("stop")
    /\ UNCHANGED <<restartRequested, reloadRequested>>

\* One flag is set and the other cleared, whatever was pending.
ftpServerRestart(reloadConfig) ==
    /\ threadCreated
    /\ reloadConfig \/ configOk
    /\ restartRequested' = ~reloadConfig
    /\ reloadRequested' = reloadConfig
    /\ state' = "stopping"
    /\ Accepted(IF reloadConfig THEN "reload" ELSE "restart")
    /\ UNCHANGED desiredRunning

-----------------------------------------------------------------------------
(* The worker, one pass.                                                   *)

PassAt(pc) == threadCreated /\ w.pc = pc
Goto(pc)   == w' = [w EXCEPT !.pc = pc]
Frame      == UNCHANGED <<threadCreated, configOk, file, asked, clean>>

\* The locked section at the top of the loop.
Snapshot ==
    /\ PassAt("snapshot")
    /\ w' = [w EXCEPT !.desired = desiredRunning, !.restart = restartRequested,
                      !.reload = reloadRequested, !.initialized = serverInitialized,
                      !.pc = IF (restartRequested \/ reloadRequested) /\ serverInitialized
                             THEN "retire" ELSE "apply"]
    /\ restartRequested' = FALSE /\ reloadRequested' = FALSE
    /\ Frame /\ UNCHANGED <<desiredRunning, serverInitialized, state, listenerUp, bound>>

\* setState(FtpServerStopping) before a restart or reload.
Retire ==
    /\ PassAt("retire")
    /\ state' = "stopping"
    /\ Goto("retireExit")
    /\ Frame /\ UNCHANGED <<wishes, serverInitialized, listenerUp, bound>>

\* ftpsrv_exit, on each of its three ways.
LibraryExit ==
    /\ \/ PassAt("retireExit") /\ Goto("retireMark")
       \/ PassAt("stopExit")   /\ Goto("stopMark")
       \/ PassAt("dropExit")   /\ Goto("dropMark")
    /\ bound' = FALSE
    /\ Frame /\ UNCHANGED <<wishes, serverInitialized, state, listenerUp>>

\* Mutated form of RetireMark: the pass goes on with its old view of the server.
RetireMarkStale ==
    /\ PassAt("retireMark")
    /\ serverInitialized' = FALSE /\ listenerUp' = FALSE
    /\ w' = [w EXCEPT !.pc = "apply"]
    /\ Frame /\ UNCHANGED <<wishes, state, bound>>

RetireMark ==
    /\ PassAt("retireMark")
    /\ serverInitialized' = FALSE /\ listenerUp' = FALSE
    /\ w' = [w EXCEPT !.pc = "apply", !.initialized = FALSE]
    /\ Frame /\ UNCHANGED <<wishes, state, bound>>

\* reload: loadConfig.  restart: the server is wanted.  Otherwise nothing.
Apply ==
    /\ PassAt("apply")
    /\ \/ /\ w.reload
          /\ configOk' = loaded(file).ok
          /\ desiredRunning' = loaded(file).desired
          /\ state' = loaded(file).state
          /\ Goto("adopt")
       \/ /\ ~w.reload /\ w.restart
          /\ desiredRunning' = TRUE
          /\ w' = [w EXCEPT !.desired = TRUE, !.pc = "decide"]
          /\ UNCHANGED <<configOk, state>>
       \/ /\ ~w.reload /\ ~w.restart
          /\ Goto("decide")
          /\ UNCHANGED <<configOk, desiredRunning, state>>
    /\ UNCHANGED <<threadCreated, restartRequested, reloadRequested, serverInitialized,
                   listenerUp, file, bound, asked, clean>>

\* The reloaded wish is read back in a locked section of its own.
Adopt ==
    /\ PassAt("adopt")
    /\ w' = [w EXCEPT !.desired = desiredRunning, !.pc = "decide"]
    /\ Frame /\ UNCHANGED <<wishes, serverInitialized, state, listenerUp, bound>>

\* What the pass does with the server, with the setState that announces it.
Decide ==
    /\ PassAt("decide")
    /\ \/ /\ ~w.desired /\ w.initialized
          /\ state' = "stopping"
          /\ Goto("stopExit")
       \/ /\ w.desired /\ ~w.initialized
          /\ state' = "starting"
          /\ Goto("bind")
       \/ /\ w.desired = w.initialized
          /\ Goto(IF w.initialized THEN "loop" ELSE "snapshot")
          /\ UNCHANGED state
    /\ Frame /\ UNCHANGED <<wishes, serverInitialized, listenerUp, bound>>

StopMark ==
    /\ PassAt("stopMark")
    /\ serverInitialized' = FALSE /\ listenerUp' = FALSE /\ state' = "stopped"
    /\ w' = [w EXCEPT !.pc = "snapshot", !.initialized = FALSE]
    /\ Frame /\ UNCHANGED <<wishes, bound>>

\* ftpsrv_init; a failed one is followed by ftpsrv_exit.
BindSucceeds ==
    /\ PassAt("bind")
    /\ bound' = TRUE
    /\ Goto("bound")
    /\ Frame /\ UNCHANGED <<wishes, serverInitialized, state, listenerUp>>

BindFails ==
    /\ PassAt("bind")
    /\ Goto("unbound")
    /\ Frame /\ UNCHANGED <<wishes, serverInitialized, state, listenerUp, bound>>

MarkBound ==
    /\ PassAt("bound")
    /\ serverInitialized' = TRUE /\ listenerUp' = TRUE /\ state' = "running"
    /\ w' = [w EXCEPT !.pc = "loop", !.initialized = TRUE]
    /\ Frame /\ UNCHANGED <<wishes, bound>>

\* Mutated form of MarkUnbound: one failed bind ends the wish to run.
MarkUnboundGiveUp ==
    /\ PassAt("unbound")
    /\ listenerUp' = FALSE /\ state' = "error"
    /\ desiredRunning' = FALSE
    /\ Goto("snapshot")
    /\ Frame /\ UNCHANGED <<restartRequested, reloadRequested, serverInitialized, bound>>

MarkUnbound ==
    /\ PassAt("unbound")
    /\ listenerUp' = FALSE /\ state' = "error"
    /\ Goto("snapshot")
    /\ Frame /\ UNCHANGED <<wishes, serverInitialized, bound>>

\* ftpsrv_loop: a run of FTP_LOOP_ERROR_LIMIT errors drops the listener.
Loop ==
    /\ PassAt("loop")
    /\ \/ w' = [w EXCEPT !.errors = 0, !.pc = "snapshot"]
       \/ w' = IF w.errors + 1 >= FTP_LOOP_ERROR_LIMIT
               THEN [w EXCEPT !.errors = 0, !.pc = "dropExit"]
               ELSE [w EXCEPT !.errors = w.errors + 1, !.pc = "snapshot"]
    /\ Frame /\ UNCHANGED <<wishes, serverInitialized, state, listenerUp, bound>>

DropMark ==
    /\ PassAt("dropMark")
    /\ serverInitialized' = FALSE /\ listenerUp' = FALSE /\ state' = "error"
    /\ Goto("snapshot")
    /\ Frame /\ UNCHANGED <<wishes, bound>>

\* The user edits ftp.ini, over FTP or otherwise.
EditFile ==
    /\ file' \in Files \ {file}
    /\ UNCHANGED <<threadCreated, wishes, serverInitialized, shown, bound, w, history>>

-----------------------------------------------------------------------------
Commands == \/ ftpServerStart \/ ftpServerStop
            \/ \E reloadConfig \in BOOLEAN : ftpServerRestart(reloadConfig)

ftpWorker == \/ Snapshot \/ Retire \/ LibraryExit \/ RetireMark \/ Apply \/ Adopt \/ Decide
             \/ StopMark \/ BindSucceeds \/ BindFails \/ MarkBound \/ MarkUnbound
             \/ Loop \/ DropMark

ServerNext == Commands \/ ftpWorker \/ EditFile

ServerSpec == ServerInit /\ [][ServerNext]_serverVars

(***************************************************************************)
(* The worker is scheduled and the library returns; a network that comes   *)
(* up now and again lets a bind succeed.  Clients owe nothing.             *)
(***************************************************************************)
FairSpec == ServerSpec /\ WF_serverVars(ftpWorker) /\ SF_serverVars(BindSucceeds)

-----------------------------------------------------------------------------
ServerTypeOK ==
    /\ threadCreated \in BOOLEAN
    /\ desiredRunning \in BOOLEAN /\ restartRequested \in BOOLEAN
    /\ reloadRequested \in BOOLEAN /\ serverInitialized \in BOOLEAN
    /\ state \in States /\ listenerUp \in BOOLEAN /\ configOk \in BOOLEAN
    /\ file \in Files /\ bound \in BOOLEAN
    /\ w \in Worker
    /\ clean \in BOOLEAN

(***************************************************************************)
(* The worker's view, the manager's flags and the library agree where it   *)
(* matters: ftpsrv_init is called only without a listener, ftpsrv_loop     *)
(* only with one, and between two passes ftpStatus tells the truth about   *)
(* the listener, whichever way the last one was lost.                      *)
(***************************************************************************)
LibraryProtocol ==
    /\ w.pc = "bind" => ~bound
    /\ w.pc = "loop" => bound
    /\ w.pc = "snapshot" => (listenerUp <=> bound) /\ (serverInitialized <=> bound)

(***************************************************************************)
(* The inductive strengthening: at every point of a pass, what the local   *)
(* `initialized', serverInitialized, listenerUp and the library are.       *)
(***************************************************************************)
Agreement ==
    /\ w.pc \in {"snapshot", "apply", "adopt", "decide", "retire", "retireExit", "bind",
                 "unbound", "stopExit", "loop", "dropExit"} =>
           (listenerUp <=> bound) /\ (serverInitialized <=> bound)
    /\ w.pc \in {"apply", "adopt", "decide"} => (w.initialized <=> bound)
    /\ w.pc \in {"retire", "retireExit", "stopExit", "loop", "dropExit", "bound"} => bound
    /\ w.pc \in {"retireMark", "stopMark", "dropMark", "bind", "unbound"} => ~bound

ServerInv == ServerTypeOK /\ Agreement

(***************************************************************************)
(* An ftpStart that overtakes no restart or reload is carried out: the     *)
(* listener comes up, whatever binds and polls fail in between, unless     *)
(* another command follows.                                                *)
(***************************************************************************)
StartIsObeyed == (asked = "start" /\ clean) ~> (bound \/ asked # "start" \/ ~clean)

(***************************************************************************)
(* An ftpStop that overtakes no restart or reload is carried out, also     *)
(* when it arrives while the worker is binding or dropping the listener.   *)
(***************************************************************************)
StopIsObeyed == (asked = "stop" /\ clean) ~> (~bound \/ asked # "stop" \/ ~clean)
=============================================================================
