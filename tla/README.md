# A TLA+ model of sys-agent

sys-agent is a Nintendo Switch system module: one process that serves text commands over
TCP, reads and writes the memory of the running game, searches it, keeps values frozen,
plays controller input, debugs processes and runs an FTP server on the SD card. This
directory holds TLA+ modules that model its parts, TLC configurations that check them on
small instances, and theorems that TLAPS proves for every instance.

`PROJECT.json` is the machine-readable side of this text: the components, the runs, the
source lines behind every definition (`map`), the mutants that show each property can fail,
the hazards and the theorems.

Run a check with `tlc -config X.cfg MCmodule`, a proof with `tlapm XProofs.tla`.

## 1. Inventory

The module is one process with these threads: the main loop (command dispatcher), the search
worker, the freeze worker, three input workers (touch, key, click), up to four debug workers
(watch, trace, multitrace, wait), the FTP worker, the boot-unlock worker and the HTTP
worker. The main loop never ends, so the shutdown code behind it is unreachable.

| Component | Sources | State | Operations | Hard part |
|--|--|--|--|--|
| Unknown-value search | `unknown_search.c`, `search_compare.c` | session, status, cancel flag, three files | searchBegin, searchRefine*, searchCancel, searchClose, worker | interleaving with the game, cancellation, failing file operations, reboot |
| Candidate store | `search_store.c` | block file, index | add block, finish, abort, read, page, commit | three representations, paging arithmetic, commit protocol |
| Exact search | `search.c`, `search_match.c`, `search_range.c` | request, cursor, carry, results | searchStart*, worker, cancel | chunk boundaries, bounded results, address wrap |
| Freeze table | `freeze.c` | 255 slots with heap buffers | freeze, unFreeze, freezeClear | reuse of slots and buffers, the address 0 |
| Freeze worker, main loop | `main.c` | `freeze_thr_state`, `freezeMutex` | one write cycle; one round of commands | lock-free reads, lock order with the backend, liveness |
| Process-memory backend | `process_memory*.c`, `dmnt_client.c` | policy, ownership observation, `backendMutex` | open, read, write, query, pause, close | one debugger per process, dmnt or direct |
| FTP control | `ftp_server.c`, `ftp_config.c` | wishes, flags, shown state | ftpStart, ftpStop, ftpRestart, ftpReload, worker | commands that overtake each other |
| FTP files | `ftp_vfs_sd.c`, `ftp_path.c` | open files, split state | open, write, rename, delete | conversion at 4 GiB, guard of the search directory |
| Boot unlock | `boot_unlock*.c`, `screen_classify.c` | phase, arm file | arm, run, worker rounds | worker restart, arm file across reboots |
| Debug sessions | `debug_watch.c`, `debug_trace.c`, `debug_multitrace.c`, `debug_hwbp.c` | session state, ring | start, stop, worker | exclusivity, detach on every path |
| Debug wait, inspection, patch | `debug_wait.c`, `debug_process.c`, `patch_code.c` | wait state | wait-title, patch | timeouts, resume on every path |
| Controller and input | `commands.c`, `sequence_*.c`, `main.c` | virtual pad, worker globals | click, touch, clickSequence, reconnect | unlocked globals, cancel tokens, expansion limits |
| HTTP worker | `network_http.c` | one job slot | submit, poll | slot reuse |
| Reboot | `hekate_*.c` | files on the SD card | reboot to payload | partial preparation |
| System commands | `system_commands.c` | none of its own | launch, rights, system queries | order of IPC calls |
| Client, deployment | `client/sysagent.py`, `deploy_sysagent.py` | connection | command, deploy | retries of commands that may have run |

How they meet: every command is dispatched under `freezeMutex`; every access to the game
goes through a session that holds `backendMutex` from open to close; the two search
managers have a mutex each and ask each other whether they are active; the FTP file layer
asks the search managers before it changes anything under the search directory; the three
debug sessions and `patch-code` ask each other and the memory backend asks them, each under
its own mutex; the main loop, the click, touch and key threads share the virtual controller
under `controllerMutex` and their jobs without any lock.

What makes each part correct, and which hazards it has, is listed under `hazards` in
`PROJECT.json`, at the source line where it bites and with the properties that cover it.

## 2. Modules

| Module | Models | Notes |
|--|--|--|
| `SearchDomain` | slots, values, `searchCompareUnsigned` | shared vocabulary |
| `SearchSession` | what a search session promises | abstract specification |
| `UnknownSearch` | `unknown_search.c` with the commit of `search_store.c` | implements `SearchSession` |
| `SearchRange` | `searchPlanMapping`, `alignUp`, memory queries | addresses wrap |
| `ExactScan` | `runSearch`, `searchExactBufferAligned`, `recordMatch` | |
| `SnapshotScan` | the chunk arithmetic of `runBegin` | bytes are represented by where they were read |
| `SearchStore` | the block file, its index and both readers | |
| `Enumeration` | a loop over numbers reports a set in ascending order | used by the two above |
| `FreezeMap` | what the freeze table promises | abstract specification |
| `FreezeTable` | `freeze.c` and its commands | implements `FreezeMap` |
| `FreezeWorker` | main loop, `sub_freeze`, search worker and the two mutexes | composes `FreezeTable` with the search states |
| `FtpServer` | `ftp_server.c`, the three outcomes of `ftp_config.c` | |
| `FtpFiles` | `ftp_vfs_sd.c`, the guard of `ftp_path.c` | composes uploads, conversion, renames and a search |
| `DebugKernel` | the kernel's debug interface (external), `debug_hwbp.c`, and what the three session files have in common | base of the next five |
| `DebugWatch`, `DebugTrace`, `DebugMultiTrace` | the worker threads of `debug_watch.c`, `debug_trace.c`, `debug_multitrace.c` | |
| `ProcessMemory` | `process_memory.c`, `process_memory_select.c`, `dmnt_client.c` | |
| `PatchCode` | `patch_code.c`, `debug_process.c`, `debug_hwbp_layout.c` | |
| `DebugSession` | the debug commands of `main.c` and the start and stop functions | composes the six modules above |
| `BootUnlock` | `boot_unlock.c`, `boot_unlock_config.c`, the verdicts of `screen_classify.c`, the reboot commands | |
| `Controller` | the virtual pad of `commands.c`, as functions on its state | everything under `controllerMutex` |
| `InputWorkers` | `sub_click`, `sub_touch`, `sub_key`, their commands and the two services of the main loop | composes `Controller` with the four threads |
| `UnknownSearchProofs`, `SnapshotScanProofs`, `DebugSessionProofs`, `BootUnlockProofs`, `InputWorkersProofs` | theorems about the module of that name | |
| `SearchProofs` | theorems about `ExactScan` and `SearchStore` | |
| `FtpProofs` | theorems about `FtpServer` and `FtpFiles` | |
| `FreezeWorkerProofs` | theorems about `FreezeWorker` and the `FreezeTable` in it | |
| `MC*` | the instances TLC runs | |

**UnknownSearch.** `status`, `cancelRequested`, `pinned`, ... are the fields of
`unknownManager`; `files` is the directory with `session.dat`, `session.tmp` and
`session.old`; `w` is the worker (program counter and the locals of `runBegin` and
`runRefine`); `cmd` is a command between its two locked sections. A block of the scan is
one slot. Every call that can fail has a failing branch. `Restart` is a power cycle at any
point: the directory is cleared, or storage stays unavailable for that boot. `GameWrite`,
`ProcessExit` and `ProcessLaunch` are the console.

**FreezeWorker.** A lock-free read is a step of its own; a locked section is one step
unless it waits for the other mutex inside. A scan is reduced to the backend sessions it
opens: one per chunk, or one for the whole operation with `pause=1`.

**FtpServer.** One pass of `ftpWorker` is cut at every locked section and library call.
`bound` is the truth about the listener, `serverInitialized`, `listenerUp` and the local
`initialized` are what the code believes.

**FtpFiles.** `card` maps every path to what the console sees there: nothing, a file, an
empty directory, a directory with a part `00` but without the archive bit (`stranded`), a
concatenation file (`big`), one whose parts a truncation took (`hollow`), and one converted
twice, before and after its archive bit (`nest`, `nested`). `ses` is `FtpVfsFile` with its
`FtpVfsState`, `cmd` the command that is between two of its calls, `conv` the conversion that is
under way. A command asks `mutationAllowed` in one step (`Begin`) and makes each call in a step
of its own, each of which may fail; `at` is the number of searches that had begun when it asked.
The FTP core is one thread, so only power loss and a search come between the calls of a command
or of a conversion. `spared` remembers that an open failed to delete a concatenation file and
went on. Sizes count writes of one allocation unit, contents are the sequence of chunks. Left
out: the tail that pre-allocation adds until the close, offsets set by `REST` for a download or
an append, a part `00` that fails to open for the check at the ceiling, a full state table.

**DebugSession.** `tgt` is each process as the kernel sees it (alive, who holds its one debug
handle, stopped, event queue), `regs` the breakpoint registers in use per core, `ses` the
manager state of each kind (`watchState`, `traceState`, `multiState`), `wk` the locals of its
thread, `main` the dispatcher inside a debug command (waiting for a thread, or running a
patch or an inspection), `mem` another thread's memory session, `dmntSeen` the remembered
ownership, `code` the bytes under `patch-code`. A call that may fail has a branch that uses
up one of `MaxFaults`; the attach of a memory session, and the query of its metadata after
whose failure the handle is closed at once, fail as one. A hit is one or two threads at a breakpoint at once. Left out:
captured registers and snapshots, addresses, a process that is launched again, and memory
writes while no patch runs. `patch-code` is modelled for the application.

**BootUnlock.** `sd` is the ini file and the arm file, `bu` the manager, `w` the worker's
place and counters, `main` the dispatcher between the two halves of a command, `con` the
console: power, lock screen, display, game. Configuration files are their outcome; an image
is its verdict, or none when a capture fails. The application query of a round may fail and is
then taken for "none" (`w.blind`). `threadClose` on a thread that has not ended is
the outcome `con.power = "crashed"`.

**Controller, InputWorkers.** The functions of `commands.c` that run under `controllerMutex`
map the state `s` (device, held buttons, remembered addresses, yield flag, links of the real
controllers) to the next one, with the calls that fail as an argument. The link of a controller
says how it was lost: `taken` while the list has its address, `unlisted` when a full list had no
room for it or dropped it, `lost` when its address was never read or it was given up.
`main.letGo` says that the last input command was a `clickSeq` that was refused after it had
taken the device down under a held button. The threads hand over
jobs through plain globals, so each read and write of one is a step. Delays are left out;
the time since the last input passes by the step `Quiet`. The address list is filtered by
rank (`keeping`) rather than by recursion, which the proofs need. Left out: Joy-Con rails, stick
values, finger positions, `controllerIdleReleaseMs = 0`, the grammar of sequences.

## 3. Runs

All runs pass:

| Run | Shows | Bounds |
|--|--|--|
| `UnknownSearch` | `TypeOK`, `BaselineNeverLost`, `PausedScanIsOneInstant`, `ImplementsSession`, `OperationEnds` | 2 slots, 2 values; 1 process and 1 session per boot; 1 refinement |
| `ExactScan` | `ResultsAreExact`, `SearchEnds` | addresses 0..15, chunk 3, 2 results, patterns of 1..4 bytes over 2 byte values, four layouts |
| `SnapshotScan` | `SlotsAreExact`, `BuffersSuffice`, `AlignedValuesAreRead` | addresses 0..31, chunk 8, widths 1, 2, 4, alignments 1..8 |
| `SearchStore` | `PagesTile`, `BlocksRoundTrip` | 3 blocks of up to 3 slots |
| `FreezeTable` | `ImplementsFreezeMap` | 3 slots, 4 addresses, 2 values |
| `FreezeWorker` | `FreezeYieldsToSearch`, `OneSearchAtATime`, `PauseHolds`, `MainLoopResponds`, `FreezesResume` | 1 slot, 1 line a round, 2 chunks |
| `FtpServer` | `LibraryProtocol`, `StartIsObeyed`, `StopIsObeyed` | none but the source's own limit of 3 |
| `FtpFiles` | `UploadIsKept`, `GivingUpPutsBack`, `NeverNested`, `SearchIsGuarded` | 2 sessions, 2 names (1 in the search directory), limit 1 unit, uploads of 2; 2 failing calls, 1 power loss, 4 commands |
| `DebugSession` | `OneSession`, `HandleIsOwned`, `StopIsCurrent`, `HitLimitKept`, `PatchIsGuarded` | 2 processes, 2 cores, 2 hits a session, 2 requests |
| `DebugFaults` | `CleanOrReported`, `CommandsReturn`, `TargetsRun` | the same with 1 request and 1 failing call, with fairness |
| `BootUnlock` | `GivesUpWithCause`, `NoPressIntoGame`, `RunsEnd` | 2 wake attempts, 4 rounds, bursts of 3; 2 misbehaviours, 2 events |
| `InputWorkers` | `TakenIsRemembered`, `HeldIsKept`, `TakenComesBack`, `InputReturns` | 2 controllers, a list of 2, 4 retries; 2 commands, failures or layout changes |

The type invariants of `FtpFiles`, `DebugSession`, `BootUnlock` and `InputWorkers` are a conjunct
of `NeverNested`, `HitLimitKept`, `GivesUpWithCause` and (by `Remembers`) `TakenIsRemembered`; those of
`FreezeWorker` and `FtpServer` are proved as part of their `Invariance`.

Why the bounds suffice. *UnknownSearch*: one slot already scanned and one to come is what
a cancellation, failure or game write in the middle of a scan needs; one refinement is
one pass of the commit protocol with a baseline to lose; a process that exited
fails every check a replaced one fails, and a second process and session come with the next
boot; the theorems hold for every value. *ExactScan*: the patterns are
shorter than, equal to and longer than a chunk, so the carry is empty, partial and whole;
more matches than results occur. *SnapshotScan*: the chunk is a multiple of the width, as
in the source, and alignments lie on both sides of it. *SearchStore*: width 4 with three
slots reaches all three representations. *FreezeTable*: one address more than slots, so the
table fills and refuses. *FreezeWorker*: one line a round lets every command meet every point of the two workers, and
two chunks make a scan release the backend in its middle; the safety theorems hold for every
bound. *FtpFiles*: the second chunk of an upload is the one that converts; two failures are a
failing step and a failing undo, two conversions with one each, or a failing deletion and a
failure while its file is converted again; four commands open, upload, interfere (a search
counts as one) and upload again after the power loss. *DebugSession*: two requests are a session
and whatever meets it (another session, a stop, a patch, a memory session, dmnt); two hits
reach and pass the limit of one. *DebugFaults*: each call of a request fails in turn; one
request keeps the temporal checks small. *BootUnlock*: the shortest schedule that opens both
lock screens; two misbehaviours are enough to exhaust it, or to ask blindly and lose a press,
and two events are a game and a request during a run, or a request and what follows; shorter
bursts are left to the theorem. *InputWorkers*: two controllers fill the list, and a press or a
sequence with one further command, failure or layout change is what the idle release and the
reconnect passes race with.

### Met while modelling

Disagreements between the code and what the repository says of it, which the properties
above leave out by a stated condition:

- With alignment < width the last slots of a mapping are partly copied from bytes that were
  not read: the read is extended only if the whole tail is mapped (`unknown_search.c:298`),
  while `commands.md:690` has searchBegin capture "all aligned readable values".
  `AlignedValuesAreRead` is stated for alignment >= width.
- `clearFreezes` removes by address, and address 0 is also the mark of an empty slot
  (`freeze.c:95`): a slot frozen at 0 behind another one survives `freezeClear`, which
  "Unfreezes all values in RAM" (`commands.md:769`). `ImplementsFreezeMap` is about non-zero
  addresses.
- `sub_freeze` reads `freeze_thr_state` without the lock and then writes Active
  (`main.c:3587`); a `freezePause` in between is lost, against `commands.md:770`.
  `PauseHolds` excepts exactly that moment.
- `wait_su` is set only when a session that opened reports title id 0 (`main.c:3621`); a title
  relaunched while none was running is written without the startup wait the comment above
  that line announces.
- Handling a restart, `ftpWorker` sets `desiredRunning` in a later locked section than the one
  that took the request (`ftp_server.c:108`), which undoes an `ftpStop` accepted in between
  (`commands.md:272`). `StopIsObeyed` asks for a stop that overtakes no restart or reload.
- An `APPE` on a concatenation file deletes it (`ftp_vfs_sd.c:406`), although
  `docs/ftp-server.md` says `APPE` never truncates; `REST` with `STOR` is refused only after
  the open has truncated the file.
- Power loss between moving part `00` and setting the archive bit leaves a directory that
  blocks its name; the comments count on `.bigfiletmp` only. When the reopen at the end of a
  conversion fails, `ftp_vfs_close` returns early and neither the state slot nor the transfer
  count is given back (`ftp_vfs_sd.c:517`).
- `processMemoryOpen` looks at the debug sessions before it attaches, and they start without
  `backendMutex`; the comment at `process_memory.c:162` expects the check to keep them
  apart. The kernel's one handle per process does (`HandleIsOwned`).
- `debug watch` and the trace threads force-close dmnt's cheat process while a memory session
  may be using it (`main.c:1522`); the remembered `dmntOwnershipObserved` is stale afterwards.
- `patch-code` passes over threads whose context it cannot read (`patch_code.c:155`);
  `PatchIsGuarded` speaks of the others. Two threads at a traced breakpoint at once end a
  trace with an error.
- An open ignores that `fsFsDeleteFile` failed on a concatenation file (`ftp_vfs_sd.c:407`) and
  truncates it, the shape that the comment above it says the deletion prevents: the next
  conversion nests it. `NeverNested` is about runs in which no such deletion failed.
- `mutationAllowed` is asked before the calls of a command, and a search that begins in between
  does not stop them, while `commands.md:282` has mutations below the search directory
  "return an FTP error" during a search. `SearchIsGuarded` excepts what had asked before.
- `RNTO` onto the source's own name deletes the file and then fails, and one whose source is in
  use deletes the destination and then fails (`ftp_vfs_sd.c:681`).
- A failing application query counts as "no application" (`boot_unlock.c:213`), so HOME can be
  pressed into a running game, which `boot_unlock.c:272` and `commands.md:121` rule out.
  `NoPressIntoGame` excepts a round whose query failed. The parser accepts bursts of one or two
  presses (`boot_unlock_config.c:156`) although the second lock screen wants three in a row: then
  the rounds can run out without a mishap, and `GivesUpWithCause` limits them only for bursts of
  three or more (`BurstSuffices`).
- `controllerRememberAddressLocked` drops the oldest entry of a full list (`commands.c:98`), also
  one that a takeover queued, although `commands.c:997` says that an explicit address "never
  replaces" those; `controllerSaveAddress` leaves out what a full list has no room for
  (`commands.c:107`). Such a controller is not called back (`commands.md:790`, `commands.md:810`).
  `TakenIsRemembered` and `TakenComesBack` except it.
- A `clickSeq` that cannot be expanded is refused after `controllerRefreshIfIdle` may have torn
  the device down (`main.c:2532`, `main.c:2543`), and nothing rebuilds it: a held button is let
  go, against `commands.c:477` and `commands.md:783`. `HeldIsKept` excepts it (`main.letGo`).
- A `bootUnlock arm` while an armed worker is about to finish is consumed with the old request
  (`boot_unlock.c:358`), against `commands.md:131`. An invalid configuration's reason is
  overwritten by the mode's (`boot_unlock.c:182`). A second `bootUnlock run` before the first
  thread is scheduled, or while it is still exiting, closes a thread that has not ended
  (`boot_unlock.c:384`).
- The idle release does not look at the touch and key threads, so the virtual device can go in
  the middle of a touch. After a release, a press before the next reconnect pass leaves a
  device that is not marked to yield: the controllers it displaced are not called back until
  it is detached (`TakenComesBack` excepts this state). A `clickCancel` can be lost or hit the
  next sequence, and a queued job can be overwritten by the next one.

Smaller ones, plain from the lines:

- `searchStoreCommit` ignores the result of its rollback rename (`search_store.c:424`): when the
  promotion and the rollback both fail, the baseline stays under `session.old`, while the
  session still reports resumable (`BaselineNeverLost` asks only that it is under some name).
- `ftpServerRestart` assigns both request flags (`ftp_server.c:275`), so an `ftpRestart` that
  follows an `ftpReload` before the worker looked clears the reload.
- `ftpServerStart` on a running server shows "starting", and nothing shows "running" again
  (`ftp_server.c:246`).
- `consecutiveLoopErrors` (`ftp_server.c:160`) is not reset with the listener, so polls that
  failed on an old listener count against the new one.
- `commands.md:766` calls the argument of `freeze` an "absolute address"; the worker writes to
  `heap_base + address` (`main.c:3646`).

**Fairness.** Threads of the module are scheduled by the kernel and every service call
returns: weak fairness of each worker's steps. A libnx mutex with waiters is handed over by
the kernel (`svcArbitrateUnlock`), so a thread that keeps finding a mutex released gets it:
strong fairness of the acquiring steps in `FreezeWorker`. `StartIsObeyed` also needs a
network in which a bind succeeds now and again: strong fairness of `BindSucceeds`. In `DebugFaults`,
`BootUnlock` and `InputWorkers` each thread of the agent is weakly fair; `InputWorkers` also
lets time pass (`Quiet`) and a Bluetooth link that is being paged come up (`Connect`), without
which no controller could return whatever the code does. Clients, targets, players,
the game, the user and the power switch owe nothing.

`CHECK_DEADLOCK FALSE` is said where the system may stop: a scan that ended, a sealed file,
a search manager, an input
client or an FTP client that ran out of its bounds, an agent whose commands are used up.

## 4. Proofs

All theorems hold for every value of the constants under the named assumptions of the
modules (sizes are positive naturals, but there may be no wake attempt; addresses, titles and buffers are what they are in C;
`FilesAssumption` also says that there is a session and a name, `InputAssumption` that a
sequence is made of items and, as an empty one does what a wait does, has at least one;
`ScheduleAssumption` asks no more than the configuration parser does; `ControllerAssumption` that hidsys lists each pad once). Each rests
on an inductive invariant, with one lemma per action or group of actions.

- **`UnknownSearchProofs`.** `BaselineNeverLost` speaks of the end of an operation and of the
  file that holds the baseline, which moves twice during a commit, so it is not inductive.
  `IndInv` adds: what the status and the queued command promise about each other
  (`Coordination`), where the baseline is at each point of the commit (`BaselineHeld`), that
  the temporary file is exactly what was scanned or filtered so far (`ScanProgress`) and what
  has been renamed (`CommitProgress`). `Invariance` is proved with one lemma per action;
  `TypeCorrect` and `BaselineSafe` follow. `SessionRefinement` shows that `Promote` of a
  sealed file maps to the commit of a whole generation (here `ScanProgress` supplies that
  the file is the filter of the old one that was asked for), begin, refine and close to their
  abstract counterparts, and every other step to a stutter. `PausedScanHolds` rests on
  `PauseInv`: a session is pinned to a process that existed (`Pinned`), the pause is held
  only around the scan loop and the temporary file is empty when it begins (`PauseHeld`);
  while the process is stopped `GameWrite` cannot come between two blocks.
- **`SnapshotScanProofs`.** The number of slots of a chunk is a maximum, so slot n is stored
  exactly if it begins in the chunk and ends in the mapping (`SlotIsStored`). `BuffersSuffice`
  follows because `maximumSpan` limits a chunk in bytes and in slots. For `SlotsAreExact`,
  `IndInv` adds that the cursor is inside a readable mapping whose end is `mappingEnd`
  (`Inside`); mappings are disjoint, so what `searchPlanMapping` skips holds no readable slot.
  For `AlignedValuesAreRead` it adds that chunks of such a search begin between two values
  (`OnValue`). `SnapshotAssumption` states what is used of the constants: mappings
  in address order and made of pages, a width that divides chunk and pages, an alignment that
  divides 2^64 (the parser accepts powers of two up to 256).
- **`FreezeWorkerProofs`.** `FreezeYieldsToSearch` is about a point behind the check that
  establishes it. It stays true because queueing a search needs `freezeMutex`, which the
  worker holds from the check on: `LockOwners` ties the owners of both mutexes to the
  program counters, and `SearchExclusion` ties the two managers' states to each other and to
  the main loop's pending command. `YieldsToSearch` and `OneSearch` follow.
  `PauseIsObeyed` rests on `PauseKept`: an owed pause is still the state, and the worker is not
  on its way to the reset.
  `TableImplementsMap` is about the table alone. `Sound` says that the address marks the slots
  in use, that each of them owns an allocated buffer, and that no two share an address or a
  buffer; then the slot that the search finds is the only one, and each command maps to the
  same command on the map. The sweep of `clearFreezes`
  is a recursive function of the slot number: that it exists and what it leaves behind is shown
  by induction, stated for a set of numbers (`SetInduction`) because the library's induction
  theorems take an operator. The theorem assumes `0 \notin Addresses`: 0 marks an empty slot, and
  with a value frozen at 0 the code does go wrong (see *Met while modelling*).
- **`SearchProofs`.** A result list is the ascending list of a set, and so is what one chunk
  reports: the lemmas on `Ascending` say that the list by rank exists, is the only ascending
  list of its set, and that the list of one set followed by that of another above it is the
  list of their union. `ResultsAreExact` depends on the bytes carried between chunks, so
  `IndInv` adds what they are: inside a mapping the buffer is the memory before the cursor,
  and if it is shorter than the overlap nothing can begin in front of it and end behind the
  cursor, since the range, the mapping or an unread chunk stops there (`Carries`). Between
  mappings none is begun and not finished (`Between`). Then one chunk finds exactly the
  occurrences whose last byte it covers. `ExactAssumption` says that mappings are in address
  order and that, as the kernel's query covers the whole address space, the last one reaches
  past the range. For the candidate file, `Written` says that every block is the encoding of
  what was given; `BlocksRoundTripHolds` is decode after encode in each representation.
  `PagesTileHolds` also needs `Counted`: the counts in the header, the blocks and the index
  agree. Both sides are concatenations by the recursive `FlattenSeq`, of which `Flattened`
  gives the partial results; `FirstBlockFacts` shows that the binary search exists and stops
  at the block that holds the first candidate; block after block, what has been collected is
  the rest of the candidates so far.
- **`DebugSessionProofs`.** First what a step of a watch, trace or multitrace worker may do: it
  leaves the other sessions alone, its activity flag falls with its last locked section,
  handles are taken at the attach and given back at the close. The three workers share this
  footprint, so that the proofs above it need one case for all of them.
  `OneSession` alone is not inductive: it depends on what the command
  in progress has checked and on how far a worker is from clearing its flag. `SessionInv`
  collects the types, that a trace has a process to trace (`HasTarget`), that the flag says
  where the worker is and that the main loop starts nothing while it is set (`Activity`),
  `OneSession`, `StopIsCurrent`, that who owns a process is who has its handle in a local
  variable (`HandlesMatch`), and what `patch-code` has established at each of its points
  (`PatchReady`). `OneSessionHolds`, `StopIsCurrentHolds`, `HandleIsOwnedHolds` and the
  action property `PatchIsGuardedHolds` follow.
  `CleanOrReported` compares the end of a session with registers set
  long before. `CleanupInv` says that an armed session knows all the registers it set until
  its last locked section, and which of them are clear after each clearing call unless a
  failure was counted. For `HitLimitKept`, `LimitInv` counts: hits recorded plus hits queued
  never exceed the hits that happened (`Counted`), and a session that has all it asked for is
  in its clean-up (`Limited`). The lemmas on `HitsIn` say how taking and adding an event
  changes the number of hits queued. The theorems on debug sessions assume `SafeSpec`, the
  specification without its fairness.
- **`BootUnlockProofs`.** `GivesUpWithCause` relates two counters at the end of a run to
  everything that went wrong in it. `IndInv` is an account kept at every point: if a burst has at
  least three presses, the rounds used and the rounds this console still needs (one to light
  it, one per lock screen) are at most three more than what went wrong (`w.ill`); the attempts
  to light it are at most one more for every schedule (`Accounted`). `ThreadState` says which of
  the counters and flags mean something where. An answer about the application is still true,
  or the application is `fresh`, or the query failed, from which `NeverPressesIntoGame` follows.
- **`FtpProofs`.** Of the control: `Agreement` says for each point of a pass how the local view,
  the flags and the library relate; commands touch none of them. `LibraryIsUsedRight` follows.
  Of the file layer: `UploadIsKept` holds between the calls of a conversion only because of
  where the data is at each of them. `FilesInv` has the types and the budget of faults, the
  forms a file can have (`WellFormed`), that a file being written belongs to one session
  (`Exclusive`), that an open upload is on the card (`Stored`), and a table from each call
  of the conversion and of its undoing to what is under the plain and the temporary name
  (`Underway`, `Placed`). `UploadIsKeptHolds`, `GivingUpPutsBackHolds` and `NeverNestedHolds`
  follow, with any number of failing calls and power losses. For `SearchIsGuardedHolds`, `Asked`
  says what the guard leaves behind: while a search is active, an upload, a conversion or a
  command that is under way in its directory is stamped with an earlier count of searches; the
  destination of a rename is held to that once it was asked about.
- **`InputWorkersProofs`.** First what `keeping` returns: a list with exactly the entries that
  are wanted. The rank of a kept position is injective, hence onto, so no induction is
  needed. Then each function of `Controller` keeps `Good` (types, a list within its array,
  and taken pads are on it), whichever of its calls fail. `TakenIsRememberedHolds` is about
  steps: for each function, which links it changes and what was true of the list then
  (`LinkStep`). `InputInv` adds that each thread has its job to itself while it holds its mutex.
  `HeldIsKept` is inductive on top of it: a device goes down under a held button only in the
  refresh (`HeldStep`), which leaves the command at work or marked as refused
  (`RefreshRebuilds`), and each step of the command and of the click thread passes the duty on or
  builds the device.

Only model-checked: everything about liveness, which the prover does not handle
(`OperationEnds`, `SearchEnds`, `MainLoopResponds`, `FreezesResume`, `StartIsObeyed`,
`StopIsObeyed`, `CommandsReturn`, `TargetsRun`, `RunsEnd`, `TakenComesBack`, `InputReturns`).
Every safety property of the
runs is stated by a theorem.

## 5. Not modelled, and the plan

Status per component is in `PROJECT.json`. Wording of answers, parsing of arguments, byte
counters and logs are left out everywhere; CRC failures are the outcome "corrupt"; image
decoding and classification are numeric code outside TLC's reach. Most of
`system_commands.c` is one IPC call per command with no state of the agent behind it, and
the larger part of `main.c` is argument parsing and formatting. `hekate_*.c` and
`deploy_sysagent.py` are straight lines of checks and copies.

Next, in this order:

1. `DebugWait`: the hook, the waiter thread and its time limit.
2. `SequenceExpand`: repeats against their limits; `HttpWorker`: the one job slot;
   `CommandLoop`: the descriptor table and line reading.
3. `Client`: retries against a server that may have executed the command.
