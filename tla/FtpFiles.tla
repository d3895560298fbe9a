------------------------------ MODULE FtpFiles ------------------------------
(***************************************************************************)
(* The file layer of the FTP server (ftp_vfs_sd.c, ftp_path.c): uploads    *)
(* that outgrow a FAT32 file and are turned into a concatenation file by   *)
(* renames, and the commands that change files.                            *)
(*                                                                         *)
(* One thread serves all sessions, so that the calls of a command or of a  *)
(* conversion are interleaved with nothing but a search of the main loop   *)
(* and a power loss.  A name has a second one, its .bigfiletmp.  Sizes     *)
(* count writes of one allocation unit.                                    *)
(***************************************************************************)
EXTENDS Naturals, Sequences, SequencesExt, FiniteSets

CONSTANTS Sessions,      \* FTP sessions
          Names,         \* paths of the SD card
          SearchNames,   \* those in the search directory
          PlainMax,      \* units a plain file can have
          MaxLength,     \* of an upload
          MaxFaults,     \* calls that fail
          MaxCrashes,    \* power losses
          MaxCommands    \* FTP commands other than the bytes of an upload
ASSUME FilesAssumption ==
    /\ Sessions # {} /\ Names # {} /\ SearchNames \subseteq Names
    /\ PlainMax \in Nat \ {0} /\ MaxLength \in Nat
    /\ MaxFaults \in Nat /\ MaxCrashes \in Nat /\ MaxCommands \in Nat

VARIABLES
    card,     \* what is on the card
    ses,      \* FtpVfsFile and FtpVfsState of each session
    cmd,      \* the command that is between two of its calls
    conv,     \* the conversion that is under way
    search,   \* searchIsActive, and how many searches have begun
    spared,   \* whether an open ever failed to delete a concatenation file
    left      \* what is left of the bounds

vars == <<card, ses, cmd, conv, search, spared, left>>

Paths   == Names \X {"name", "temp"}
Name(n) == <<n, "name">>
Temp(n) == <<n, "temp">>

(* dir: an empty directory; stranded: one with a part 00 and no archive    *)
(* bit; big: a concatenation file; hollow: one without parts; nest and     *)
(* nested: stranded and big with a part 00 that is a hollow one.           *)
Kinds    == {"none", "file", "dir", "stranded", "big", "hollow", "nest", "nested"}
Contents == BoundedSeq(Sessions, MaxLength)
None     == [kind |-> "none", data |-> <<>>]
File(d)  == [kind |-> "file", data |-> d]
Hollow(d) == [kind |-> "hollow", data |-> d]

Modes  == {"READ", "WRITE", "APPEND"}
Closed == [open |-> FALSE, n |-> CHOOSE n \in Names : TRUE, mode |-> "READ", data |-> <<>>,
           concatenation |-> FALSE, failed |-> FALSE, at |-> 0]
Calls  == {"delete", "create", "open", "mkdir", "unlink", "rmdir", "guard", "rename", "replace", "retry"}
NoCommand == [pc |-> "none", i |-> CHOOSE i \in Sessions : TRUE, p |-> CHOOSE p \in Paths : TRUE,
              q |-> CHOOSE p \in Paths : TRUE, mode |-> "READ", at |-> 0]
Steps  == {"rename", "clear", "again", "mkdir", "back", "move", "bit", "unpart", "undir", "untemp",
           "reopen", "giveUp"}
NoConversion == [pc |-> "none", i |-> CHOOSE i \in Sessions : TRUE, bad |-> 0]

Spend(what) == left[what] > 0 /\ left' = [left EXCEPT ![what] = @ - 1]
NoFault     == UNCHANGED left
Fault       == Spend("faults")

-----------------------------------------------------------------------------
(* The file system.  It refuses a path that exists as the target of a      *)
(* rename, and whatever would disturb an open file.                        *)

isFile(e)    == e.kind \in {"file", "big", "hollow", "nested"}
inUse(p)     == \E i \in Sessions : ses[i].open /\ Name(ses[i].n) = p
renames(p, q) == isFile(card[p]) /\ card[q] = None
renamed(p, q) == [card EXCEPT ![q] = card[p], ![p] = None]
truncated(e) == IF e.kind \in {"big", "nested"} THEN Hollow(<<>>)
                ELSE [e EXCEPT !.data = <<>>]

\* ftpVfsIsConcatenationFile: the part 00 can be opened.
isConcatenationFile(e) == e.kind \in {"big", "stranded", "nest", "nested"}

\* ftpVfsAtPlainLimit.
atPlainLimit(size) == size > PlainMax

-----------------------------------------------------------------------------
(* A command that changes files asks first whether a search is active, and *)
(* goes on with its calls; the search may begin between the two.           *)

\* mutationAllowed with ftpPathCanMutate.
mutationAllowed(p) == ~(search.active /\ p[1] \in SearchNames)

\* The command c has asked and been allowed; a refused one changes nothing.
Begin(c) ==
    /\ Spend("commands") /\ mutationAllowed(c.p)
    /\ cmd' = [c EXCEPT !.at = search.began]
    /\ UNCHANGED <<card, ses, conv, search, spared>>

Doing(pc) == cmd.pc = pc
goOn(pc)  == IF pc = "none" THEN NoCommand ELSE [cmd EXCEPT !.pc = pc]

\* A call of the command: carried out, or refused where the file system or a fault says so.
Use(able, effect, then, otherwise) ==
    /\ \/ able /\ NoFault /\ card' = effect /\ cmd' = goOn(then)
       \/ ~able /\ NoFault /\ UNCHANGED card /\ cmd' = goOn(otherwise)
       \/ able /\ Fault /\ UNCHANGED card /\ cmd' = goOn(otherwise)
    /\ UNCHANGED <<ses, conv, search, spared>>

-----------------------------------------------------------------------------
(* Opening, writing and closing.                                           *)

\* ftp_vfs_open to read.
ftp_vfs_open_read(i, n) ==
    /\ ~ses[i].open /\ Spend("commands")
    /\ isFile(card[Name(n)]) /\ \A j \in Sessions : ses[j].open /\ ses[j].n = n => ses[j].mode = "READ"
    /\ ses' = [ses EXCEPT ![i] = [Closed EXCEPT !.open = TRUE, !.n = n]]
    /\ UNCHANGED <<card, cmd, conv, search, spared>>

\* ftp_vfs_open to write (STOR) or append (APPE).
ftp_vfs_open(i, n, mode) ==
    ~ses[i].open /\ Begin([NoCommand EXCEPT !.pc = "delete", !.i = i, !.p = Name(n), !.mode = mode])

\* Mutated form of DeleteOld: what is in the place of the file is not looked at.
DeleteOldNever == Doing("delete") /\ Use(FALSE, card, "create", "create")

\* A concatenation file is deleted, in both modes.  The open does not look at the result, and goes on
\* when the file is in use or the call fails; the same where the part 00 does not open for the question.
DeleteOld ==
    LET e   == card[cmd.p]
        old == isConcatenationFile(e) /\ isFile(e) /\ ~inUse(cmd.p)
    IN /\ Doing("delete")
       /\ \/ old /\ NoFault /\ card' = [card EXCEPT ![cmd.p] = None] /\ UNCHANGED spared
          \/ ~old /\ NoFault /\ UNCHANGED <<card, spared>>
          \/ old /\ Fault /\ spared' = TRUE /\ UNCHANGED card
       /\ cmd' = goOn("create")
       /\ UNCHANGED <<ses, conv, search>>

\* What exists already may stay.
CreateFile ==
    Doing("create") /\ Use(card[cmd.p] = None, [card EXCEPT ![cmd.p] = File(<<>>)], "open",
                           IF card[cmd.p] # None THEN "open" ELSE "none")

\* The file is opened, truncated or measured, and remembered.
OpenFile ==
    LET e == card[cmd.p]
        f == IF cmd.mode = "WRITE" THEN truncated(e) ELSE e
        n == cmd.p[1]
        able == isFile(e) /\ ~inUse(cmd.p)
    IN /\ Doing("open")
       /\ \/ /\ able /\ NoFault
             /\ card' = [card EXCEPT ![cmd.p] = f]
             /\ ses' = [ses EXCEPT ![cmd.i] = [Closed EXCEPT !.open = TRUE, !.n = n, !.mode = cmd.mode,
                                               !.data = f.data, !.at = cmd.at]]
          \/ (IF able THEN Fault ELSE NoFault) /\ UNCHANGED <<card, ses>>
       /\ cmd' = NoCommand
       /\ UNCHANGED <<conv, search, spared>>

writes(i) == ses[i].open /\ ses[i].mode # "READ" /\ ~ses[i].failed

\* What ftp_vfs_write asks before a chunk.
needsConversion(i) ==
    /\ ~ses[i].concatenation /\ atPlainLimit(Len(ses[i].data) + 1)
    /\ ~isConcatenationFile(card[Name(ses[i].n)])

\* The chunk is written at the offset of the session.
appended(i) == Append(ses[i].data, i)

\* ftpVfsWriteChunk.
writeChunk(i) ==
    LET n == ses[i].n
        e == card[Name(n)]
        d == appended(i)
    IN /\ writes(i) /\ Len(ses[i].data) < MaxLength /\ ~needsConversion(i)
       /\ \/ /\ NoFault
             /\ card' = [card EXCEPT ![Name(n)].data = d]
             /\ ses' = [ses EXCEPT ![i].data = d, ![i].concatenation = @ \/ isConcatenationFile(e)]
          \/ /\ Fault
             /\ ses' = [ses EXCEPT ![i].failed = TRUE] /\ UNCHANGED card
       /\ UNCHANGED <<cmd, conv, search, spared>>

\* The handle is closed, and the conversion begins.
beginConversion(i) ==
    /\ writes(i) /\ Len(ses[i].data) < MaxLength /\ needsConversion(i)
    /\ ses' = [ses EXCEPT ![i].open = FALSE]
    /\ conv' = [NoConversion EXCEPT !.pc = "rename", !.i = i]
    /\ NoFault /\ UNCHANGED <<card, cmd, search, spared>>

\* ftp_vfs_seek: a resumed upload is refused, when the file was truncated already.
\* The offset it sets for a download or an append is not modelled.
ftp_vfs_seek(i) ==
    /\ writes(i) /\ ses[i].mode = "WRITE" /\ ses[i].data = <<>>
    /\ ses' = [ses EXCEPT ![i].failed = TRUE]
    /\ NoFault /\ UNCHANGED <<card, cmd, conv, search, spared>>

ftp_vfs_close(i) ==
    /\ ses[i].open
    /\ ses' = [ses EXCEPT ![i] = Closed]
    /\ NoFault /\ UNCHANGED <<card, cmd, conv, search, spared>>

-----------------------------------------------------------------------------
(* ftpVfsConvertToConcatenationFile, one call at a time.                   *)

At(pc) == conv.pc = pc
it     == ses[conv.i].n

\* A call of the conversion: carried out, or refused where the file system or a fault says so.
Call(able, effect, then, otherwise) ==
    /\ \/ able /\ NoFault /\ card' = effect /\ conv' = [conv EXCEPT !.pc = then]
       \/ ~able /\ NoFault /\ UNCHANGED card /\ conv' = [conv EXCEPT !.pc = otherwise]
       \/ able /\ Fault /\ UNCHANGED card /\ conv' = [conv EXCEPT !.pc = otherwise, !.bad = @ + 1]
    /\ UNCHANGED <<ses, cmd, search, spared>>

\* Mutated form of RenameAside: a leftover is not cleared.
RenameAsideOnly == At("rename") /\ Call(renames(Name(it), Temp(it)), renamed(Name(it), Temp(it)), "mkdir", "giveUp")

RenameAside == At("rename") /\ Call(renames(Name(it), Temp(it)), renamed(Name(it), Temp(it)), "mkdir", "clear")
ClearTemp   == At("clear") /\ Call(isFile(card[Temp(it)]), [card EXCEPT ![Temp(it)] = None], "again", "giveUp")
RenameAgain == At("again") /\ Call(renames(Name(it), Temp(it)), renamed(Name(it), Temp(it)), "mkdir", "giveUp")

MakeDirectory ==
    At("mkdir") /\ Call(card[Name(it)] = None, [card EXCEPT ![Name(it)] = [None EXCEPT !.kind = "dir"]], "move", "back")

RenameBack == At("back") /\ Call(renames(Temp(it), Name(it)), renamed(Temp(it), Name(it)), "giveUp", "giveUp")

\* The file becomes the part 00; a hollow one, which is a directory itself, makes a nest.
MoveIn ==
    At("move") /\ Call(isFile(card[Temp(it)]),
                       [card EXCEPT ![Name(it)] = [kind |-> IF card[Temp(it)].kind = "file" THEN "stranded" ELSE "nest",
                                                   data |-> card[Temp(it)].data],
                                    ![Temp(it)] = None], "bit", "undir")

SetBit ==
    At("bit") /\ Call(TRUE, [card EXCEPT ![Name(it)].kind = IF @ = "stranded" THEN "big" ELSE "nested"],
                      "reopen", "unpart")

\* ftpVfsUndoConversion.
UndoPart ==
    At("unpart") /\ Call(card[Temp(it)] = None,
                         [card EXCEPT ![Temp(it)] = [kind |-> IF card[Name(it)].kind = "stranded" THEN "file" ELSE "hollow",
                                                     data |-> card[Name(it)].data],
                                      ![Name(it)] = [None EXCEPT !.kind = "dir"]],
                         "undir", "undir")

\* Mutated form of UndoDirectory: the directory is deleted with what is in it.
UndoDirectoryWhole ==
    At("undir") /\ Call(TRUE, [card EXCEPT ![Name(it)] = None], "untemp", "untemp")

UndoDirectory ==
    At("undir") /\ Call(card[Name(it)].kind = "dir", [card EXCEPT ![Name(it)] = None], "untemp", "untemp")

UndoTemp == At("untemp") /\ Call(renames(Temp(it), Name(it)), renamed(Temp(it), Name(it)), "giveUp", "giveUp")

\* ftpVfsReopenForWrite, after a conversion or to report that it failed.
Reopen ==
    /\ At("reopen") \/ At("giveUp")
    /\ \/ /\ isFile(card[Name(it)]) /\ NoFault
          /\ ses' = [ses EXCEPT ![conv.i].open = TRUE, ![conv.i].concatenation = At("reopen"),
                                ![conv.i].failed = At("giveUp")]
       \/ /\ isFile(card[Name(it)]) => Fault
          /\ ~isFile(card[Name(it)]) => NoFault
          /\ ses' = [ses EXCEPT ![conv.i] = Closed]
    /\ conv' = NoConversion
    /\ UNCHANGED <<card, cmd, search, spared>>

convert == RenameAside \/ ClearTemp \/ RenameAgain \/ MakeDirectory \/ RenameBack \/ MoveIn \/ SetBit
           \/ UndoPart \/ UndoDirectory \/ UndoTemp \/ Reopen

-----------------------------------------------------------------------------
(* The commands that change names.                                         *)

ftp_vfs_mkdir(p)  == Begin([NoCommand EXCEPT !.pc = "mkdir", !.p = p])
ftp_vfs_unlink(p) == Begin([NoCommand EXCEPT !.pc = "unlink", !.p = p])
ftp_vfs_rmdir(p)  == Begin([NoCommand EXCEPT !.pc = "rmdir", !.p = p])

CreateDirectory ==
    Doing("mkdir") /\ Use(card[cmd.p] = None, [card EXCEPT ![cmd.p] = [None EXCEPT !.kind = "dir"]], "none", "none")
DeleteFile ==
    Doing("unlink") /\ Use(isFile(card[cmd.p]) /\ ~inUse(cmd.p), [card EXCEPT ![cmd.p] = None], "none", "none")
DeleteDirectory ==
    Doing("rmdir") /\ Use(card[cmd.p].kind = "dir", [card EXCEPT ![cmd.p] = None], "none", "none")

\* A rename asks about its source, then about its destination.
ftp_vfs_rename(p, q) == Begin([NoCommand EXCEPT !.pc = "guard", !.p = p, !.q = q])

\* Mutated form of AskDestination: only the source is looked at.
AskDestinationNever == Doing("guard") /\ Use(TRUE, card, "rename", "none")

AskDestination == Doing("guard") /\ Use(mutationAllowed(cmd.q), card, "rename", "none")

movable == card[cmd.p] # None /\ card[cmd.q] = None /\ ~inUse(cmd.p)
moved   == renamed(cmd.p, cmd.q)

\* A file whose rename failed, whatever the cause, first drops a file in its destination.
RenameEntry ==
    Doing("rename") /\ Use(movable, moved, "none", IF isFile(card[cmd.p]) THEN "replace" ELSE "none")
DropDestination ==
    Doing("replace") /\ Use(isFile(card[cmd.q]) /\ ~inUse(cmd.q), [card EXCEPT ![cmd.q] = None], "retry", "none")
RenameRetry == Doing("retry") /\ Use(movable, moved, "none", "none")

command == DeleteOld \/ CreateFile \/ OpenFile \/ CreateDirectory \/ DeleteFile \/ DeleteDirectory
           \/ AskDestination \/ RenameEntry \/ DropDestination \/ RenameRetry

\* A search is queued, or ends.
ToggleSearch ==
    /\ Spend("commands")
    /\ search' = [active |-> ~search.active, began |-> search.began + IF search.active THEN 0 ELSE 1]
    /\ UNCHANGED <<card, ses, cmd, conv, spared>>

PowerLoss ==
    /\ Spend("crashes")
    /\ ses' = [i \in Sessions |-> Closed] /\ cmd' = NoCommand /\ conv' = NoConversion
    /\ search' = [search EXCEPT !.active = FALSE]
    /\ UNCHANGED <<card, spared>>

Init ==
    /\ card = [p \in Paths |-> None]
    /\ ses = [i \in Sessions |-> Closed]
    /\ cmd = NoCommand /\ conv = NoConversion
    /\ search = [active |-> FALSE, began |-> 0] /\ spared = FALSE
    /\ left = [faults |-> MaxFaults, crashes |-> MaxCrashes, commands |-> MaxCommands]

ftpsrv_loop ==
    \/ \E i \in Sessions :
          \/ writeChunk(i) \/ beginConversion(i) \/ ftp_vfs_seek(i) \/ ftp_vfs_close(i)
          \/ \E n \in Names : \/ ftp_vfs_open_read(i, n)
                              \/ \E mode \in {"WRITE", "APPEND"} : ftp_vfs_open(i, n, mode)
    \/ \E p \in Paths : ftp_vfs_mkdir(p) \/ ftp_vfs_unlink(p) \/ ftp_vfs_rmdir(p)
                        \/ \E q \in Paths : ftp_vfs_rename(p, q)

Next == \/ At("none") /\ Doing("none") /\ ftpsrv_loop
        \/ command \/ convert \/ ToggleSearch \/ PowerLoss

Spec == Init /\ [][Next]_vars

-----------------------------------------------------------------------------
(* The shape of the state; no upload stores more than it was sent, also    *)
(* when ftp_vfs_write converts the file in the middle of a chunk.          *)
TypeOK ==
    /\ card \in [Paths -> [kind : Kinds, data : Contents]]
    /\ ses \in [Sessions -> [open : BOOLEAN, n : Names, mode : Modes, data : Contents,
                             concatenation : BOOLEAN, failed : BOOLEAN, at : 0 .. MaxCommands]]
    /\ cmd \in [pc : Calls \cup {"none"}, i : Sessions, p : Paths, q : Paths, mode : Modes, at : 0 .. MaxCommands]
    /\ conv \in [pc : Steps \cup {"none"}, i : Sessions, bad : 0 .. MaxFaults]
    /\ search \in [active : BOOLEAN, began : 0 .. MaxCommands] /\ spared \in BOOLEAN
    /\ left \in [faults : 0 .. MaxFaults, crashes : 0 .. MaxCrashes, commands : 0 .. MaxCommands]

(* What a running upload has stored is on the card at every moment, under  *)
(* its name or its temporary name, whichever calls of a conversion and of  *)
(* its undoing fail: a power loss at that moment costs none of it.         *)
UploadIsKept ==
    \A i \in Sessions :
        (ses[i].open /\ ses[i].mode # "READ") \/ (conv.pc # "none" /\ conv.i = i)
        => \E p \in {Name(ses[i].n), Temp(ses[i].n)} : card[p].data = ses[i].data

(* A conversion in which one call failed leaves the file it found          *)
(* (ftpVfsUndoConversion): a plain one, or the hollow one of a failed      *)
(* deletion.  And a temporary file that a power loss left behind does not  *)
(* cost its name the next conversion: without a failing call only          *)
(* something in its place that is not a file ends one.                     *)
asFound(d) == {File(d)} \cup IF spared THEN {Hollow(d)} ELSE {}
GivingUpPutsBack ==
    At("giveUp") => /\ conv.bad <= 1 => card[Name(it)] \in asFound(ses[conv.i].data)
                    /\ conv.bad = 0 => card[Temp(it)] # None /\ ~isFile(card[Temp(it)])

(* No file is converted twice or loses its parts, through any sequence of  *)
(* uploads, appends, renames, failures and power losses, unless an open    *)
(* failed to delete the concatenation file it was to replace: it ignores   *)
(* that, and truncates the file.  No plain file passes the limit in any    *)
(* case (the checks of ftp_vfs_open and ftp_vfs_write).                    *)
NeverNested ==
    /\ TypeOK
    /\ \A p \in Paths : /\ card[p].kind \in {"hollow", "nest", "nested"} => spared
                        /\ card[p].kind = "file" => ~atPlainLimit(Len(card[p].data))

(* While a search is active, its directory changes only under an upload or *)
(* a command that had asked mutationAllowed before that search began: one  *)
(* that was running, or was between the question and its calls.            *)
SearchIsGuarded ==
    [][\A n \in SearchNames :
          search.active /\ (card'[Name(n)] # card[Name(n)] \/ card'[Temp(n)] # card[Temp(n)])
          => \/ \E i \in Sessions : /\ ses[i].n = n /\ (writes(i) \/ (conv.pc # "none" /\ conv.i = i))
                                    /\ ses[i].at < search.began
             \/ cmd.pc # "none" /\ cmd.at < search.began]_vars
=============================================================================
