----------------------------- MODULE FtpProofs -----------------------------
(***************************************************************************)
(* Proofs about the FTP server.                                            *)
(*                                                                         *)
(* Its file layer, for any number of sessions, names, failing calls and    *)
(* power losses: what an upload has stored is on the card at every moment, *)
(* a conversion that gives up after one failure puts the file back, no     *)
(* file is converted twice unless a deletion failed unnoticed, and during  *)
(* a search its directory changes only by what had asked before.           *)
(*                                                                         *)
(* Its control, for every error limit: the worker, the manager and the     *)
(* ftpsrv library agree on whether there is a listener.  Agreement follows *)
(* the worker through a pass; commands change none of the variables it     *)
(* speaks of.                                                              *)
(***************************************************************************)
EXTENDS FtpFiles, FtpServer, SequenceTheorems, TLAPS

Entry   == [kind : Kinds, data : Contents]
Session == [open : BOOLEAN, n : Names, mode : Modes, data : Contents,
            concatenation : BOOLEAN, failed : BOOLEAN, at : 0 .. MaxCommands]
Command == [pc : Calls \cup {"none"}, i : Sessions, p : Paths, q : Paths, mode : Modes, at : 0 .. MaxCommands]
Search  == [active : BOOLEAN, began : 0 .. MaxCommands]
Bounds  == [faults : 0 .. MaxFaults, crashes : 0 .. MaxCrashes, commands : 0 .. MaxCommands]

\* A session that has a file open for writing, and the one whose file is being converted.
Uploads(i)    == ses[i].open /\ ses[i].mode # "READ"
Converting(i) == conv.pc # "none" /\ conv.i = i
Holds(i)      == ses[i].open \/ Converting(i)

\* No concatenation file is inside another or lost its parts unless one was spared, and no plain
\* file is past its limit.
WellFormed ==
    \A p \in Paths : /\ ~spared => card[p].kind \in {"none", "file", "dir", "stranded", "big"}
                     /\ card[p].kind \in {"file", "hollow"} => Len(card[p].data) <= PlainMax

\* Who writes a file is alone with it, also between the calls of a conversion.
Exclusive ==
    \A i, j \in Sessions :
        i # j /\ Holds(i) /\ Holds(j) /\ ses[i].n = ses[j].n => ses[i].mode = "READ"

\* An open upload is what the card has under its name.
Stored ==
    \A i \in Sessions :
        Uploads(i) => /\ isFile(card[Name(ses[i].n)])
                      /\ card[Name(ses[i].n)].data = ses[i].data
                      /\ ses[i].concatenation => isConcatenationFile(card[Name(ses[i].n)])

\* A command and a conversion never meet.  An open is about a name, and what it is about to truncate
\* is no concatenation file, unless one was spared.
Alone == conv.pc = "none" \/ cmd.pc = "none"
Prepared ==
    /\ cmd.pc \in {"delete", "create", "open"} => cmd.p = Name(cmd.p[1])
    /\ cmd.pc \in {"create", "open"} /\ ~spared
       => ~(isConcatenationFile(card[cmd.p]) /\ isFile(card[cmd.p])) \/ inUse(cmd.p)

\* The two places of the file that is converted, and the forms of the directory that replaces it.
upload   == ses[conv.i].data
Here     == card[Name(it)]
Aside    == card[Temp(it)]
Dir      == [kind |-> "dir", data |-> <<>>]
Parts(k) == [kind |-> k, data |-> upload]
Plain    == {File(upload), Hollow(upload)}
Unmarked == {Parts("stranded"), Parts("nest")}
Marked   == {Parts("big"), Parts("nested")}

\* Where the upload is at each call of the conversion and of its undoing, when `bad' calls have
\* failed, h is under the name and a under the temporary name.
PlacedAt(pc, bad, h, a) ==
    /\ pc \in {"rename", "clear", "again"} => h \in Plain
    /\ pc = "clear" /\ bad = 0 => a # None
    /\ pc = "again" => a = None
    /\ pc = "mkdir" => h = None /\ a \in Plain
    /\ pc = "back" => bad >= 1 /\ h = None /\ a \in Plain
    /\ pc = "move" => h = Dir /\ a \in Plain
    /\ pc = "bit" => h \in Unmarked /\ a = None
    /\ pc = "unpart" => bad >= 1 /\ h \in Unmarked /\ a = None
    /\ pc = "undir" => \/ bad >= 1 /\ h = Dir /\ a \in Plain
                       \/ bad >= 2 /\ h \in Unmarked /\ a = None
    /\ pc = "untemp" => \/ bad >= 1 /\ h = None /\ a \in Plain
                        \/ bad >= 2 /\ h = Dir /\ a \in Plain
                        \/ bad >= 2 /\ h \in Unmarked /\ a = None
    /\ pc = "reopen" => h \in Marked
    /\ pc = "giveUp" => \/ h \in Plain /\ (bad = 0 => a # None /\ ~isFile(a))
                        \/ bad >= 2 /\ h \in {None, Dir} /\ a \in Plain
                        \/ bad >= 2 /\ h \in Unmarked /\ a = None
Placed == PlacedAt(conv.pc, conv.bad, Here, Aside)

\* The session that converts has closed its handle, and what it stored still fits a plain file.
Underway ==
    conv.pc # "none" => /\ ~ses[conv.i].open /\ ses[conv.i].mode # "READ"
                        /\ Len(upload) <= PlainMax
                        /\ Placed

\* Every failing call and every command has spent its bound.
Counted == conv.bad + left.faults <= MaxFaults /\ search.began + left.commands <= MaxCommands

FilesInv ==
    /\ TypeOK /\ Counted
    /\ WellFormed /\ Exclusive /\ Stored /\ Underway /\ Alone /\ Prepared

-----------------------------------------------------------------------------
(* The values of the state.                                                *)

\* A path has a name, and no two names share a path.
LEMMA PathFacts ==
    /\ \A n \in Names : Name(n) \in Paths /\ Temp(n) \in Paths
    /\ \A n, m : Name(n) # Temp(m)
    /\ \A n, m : (Name(n) = Name(m) \/ Temp(n) = Temp(m)) => n = m
  BY DEF Name, Temp, Paths

\* What a file can hold, and the byte more that an upload may add.
LEMMA ContentFacts ==
    /\ <<>> \in Contents /\ Len(<<>>) = 0
    /\ \A d \in Contents : Len(d) \in Nat
    /\ \A d \in Contents, i \in Sessions :
          Len(d) < MaxLength => Append(d, i) \in Contents /\ Len(Append(d, i)) = Len(d) + 1
<1>1. \A d : d \in Contents <=> \E m \in 0 .. MaxLength : d \in [1 .. m -> Sessions]
  BY DEF Contents, BoundedSeq, SeqOf
<1>2. \A d, m : m \in Nat /\ d \in [1 .. m -> Sessions] => d \in Seq(Sessions) /\ Len(d) = m
  OBVIOUS
<1>3. <<>> \in [1 .. 0 -> Sessions] /\ 0 \in 0 .. MaxLength
  BY FilesAssumption
<1>4. \A d \in Contents : d \in Seq(Sessions) /\ Len(d) \in Nat /\ d \in [1 .. Len(d) -> Sessions]
  BY <1>1, <1>2, FilesAssumption
<1>5. ASSUME NEW d \in Contents, NEW i \in Sessions, Len(d) < MaxLength
      PROVE  Append(d, i) \in Contents /\ Len(Append(d, i)) = Len(d) + 1
  <2>1. d \in Seq(Sessions) /\ Len(d) \in Nat
    BY <1>4
  <2>2. Append(d, i) \in Seq(Sessions) /\ Len(Append(d, i)) = Len(d) + 1
    BY <2>1
  <2>3. Append(d, i) \in [1 .. (Len(d) + 1) -> Sessions]
    BY <2>2, LenProperties
  <2>4. Len(d) + 1 \in 0 .. MaxLength
    BY <1>5, <2>1, FilesAssumption
  <2>5. QED
    BY <1>1, <2>2, <2>3, <2>4
<1>6. QED
  BY <1>1, <1>3, <1>4, <1>5

\* The values of Init have their types.
LEMMA Defaults ==
    /\ None \in Entry /\ Dir \in Entry /\ \A d \in Contents : File(d) \in Entry /\ Hollow(d) \in Entry
    /\ Closed \in Session /\ ~Closed.open /\ ~Closed.concatenation /\ Closed.mode = "READ" /\ Closed.at = 0
    /\ NoCommand \in Command /\ NoCommand.pc = "none" /\ NoCommand.at = 0
    /\ NoConversion \in [pc : Steps \cup {"none"}, i : Sessions, bad : 0 .. MaxFaults]
    /\ NoConversion.pc = "none" /\ NoConversion.bad = 0
<1>1. (CHOOSE n \in Names : TRUE) \in Names /\ (CHOOSE i \in Sessions : TRUE) \in Sessions
  BY FilesAssumption
<1>2. 0 \in 0 .. MaxFaults /\ 0 \in 0 .. MaxCommands
  BY FilesAssumption
<1>3. (CHOOSE p \in Paths : TRUE) \in Paths
  BY <1>1, PathFacts
<1>4. NoCommand \in Command /\ NoCommand.pc = "none" /\ NoCommand.at = 0
  BY <1>1, <1>2, <1>3 DEF NoCommand, Command, Modes
<1>5. QED
  BY <1>1, <1>2, <1>4, ContentFacts DEF None, Dir, File, Hollow, Closed, NoConversion, Entry, Session, Kinds, Modes

\* The types, by their names.
LEMMA Types ==
    TypeOK <=> /\ card \in [Paths -> Entry] /\ ses \in [Sessions -> Session] /\ cmd \in Command
               /\ conv \in [pc : Steps \cup {"none"}, i : Sessions, bad : 0 .. MaxFaults]
               /\ search \in Search /\ spared \in BOOLEAN /\ left \in Bounds
  BY SMTT(30) DEF TypeOK, Entry, Session, Command, Search, Bounds

\* The types of the next state, by their names.
LEMMA TypesNext ==
    ASSUME card' \in [Paths -> Entry], ses' \in [Sessions -> Session], cmd' \in Command,
           conv' \in [pc : Steps \cup {"none"}, i : Sessions, bad : 0 .. MaxFaults],
           search' \in Search, spared' \in BOOLEAN, left' \in Bounds
    PROVE  TypeOK'
  BY SMTT(30) DEF TypeOK, Entry, Session, Command, Search, Bounds

\* A session is updated field by field; every field keeps its type.
LEMMA SessionTypes ==
    ASSUME NEW t \in [Sessions -> Session], NEW i \in Sessions
    PROVE  /\ [t EXCEPT ![i] = Closed] \in [Sessions -> Session]
           /\ \A b \in BOOLEAN : [t EXCEPT ![i].open = b] \in [Sessions -> Session]
           /\ \A b \in BOOLEAN : [t EXCEPT ![i].failed = b] \in [Sessions -> Session]
           /\ \A b, c, e \in BOOLEAN :
                 [t EXCEPT ![i].open = b, ![i].concatenation = c, ![i].failed = e] \in [Sessions -> Session]
           /\ \A d \in Contents, b \in BOOLEAN :
                 [t EXCEPT ![i].data = d, ![i].concatenation = b] \in [Sessions -> Session]
           /\ \A n \in Names :
                 [t EXCEPT ![i] = [Closed EXCEPT !.open = TRUE, !.n = n]] \in [Sessions -> Session]
           /\ \A n \in Names, m \in Modes, d \in Contents, k \in 0 .. MaxCommands :
                 [t EXCEPT ![i] = [Closed EXCEPT !.open = TRUE, !.n = n, !.mode = m, !.data = d, !.at = k]]
                 \in [Sessions -> Session]
<1>1. Closed \in Session /\ TRUE \in BOOLEAN /\ t[i] \in Session
  BY Defaults
<1>2. \A x \in Session : [t EXCEPT ![i] = x] \in [Sessions -> Session]
  OBVIOUS
<1>3. \A b \in BOOLEAN : [t EXCEPT ![i].open = b] \in [Sessions -> Session]
  BY DEF Session
<1>4. \A b \in BOOLEAN : [t EXCEPT ![i].failed = b] \in [Sessions -> Session]
  BY DEF Session
<1>5. ASSUME NEW b \in BOOLEAN, NEW c \in BOOLEAN, NEW e \in BOOLEAN
      PROVE  [t EXCEPT ![i].open = b, ![i].concatenation = c, ![i].failed = e] \in [Sessions -> Session]
  <2> DEFINE x == [t EXCEPT ![i].open = b, ![i].concatenation = c]
  <2>1. x \in [Sessions -> Session]
    BY DEF Session
  <2> HIDE DEF x
  <2>2. [x EXCEPT ![i].failed = e] \in [Sessions -> Session]
    BY <2>1 DEF Session
  <2>3. QED
    BY <2>2 DEF x
<1>6. \A d \in Contents, b \in BOOLEAN :
         [t EXCEPT ![i].data = d, ![i].concatenation = b] \in [Sessions -> Session]
  BY DEF Session
<1>7. \A n \in Names : [Closed EXCEPT !.open = TRUE, !.n = n] \in Session
  BY <1>1 DEF Session
<1>8. \A n \in Names, m \in Modes, d \in Contents, k \in 0 .. MaxCommands :
         [Closed EXCEPT !.open = TRUE, !.n = n, !.mode = m, !.data = d, !.at = k] \in Session
  BY <1>1 DEF Session
<1>9. QED
  BY <1>1, <1>2, <1>3, <1>4, <1>5, <1>6, <1>7, <1>8

\* The bounds are spent one at a time.
LEMMA Spending ==
    ASSUME TypeOK, NEW what \in {"faults", "crashes", "commands"}, left' = left \/ Spend(what)
    PROVE  /\ left' \in Bounds
           /\ left'.faults <= left.faults /\ left'.commands <= left.commands
           /\ what = "faults" /\ Spend(what) => left'.faults = left.faults - 1
           /\ what = "commands" /\ Spend(what) => left'.commands = left.commands - 1
<1>1. left.faults \in 0 .. MaxFaults /\ left.crashes \in 0 .. MaxCrashes /\ left.commands \in 0 .. MaxCommands
  BY DEF TypeOK
<1>2. CASE Spend("faults")
  BY <1>1, <1>2, FilesAssumption DEF Spend, TypeOK, Bounds
<1>3. CASE Spend("crashes")
  BY <1>1, <1>3, FilesAssumption DEF Spend, TypeOK, Bounds
<1>4. CASE Spend("commands")
  BY <1>1, <1>4, FilesAssumption DEF Spend, TypeOK, Bounds
<1>5. CASE left' = left
  <2>1. left \in Bounds /\ left.faults \in Nat /\ left.commands \in Nat
    BY <1>1, Types, FilesAssumption
  <2>2. QED
    BY <1>2, <1>4, <1>5, <2>1
<1>6. QED
  BY <1>2, <1>3, <1>4, <1>5

-----------------------------------------------------------------------------
(* The calls of a conversion.                                              *)

\* What a call leaves in the two places.
Forms == {None, Dir, File(upload), Parts("stranded"), Parts("big"), Here, Aside}
         \cup IF spared THEN {Hollow(upload), Parts("nest"), Parts("nested")} ELSE {}

\* A call touches the two places of its file and nothing else; one that fails is counted.
ConvStep ==
    /\ UNCHANGED <<ses, cmd, search, spared>>
    /\ conv'.i = conv.i /\ conv' \in [pc : Steps, i : Sessions, bad : Nat]
    /\ \/ left' = left /\ conv'.bad = conv.bad
       \/ Spend("faults") /\ conv'.bad = conv.bad + 1
    /\ card' \in [Paths -> Entry] /\ Here' \in Forms /\ Aside' \in Forms
    /\ \A p \in Paths \ {Name(it), Temp(it)} : card'[p] = card[p]

\* The upload and the paths of the conversion have their types.
LEMMA Converted ==
    ASSUME TypeOK
    PROVE  /\ conv.i \in Sessions /\ it \in Names /\ upload \in Contents /\ conv.bad \in Nat
           /\ Name(it) \in Paths /\ Temp(it) \in Paths /\ Name(it) # Temp(it)
           /\ Here \in Entry /\ Aside \in Entry /\ Forms \subseteq Entry
           /\ card \in [Paths -> Entry] /\ ses \in [Sessions -> Session]
           /\ conv \in [pc : Steps \cup {"none"}, i : Sessions, bad : Nat]
<1>1. /\ conv.i \in Sessions /\ conv.bad \in Nat
      /\ conv \in [pc : Steps \cup {"none"}, i : Sessions, bad : Nat]
  BY FilesAssumption DEF TypeOK
<1>2. it \in Names /\ upload \in Contents
  BY <1>1 DEF TypeOK, it, upload
<1>3. Name(it) \in Paths /\ Temp(it) \in Paths /\ Name(it) # Temp(it)
  BY <1>2, PathFacts
<1>4. card \in [Paths -> Entry] /\ ses \in [Sessions -> Session]
  BY Types
<1>5. \A k \in {"stranded", "big", "nest", "nested"} : Parts(k) \in Entry
  BY <1>2 DEF Parts, Entry, Kinds
<1>6. Here \in Entry /\ Aside \in Entry
  BY <1>3, <1>4 DEF Here, Aside
<1>7. QED
  BY <1>1, <1>2, <1>3, <1>4, <1>5, <1>6, Defaults DEF Forms

\* Such a step keeps everything but where the upload is.
LEMMA ConvFrame ==
    ASSUME FilesInv, conv.pc # "none", ConvStep, Placed' PROVE FilesInv'
<1>1. /\ TypeOK /\ WellFormed /\ Exclusive /\ Stored /\ Underway /\ Alone
      /\ Counted /\ left.faults \in Nat /\ left.commands \in Nat /\ search.began \in Nat
  BY FilesAssumption DEF FilesInv, TypeOK
<1>2. /\ it' = it /\ upload' = upload /\ ses' = ses /\ conv'.i = conv.i /\ conv'.pc # "none"
      /\ conv'.pc \in Steps
  BY DEF ConvStep, it, upload, Steps
<1>3. Counted' /\ left' \in Bounds
  <2>1. left' \in Bounds /\ left'.faults <= left.faults /\ left'.commands <= left.commands
    BY <1>1, Spending DEF ConvStep
  <2>2. Spend("faults") => left'.faults = left.faults - 1
    BY <1>1, Spending
  <2>3. left'.faults \in Nat /\ left'.commands \in Nat /\ conv.bad \in Nat
    BY <1>1, <2>1, Converted, FilesAssumption DEF Bounds
  <2>4. QED
    BY <1>1, <2>1, <2>2, <2>3, FilesAssumption DEF ConvStep, Counted
<1>4. conv' \in [pc : Steps \cup {"none"}, i : Sessions, bad : 0 .. MaxFaults]
  BY <1>3, FilesAssumption DEF ConvStep, Counted, Bounds
<1>5. TypeOK'
  BY <1>1, <1>3, <1>4, Types DEF ConvStep, TypeOK, Entry, Bounds
<1>6. WellFormed'
  <2>1. Len(upload) <= PlainMax
    BY <1>1 DEF Underway
  <2>2. \A e \in Forms : /\ ~spared => e.kind \in {"none", "file", "dir", "stranded", "big"}
                         /\ e.kind \in {"file", "hollow"} => Len(e.data) <= PlainMax
    BY <1>1, <2>1, Converted DEF Forms, WellFormed, None, Dir, File, Hollow, Parts, Here, Aside
  <2>3. QED
    BY <1>1, <1>2, <2>2 DEF WellFormed, ConvStep, Here, Aside
<1>7. Exclusive'
  BY <1>1, <1>2 DEF Exclusive, Holds, Converting
<1>8. Stored'
  <2> SUFFICES ASSUME NEW i \in Sessions, Uploads(i)
               PROVE  card'[Name(ses[i].n)] = card[Name(ses[i].n)]
    BY <1>1, <1>2 DEF Stored, Uploads
  <2>1. i # conv.i
    BY <1>1 DEF Underway, Uploads
  <2>2. ses[i].n # it /\ ses[i].n \in Names
    BY <1>1, <2>1, Converted DEF Exclusive, Holds, Converting, Uploads, it, Session
  <2>3. QED
    BY <2>2, PathFacts DEF ConvStep
<1>9. Underway'
  BY <1>1, <1>2 DEF Underway
<1>10. Alone' /\ Prepared'
  BY <1>1 DEF Alone, Prepared, ConvStep
<1>11. QED
  BY <1>3, <1>5, <1>6, <1>7, <1>8, <1>9, <1>10 DEF FilesInv

\* A call that is carried out with effect g, is refused, or fails.
Carried(g, then)    == card' = g /\ left' = left /\ conv' = [conv EXCEPT !.pc = then]
Refused(otherwise)  == card' = card /\ left' = left /\ conv' = [conv EXCEPT !.pc = otherwise]
Failed(otherwise)   == /\ card' = card /\ Spend("faults")
                       /\ conv' = [conv EXCEPT !.pc = otherwise, !.bad = conv.bad + 1]

\* The next point of the conversion and what it counts.
LEMMA CallPoints ==
    ASSUME TypeOK, NEW g, NEW pc \in Steps, ses' = ses,
           Carried(g, pc) \/ Refused(pc) \/ Failed(pc)
    PROVE  /\ conv' \in [pc : Steps, i : Sessions, bad : Nat]
           /\ conv'.pc = pc /\ conv'.i = conv.i
           /\ conv'.bad = IF Failed(pc) THEN conv.bad + 1 ELSE conv.bad
           /\ it' = it /\ upload' = upload
<1>1. conv \in [pc : Steps \cup {"none"}, i : Sessions, bad : Nat] /\ conv.bad \in Nat
  BY Converted
<1>2. conv.bad + 1 \in Nat
  BY <1>1
<1>3. CASE Failed(pc)
  BY <1>1, <1>2, <1>3 DEF Failed, it, upload
<1>4. CASE ~Failed(pc) /\ conv' = [conv EXCEPT !.pc = pc]
  BY <1>1, <1>4 DEF it, upload
<1>5. QED
  BY <1>3, <1>4 DEF Carried, Refused

\* Each of the three keeps to the two places of the file.
LEMMA CallStep ==
    ASSUME TypeOK, NEW g \in [Paths -> Entry], NEW pc \in Steps,
           g[Name(it)] \in Forms, g[Temp(it)] \in Forms,
           \A p \in Paths \ {Name(it), Temp(it)} : g[p] = card[p],
           Carried(g, pc) \/ Refused(pc) \/ Failed(pc),
           ses' = ses, cmd' = cmd, search' = search, spared' = spared
    PROVE  ConvStep
<1>1. card' \in [Paths -> Entry] /\ card' \in {g, card}
  BY Converted DEF Carried, Refused, Failed
<1>2. /\ conv'.i = conv.i /\ conv' \in [pc : Steps, i : Sessions, bad : Nat]
      /\ it' = it
  BY CallPoints
<1>3. \/ left' = left /\ conv'.bad = conv.bad
      \/ Spend("faults") /\ conv'.bad = conv.bad + 1
  BY CallPoints DEF Carried, Refused, Failed
<1>4. Here' \in Forms /\ Aside' \in Forms
  BY <1>1, <1>2 DEF Here, Aside, Forms
<1>5. QED
  BY <1>1, <1>2, <1>3, <1>4 DEF ConvStep

\* A call that leaves the upload where the next call looks for it.
Finds(g, h, a, pc) ==
    /\ ses' = ses /\ cmd' = cmd /\ search' = search /\ spared' = spared
    /\ \/ Carried(g, pc) /\ PlacedAt(pc, conv.bad, h, a)
       \/ Refused(pc) /\ PlacedAt(pc, conv.bad, Here, Aside)
       \/ Failed(pc) /\ PlacedAt(pc, conv.bad + 1, Here, Aside)

\* Such a call keeps the invariant.
LEMMA CallKeeps ==
    ASSUME FilesInv, conv.pc # "none", NEW g \in [Paths -> Entry], NEW pc \in Steps,
           NEW h \in Forms, NEW a \in Forms, g[Name(it)] = h, g[Temp(it)] = a,
           \A p \in Paths \ {Name(it), Temp(it)} : g[p] = card[p],
           Finds(g, h, a, pc)
    PROVE  FilesInv'
<1>1. TypeOK /\ UNCHANGED <<ses, cmd, search, spared>> /\ conv.bad \in Nat
  BY Converted DEF FilesInv, Finds
<1>2. Carried(g, pc) \/ Refused(pc) \/ Failed(pc)
  BY DEF Finds
<1>3. ConvStep
  BY <1>1, <1>2, CallStep
<1>4. /\ conv'.pc = pc /\ it' = it /\ upload' = upload
      /\ conv'.bad = IF Failed(pc) THEN conv.bad + 1 ELSE conv.bad
  BY <1>1, <1>2, CallPoints
<1>5. \A b, x, y : PlacedAt(pc, b, x, y) => PlacedAt(pc, b, x, y)'
  BY <1>4 DEF PlacedAt, Parts, Plain, Unmarked, Marked
<1>6. Placed'
  <2>1. CASE Carried(g, pc) /\ PlacedAt(pc, conv.bad, h, a)
    <3>1. ~Failed(pc) /\ Here' = h /\ Aside' = a
      BY <1>1, <1>4, <2>1 DEF Carried, Failed, Here, Aside, Spend, TypeOK
    <3>2. QED
      BY <1>4, <1>5, <2>1, <3>1 DEF Placed
  <2>2. CASE Refused(pc) /\ PlacedAt(pc, conv.bad, Here, Aside)
    <3>1. ~Failed(pc) /\ Here' = Here /\ Aside' = Aside
      BY <1>1, <1>4, <2>2 DEF Refused, Failed, Here, Aside, Spend, TypeOK
    <3>2. QED
      BY <1>4, <1>5, <2>2, <3>1 DEF Placed
  <2>3. CASE Failed(pc) /\ PlacedAt(pc, conv.bad + 1, Here, Aside)
    <3>1. Here' = Here /\ Aside' = Aside
      BY <1>4, <2>3 DEF Failed, Here, Aside
    <3>2. QED
      BY <1>4, <1>5, <2>3, <3>1 DEF Placed
  <2>4. QED
    BY <2>1, <2>2, <2>3 DEF Finds
<1>7. QED
  BY <1>3, <1>6, ConvFrame

\* The file goes aside; in the way of the first try an old temporary file can be.
LEMMA RenameStep ==
    ASSUME FilesInv, RenameAside \/ RenameAgain PROVE FilesInv'
<1> DEFINE g == renamed(Name(it), Temp(it))
<1>1. TypeOK /\ Placed /\ conv.pc \in {"rename", "again"} /\ UNCHANGED <<ses, cmd, search, spared>>
  BY DEF FilesInv, Underway, RenameAside, RenameAgain, At, Call
<1>2. /\ Name(it) \in Paths /\ Temp(it) \in Paths /\ Name(it) # Temp(it)
      /\ card \in [Paths -> Entry] /\ None \in Entry /\ conv.bad \in Nat
  BY <1>1, Converted, Defaults
<1>3. /\ g \in [Paths -> Entry] /\ g[Name(it)] = None /\ g[Temp(it)] = Here
      /\ \A p \in Paths \ {Name(it), Temp(it)} : g[p] = card[p]
  BY <1>2 DEF renamed, Here
<1>4. Here \in Plain /\ (conv.pc = "again" => Aside = None)
  BY <1>1 DEF Placed, PlacedAt
<1>5. renames(Name(it), Temp(it)) <=> Aside = None
  BY <1>4 DEF renames, isFile, Plain, File, Hollow, Here, Aside
<1>6. \/ Carried(g, "mkdir")
      \/ Refused("clear") /\ Aside # None
      \/ Failed("clear") \/ Failed("giveUp")
  BY <1>4, <1>5 DEF RenameAside, RenameAgain, At, Call, Carried, Refused, Failed, NoFault, Fault
<1>7. \E pc \in {"mkdir", "clear", "giveUp"} : Finds(g, None, Here, pc)
  BY <1>1, <1>2, <1>4, <1>6 DEF Finds, PlacedAt
<1>8. {"mkdir", "clear", "giveUp"} \subseteq Steps /\ conv.pc # "none"
  BY <1>1 DEF Steps
<1>9. QED
  BY <1>3, <1>7, <1>8, CallKeeps DEF Forms

\* An old temporary file is cleared.
LEMMA ClearStep ==
    ASSUME FilesInv, ClearTemp PROVE FilesInv'
<1> DEFINE g == [card EXCEPT ![Temp(it)] = None]
<1>1. TypeOK /\ Placed /\ conv.pc = "clear" /\ UNCHANGED <<ses, cmd, search, spared>>
  BY DEF FilesInv, Underway, ClearTemp, At, Call
<1>2. /\ Name(it) \in Paths /\ Temp(it) \in Paths /\ Name(it) # Temp(it)
      /\ card \in [Paths -> Entry] /\ None \in Entry /\ conv.bad \in Nat
  BY <1>1, Converted, Defaults
<1>3. /\ g \in [Paths -> Entry] /\ g[Name(it)] = Here /\ g[Temp(it)] = None
      /\ \A p \in Paths \ {Name(it), Temp(it)} : g[p] = card[p]
  BY <1>2 DEF Here
<1>4. Here \in Plain /\ (conv.bad = 0 => Aside # None)
  BY <1>1 DEF Placed, PlacedAt
<1>5. Carried(g, "again") \/ (Refused("giveUp") /\ ~isFile(Aside)) \/ Failed("giveUp")
  BY DEF ClearTemp, Call, Carried, Refused, Failed, NoFault, Fault, Aside
<1>6. \E pc \in {"again", "giveUp"} : Finds(g, Here, None, pc)
  BY <1>1, <1>2, <1>4, <1>5 DEF Finds, PlacedAt
<1>7. {"again", "giveUp"} \subseteq Steps /\ conv.pc # "none"
  BY <1>1 DEF Steps
<1>8. QED
  BY <1>3, <1>6, <1>7, CallKeeps DEF Forms

\* The directory is made.
LEMMA DirectoryStep ==
    ASSUME FilesInv, MakeDirectory PROVE FilesInv'
<1> DEFINE g == [card EXCEPT ![Name(it)] = Dir]
<1>1. TypeOK /\ Placed /\ conv.pc = "mkdir" /\ UNCHANGED <<ses, cmd, search, spared>>
  BY DEF FilesInv, Underway, MakeDirectory, At, Call
<1>2. /\ Name(it) \in Paths /\ Temp(it) \in Paths /\ Name(it) # Temp(it)
      /\ card \in [Paths -> Entry] /\ Dir \in Entry /\ conv.bad \in Nat
  BY <1>1, Converted, Defaults
<1>3. /\ g \in [Paths -> Entry] /\ g[Name(it)] = Dir /\ g[Temp(it)] = Aside
      /\ \A p \in Paths \ {Name(it), Temp(it)} : g[p] = card[p]
  BY <1>2 DEF Aside
<1>4. Here = None /\ Aside \in Plain
  BY <1>1 DEF Placed, PlacedAt
<1>5. [None EXCEPT !.kind = "dir"] = Dir
  BY DEF None, Dir
<1>6. Carried(g, "move") \/ Failed("back")
  BY <1>4, <1>5 DEF MakeDirectory, Call, Carried, Failed, NoFault, Fault, Here
<1>7. \E pc \in {"move", "back"} : Finds(g, Dir, Aside, pc)
  BY <1>1, <1>2, <1>4, <1>6 DEF Finds, PlacedAt
<1>8. {"move", "back"} \subseteq Steps /\ conv.pc # "none"
  BY <1>1 DEF Steps
<1>9. QED
  BY <1>3, <1>7, <1>8, CallKeeps DEF Forms

\* The file comes back, from before the directory was made or after it was removed.
LEMMA BackStep ==
    ASSUME FilesInv, RenameBack \/ UndoTemp PROVE FilesInv'
<1> DEFINE g == renamed(Temp(it), Name(it))
<1>1. TypeOK /\ Placed /\ conv.pc \in {"back", "untemp"} /\ UNCHANGED <<ses, cmd, search, spared>>
  BY DEF FilesInv, Underway, RenameBack, UndoTemp, At, Call
<1>2. /\ Name(it) \in Paths /\ Temp(it) \in Paths /\ Name(it) # Temp(it)
      /\ card \in [Paths -> Entry] /\ None \in Entry /\ conv.bad \in Nat
  BY <1>1, Converted, Defaults
<1>3. /\ g \in [Paths -> Entry] /\ g[Name(it)] = Aside /\ g[Temp(it)] = None
      /\ \A p \in Paths \ {Name(it), Temp(it)} : g[p] = card[p]
  BY <1>2 DEF renamed, Aside
<1>4. \/ conv.bad >= 1 /\ Here = None /\ Aside \in Plain
      \/ conv.bad >= 2 /\ Here = Dir /\ Aside \in Plain
      \/ conv.bad >= 2 /\ Here \in Unmarked /\ Aside = None
  BY <1>1 DEF Placed, PlacedAt
<1>5. renames(Temp(it), Name(it)) <=> Here = None
  BY <1>4 DEF renames, isFile, Plain, File, Hollow, Unmarked, Here, Aside, None, Dir, Parts
<1>6. \/ Carried(g, "giveUp") /\ Here = None
      \/ Refused("giveUp") /\ Here # None
      \/ Failed("giveUp") /\ Here = None
  BY <1>5 DEF RenameBack, UndoTemp, Call, Carried, Refused, Failed, NoFault, Fault
<1>7. None # Dir /\ None \notin Unmarked
  BY DEF None, Dir, Unmarked, Parts
<1>8. Finds(g, Aside, None, "giveUp")
  BY <1>1, <1>2, <1>4, <1>6, <1>7 DEF Finds, PlacedAt
<1>9. "giveUp" \in Steps /\ conv.pc # "none"
  BY <1>1 DEF Steps
<1>10. QED
  BY <1>3, <1>8, <1>9, CallKeeps DEF Forms

\* The file becomes the part 00 of the directory.
LEMMA MoveStep ==
    ASSUME FilesInv, MoveIn PROVE FilesInv'
<1> DEFINE h == Parts(IF Aside.kind = "file" THEN "stranded" ELSE "nest")
           g == [card EXCEPT ![Name(it)] = h, ![Temp(it)] = None]
<1>1. /\ TypeOK /\ WellFormed /\ Placed /\ conv.pc = "move" /\ UNCHANGED <<ses, cmd, search, spared>>
  BY DEF FilesInv, Underway, MoveIn, At, Call
<1>2. /\ Name(it) \in Paths /\ Temp(it) \in Paths /\ Name(it) # Temp(it)
      /\ card \in [Paths -> Entry] /\ None \in Entry /\ conv.bad \in Nat /\ Forms \subseteq Entry
  BY <1>1, Converted, Defaults
<1>3. Here = Dir /\ Aside \in Plain
  BY <1>1 DEF Placed, PlacedAt
<1>4. isFile(Aside) /\ Aside.kind \in {"file", "hollow"} /\ Aside.data = upload
  BY <1>3 DEF isFile, Plain, File, Hollow
<1>5. Aside.kind = "hollow" => spared
  BY <1>1, <1>2 DEF WellFormed, Aside
<1>6. h \in Forms /\ h \in Unmarked
  BY <1>4, <1>5 DEF Forms, Unmarked
<1>8. Carried(g, "bit") \/ Failed("undir")
  <2>1. [kind |-> IF Aside.kind = "file" THEN "stranded" ELSE "nest", data |-> Aside.data] = h
    BY <1>4 DEF Parts
  <2>2. QED
    BY <1>4, <2>1 DEF MoveIn, Call, Carried, Failed, NoFault, Fault, Aside
<1>9. /\ g \in [Paths -> Entry] /\ g[Name(it)] = h /\ g[Temp(it)] = None
      /\ \A p \in Paths \ {Name(it), Temp(it)} : g[p] = card[p]
  BY <1>2, <1>6
<1> HIDE DEF g, h
<1>10. \E pc \in {"bit", "undir"} : Finds(g, h, None, pc)
  BY <1>1, <1>2, <1>3, <1>6, <1>8 DEF Finds, PlacedAt
<1>11. {"bit", "undir"} \subseteq Steps /\ conv.pc # "none"
  BY <1>1 DEF Steps
<1>12. QED
  BY <1>6, <1>9, <1>10, <1>11, CallKeeps DEF Forms

\* The directory becomes a file.
LEMMA BitStep ==
    ASSUME FilesInv, SetBit PROVE FilesInv'
<1> DEFINE h == Parts(IF Here.kind = "stranded" THEN "big" ELSE "nested")
           g == [card EXCEPT ![Name(it)] = h]
<1>1. /\ TypeOK /\ WellFormed /\ Placed /\ conv.pc = "bit" /\ UNCHANGED <<ses, cmd, search, spared>>
  BY DEF FilesInv, Underway, SetBit, At, Call
<1>2. /\ Name(it) \in Paths /\ Temp(it) \in Paths /\ Name(it) # Temp(it)
      /\ card \in [Paths -> Entry] /\ conv.bad \in Nat /\ Forms \subseteq Entry
  BY <1>1, Converted
<1>3. Here \in Unmarked /\ Aside = None
  BY <1>1 DEF Placed, PlacedAt
<1>4. Here.kind = "stranded" \/ spared
  BY <1>1, <1>2, <1>3 DEF WellFormed, Here, Unmarked, Parts
<1>5. h \in Forms /\ h \in Marked
  BY <1>4 DEF Forms, Marked
<1>6. [card EXCEPT ![Name(it)].kind = IF @ = "stranded" THEN "big" ELSE "nested"] = g
  <2>1. [card[Name(it)] EXCEPT !.kind = IF card[Name(it)].kind = "stranded" THEN "big" ELSE "nested"] = h
    BY <1>3 DEF Here, Unmarked, Parts
  <2>2. QED
    BY <2>1
<1>7. Carried(g, "reopen") \/ Failed("unpart")
  BY <1>6 DEF SetBit, Call, Carried, Failed, NoFault, Fault
<1>8. /\ g \in [Paths -> Entry] /\ g[Name(it)] = h /\ g[Temp(it)] = Aside
      /\ \A p \in Paths \ {Name(it), Temp(it)} : g[p] = card[p]
  BY <1>2, <1>5 DEF Aside
<1> HIDE DEF g, h
<1>9. \E pc \in {"reopen", "unpart"} : Finds(g, h, Aside, pc)
  BY <1>1, <1>2, <1>3, <1>5, <1>7 DEF Finds, PlacedAt
<1>10. {"reopen", "unpart"} \subseteq Steps /\ conv.pc # "none"
  BY <1>1 DEF Steps
<1>11. QED
  BY <1>5, <1>8, <1>9, <1>10, CallKeeps DEF Forms

\* ftpVfsUndoConversion takes the part out, and removes the directory when it is empty.
LEMMA UndoStep ==
    ASSUME FilesInv, UndoPart \/ UndoDirectory PROVE FilesInv'
<1>1. /\ TypeOK /\ WellFormed /\ Placed /\ conv.pc \in {"unpart", "undir"}
      /\ UNCHANGED <<ses, cmd, search, spared>>
  BY DEF FilesInv, Underway, UndoPart, UndoDirectory, At, Call
<1>2. /\ Name(it) \in Paths /\ Temp(it) \in Paths /\ Name(it) # Temp(it)
      /\ card \in [Paths -> Entry] /\ None \in Entry /\ Dir \in Entry
      /\ conv.bad \in Nat /\ Forms \subseteq Entry
  BY <1>1, Converted, Defaults
<1>3. {"undir", "untemp"} \subseteq Steps /\ conv.pc # "none"
  BY <1>1 DEF Steps
<1>4. CASE UndoPart
  <2> DEFINE a == Parts(IF Here.kind = "stranded" THEN "file" ELSE "hollow")
             g == [card EXCEPT ![Temp(it)] = a, ![Name(it)] = Dir]
  <2>1. conv.bad >= 1 /\ Here \in Unmarked /\ Aside = None
    BY <1>1, <1>4 DEF UndoPart, At, Placed, PlacedAt
  <2>2. Here.data = upload /\ [None EXCEPT !.kind = "dir"] = Dir
    BY <2>1 DEF Unmarked, Parts, None, Dir
  <2>3. Here.kind = "stranded" \/ spared
    BY <1>1, <1>2, <2>1 DEF WellFormed, Here, Unmarked, Parts
  <2>4. a \in Forms /\ a \in Plain
    BY <2>3 DEF Forms, Plain, File, Hollow, Parts
  <2>5. Carried(g, "undir") \/ Failed("undir")
    <3>1. [kind |-> IF Here.kind = "stranded" THEN "file" ELSE "hollow", data |-> Here.data] = a
      BY <2>2 DEF Parts
    <3>2. QED
      BY <1>4, <2>1, <2>2, <3>1 DEF UndoPart, Call, Carried, Failed, NoFault, Fault, Aside, Here
  <2>6. /\ g \in [Paths -> Entry] /\ g[Name(it)] = Dir /\ g[Temp(it)] = a
        /\ \A p \in Paths \ {Name(it), Temp(it)} : g[p] = card[p]
    BY <1>2, <2>4
  <2> HIDE DEF g, a
  <2>7. Finds(g, Dir, a, "undir")
    BY <1>1, <1>2, <2>1, <2>4, <2>5 DEF Finds, PlacedAt
  <2>8. QED
    BY <1>3, <2>4, <2>6, <2>7, CallKeeps DEF Forms
<1>5. CASE UndoDirectory
  <2> DEFINE g == [card EXCEPT ![Name(it)] = None]
  <2>1. /\ g \in [Paths -> Entry] /\ g[Name(it)] = None /\ g[Temp(it)] = Aside
        /\ \A p \in Paths \ {Name(it), Temp(it)} : g[p] = card[p]
    BY <1>2 DEF Aside
  <2>2. \/ conv.bad >= 1 /\ Here = Dir /\ Aside \in Plain
        \/ conv.bad >= 2 /\ Here \in Unmarked /\ Aside = None
    BY <1>1, <1>5 DEF UndoDirectory, At, Placed, PlacedAt
  <2>3. Here.kind = "dir" <=> Here = Dir
    BY <2>2 DEF Dir, Unmarked, Parts
  <2>4. \/ Carried(g, "untemp") /\ Here = Dir
        \/ Refused("untemp") /\ Here # Dir
        \/ Failed("untemp") /\ Here = Dir
    BY <1>5, <2>3 DEF UndoDirectory, Call, Carried, Refused, Failed, NoFault, Fault, Here
  <2>5. Dir \notin Unmarked
    BY DEF Dir, Unmarked, Parts
  <2>6. Finds(g, None, Aside, "untemp")
    BY <1>1, <1>2, <2>2, <2>4, <2>5 DEF Finds, PlacedAt
  <2>7. QED
    BY <1>3, <2>1, <2>6, CallKeeps DEF Forms
<1>6. QED
  BY <1>4, <1>5

\* ftpVfsReopenForWrite ends the conversion.
LEMMA ReopenStep ==
    ASSUME FilesInv, Reopen PROVE FilesInv'
<1> DEFINE i == conv.i
           up == [ses EXCEPT ![i].open = TRUE, ![i].concatenation = At("reopen"), ![i].failed = At("giveUp")]
<1>1. /\ TypeOK /\ WellFormed /\ Exclusive /\ Stored /\ Underway /\ Placed
      /\ Counted /\ conv.pc \in {"reopen", "giveUp"}
  BY DEF FilesInv, Underway, Reopen, At
<1>2. conv' = NoConversion /\ UNCHANGED <<card, cmd, search, spared>>
  BY DEF Reopen
<1>3. /\ i \in Sessions /\ ses \in [Sessions -> Session] /\ conv.bad \in Nat
      /\ ~ses[i].open /\ ses[i].mode # "READ"
  BY <1>1, Converted DEF TypeOK, Underway
<1>4. left' = left \/ Spend("faults")
  BY DEF Reopen, NoFault, Fault
<1>5. TypeOK' /\ Counted' /\ WellFormed' /\ Underway'
  <2>1. ses' \in [Sessions -> Session]
    <3>1. TRUE \in BOOLEAN /\ FALSE \in BOOLEAN
      OBVIOUS
    <3>2. \/ ses' = [ses EXCEPT ![i].open = TRUE, ![i].concatenation = TRUE, ![i].failed = FALSE]
          \/ ses' = [ses EXCEPT ![i].open = TRUE, ![i].concatenation = FALSE, ![i].failed = TRUE]
          \/ ses' = [ses EXCEPT ![i] = Closed]
      BY DEF Reopen, At
    <3>3. /\ \A b, c, e \in BOOLEAN :
                [ses EXCEPT ![i].open = b, ![i].concatenation = c, ![i].failed = e] \in [Sessions -> Session]
          /\ [ses EXCEPT ![i] = Closed] \in [Sessions -> Session]
      BY <1>3, SessionTypes, ZenonT(60)
    <3>4. QED
      BY <3>1, <3>2, <3>3, Zenon
  <2>2. left' \in Bounds /\ left'.faults <= left.faults /\ left'.commands <= left.commands
    BY <1>1, <1>4, Spending
  <2>3. TypeOK'
    BY <1>1, <1>2, <2>1, <2>2, Types, TypesNext, Defaults
  <2>4. Counted'
    <3>1. /\ left.faults \in Nat /\ left.commands \in Nat /\ search.began \in Nat
          /\ left'.faults \in Nat /\ left'.commands \in Nat
      BY <1>1, <2>2, FilesAssumption DEF TypeOK, Bounds
    <3>2. QED
      BY <1>1, <1>2, <1>3, <2>2, <3>1, Defaults, FilesAssumption DEF Counted
  <2>5. QED
    BY <1>1, <1>2, <2>3, <2>4, Defaults DEF WellFormed, Underway
<1>6. Alone' /\ Prepared'
  BY <1>1, <1>2, Defaults DEF FilesInv, Alone, Prepared, inUse
<1>7. CASE ses' = [ses EXCEPT ![i] = Closed]
  <2>1. \A j \in Sessions : j # i => ses'[j] = ses[j]
    BY <1>3, <1>7
  <2>2. ses'[i] = Closed
    BY <1>3, <1>7
  <2>3. Exclusive' /\ Stored'
    BY <1>1, <1>2, <2>1, <2>2, Defaults DEF Exclusive, Stored, Uploads, Holds, Converting
  <2>4. QED
    BY <1>5, <1>6, <2>3 DEF FilesInv
<1>8. CASE ses' = up /\ isFile(card[Name(it)])
  <2>1. \A j \in Sessions : j # i => ses'[j] = ses[j]
    BY <1>3, <1>8
  <2>2. /\ ses'[i].n = ses[i].n /\ ses'[i].mode = ses[i].mode /\ ses'[i].data = ses[i].data
        /\ ses'[i].concatenation = At("reopen")
    BY <1>3, <1>8 DEF Session
  <2>3. Exclusive'
    BY <1>1, <1>2, <2>1, <2>2, Defaults DEF Exclusive, Holds, Converting
  <2>4. \/ conv.pc = "reopen" /\ Here \in Marked
        \/ conv.pc = "giveUp" /\ Here \in Plain
    BY <1>1, <1>8 DEF Placed, PlacedAt, Here, isFile, None, Dir, Unmarked, Parts
  <2>5. /\ isFile(Here) /\ Here.data = ses[i].data
        /\ conv.pc = "reopen" => isConcatenationFile(Here)
    BY <2>4 DEF Plain, Marked, File, Hollow, Parts, upload, isFile, isConcatenationFile
  <2>6. Stored'
    BY <1>1, <1>2, <1>3, <2>1, <2>2, <2>5, ZenonT(40) DEF Stored, Uploads, Here, it, At
  <2>7. QED
    BY <1>5, <1>6, <2>3, <2>6 DEF FilesInv
<1>9. QED
  BY <1>7, <1>8 DEF Reopen

-----------------------------------------------------------------------------
(* The commands, served when no conversion is under way.                   *)

\* What every call of a command leaves alone.
Served ==
    /\ At("none") /\ conv' = conv /\ search' = search /\ cmd' \in Command
    /\ spared' \in BOOLEAN /\ (spared => spared')
    /\ left' = left \/ Spend("commands") \/ Spend("faults")

\* Such a call keeps the invariant when it keeps these parts of it.
LEMMA ServedFrame ==
    ASSUME FilesInv, Served, card' \in [Paths -> Entry], ses' \in [Sessions -> Session],
           WellFormed', Exclusive', Stored', Prepared'
    PROVE  FilesInv'
<1>1. /\ TypeOK /\ Counted /\ conv.bad \in Nat /\ left.faults \in Nat /\ left.commands \in Nat
      /\ search.began \in Nat
  BY Converted, FilesAssumption DEF FilesInv, TypeOK
<1>2. left' \in Bounds /\ left'.faults <= left.faults /\ left'.commands <= left.commands
  BY <1>1, Spending DEF Served
<1>3. TypeOK'
  BY <1>1, <1>2, Types, TypesNext DEF Served
<1>4. Counted'
  <2>1. left'.faults \in Nat /\ left'.commands \in Nat
    BY <1>2, FilesAssumption DEF Bounds
  <2>2. QED
    BY <1>1, <1>2, <2>1, FilesAssumption DEF Served, Counted
<1>5. Underway' /\ Alone'
  BY DEF Served, Underway, Alone, At
<1>6. QED
  BY <1>3, <1>4, <1>5 DEF FilesInv

\* A name is changed that no upload has open.
LEMMA NamesFrame ==
    ASSUME FilesInv, Served, ses' = ses, Prepared', card' \in [Paths -> Entry],
           \A p \in Paths : \/ card'[p] = card[p]
                            \/ /\ ~inUse(p) \/ ~isFile(card[p])
                               /\ card'[p] \in {None, Dir, File(<<>>)} \cup {card[q] : q \in Paths}
    PROVE  FilesInv'
<1>1. TypeOK /\ WellFormed /\ Exclusive /\ Stored
  BY DEF FilesInv
<1>2. WellFormed'
  <2>1. \A e \in {None, Dir, File(<<>>)} : /\ e.kind \in {"none", "file", "dir"}
                                           /\ e.kind = "file" => Len(e.data) <= PlainMax
    BY ContentFacts, FilesAssumption DEF None, Dir, File
  <2>2. QED
    BY <1>1, <2>1 DEF WellFormed, Served
<1>3. Exclusive'
  BY <1>1 DEF Exclusive, Holds, Converting, Served
<1>4. Stored'
  <2> SUFFICES ASSUME NEW i \in Sessions, Uploads(i)
               PROVE  card'[Name(ses[i].n)] = card[Name(ses[i].n)]
    BY <1>1 DEF Stored, Uploads
  <2>1. Name(ses[i].n) \in Paths /\ inUse(Name(ses[i].n)) /\ isFile(card[Name(ses[i].n)])
    BY <1>1, Types, PathFacts DEF Stored, Uploads, inUse, isFile, Session
  <2>2. QED
    BY <2>1
<1>5. QED
  BY <1>1, <1>2, <1>3, <1>4, ServedFrame, Types

\* The first call of a command.
Asks(c) == c.pc \in {"delete", "mkdir", "unlink", "rmdir", "guard"} /\ (c.pc = "delete" => c.p = Name(c.p[1]))

\* A command asks, and is about to go on.
LEMMA AskStep ==
    ASSUME FilesInv, At("none"), NEW c \in Command, Asks(c), Begin(c)
    PROVE  FilesInv'
<1>1. search.began \in 0 .. MaxCommands
  BY DEF FilesInv, TypeOK
<1>2. cmd' \in Command /\ cmd'.pc = c.pc /\ cmd'.p = c.p /\ UNCHANGED <<card, ses, conv, search, spared>>
  BY <1>1 DEF Begin, Command
<1>3. Served
  BY <1>2, Types DEF FilesInv, Begin, Served
<1>4. Prepared'
  BY <1>2 DEF Prepared, Asks
<1>5. QED
  BY <1>2, <1>3, <1>4, NamesFrame, Types DEF FilesInv

\* A pending command goes on to another of its calls, or is done.
LEMMA GoOn ==
    ASSUME FilesInv, cmd.pc # "none"
    PROVE  /\ At("none") /\ cmd \in Command /\ cmd.p \in Paths /\ cmd.q \in Paths
           /\ \A pc \in Calls \cup {"none"} : goOn(pc) \in Command /\ goOn(pc).pc = pc
           /\ \A pc \in Calls : pc # "none" /\ goOn(pc).p = cmd.p
<1>1. At("none") /\ cmd \in Command
  BY Types DEF FilesInv, Alone, At
<1>2. "none" \notin Calls
  BY DEF Calls
<1>3. QED
  BY <1>1, <1>2, Defaults DEF Command, goOn

\* A call of Use is carried out, or it changes nothing on the card.
Used(effect, then, otherwise) ==
    /\ \/ card' = effect /\ cmd' = goOn(then)
       \/ card' = card /\ cmd' = goOn(otherwise)
    /\ left' = left \/ Spend("faults")
    /\ UNCHANGED <<ses, conv, search, spared>>

\* The card after such a call, when what it changes is no upload's.
LEMMA UsedStep ==
    ASSUME FilesInv, cmd.pc # "none", NEW effect,
           NEW then \in Calls \cup {"none"}, NEW otherwise \in Calls \cup {"none"},
           Used(effect, then, otherwise), Prepared',
           card' = effect =>
              /\ effect \in [Paths -> Entry]
              /\ \A p \in Paths : \/ effect[p] = card[p]
                                  \/ /\ ~inUse(p) \/ ~isFile(card[p])
                                     /\ effect[p] \in {None, Dir, File(<<>>)} \cup {card[q] : q \in Paths}
    PROVE  FilesInv'
<1>1. Served /\ ses' = ses
  BY GoOn, Types DEF FilesInv, Served, Used
<1>2. card' = card \/ card' = effect
  BY DEF Used
<1>3. card \in [Paths -> Entry]
  BY Types DEF FilesInv
<1>4. QED
  BY <1>1, <1>2, <1>3, NamesFrame

\* The calls of the commands that make, remove and rename.
LEMMA NamesStep ==
    ASSUME FilesInv, \/ CreateDirectory \/ DeleteFile \/ DeleteDirectory
                     \/ AskDestination \/ RenameEntry \/ DropDestination \/ RenameRetry
    PROVE  FilesInv'
<1>1. cmd.pc # "none" /\ cmd.p \in Paths /\ cmd.q \in Paths
  <2>1. cmd.pc # "none"
    BY DEF CreateDirectory, DeleteFile, DeleteDirectory, AskDestination, RenameEntry, DropDestination,
       RenameRetry, Doing
  <2>2. QED
    BY <2>1, GoOn
<1>2. card \in [Paths -> Entry] /\ None \in Entry /\ Dir \in Entry /\ [None EXCEPT !.kind = "dir"] = Dir
  BY Types, Defaults DEF FilesInv, None, Dir
<1>3. \A pc \in {"none", "rename", "replace", "retry"} :
         pc \in Calls \cup {"none"} /\ (cmd' = goOn(pc) => Prepared')
  <2>1. \A pc \in {"none", "rename", "replace", "retry"} : pc \in Calls \cup {"none"}
    BY DEF Calls
  <2>2. ASSUME NEW pc \in {"none", "rename", "replace", "retry"}, cmd' = goOn(pc) PROVE Prepared'
    <3>1. cmd'.pc \notin {"delete", "create", "open"}
      BY <1>1, <2>1, <2>2, GoOn
    <3>2. QED
      BY <3>1 DEF Prepared
  <2>3. QED
    BY <2>1, <2>2
<1>4. CASE CreateDirectory
  <2> DEFINE g == [card EXCEPT ![cmd.p] = Dir]
  <2>1. Used(g, "none", "none") /\ (card' = g => card' = card \/ card[cmd.p] = None)
    BY <1>2, <1>4, Zenon DEF CreateDirectory, Use, Used, NoFault, Fault
  <2>2. ~isFile(None)
    BY DEF isFile, None
  <2>3. g \in [Paths -> Entry] /\ g[cmd.p] = Dir /\ \A p \in Paths : p # cmd.p => g[p] = card[p]
    BY <1>1, <1>2
  <2>4. Prepared'
    BY <1>3, <2>1 DEF Used
  <2> HIDE DEF g
  <2>5. card' = g => \A p \in Paths : \/ g[p] = card[p]
                                      \/ ~isFile(card[p]) /\ g[p] = Dir
    BY <2>1, <2>2, <2>3
  <2>6. QED
    BY <1>1, <1>3, <2>1, <2>3, <2>4, <2>5, UsedStep
<1>5. CASE DeleteFile
  <2> DEFINE g == [card EXCEPT ![cmd.p] = None]
  <2>1. Used(g, "none", "none") /\ (card' = g => card' = card \/ ~inUse(cmd.p))
    BY <1>5, Zenon DEF DeleteFile, Use, Used, NoFault, Fault
  <2>2. g \in [Paths -> Entry] /\ g[cmd.p] = None /\ \A p \in Paths : p # cmd.p => g[p] = card[p]
    BY <1>1, <1>2
  <2>3. Prepared'
    BY <1>3, <2>1 DEF Used
  <2> HIDE DEF g
  <2>4. card' = g => \A p \in Paths : \/ g[p] = card[p]
                                      \/ ~inUse(p) /\ g[p] = None
    BY <2>1, <2>2
  <2>5. QED
    BY <1>1, <1>3, <2>1, <2>2, <2>3, <2>4, UsedStep
<1>6. CASE DeleteDirectory
  <2> DEFINE g == [card EXCEPT ![cmd.p] = None]
  <2>1. Used(g, "none", "none") /\ (card' = g => card' = card \/ card[cmd.p].kind = "dir")
    BY <1>6, Zenon DEF DeleteDirectory, Use, Used, NoFault, Fault
  <2>2. g \in [Paths -> Entry] /\ g[cmd.p] = None /\ \A p \in Paths : p # cmd.p => g[p] = card[p]
    BY <1>1, <1>2
  <2>3. Prepared'
    BY <1>3, <2>1 DEF Used
  <2> HIDE DEF g
  <2>4. card' = g => \A p \in Paths : \/ g[p] = card[p]
                                      \/ ~isFile(card[p]) /\ g[p] = None
    BY <2>1, <2>2 DEF isFile
  <2>5. QED
    BY <1>1, <1>3, <2>1, <2>2, <2>3, <2>4, UsedStep
<1>7. CASE AskDestination
  <2>1. Used(card, "rename", "none")
    BY <1>7, Zenon DEF AskDestination, Use, Used, NoFault, Fault
  <2>2. Prepared'
    BY <1>3, <2>1 DEF Used
  <2>3. QED
    BY <1>1, <1>2, <1>3, <2>1, <2>2, UsedStep
<1>8. CASE RenameEntry \/ RenameRetry
  <2>1. PICK otherwise \in {"none", "replace"} :
           /\ Used(moved, "none", otherwise)
           /\ card' = moved => card' = card \/ movable
    <3>1. CASE RenameEntry
      <4>1. PICK otherwise \in {"none", "replace"} : Use(movable, moved, "none", otherwise)
        BY <3>1, Zenon DEF RenameEntry
      <4>2. QED
        BY <4>1, Zenon DEF Use, Used, NoFault, Fault
    <3>2. CASE RenameRetry
      BY <3>2, Zenon DEF RenameRetry, Use, Used, NoFault, Fault
    <3>3. QED
      BY <1>8, <3>1, <3>2
  <2>2. /\ moved \in [Paths -> Entry]
        /\ \A p \in Paths : p \notin {cmd.p, cmd.q} => moved[p] = card[p]
        /\ moved[cmd.p] = None /\ (cmd.p # cmd.q => moved[cmd.q] = card[cmd.p])
    BY <1>1, <1>2 DEF moved, renamed
  <2>3. Prepared'
    BY <1>3, <2>1 DEF Used
  <2>4. movable => ~inUse(cmd.p) /\ ~isFile(card[cmd.q])
    BY DEF movable, isFile, None
  <2>5. card' = moved => \A p \in Paths : \/ moved[p] = card[p]
                                          \/ /\ ~inUse(p) \/ ~isFile(card[p])
                                             /\ moved[p] \in {None, card[cmd.p]}
    BY <2>1, <2>2, <2>4
  <2>6. QED
    BY <1>1, <1>3, <2>1, <2>2, <2>3, <2>5, UsedStep
<1>9. CASE DropDestination
  <2> DEFINE g == [card EXCEPT ![cmd.q] = None]
  <2>1. Used(g, "retry", "none") /\ (card' = g => card' = card \/ ~inUse(cmd.q))
    BY <1>9, Zenon DEF DropDestination, Use, Used, NoFault, Fault
  <2>2. g \in [Paths -> Entry] /\ g[cmd.q] = None /\ \A p \in Paths : p # cmd.q => g[p] = card[p]
    BY <1>1, <1>2
  <2>3. Prepared'
    BY <1>3, <2>1 DEF Used
  <2> HIDE DEF g
  <2>4. card' = g => \A p \in Paths : \/ g[p] = card[p]
                                      \/ ~inUse(p) /\ g[p] = None
    BY <2>1, <2>2
  <2>5. QED
    BY <1>1, <1>3, <2>1, <2>2, <2>3, <2>4, UsedStep
<1>10. QED
  BY <1>4, <1>5, <1>6, <1>7, <1>8, <1>9

\* An open deletes the concatenation file it is to replace, unless that is in use or the call fails.
LEMMA DeleteStep ==
    ASSUME FilesInv, DeleteOld PROVE FilesInv'
<1> DEFINE p == cmd.p
           old == isConcatenationFile(card[p]) /\ isFile(card[p]) /\ ~inUse(p)
           g == [card EXCEPT ![p] = None]
<1>1. cmd.pc = "delete" /\ UNCHANGED <<ses, conv, search>> /\ cmd' = goOn("create")
  BY DEF DeleteOld, Doing
<1>2. p \in Paths /\ p = Name(p[1]) /\ card \in [Paths -> Entry] /\ None \in Entry
  BY <1>1, GoOn, Types, Defaults DEF FilesInv, Prepared
<1>3. cmd'.pc = "create" /\ cmd'.p = p /\ cmd' \in Command /\ At("none")
  BY <1>1, GoOn DEF Calls
<1>4. \/ old /\ card' = g /\ spared' = spared /\ left' = left
      \/ ~old /\ card' = card /\ spared' = spared /\ left' = left
      \/ old /\ card' = card /\ spared' = TRUE /\ Spend("faults")
  BY DEF DeleteOld, NoFault, Fault
<1>5. Served
  BY <1>1, <1>3, <1>4, Types DEF FilesInv, Served
<1>6. g \in [Paths -> Entry] /\ g[p] = None /\ \A x \in Paths : x # p => g[x] = card[x]
  BY <1>2
<1>7. Prepared'
  <2>1. CASE old /\ card' = g
    BY <1>2, <1>3, <1>6, <2>1 DEF Prepared, isFile, None
  <2>2. CASE ~old /\ card' = card
    BY <1>1, <1>2, <1>3, <2>2 DEF Prepared, inUse
  <2>3. CASE spared'
    BY <1>2, <1>3, <2>3 DEF Prepared
  <2>4. QED
    BY <1>4, <2>1, <2>2, <2>3
<1> HIDE DEF g
<1>8. card' = card \/ (card' = g /\ ~inUse(p))
  BY <1>4
<1>9. QED
  BY <1>1, <1>2, <1>5, <1>6, <1>7, <1>8, NamesFrame

\* The file an open is for is made when it is not there.
LEMMA CreateStep ==
    ASSUME FilesInv, CreateFile PROVE FilesInv'
<1> DEFINE p == cmd.p
           g == [card EXCEPT ![p] = File(<<>>)]
<1>1. cmd.pc = "create"
  BY DEF CreateFile, Doing
<1>2. /\ p \in Paths /\ p = Name(p[1]) /\ card \in [Paths -> Entry] /\ File(<<>>) \in Entry
  BY <1>1, GoOn, Types, Defaults, ContentFacts DEF FilesInv, Prepared
<1>3. PICK otherwise \in {"open", "none"} :
         Used(g, "open", otherwise) /\ (card' = g => card' = card \/ card[p] = None)
  <2>1. PICK otherwise \in {"open", "none"} : Use(card[p] = None, g, "open", otherwise)
    BY Zenon DEF CreateFile
  <2>2. QED
    BY <2>1, Zenon DEF Use, Used, NoFault, Fault
<1>4. g \in [Paths -> Entry] /\ g[p] = File(<<>>) /\ \A x \in Paths : x # p => g[x] = card[x]
  BY <1>2
<1>5. {"open", "none"} \subseteq Calls \cup {"none"}
  BY DEF Calls
<1>6. Prepared'
  <2>1. /\ cmd'.pc \in {"open", "none"} /\ (cmd'.pc = "open" => cmd'.p = p)
        /\ ses' = ses /\ spared' = spared /\ (card' = card \/ card' = g)
    BY <1>1, <1>3, <1>5, GoOn DEF Used
  <2>2. ~isConcatenationFile(File(<<>>))
    BY DEF isConcatenationFile, File
  <2>3. ~spared => ~(isConcatenationFile(card[p]) /\ isFile(card[p])) \/ inUse(p)
    BY <1>1 DEF FilesInv, Prepared
  <2>4. CASE card' = card
    BY <1>2, <2>1, <2>3, <2>4 DEF Prepared, inUse
  <2>5. CASE card' = g
    BY <1>2, <1>4, <2>1, <2>2, <2>5 DEF Prepared, isConcatenationFile, File
  <2>6. QED
    BY <2>1, <2>4, <2>5
<1> HIDE DEF g
<1>7. ~isFile(None)
  BY DEF isFile, None
<1>8. card' = g => \A x \in Paths : \/ g[x] = card[x]
                                    \/ ~isFile(card[x]) /\ g[x] = File(<<>>)
  BY <1>3, <1>4, <1>7
<1>9. QED
  BY <1>1, <1>3, <1>4, <1>5, <1>6, <1>8, UsedStep

\* Session i changes, and with it at most the file it has open.
OwnFile(i) ==
    /\ Served /\ cmd'.pc = "none" /\ ses' \in [Sessions -> Session] /\ card' \in [Paths -> Entry]
    /\ \A j \in Sessions \ {i} : ses'[j] = ses[j]
    /\ \A p \in Paths : \/ card'[p] = card[p]
                        \/ /\ ses'[i].open /\ p = Name(ses'[i].n)
                           /\ ~spared => card'[p].kind \in {"file", "big"}
                           /\ card'[p].kind \in {"file", "hollow"} => Len(card'[p].data) <= PlainMax
    /\ \A j \in Sessions \ {i} : ses'[i].open /\ ses[j].open /\ ses[j].n = ses'[i].n
                                 => ses[j].mode = "READ" /\ ses'[i].mode = "READ"
    /\ ses'[i].open /\ ses'[i].mode # "READ"
          => /\ card'[Name(ses'[i].n)].kind \in {"file", "big", "hollow", "nested"}
             /\ card'[Name(ses'[i].n)].data = ses'[i].data
             /\ ses'[i].concatenation => card'[Name(ses'[i].n)].kind \in {"big", "nested"}

\* Such a step keeps the invariant.
LEMMA OneFrame ==
    ASSUME FilesInv, NEW i \in Sessions, OwnFile(i) PROVE FilesInv'
<1>1. TypeOK /\ WellFormed /\ Exclusive /\ Stored /\ ses \in [Sessions -> Session]
  BY Types DEF FilesInv
<1>2. conv.pc = "none" /\ conv'.pc = "none"
  BY DEF OwnFile, Served, At
<1>3. WellFormed'
  BY <1>1 DEF WellFormed, OwnFile, Served
<1>4. Exclusive'
  BY <1>1, <1>2 DEF Exclusive, Holds, Converting, OwnFile
<1>5. Stored'
  <2> SUFFICES ASSUME NEW j \in Sessions \ {i}, Uploads(j)
               PROVE  card'[Name(ses[j].n)] = card[Name(ses[j].n)]
    BY <1>1 DEF Stored, Uploads, OwnFile, isFile, isConcatenationFile
  <2>1. Name(ses[j].n) \in Paths
    BY <1>1, PathFacts DEF Session
  <2>2. ses'[i].open => ses'[i].n # ses[j].n
    BY DEF Uploads, OwnFile
  <2>3. QED
    BY <2>1, <2>2, PathFacts DEF OwnFile
<1>6. Prepared'
  BY DEF Prepared, OwnFile
<1>7. QED
  BY <1>3, <1>4, <1>5, <1>6, ServedFrame DEF OwnFile

\* A file is closed, a resumed upload is refused, and a file is opened to read.
LEMMA CloseStep ==
    ASSUME FilesInv, At("none"), Doing("none"), NEW i \in Sessions, NEW n \in Names,
           ftp_vfs_close(i) \/ ftp_vfs_seek(i) \/ ftp_vfs_open_read(i, n)
    PROVE  FilesInv'
<1>1. /\ ses \in [Sessions -> Session] /\ card \in [Paths -> Entry] /\ Exclusive /\ Stored
  BY Types DEF FilesInv
<1>2. Served /\ card' = card /\ cmd'.pc = "none"
  BY Types DEF FilesInv, Doing, ftp_vfs_close, ftp_vfs_seek, ftp_vfs_open_read, Served, NoFault
<1>3. CASE ftp_vfs_close(i)
  <2>1. ses' \in [Sessions -> Session]
    BY <1>1, <1>3, SessionTypes DEF ftp_vfs_close
  <2>2. ~ses'[i].open /\ \A j \in Sessions \ {i} : ses'[j] = ses[j]
    BY <1>1, <1>3, Defaults DEF ftp_vfs_close
  <2>3. OwnFile(i)
    BY <1>1, <1>2, <2>1, <2>2 DEF OwnFile
  <2>4. QED
    BY <2>3, OneFrame
<1>4. CASE ftp_vfs_seek(i)
  <2>1. ses' \in [Sessions -> Session]
    BY <1>1, <1>4, SessionTypes DEF ftp_vfs_seek
  <2>2. \A j \in Sessions \ {i} : ses'[j] = ses[j]
    BY <1>1, <1>4 DEF ftp_vfs_seek
  <2>3. /\ ses'[i].open = ses[i].open /\ ses'[i].n = ses[i].n /\ ses'[i].mode = ses[i].mode
        /\ ses'[i].data = ses[i].data /\ ses'[i].concatenation = ses[i].concatenation
    BY <1>1, <1>4 DEF ftp_vfs_seek, Session
  <2>4. OwnFile(i)
    BY <1>1, <1>2, <2>1, <2>2, <2>3 DEF OwnFile, Exclusive, Holds, Stored, Uploads, isFile, isConcatenationFile
  <2>5. QED
    BY <2>4, OneFrame
<1>5. CASE ftp_vfs_open_read(i, n)
  <2>1. ses' \in [Sessions -> Session]
    BY <1>1, <1>5, SessionTypes DEF ftp_vfs_open_read
  <2>2. \A j \in Sessions \ {i} : ses'[j] = ses[j]
    BY <1>1, <1>5 DEF ftp_vfs_open_read
  <2>3. ses'[i].n = n /\ ses'[i].mode = "READ"
    BY <1>1, <1>5, Defaults DEF ftp_vfs_open_read, Session
  <2>4. OwnFile(i)
    BY <1>1, <1>2, <1>5, <2>1, <2>2, <2>3 DEF OwnFile, ftp_vfs_open_read
  <2>5. QED
    BY <2>4, OneFrame
<1>6. QED
  BY <1>3, <1>4, <1>5

\* A file is opened to be written; nobody else has it.  A concatenation file is truncated only when
\* its deletion failed before.
LEMMA OpenStep ==
    ASSUME FilesInv, OpenFile PROVE FilesInv'
<1> DEFINE p == cmd.p
           n == p[1]
           i == cmd.i
           e == card[p]
           f == IF cmd.mode = "WRITE" THEN truncated(e) ELSE e
           t == [Closed EXCEPT !.open = TRUE, !.n = n, !.mode = cmd.mode, !.data = f.data, !.at = cmd.at]
<1>1. /\ cmd.pc = "open" /\ cmd' = NoCommand /\ UNCHANGED <<conv, search, spared>>
      /\ left' = left \/ Spend("faults")
  BY DEF OpenFile, Doing, NoFault, Fault
<1>2. /\ ses \in [Sessions -> Session] /\ card \in [Paths -> Entry] /\ WellFormed
      /\ cmd \in Command /\ p \in Paths /\ p = Name(n) /\ n \in Names /\ At("none")
      /\ ~spared => ~(isConcatenationFile(e) /\ isFile(e)) \/ inUse(p)
  <2>1. ses \in [Sessions -> Session] /\ card \in [Paths -> Entry] /\ WellFormed
    BY Types DEF FilesInv
  <2>2. cmd \in Command /\ p \in Paths /\ At("none")
    BY <1>1, GoOn
  <2>3. p = Name(n) /\ (~spared => ~(isConcatenationFile(e) /\ isFile(e)) \/ inUse(p))
    BY <1>1 DEF FilesInv, Prepared
  <2>4. n \in Names
    BY <2>2 DEF Paths
  <2>5. QED
    BY <2>1, <2>2, <2>3, <2>4
<1>3. Served /\ cmd'.pc = "none"
  BY <1>1, <1>2, Types, Defaults DEF FilesInv, Served
<1>4. i \in Sessions /\ cmd.mode \in Modes /\ cmd.at \in 0 .. MaxCommands
  BY <1>2 DEF Command
<1>5. CASE UNCHANGED <<card, ses>>
  <2>1. Prepared'
    BY <1>3 DEF Prepared
  <2>2. QED
    BY <1>2, <1>3, <1>5, <2>1, NamesFrame
<1>6. CASE /\ isFile(e) /\ ~inUse(p)
           /\ card' = [card EXCEPT ![p] = f] /\ ses' = [ses EXCEPT ![i] = t]
  <2>1. /\ e \in Entry /\ e.kind \in {"file", "big", "hollow", "nested"}
        /\ ~spared => e.kind = "file"
        /\ e.kind \in {"file", "hollow"} => Len(e.data) <= PlainMax
    BY <1>2, <1>6 DEF WellFormed, isFile, isConcatenationFile
  <2> HIDE DEF e
  <2>2. /\ f \in Entry /\ f.kind \in {"file", "big", "hollow", "nested"} /\ f.data \in Contents
        /\ ~spared => f.kind = "file"
        /\ f.kind \in {"file", "hollow"} => Len(f.data) <= PlainMax
    <3>1. CASE f = e
      BY <2>1, <3>1 DEF Entry
    <3>2. CASE f = [e EXCEPT !.data = <<>>] /\ e.kind \notin {"big", "nested"}
      BY <2>1, <3>2, ContentFacts, FilesAssumption DEF Entry
    <3>3. CASE f = Hollow(<<>>) /\ e.kind \in {"big", "nested"}
      BY <2>1, <3>3, Defaults, ContentFacts, FilesAssumption DEF Hollow
    <3>4. QED
      BY <3>1, <3>2, <3>3 DEF truncated
  <2> HIDE DEF f
  <2>3. /\ \A m \in Names, x \in Modes, d \in Contents, k \in 0 .. MaxCommands :
              [ses EXCEPT ![i] = [Closed EXCEPT !.open = TRUE, !.n = m, !.mode = x, !.data = d, !.at = k]]
              \in [Sessions -> Session]
    BY <1>2, <1>4, SessionTypes, Zenon
  <2>4. ses' \in [Sessions -> Session]
    BY <1>2, <1>4, <1>6, <2>2, <2>3, Zenon
  <2>5. card' \in [Paths -> Entry] /\ card'[p] = f /\ \A x \in Paths : x # p => card'[x] = card[x]
    BY <1>2, <1>6, <2>2
  <2>6. \A j \in Sessions \ {i} : ses'[j] = ses[j] /\ ~(ses[j].open /\ ses[j].n = n)
    BY <1>2, <1>4, <1>6 DEF inUse
  <2>7. /\ t.open /\ t.n = n /\ t.mode = cmd.mode /\ t.data = f.data /\ ~t.concatenation
    BY Defaults DEF Session
  <2>8. ses'[i] = t
    BY <1>2, <1>4, <1>6
  <2> HIDE DEF t
  <2>9. OwnFile(i)
    BY <1>2, <1>3, <2>2, <2>4, <2>5, <2>6, <2>7, <2>8 DEF OwnFile
  <2>10. QED
    BY <1>4, <2>9, OneFrame
<1>7. QED
  BY <1>5, <1>6 DEF OpenFile

\* A chunk is stored, in a plain file below its limit or in a concatenation file.
LEMMA WriteStep ==
    ASSUME FilesInv, At("none"), Doing("none"), NEW i \in Sessions, writeChunk(i) PROVE FilesInv'
<1> DEFINE n == ses[i].n
           p == Name(n)
           d == appended(i)
           c == ses[i].concatenation \/ isConcatenationFile(card[p])
<1>1. /\ ses \in [Sessions -> Session] /\ card \in [Paths -> Entry] /\ WellFormed /\ Exclusive /\ Stored
  BY Types DEF FilesInv
<1>2. /\ ses[i].open /\ ses[i].mode # "READ" /\ Len(ses[i].data) < MaxLength /\ ~needsConversion(i)
      /\ n \in Names /\ p \in Paths /\ ses[i].data \in Contents /\ Served /\ cmd'.pc = "none"
  BY <1>1, PathFacts, Types DEF FilesInv, Doing, writeChunk, writes, Session, Served, NoFault, Fault
<1>3. /\ card[p].kind \in {"file", "big", "hollow", "nested"} /\ card[p].data = ses[i].data
      /\ ses[i].concatenation => card[p].kind \in {"big", "nested"}
      /\ ~spared => card[p].kind \in {"file", "big"}
  BY <1>1, <1>2 DEF Stored, Uploads, WellFormed, isFile, isConcatenationFile
<1>4. \A j \in Sessions \ {i} : ~(ses[j].open /\ ses[j].n = n)
  BY <1>1, <1>2 DEF Exclusive, Holds
<1>5. CASE card' = card /\ ses' = [ses EXCEPT ![i].failed = TRUE]
  <2>1. ses' \in [Sessions -> Session]
    BY <1>1, <1>5, SessionTypes
  <2>2. \A j \in Sessions \ {i} : ses'[j] = ses[j]
    BY <1>1, <1>5
  <2>3. /\ ses'[i].open = ses[i].open /\ ses'[i].n = ses[i].n /\ ses'[i].mode = ses[i].mode
        /\ ses'[i].data = ses[i].data /\ ses'[i].concatenation = ses[i].concatenation
    BY <1>1, <1>5 DEF Session
  <2>4. OwnFile(i)
    BY <1>1, <1>2, <1>3, <1>4, <1>5, <2>1, <2>2, <2>3 DEF OwnFile
  <2>5. QED
    BY <2>4, OneFrame
<1>6. CASE /\ card' = [card EXCEPT ![p].data = d]
           /\ ses' = [ses EXCEPT ![i].data = d, ![i].concatenation = c]
  <2>1. d \in Contents /\ Len(d) = Len(ses[i].data) + 1 /\ Len(ses[i].data) \in Nat
    BY <1>2, ContentFacts DEF appended
  <2>2. card[p].kind \in {"file", "hollow"} => Len(d) <= PlainMax
    BY <1>2, <1>3, <2>1, FilesAssumption DEF needsConversion, atPlainLimit, isConcatenationFile
  <2>3. c = (card[p].kind \in {"big", "nested"}) /\ c \in BOOLEAN
    BY <1>1, <1>2, <1>3 DEF isConcatenationFile, Session
  <2> HIDE DEF d, c
  <2>4. ses' \in [Sessions -> Session]
    BY <1>1, <1>6, <2>1, <2>3, SessionTypes
  <2>5. card' \in [Paths -> Entry]
    BY <1>1, <1>2, <1>6, <2>1 DEF Entry
  <2>6. \A j \in Sessions \ {i} : ses'[j] = ses[j]
    BY <1>1, <1>6
  <2>7. /\ ses'[i].open = ses[i].open /\ ses'[i].n = ses[i].n /\ ses'[i].mode = ses[i].mode
        /\ ses'[i].data = d /\ ses'[i].concatenation = c
    BY <1>1, <1>6 DEF Session
  <2>8. /\ card'[p].kind = card[p].kind /\ card'[p].data = d
        /\ \A q \in Paths : q # p => card'[q] = card[q]
    BY <1>1, <1>2, <1>6 DEF Entry
  <2>9. OwnFile(i)
    BY <1>2, <1>3, <1>4, <2>2, <2>3, <2>4, <2>5, <2>6, <2>7, <2>8 DEF OwnFile
  <2>10. QED
    BY <2>9, OneFrame
<1>7. QED
  BY <1>5, <1>6 DEF writeChunk

\* The handle of a plain file that is full is closed, and the conversion begins.
LEMMA BeginStep ==
    ASSUME FilesInv, At("none"), Doing("none"), NEW i \in Sessions, beginConversion(i) PROVE FilesInv'
<1>1. /\ TypeOK /\ ses \in [Sessions -> Session] /\ card \in [Paths -> Entry]
      /\ WellFormed /\ Exclusive /\ Stored /\ Counted /\ conv.bad \in Nat /\ left.faults \in 0 .. MaxFaults
  BY Types, Converted DEF FilesInv, TypeOK
<1>2. /\ ses[i].open /\ ses[i].mode # "READ" /\ needsConversion(i) /\ ses[i].n \in Names
      /\ Name(ses[i].n) \in Paths /\ left' = left /\ UNCHANGED <<card, cmd, search, spared>>
      /\ cmd.pc = "none"
  BY <1>1, PathFacts DEF beginConversion, writes, Session, NoFault, Doing
<1>3. conv' = [NoConversion EXCEPT !.pc = "rename", !.i = i] /\ ses' = [ses EXCEPT ![i].open = FALSE]
  BY DEF beginConversion
<1>4. /\ conv' \in [pc : Steps \cup {"none"}, i : Sessions, bad : 0 .. MaxFaults]
      /\ conv'.pc = "rename" /\ conv'.i = i /\ conv'.bad = 0
  BY <1>3, Defaults DEF Steps
<1>5. ses' \in [Sessions -> Session]
  BY <1>1, <1>3, SessionTypes
<1>6. /\ \A j \in Sessions \ {i} : ses'[j] = ses[j]
      /\ ~ses'[i].open /\ ses'[i].n = ses[i].n /\ ses'[i].mode = ses[i].mode /\ ses'[i].data = ses[i].data
  BY <1>1, <1>3 DEF Session
<1>7. TypeOK' /\ Counted'
  <2>1. TypeOK'
    BY <1>1, <1>2, <1>4, <1>5, Types, TypesNext
  <2>2. QED
    BY <1>1, <1>2, <1>4, <2>1, FilesAssumption DEF Counted
<1>8. WellFormed'
  BY <1>1, <1>2 DEF WellFormed
<1>9. Exclusive'
  BY <1>1, <1>2, <1>4, <1>6 DEF Exclusive, Holds, Converting, At
<1>10. Stored'
  BY <1>1, <1>2, <1>6 DEF Stored, Uploads
<1>11. Underway'
  <2>1. card[Name(ses[i].n)].kind \in {"file", "hollow"} /\ card[Name(ses[i].n)].data = ses[i].data
    BY <1>1, <1>2 DEF Stored, Uploads, needsConversion, isConcatenationFile, isFile
  <2>2. card[Name(ses[i].n)] \in {File(ses[i].data), Hollow(ses[i].data)}
    BY <1>1, <1>2, <2>1 DEF Entry, File, Hollow
  <2>3. Len(ses[i].data) <= PlainMax
    BY <1>1, <1>2, <2>1 DEF WellFormed
  <2>4. it' = ses[i].n /\ upload' = ses[i].data /\ Here' = card[Name(ses[i].n)]
    BY <1>2, <1>4, <1>6 DEF it, upload, Here
  <2>5. Placed'
    BY <1>4, <2>2, <2>4 DEF Placed, PlacedAt, Plain
  <2>6. QED
    BY <1>2, <1>4, <1>6, <2>3, <2>4, <2>5 DEF Underway
<1>12. Alone' /\ Prepared'
  BY <1>2 DEF Alone, Prepared
<1>13. QED
  BY <1>7, <1>8, <1>9, <1>10, <1>11, <1>12 DEF FilesInv

\* What ftpsrv_loop starts: the steps of an open file, or a command that asks.
LEMMA LoopSteps ==
    ASSUME ftpsrv_loop
    PROVE  \/ \E i \in Sessions : writeChunk(i) \/ beginConversion(i)
           \/ \E i \in Sessions, n \in Names : ftp_vfs_close(i) \/ ftp_vfs_seek(i) \/ ftp_vfs_open_read(i, n)
           \/ \E c \in Command : Asks(c) /\ Begin(c)
<1>1. CASE \E i \in Sessions : \/ writeChunk(i) \/ beginConversion(i) \/ ftp_vfs_seek(i) \/ ftp_vfs_close(i)
                               \/ \E n \in Names : ftp_vfs_open_read(i, n)
  <2>1. Names # {}
    BY FilesAssumption
  <2>2. QED
    BY <1>1, <2>1, Zenon
<1>2. ASSUME NEW i \in Sessions, NEW n \in Names, NEW mode \in {"WRITE", "APPEND"}, ftp_vfs_open(i, n, mode)
      PROVE  \E c \in Command : Asks(c) /\ Begin(c)
  <2> DEFINE c == [NoCommand EXCEPT !.pc = "delete", !.i = i, !.p = Name(n), !.mode = mode]
  <2>1. c \in Command /\ c.pc = "delete" /\ c.p = Name(n) /\ Name(n)[1] = n
    BY Defaults, PathFacts DEF Command, Calls, Modes, Name
  <2>2. Begin(c)
    BY <1>2, Zenon DEF ftp_vfs_open
  <2> HIDE DEF c
  <2>3. QED
    BY <2>1, <2>2 DEF Asks
<1>3. ASSUME NEW p \in Paths, NEW q \in Paths, ftp_vfs_mkdir(p) \/ ftp_vfs_unlink(p) \/ ftp_vfs_rmdir(p) \/ ftp_vfs_rename(p, q)
      PROVE  \E c \in Command : Asks(c) /\ Begin(c)
  <2>1. \A pc \in {"mkdir", "unlink", "rmdir"} :
           [NoCommand EXCEPT !.pc = pc, !.p = p] \in Command /\ [NoCommand EXCEPT !.pc = pc, !.p = p].pc = pc
    BY Defaults DEF Command, Calls
  <2>2. /\ [NoCommand EXCEPT !.pc = "guard", !.p = p, !.q = q] \in Command
        /\ [NoCommand EXCEPT !.pc = "guard", !.p = p, !.q = q].pc = "guard"
    BY Defaults DEF Command, Calls
  <2>3. CASE \E pc \in {"mkdir", "unlink", "rmdir"} : Begin([NoCommand EXCEPT !.pc = pc, !.p = p])
    <3>1. PICK pc \in {"mkdir", "unlink", "rmdir"} : Begin([NoCommand EXCEPT !.pc = pc, !.p = p])
      BY <2>3
    <3>2. [NoCommand EXCEPT !.pc = pc, !.p = p] \in Command /\ [NoCommand EXCEPT !.pc = pc, !.p = p].pc = pc
      BY <2>1
    <3>3. QED
      BY <3>1, <3>2 DEF Asks
  <2>4. CASE Begin([NoCommand EXCEPT !.pc = "guard", !.p = p, !.q = q])
    BY <2>2, <2>4 DEF Asks
  <2>5. QED
    BY <1>3, <2>3, <2>4, Zenon DEF ftp_vfs_mkdir, ftp_vfs_unlink, ftp_vfs_rmdir, ftp_vfs_rename
<1>4. \A p \in Paths : ftp_vfs_mkdir(p) \/ ftp_vfs_unlink(p) \/ ftp_vfs_rmdir(p) => \E q \in Paths : TRUE
  OBVIOUS
<1>5. QED
  BY <1>1, <1>2, <1>3, <1>4, Zenon DEF ftpsrv_loop

\* A search begins or ends, and the power is lost: the card is as it was.
LEMMA OutsideStep ==
    ASSUME FilesInv, ToggleSearch \/ PowerLoss PROVE FilesInv'
<1>1. /\ TypeOK /\ Counted /\ conv.bad \in Nat /\ left.faults \in Nat /\ left.commands \in Nat
      /\ search.began \in Nat /\ search.active \in BOOLEAN
      /\ card \in [Paths -> Entry] /\ spared \in BOOLEAN
  BY Converted, Types, FilesAssumption DEF FilesInv, TypeOK
<1>2. /\ left' \in Bounds /\ left'.faults <= left.faults /\ left'.commands <= left.commands
      /\ ToggleSearch => left'.commands = left.commands - 1
  <2>1. CASE ToggleSearch
    BY <1>1, <2>1, Spending DEF ToggleSearch
  <2>2. CASE PowerLoss /\ ~ToggleSearch
    BY <1>1, <2>2, Spending DEF PowerLoss
  <2>3. QED
    BY <2>1, <2>2
<1>3. left'.faults \in Nat /\ left'.commands \in Nat
  BY <1>2, FilesAssumption DEF Bounds
<1>4. CASE ToggleSearch
  <2>1. /\ UNCHANGED <<card, ses, cmd, conv, spared>> /\ search'.active \in BOOLEAN
        /\ search'.began \in {search.began, search.began + 1}
        /\ search' = [active |-> search'.active, began |-> search'.began]
    BY <1>1, <1>4 DEF ToggleSearch
  <2>2. Counted' /\ search'.began \in 0 .. MaxCommands
    BY <1>1, <1>2, <1>3, <1>4, <2>1, FilesAssumption DEF Counted
  <2>3. search' \in Search
    BY <2>1, <2>2 DEF Search
  <2>4. TypeOK'
    BY <1>1, <1>2, <2>1, <2>3, Types, TypesNext
  <2>5. WellFormed' /\ Exclusive' /\ Stored' /\ Alone' /\ Prepared'
    BY <2>1 DEF FilesInv, WellFormed, Exclusive, Holds, Converting, Stored, Uploads, Alone, Prepared, inUse
  <2>6. Underway'
    BY <2>1 DEF FilesInv, Underway, Placed, PlacedAt, Here, Aside, it, upload, Plain, Unmarked, Marked, Parts
  <2>7. QED
    BY <2>2, <2>4, <2>5, <2>6 DEF FilesInv
<1>5. CASE PowerLoss
  <2>1. /\ card' = card /\ ses' = [i \in Sessions |-> Closed] /\ conv' = NoConversion /\ cmd' = NoCommand
        /\ search' = [search EXCEPT !.active = FALSE] /\ spared' = spared
    BY <1>5 DEF PowerLoss
  <2>2. \A i \in Sessions : ses'[i] = Closed /\ ~ses'[i].open
    BY <2>1, Defaults
  <2>3. ses' \in [Sessions -> Session]
    BY <2>1, Defaults
  <2>4. search' \in Search /\ search'.began = search.began
    BY <1>1, <2>1, Types DEF Search
  <2>5. TypeOK'
    BY <1>1, <1>2, <2>1, <2>3, <2>4, TypesNext, Defaults
  <2>6. Counted'
    BY <1>1, <1>2, <1>3, <2>1, <2>4, Defaults, FilesAssumption DEF Counted
  <2>7. WellFormed' /\ Exclusive' /\ Stored' /\ Underway' /\ Alone' /\ Prepared'
    BY <2>1, <2>2, Defaults DEF FilesInv, WellFormed, Exclusive, Holds, Converting, Stored, Uploads, Underway,
       Alone, Prepared
  <2>8. QED
    BY <2>5, <2>6, <2>7 DEF FilesInv
<1>6. QED
  BY <1>4, <1>5

-----------------------------------------------------------------------------
(* The theorems.                                                           *)

\* The inductive invariant of the file layer: uploads are exclusive, what they stored is where the
\* step of the conversion expects it, and the card is well formed (ftp_vfs_sd.c).
THEOREM FilesInvHolds == Spec => []FilesInv
<1>1. Init => FilesInv
  <2> SUFFICES ASSUME Init PROVE FilesInv
    OBVIOUS
  <2>1. card \in [Paths -> Entry] /\ ses \in [Sessions -> Session] /\ cmd = NoCommand /\ conv = NoConversion
    BY Defaults DEF Init
  <2>2. left \in Bounds /\ search \in Search /\ spared \in BOOLEAN
    <3>1. /\ 0 \in 0 .. MaxCommands /\ MaxFaults \in 0 .. MaxFaults /\ MaxCrashes \in 0 .. MaxCrashes
          /\ MaxCommands \in 0 .. MaxCommands
      BY FilesAssumption
    <3>2. left \in Bounds
      BY <3>1 DEF Init, Bounds
    <3>3. search \in Search
      BY <3>1 DEF Init, Search
    <3>4. spared \in BOOLEAN
      BY DEF Init
    <3>5. QED
      BY <3>2, <3>3, <3>4
  <2>3. TypeOK
    BY <2>1, <2>2, Types, Defaults
  <2>4. Counted
    BY <2>1, Defaults, FilesAssumption DEF Init, Counted
  <2>5. \A i \in Sessions : ~ses[i].open
    BY Defaults DEF Init
  <2>6. \A p \in Paths : card[p].kind = "none"
    BY DEF Init, None
  <2>7. WellFormed /\ Exclusive /\ Stored /\ Underway /\ Alone /\ Prepared
    BY <2>1, <2>5, <2>6, Defaults DEF WellFormed, Exclusive, Holds, Converting, Stored, Uploads,
       Underway, Alone, Prepared
  <2>8. QED
    BY <2>3, <2>4, <2>7 DEF FilesInv
<1>2. FilesInv /\ [Next]_vars => FilesInv'
  <2> SUFFICES ASSUME FilesInv, [Next]_vars PROVE FilesInv'
    OBVIOUS
  <2>1. CASE At("none") /\ Doing("none") /\ ftpsrv_loop
    <3>1. CASE \E i \in Sessions : writeChunk(i) \/ beginConversion(i)
      BY <2>1, <3>1, WriteStep, BeginStep
    <3>2. CASE \E i \in Sessions, n \in Names : ftp_vfs_close(i) \/ ftp_vfs_seek(i) \/ ftp_vfs_open_read(i, n)
      BY <2>1, <3>2, CloseStep
    <3>3. CASE \E c \in Command : Asks(c) /\ Begin(c)
      BY <2>1, <3>3, AskStep
    <3>4. QED
      BY <2>1, <3>1, <3>2, <3>3, LoopSteps, Zenon
  <2>2. CASE command
    BY <2>2, DeleteStep, CreateStep, OpenStep, NamesStep DEF command
  <2>3. CASE convert
    BY <2>3, RenameStep, ClearStep, DirectoryStep, BackStep, MoveStep, BitStep, UndoStep, ReopenStep
       DEF convert
  <2>4. CASE ToggleSearch \/ PowerLoss
    BY <2>4, OutsideStep
  <2>5. CASE UNCHANGED vars
    BY <2>5 DEF vars, FilesInv, TypeOK, Counted, WellFormed, Exclusive, Holds, Converting, Stored, Uploads,
       Underway, Placed, PlacedAt, Here, Aside, it, upload, Plain, Unmarked, Marked, Parts, Alone, Prepared, inUse
  <2>6. QED
    BY <2>1, <2>2, <2>3, <2>4, <2>5 DEF Next
<1>3. QED
  BY <1>1, <1>2, PTL DEF Spec

\* Nothing an upload stored is lost by a conversion, by its undoing, or by a power loss in between
\* (ftpVfsConvertToConcatenationFile, ftpVfsUndoConversion).
THEOREM UploadIsKeptHolds == Spec => []UploadIsKept
<1>1. FilesInv => UploadIsKept
  <2> SUFFICES ASSUME FilesInv, NEW i \in Sessions, Uploads(i) \/ Converting(i)
               PROVE  \E p \in {Name(ses[i].n), Temp(ses[i].n)} : card[p].data = ses[i].data
    BY DEF UploadIsKept, Uploads, Converting
  <2>1. CASE Uploads(i)
    BY <2>1 DEF FilesInv, Stored
  <2>2. CASE Converting(i)
    <3>1. Placed /\ conv.pc \in Steps
      BY <2>2 DEF FilesInv, TypeOK, Underway, Converting
    <3>2. Here.data = upload \/ Aside.data = upload
      BY <3>1 DEF Placed, PlacedAt, Steps, Plain, Unmarked, Marked, File, Hollow, Parts
    <3>3. QED
      BY <2>2, <3>2 DEF Converting, Here, Aside, it, upload
  <2>3. QED
    BY <2>1, <2>2
<1>2. QED
  BY <1>1, FilesInvHolds, PTL

\* A conversion that gives up after at most one failure has put the plain file back, and without a
\* failure only something that is not a file under the temporary name makes it give up.
THEOREM GivingUpPutsBackHolds == Spec => []GivingUpPutsBack
<1>1. FilesInv => GivingUpPutsBack
  <2> SUFFICES ASSUME FilesInv, At("giveUp")
               PROVE  /\ conv.bad <= 1 => Here \in asFound(upload)
                      /\ conv.bad = 0 => Aside # None /\ ~isFile(Aside)
    BY DEF GivingUpPutsBack, Here, Aside, upload
  <2>1. Placed /\ conv.bad \in Nat /\ WellFormed
    BY Converted DEF FilesInv, Underway, At
  <2>2. \/ Here \in Plain /\ (conv.bad = 0 => Aside # None /\ ~isFile(Aside))
        \/ conv.bad >= 2
    BY <2>1 DEF Placed, PlacedAt, At
  <2>3. Here.kind = "hollow" => spared
    <3>1. it \in Names
      BY Converted DEF FilesInv
    <3>2. QED
      BY <2>1, <3>1, PathFacts DEF WellFormed, Here
  <2>4. Here \in Plain => Here \in asFound(upload)
    BY <2>3 DEF Plain, asFound, Hollow
  <2>5. QED
    BY <2>1, <2>2, <2>4
<1>2. QED
  BY <1>1, FilesInvHolds, PTL

\* No file is converted twice or loses its parts unless an open failed to delete a concatenation file
\* and went on (ftp_vfs_open), and no plain file passes the limit of the file system.
THEOREM NeverNestedHolds == Spec => []NeverNested
<1>1. FilesInv => NeverNested
  <2> SUFFICES ASSUME FilesInv PROVE NeverNested
    OBVIOUS
  <2>1. \A p \in Paths : Len(card[p].data) \in Nat
    BY Types, ContentFacts DEF FilesInv, Entry
  <2>2. QED
    BY <2>1, FilesAssumption DEF FilesInv, WellFormed, NeverNested, atPlainLimit
<1>2. QED
  BY <1>1, FilesInvHolds, PTL

\* When the question was asked: whatever may still change the search directory while a search is
\* active had asked before that search began.
Asked ==
    /\ cmd.at <= search.began
    /\ \A i \in Sessions : ses[i].at <= search.began
    /\ search.active =>
          /\ cmd.pc # "none" /\ cmd.p[1] \in SearchNames => cmd.at < search.began
          /\ cmd.pc \in {"rename", "replace", "retry"} /\ cmd.q[1] \in SearchNames => cmd.at < search.began
          /\ \A i \in Sessions : (Uploads(i) \/ Converting(i)) /\ ses[i].n \in SearchNames
                                 => ses[i].at < search.began

\* The moments are numbers.
LEMMA AskedTypes ==
    ASSUME TypeOK
    PROVE  /\ cmd.at \in Nat /\ search.began \in Nat /\ \A i \in Sessions : ses[i].at \in Nat
           /\ ses \in [Sessions -> Session] /\ card \in [Paths -> Entry] /\ cmd \in Command
  BY Types, FilesAssumption DEF TypeOK

\* Who writes wrote before, and no question is asked.
LEMMA AskedFrame ==
    ASSUME FilesInv, Asked, search' = search,
           \/ cmd' = cmd \/ cmd' = NoCommand
           \/ /\ cmd'.p = cmd.p /\ cmd'.q = cmd.q /\ cmd'.at = cmd.at /\ cmd.pc # "none"
              /\ \/ cmd'.pc \notin {"rename", "replace", "retry"}
                 \/ cmd.pc \in {"rename", "replace", "retry"}
                 \/ mutationAllowed(cmd.q),
           \A j \in Sessions :
              /\ ses'[j].at = ses[j].at \/ ses'[j].at = 0
              /\ Uploads(j)' \/ Converting(j)'
                 => (Uploads(j) \/ Converting(j)) /\ ses'[j].n = ses[j].n /\ ses'[j].at = ses[j].at
    PROVE  Asked'
<1>1. cmd.at \in Nat /\ search.began \in Nat /\ \A i \in Sessions : ses[i].at \in Nat
  BY AskedTypes DEF FilesInv
<1>2. cmd'.at <= search.began /\ \A i \in Sessions : ses'[i].at <= search.began
  BY <1>1, Defaults DEF Asked
<1>3. ASSUME search.active
      PROVE  /\ cmd'.pc # "none" /\ cmd'.p[1] \in SearchNames => cmd'.at < search.began
             /\ cmd'.pc \in {"rename", "replace", "retry"} /\ cmd'.q[1] \in SearchNames
                => cmd'.at < search.began
  <2>1. mutationAllowed(cmd.q) => cmd.q[1] \notin SearchNames
    BY <1>3 DEF mutationAllowed
  <2>2. CASE cmd' = cmd
    BY <1>3, <2>2 DEF Asked
  <2>3. CASE cmd' = NoCommand
    BY <2>3, Defaults
  <2>4. CASE /\ cmd'.p = cmd.p /\ cmd'.q = cmd.q /\ cmd'.at = cmd.at /\ cmd.pc # "none"
             /\ \/ cmd'.pc \notin {"rename", "replace", "retry"}
                \/ cmd.pc \in {"rename", "replace", "retry"}
                \/ mutationAllowed(cmd.q)
    BY <1>3, <2>1, <2>4 DEF Asked
  <2>5. QED
    BY <2>2, <2>3, <2>4
<1>4. ASSUME search.active, NEW i \in Sessions, Uploads(i)' \/ Converting(i)', ses'[i].n \in SearchNames
      PROVE  ses'[i].at < search.began
  BY <1>4 DEF Asked
<1>5. QED
  BY <1>2, <1>3, <1>4 DEF Asked

\* The steps of an open file ask nothing.
LEMMA AskedFile ==
    ASSUME FilesInv, Asked, At("none"), NEW i \in Sessions, NEW n \in Names,
           \/ writeChunk(i) \/ beginConversion(i) \/ ftp_vfs_seek(i) \/ ftp_vfs_close(i)
           \/ ftp_vfs_open_read(i, n)
    PROVE  Asked'
<1>1. ses \in [Sessions -> Session] /\ NoConversion.pc = "none"
  BY Types, Defaults DEF FilesInv
<1>2. search' = search /\ cmd' = cmd
  BY DEF writeChunk, beginConversion, ftp_vfs_seek, ftp_vfs_close, ftp_vfs_open_read
<1>3. CASE beginConversion(i)
  <2>1. /\ conv'.i = i /\ Uploads(i) /\ ses' = [ses EXCEPT ![i].open = FALSE]
    BY <1>3 DEF beginConversion, Uploads, writes, NoConversion
  <2>2. \A j \in Sessions : /\ ses'[j].at = ses[j].at /\ ses'[j].n = ses[j].n
                            /\ ses'[j].mode = ses[j].mode /\ (j # i => ses'[j] = ses[j])
    BY <1>1, <2>1 DEF Session
  <2>3. \A j \in Sessions : Uploads(j)' \/ Converting(j)' => Uploads(j) \/ Converting(j)
    BY <2>1, <2>2 DEF Uploads, Converting
  <2>4. QED
    BY <1>2, <2>2, <2>3, AskedFrame
<1>4. CASE writeChunk(i) \/ ftp_vfs_seek(i)
  <2>1. /\ conv' = conv
        /\ \/ ses' = [ses EXCEPT ![i].failed = TRUE]
           \/ ses' = [ses EXCEPT ![i].data = appended(i),
                                 ![i].concatenation = @ \/ isConcatenationFile(card[Name(ses[i].n)])]
    BY <1>4 DEF writeChunk, ftp_vfs_seek
  <2>2. \A j \in Sessions : /\ ses'[j].at = ses[j].at /\ ses'[j].n = ses[j].n
                            /\ ses'[j].mode = ses[j].mode /\ ses'[j].open = ses[j].open
    BY <1>1, <2>1 DEF Session
  <2>3. QED
    BY <1>2, <2>1, <2>2, AskedFrame DEF Uploads, Converting
<1>5. CASE ftp_vfs_close(i) \/ ftp_vfs_open_read(i, n)
  <2>1. /\ conv' = conv
        /\ \/ ses' = [ses EXCEPT ![i] = Closed]
           \/ ses' = [ses EXCEPT ![i] = [Closed EXCEPT !.open = TRUE, !.n = n]]
    BY <1>5 DEF ftp_vfs_close, ftp_vfs_open_read
  <2>2. /\ ses'[i].mode = "READ" /\ ses'[i].at = 0
        /\ \A j \in Sessions \ {i} : ses'[j] = ses[j]
    <3>1. /\ [Closed EXCEPT !.open = TRUE, !.n = n].mode = "READ"
          /\ [Closed EXCEPT !.open = TRUE, !.n = n].at = 0
      BY Defaults DEF Session
    <3>2. QED
      BY <1>1, <2>1, <3>1, Defaults
  <2>3. \A j \in Sessions : ~Converting(j) /\ ~Converting(j)'
    BY <2>1 DEF Converting, At
  <2>4. QED
    BY <1>2, <2>2, <2>3, AskedFrame DEF Uploads
<1>6. QED
  BY <1>3, <1>4, <1>5

\* A command asks before its first call.
LEMMA AskedBegin ==
    ASSUME FilesInv, Asked, NEW c \in Command, Asks(c), Begin(c) PROVE Asked'
<1>1. search.began \in Nat /\ search.began \in 0 .. MaxCommands
  BY AskedTypes DEF FilesInv, TypeOK
<1>2. /\ cmd'.at = search.began /\ cmd'.p = c.p /\ cmd'.pc \notin {"rename", "replace", "retry"}
      /\ UNCHANGED <<ses, conv, search>>
  BY DEF Begin, Command, Asks
<1>3. search.active => cmd'.p[1] \notin SearchNames
  BY <1>2 DEF Begin, mutationAllowed
<1>4. QED
  BY <1>1, <1>2, <1>3 DEF Asked, Uploads, Converting

\* Its calls do not ask again, but a rename asks about its destination before it uses that; an open
\* hands the moment on to the upload.
LEMMA AskedCommand ==
    ASSUME FilesInv, Asked, command PROVE Asked'
<1>1. cmd.pc # "none" /\ search' = search /\ conv' = conv
  BY DEF command, DeleteOld, CreateFile, OpenFile, CreateDirectory, DeleteFile, DeleteDirectory,
     AskDestination, RenameEntry, DropDestination, RenameRetry, Use, Doing
<1>2. /\ ses \in [Sessions -> Session] /\ cmd \in Command /\ search.began \in Nat /\ cmd.at \in Nat
      /\ \A i \in Sessions : ses[i].at \in Nat
      /\ conv.pc = "none"
  BY <1>1, AskedTypes DEF FilesInv, Alone
<1>3. \A pc \in Calls : /\ goOn(pc).pc = pc /\ goOn(pc).p = cmd.p /\ goOn(pc).q = cmd.q
                        /\ goOn(pc).at = cmd.at
  BY <1>2, "none" \notin Calls DEF goOn, Command, Calls
<1>4. goOn("none") = NoCommand
  BY DEF goOn
<1>5. {"create", "open", "rename", "replace", "retry"} \subseteq Calls
  BY DEF Calls
<1>6. CASE ses' = ses /\ cmd' \in {goOn("none"), goOn("create"), goOn("open")}
  BY <1>1, <1>2, <1>3, <1>4, <1>5, <1>6, AskedFrame DEF Uploads, Converting
<1>7. CASE /\ ses' = ses /\ cmd' \in {goOn("rename"), goOn("replace"), goOn("retry")}
           /\ cmd.pc \in {"rename", "replace"} \/ mutationAllowed(cmd.q)
  BY <1>1, <1>2, <1>3, <1>5, <1>7, AskedFrame DEF Uploads, Converting
<1>8. CASE OpenFile
  <2> DEFINE i == cmd.i
  <2>1. cmd' = NoCommand
    BY <1>8 DEF OpenFile
  <2>2. CASE ses' = ses
    BY <1>1, <2>1, <2>2, AskedFrame DEF Uploads, Converting
  <2>3. CASE ses'[i].at = cmd.at /\ ses'[i].n = cmd.p[1] /\ \A j \in Sessions \ {i} : ses'[j] = ses[j]
    <3>1. cmd'.at = 0 /\ cmd'.pc = "none"
      BY <2>1, Defaults
    <3>2. \A j \in Sessions : ses'[j].at <= search.began
      BY <2>3 DEF Asked
    <3>3. ASSUME search.active, NEW j \in Sessions, Uploads(j)', ses'[j].n \in SearchNames
          PROVE  ses'[j].at < search.began
      <4>1. CASE j = i
        BY <1>1, <2>3, <3>3, <4>1 DEF Asked
      <4>2. CASE j # i
        BY <2>3, <3>3, <4>2 DEF Asked, Uploads
      <4>3. QED
        BY <4>1, <4>2
    <3>4. \A j \in Sessions : ~Converting(j)'
      BY <1>1, <1>2 DEF Converting
    <3>5. QED
      BY <1>1, <1>2, <3>1, <3>2, <3>3, <3>4 DEF Asked
  <2>4. \/ ses' = ses
        \/ \E f : ses' = [ses EXCEPT ![i] = [Closed EXCEPT !.open = TRUE, !.n = cmd.p[1], !.mode = cmd.mode,
                                                           !.data = f.data, !.at = cmd.at]]
    BY <1>8, Zenon DEF OpenFile
  <2>5. ASSUME NEW d, ses' = [ses EXCEPT ![i] = [Closed EXCEPT !.open = TRUE, !.n = cmd.p[1], !.mode = cmd.mode,
                                                 !.data = d, !.at = cmd.at]]
        PROVE  ses'[i].at = cmd.at /\ ses'[i].n = cmd.p[1] /\ \A j \in Sessions \ {i} : ses'[j] = ses[j]
    <3>1. i \in Sessions
      BY <1>2 DEF Command
    <3>2. QED
      BY <1>2, <2>5, <3>1, Defaults DEF Session
  <2>6. QED
    BY <2>2, <2>3, <2>4, <2>5
<1>9. \/ OpenFile
      \/ ses' = ses /\ cmd' \in {goOn("none"), goOn("create"), goOn("open")}
      \/ /\ ses' = ses /\ cmd' \in {goOn("rename"), goOn("replace"), goOn("retry")}
         /\ cmd.pc \in {"rename", "replace"} \/ mutationAllowed(cmd.q)
  <2>1. CASE DeleteOld \/ CreateFile \/ OpenFile \/ CreateDirectory \/ DeleteFile \/ DeleteDirectory
    BY <2>1, Zenon DEF DeleteOld, CreateFile, CreateDirectory, DeleteFile, DeleteDirectory, Use
  <2>2. CASE AskDestination
    BY <2>2, Zenon DEF AskDestination, Use
  <2>3. CASE RenameEntry
    <3>1. cmd.pc = "rename" /\ ses' = ses /\ cmd' \in {goOn("none"), goOn("replace")}
      BY <2>3, Zenon DEF RenameEntry, Use, Doing
    <3>2. QED
      BY <3>1
  <2>4. CASE DropDestination \/ RenameRetry
    <3>1. ses' = ses /\ (cmd' = goOn("none") \/ (cmd.pc = "replace" /\ cmd' = goOn("retry")))
      BY <2>4, Zenon DEF DropDestination, RenameRetry, Use, Doing
    <3>2. QED
      BY <3>1
  <2>5. QED
    BY <2>1, <2>2, <2>3, <2>4 DEF command
<1>10. QED
  BY <1>6, <1>7, <1>8, <1>9

\* A conversion is an upload's, and was asked for by that.
LEMMA AskedConvert ==
    ASSUME FilesInv, Asked, convert PROVE Asked'
<1>1. search' = search /\ cmd' = cmd
  BY DEF convert, RenameAside, ClearTemp, RenameAgain, MakeDirectory, RenameBack, MoveIn,
     SetBit, UndoPart, UndoDirectory, UndoTemp, Reopen, Call
<1>2. ses \in [Sessions -> Session] /\ conv.i \in Sessions /\ conv \in [pc : Steps \cup {"none"}, i : Sessions, bad : Nat]
  BY Types, Converted DEF FilesInv
<1>3. CASE Reopen
  <2>1. conv'.pc = "none" /\ conv.pc # "none"
    BY <1>3, Defaults DEF Reopen, At
  <2>2. \/ ses' = [ses EXCEPT ![conv.i].open = TRUE, ![conv.i].concatenation = TRUE, ![conv.i].failed = FALSE]
        \/ ses' = [ses EXCEPT ![conv.i].open = TRUE, ![conv.i].concatenation = FALSE, ![conv.i].failed = TRUE]
        \/ ses' = [ses EXCEPT ![conv.i] = Closed]
    BY <1>3 DEF Reopen, At
  <2>3. /\ \A j \in Sessions : j # conv.i => ses'[j] = ses[j]
        /\ \/ ses'[conv.i].at = ses[conv.i].at /\ ses'[conv.i].n = ses[conv.i].n
           \/ ses'[conv.i] = Closed
    BY <1>2, <2>2 DEF Session
  <2>4. Converting(conv.i) /\ \A j \in Sessions : ~Converting(j)'
    BY <2>1 DEF Converting
  <2>5. QED
    BY <1>1, <1>2, <2>3, <2>4, Defaults, AskedFrame DEF Uploads
<1>4. CASE ~Reopen
  <2>1. /\ ses' = ses /\ conv'.i = conv.i /\ conv.pc # "none"
    BY <1>2, <1>4 DEF convert, RenameAside, ClearTemp, RenameAgain, MakeDirectory, RenameBack, MoveIn,
     SetBit, UndoPart, UndoDirectory, UndoTemp, Call, At
  <2>2. QED
    BY <1>1, <2>1, AskedFrame DEF Uploads, Converting
<1>5. QED
  BY <1>3, <1>4

\* A search that begins does so after every question; one that ends, and a power loss, end the matter.
LEMMA AskedOutside ==
    ASSUME FilesInv, Asked, ToggleSearch \/ PowerLoss PROVE Asked'
<1>1. /\ cmd.at \in Nat /\ search.began \in Nat /\ \A i \in Sessions : ses[i].at \in Nat
      /\ search \in Search
  BY AskedTypes, Types DEF FilesInv
<1>2. CASE ToggleSearch
  <2>1. /\ ses' = ses /\ cmd' = cmd
        /\ search.active => ~search'.active /\ search'.began = search.began
        /\ ~search.active => search'.began = search.began + 1
    <3>1. UNCHANGED <<ses, cmd, conv>>
      BY <1>2 DEF ToggleSearch
    <3>2. search.active => ~search'.active
      <4>1. \A b, k : [active |-> b, began |-> k].active = b
        OBVIOUS
      <4>2. search'.active = ~search.active
        BY <1>2, <4>1, Zenon DEF ToggleSearch
      <4>3. QED
        BY <4>2, Zenon
    <3>3. search'.began = search.began + IF search.active THEN 0 ELSE 1
      BY <1>2 DEF ToggleSearch
    <3>4. QED
      BY <1>1, <3>1, <3>2, <3>3
  <2>2. QED
    BY <1>1, <2>1 DEF Asked
<1>3. CASE PowerLoss
  <2>1. /\ cmd' = NoCommand /\ ~search'.active /\ search'.began = search.began
        /\ \A i \in Sessions : ses'[i] = Closed
    BY <1>1, <1>3 DEF PowerLoss, Search
  <2>2. QED
    BY <1>1, <2>1, Defaults DEF Asked
<1>4. QED
  BY <1>2, <1>3

\* Every change of the search directory during a search had been asked for before it.
LEMMA Guarded ==
    ASSUME FilesInv, Asked, Next, NEW n \in SearchNames, search.active,
           NEW p \in {Name(n), Temp(n)}, card'[p] # card[p]
    PROVE  \/ \E i \in Sessions : /\ ses[i].n = n /\ (writes(i) \/ (conv.pc # "none" /\ conv.i = i))
                                  /\ ses[i].at < search.began
           \/ cmd.pc # "none" /\ cmd.at < search.began
<1>1. n \in Names /\ p \in Paths /\ p[1] = n /\ card \in [Paths -> Entry]
  <2>1. n \in Names
    BY FilesAssumption
  <2>2. Name(n)[1] = n /\ Temp(n)[1] = n
    BY DEF Name, Temp
  <2>3. QED
    BY <2>1, <2>2, PathFacts, Types DEF FilesInv
<1>2. CASE At("none") /\ Doing("none") /\ ftpsrv_loop
  <2>1. PICK i \in Sessions : writeChunk(i)
    <3>1. \A c : Begin(c) => card' = card
      BY DEF Begin
    <3>2. \A i, m : beginConversion(i) \/ ftp_vfs_close(i) \/ ftp_vfs_seek(i) \/ ftp_vfs_open_read(i, m) => card' = card
      BY DEF beginConversion, ftp_vfs_close, ftp_vfs_seek, ftp_vfs_open_read
    <3>3. QED
      BY <1>2, <3>1, <3>2, LoopSteps, Zenon
  <2>2. p = Name(ses[i].n) /\ writes(i)
    BY <1>1, <2>1 DEF writeChunk
  <2>3. ses[i].n = n
    BY <2>2, PathFacts
  <2>4. ses[i].at < search.began
    BY <2>2, <2>3 DEF Asked, Uploads, writes
  <2>5. QED
    BY <2>2, <2>3, <2>4
<1>3. CASE command
  <2>1. cmd.pc # "none" /\ (p = cmd.p \/ (p = cmd.q /\ cmd.pc \in {"rename", "replace", "retry"}))
    BY <1>1, <1>3 DEF command, DeleteOld, CreateFile, OpenFile, CreateDirectory, DeleteFile, DeleteDirectory,
       AskDestination, RenameEntry, DropDestination, RenameRetry, Use, Doing, moved, renamed
  <2>2. QED
    BY <1>1, <2>1 DEF Asked
<1>4. CASE convert
  <2>1. conv.pc # "none" /\ conv.i \in Sessions
    BY <1>4, Converted DEF convert, RenameAside, ClearTemp, RenameAgain, MakeDirectory, RenameBack, MoveIn,
       SetBit, UndoPart, UndoDirectory, UndoTemp, Reopen, At, FilesInv
  <2>2. p \in {Name(it), Temp(it)}
    BY <1>1, <1>4 DEF convert, RenameAside, ClearTemp, RenameAgain, MakeDirectory, RenameBack, MoveIn,
       SetBit, UndoPart, UndoDirectory, UndoTemp, Reopen, Call, renamed
  <2>3. ses[conv.i].n = n
    BY <2>2, PathFacts DEF it
  <2>4. ses[conv.i].at < search.began
    BY <2>1, <2>3 DEF Asked, Converting
  <2>5. QED
    BY <2>1, <2>3, <2>4
<1>5. CASE ToggleSearch \/ PowerLoss
  BY <1>5 DEF ToggleSearch, PowerLoss
<1>6. QED
  BY <1>2, <1>3, <1>4, <1>5 DEF Next

\* During a search its directory changes only by what had asked mutationAllowed before the search began.
THEOREM SearchIsGuardedHolds == Spec => SearchIsGuarded
<1> DEFINE guarded ==
      \A n \in SearchNames :
          search.active /\ (card'[Name(n)] # card[Name(n)] \/ card'[Temp(n)] # card[Temp(n)])
          => \/ \E i \in Sessions : /\ ses[i].n = n /\ (writes(i) \/ (conv.pc # "none" /\ conv.i = i))
                                    /\ ses[i].at < search.began
             \/ cmd.pc # "none" /\ cmd.at < search.began
<1>1. Init => Asked
  BY Defaults DEF Init, Asked
<1>2. FilesInv /\ Asked /\ [Next]_vars => Asked'
  <2> SUFFICES ASSUME FilesInv, Asked, [Next]_vars PROVE Asked'
    OBVIOUS
  <2>1. CASE At("none") /\ Doing("none") /\ ftpsrv_loop
    <3>1. CASE \E i \in Sessions, n \in Names :
                  \/ writeChunk(i) \/ beginConversion(i) \/ ftp_vfs_seek(i) \/ ftp_vfs_close(i)
                  \/ ftp_vfs_open_read(i, n)
      BY <2>1, <3>1, AskedFile
    <3>2. CASE \E c \in Command : Asks(c) /\ Begin(c)
      BY <3>2, AskedBegin
    <3>3. Names # {}
      BY FilesAssumption
    <3>4. QED
      BY <2>1, <3>1, <3>2, <3>3, LoopSteps, Zenon
  <2>2. CASE command
    BY <2>2, AskedCommand
  <2>3. CASE convert
    BY <2>3, AskedConvert
  <2>4. CASE ToggleSearch \/ PowerLoss
    BY <2>4, AskedOutside
  <2>5. CASE UNCHANGED vars
    BY <2>5 DEF vars, Asked, Uploads, Converting
  <2>6. QED
    BY <2>1, <2>2, <2>3, <2>4, <2>5 DEF Next
<1>3. ASSUME FilesInv, Asked, [Next]_vars PROVE [guarded]_vars
  <2> SUFFICES ASSUME NEW n \in SearchNames, search.active, vars' # vars,
                      NEW p \in {Name(n), Temp(n)}, card'[p] # card[p]
               PROVE  \/ \E i \in Sessions : /\ ses[i].n = n /\ (writes(i) \/ (conv.pc # "none" /\ conv.i = i))
                                             /\ ses[i].at < search.began
                      \/ cmd.pc # "none" /\ cmd.at < search.began
    OBVIOUS
  <2>1. Next
    BY <1>3
  <2>2. QED
    BY <1>3, <2>1, Guarded
<1>4. QED
  BY <1>1, <1>2, <1>3, FilesInvHolds, PTL DEF Spec, SearchIsGuarded

-----------------------------------------------------------------------------
(* The control of the server. *)

\* What loadConfig writes has the type of what it writes to.
LEMMA LoadedType == ASSUME NEW f \in Files
                    PROVE  /\ loaded(f).ok \in BOOLEAN
                           /\ loaded(f).desired \in BOOLEAN
                           /\ loaded(f).state \in States
<1>1. loaded(f).ok = (f # "invalid") /\ loaded(f).desired = (f = "enabled")
    BY Zenon DEF loaded
<1>2. loaded(f).state \in States
    BY DEF loaded, Files, States
<1> QED BY <1>1, <1>2

\* ftpServerInitialize leaves no listener, on each of its ways.
LEMMA ServerInitInv == ServerInit => ServerInv
<1> SUFFICES ASSUME ServerInit PROVE ServerInv
    OBVIOUS
<1>1. ServerTypeOK
  <2>1. w \in Worker
      BY FtpAssumption DEF ServerInit, FtpAssumption, Worker, Pcs
  <2>2. /\ threadCreated \in BOOLEAN /\ configOk \in BOOLEAN
        /\ desiredRunning \in BOOLEAN /\ state \in States
      BY LoadedType DEF ServerInit, States
  <2> QED BY <2>1, <2>2 DEF ServerInit, ServerTypeOK
<1>2. Agreement
    BY DEF ServerInit, Agreement
<1> QED BY <1>1, <1>2 DEF ServerInv

\* The four commands and the user's editor leave the worker and the library alone.
LEMMA CommandInv == ServerInv /\ (Commands \/ EditFile) => ServerInv'
<1> SUFFICES ASSUME ServerInv, Commands \/ EditFile PROVE ServerInv'
    OBVIOUS
<1>1. UNCHANGED <<w, bound, listenerUp, serverInitialized>>
    BY DEF Commands, EditFile, ftpServerStart, ftpServerStop, ftpServerRestart, Accepted, shown
<1>2. Agreement'
    BY <1>1 DEF ServerInv, Agreement
<1>3. ServerTypeOK'
  <2>1. CASE ftpServerStart
      BY <2>1, <1>1 DEF ServerInv, ServerTypeOK, ftpServerStart, Accepted, States
  <2>2. CASE ftpServerStop
      BY <2>2, <1>1 DEF ServerInv, ServerTypeOK, ftpServerStop, Accepted, States
  <2>3. ASSUME NEW reloadConfig \in BOOLEAN, ftpServerRestart(reloadConfig) PROVE ServerTypeOK'
      BY <2>3, <1>1 DEF ServerInv, ServerTypeOK, ftpServerRestart, Accepted, States
  <2>4. CASE EditFile
      BY <2>4, <1>1 DEF ServerInv, ServerTypeOK, EditFile, wishes, shown, history
  <2> QED BY <2>1, <2>2, <2>3, <2>4 DEF Commands
<1> QED BY <1>2, <1>3 DEF ServerInv

\* The error count and pc move within their types.
LEMMA CountType == ASSUME w \in Worker, NEW n \in 0 .. FTP_LOOP_ERROR_LIMIT, NEW pc \in Pcs
                   PROVE  /\ [w EXCEPT !.errors = n, !.pc = pc] \in Worker
                          /\ [w EXCEPT !.errors = n, !.pc = pc].pc = pc
BY DEF Worker

\* Every step of the worker keeps the agreement.
LEMMA WorkerInv == ServerInv /\ ftpWorker => ServerInv'
<1> SUFFICES ASSUME ServerInv, ftpWorker PROVE ServerInv'
    OBVIOUS
<1> USE FtpAssumption DEF ServerInv, ServerTypeOK, Agreement, PassAt, Goto, Frame, wishes, Worker, Pcs
<1>1. CASE Snapshot
    BY <1>1, ZenonT(40) DEF Snapshot
<1>2. CASE Retire
    BY <1>2 DEF Retire, States
<1>3. CASE LibraryExit
  <2>1. 0 \in 0 .. FTP_LOOP_ERROR_LIMIT
      BY DEF FtpAssumption
  <2>2. CASE PassAt("retireExit") /\ Goto("retireMark")
      BY <1>3, <2>1, <2>2 DEF LibraryExit
  <2>3. CASE PassAt("stopExit") /\ Goto("stopMark")
      BY <1>3, <2>1, <2>3 DEF LibraryExit
  <2>4. CASE PassAt("dropExit") /\ Goto("dropMark")
      BY <1>3, <2>1, <2>4 DEF LibraryExit
  <2> QED BY <1>3, <2>2, <2>3, <2>4 DEF LibraryExit
<1>4. CASE RetireMark
    BY <1>4 DEF RetireMark
<1>5. CASE Apply
  <2>1. CASE w.reload
    <3>1. /\ configOk' \in BOOLEAN /\ desiredRunning' \in BOOLEAN /\ state' \in States
        BY <1>5, <2>1, LoadedType DEF Apply
    <3>2. w' = [w EXCEPT !.pc = "adopt"] /\ w.pc = "apply"
        BY <1>5, <2>1 DEF Apply
    <3>3. UNCHANGED <<threadCreated, restartRequested, reloadRequested, serverInitialized,
                      listenerUp, file, bound, clean>>
        BY <1>5 DEF Apply
    <3> QED BY <3>1, <3>2, <3>3
  <2>2. CASE ~w.reload /\ w.restart
      BY <1>5, <2>2 DEF Apply
  <2>3. CASE ~w.reload /\ ~w.restart
      BY <1>5, <2>3 DEF Apply
  <2> QED BY <2>1, <2>2, <2>3
<1>6. CASE Adopt
    BY <1>6 DEF Adopt
<1>7. CASE Decide
    BY <1>7 DEF Decide, States
<1>8. CASE StopMark
    BY <1>8 DEF StopMark, States
<1>9. CASE BindSucceeds
    BY <1>9 DEF BindSucceeds
<1>10. CASE BindFails
    BY <1>10 DEF BindFails
<1>11. CASE MarkBound
    BY <1>11 DEF MarkBound, States
<1>12. CASE MarkUnbound
    BY <1>12 DEF MarkUnbound, States
<1>13. CASE Loop
  <2>1. UNCHANGED <<threadCreated, wishes, serverInitialized, state, listenerUp, configOk,
                    file, bound, clean>> /\ w.pc = "loop"
      BY <1>13 DEF Loop
  <2>2. PICK n \in 0 .. FTP_LOOP_ERROR_LIMIT, pc \in {"snapshot", "dropExit"} :
            w' = [w EXCEPT !.errors = n, !.pc = pc]
    <3>1. 0 \in 0 .. FTP_LOOP_ERROR_LIMIT
        BY DEF FtpAssumption
    <3>2. w.errors + 1 >= FTP_LOOP_ERROR_LIMIT \/ w.errors + 1 \in 0 .. FTP_LOOP_ERROR_LIMIT
        BY DEF FtpAssumption
    <3> QED BY <1>13, <3>1, <3>2, ZenonT(40) DEF Loop
  <2>3. w' \in Worker /\ w'.pc \in {"snapshot", "dropExit"}
      BY <2>2, CountType, Zenon
  <2> QED BY <2>1, <2>3
<1>14. CASE DropMark
    BY <1>14 DEF DropMark, States
<1> QED BY <1>1, <1>2, <1>3, <1>4, <1>5, <1>6, <1>7, <1>8, <1>9, <1>10, <1>11, <1>12,
           <1>13, <1>14 DEF ftpWorker

\* The agreement is an invariant of the server, for every FTP_LOOP_ERROR_LIMIT.
THEOREM ServerInvariance == ServerSpec => []ServerInv
<1>1. ServerInv /\ [ServerNext]_serverVars => ServerInv'
  <2> SUFFICES ASSUME ServerInv, [ServerNext]_serverVars PROVE ServerInv'
      OBVIOUS
  <2>1. CASE UNCHANGED serverVars
      BY <2>1 DEF serverVars, wishes, shown, history, ServerInv, ServerTypeOK, Agreement
  <2> QED BY <2>1, CommandInv, WorkerInv DEF ServerNext
<1> QED BY ServerInitInv, <1>1, PTL DEF ServerSpec

\* ftpsrv_init without a listener, ftpsrv_loop with one, and a truthful status between passes.
THEOREM LibraryIsUsedRight == ServerSpec => []LibraryProtocol
<1>1. ServerInv => LibraryProtocol
    BY DEF ServerInv, Agreement, LibraryProtocol
<1> QED BY <1>1, ServerInvariance, PTL
=============================================================================
