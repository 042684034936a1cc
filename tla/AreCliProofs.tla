---------------------------- MODULE AreCliProofs ----------------------------
(***************************************************************************)
(* The verdicts of the commands are those of the files, as long as nobody  *)
(* else writes: what a command holds is what it read, what it read is what *)
(* the directory holds, and a fmt that stops anywhere leaves the files it  *)
(* passed formatted and the others as they were.                           *)
(***************************************************************************)
EXTENDS AreCli, AreLemmas

Sources == Texts \cup {Absent}
AllItems == {"service", "bare", "types", "empty", "wrong", "broken", "absent"}
AllManifests == Manifests \cup {Template, NoManifest, EmptyManifest}
AllCommands == Commands \cup {"none"}
Verdicts == {"pass", "warn", "fail"}

-----------------------------------------------------------------------------
\* The types of the state, and where each command may be.

Positions ==
    {"idle", "manifest", "collect", "read", "compare", "report", "format", "truncate", "fill",
     "new", "toml", "toml_fill", "main", "main_fill"}

CommandType ==
    [name : AllCommands, pc : Positions, round : 1..2, files : Seq(Range(Files)), at : Nat,
     manifest : AllManifests, found : Seq(AllItems), text : Sources,
     checks : Seq(Verdicts), changed : BOOLEAN]

FilesTyped ==
    /\ source \in [Range(Files) -> Sources] /\ toml \in AllManifests
    /\ before \in [source : [Range(Files) -> Sources], toml : AllManifests]
    /\ edits \in 0..MaxEdits /\ dirty \in BOOLEAN /\ fresh \in BOOLEAN
    /\ last \in [name : AllCommands, ok : BOOLEAN, killed : BOOLEAN]
    /\ ~At("idle") => last = NoResult

Placed ==
    /\ At("idle") => cmd = NoCommand
    /\ At("manifest") => cmd.name \in Preparing \cup {"audit"}
    /\ At("collect") => cmd.name \in Preparing \cup Formatting \cup {"check", "audit"}
    /\ At("read") => cmd.name \in Preparing \cup {"check", "audit"}
    /\ At("compare") => cmd.name = "openapi_check"
    /\ At("report") => cmd.name = "audit"
    /\ At("format") => cmd.name \in Formatting
    /\ cmd.pc \in {"truncate", "fill"} => cmd.name \in {"fmt", "openapi"}
    /\ cmd.pc \in {"new", "toml", "toml_fill", "main", "main_fill"} => cmd.name = "new"
    /\ cmd.round = 2 => cmd.name = "audit"

\* The text is that of the file being written, a verdict is counted once.
Counted ==
    /\ Len(cmd.files) <= Len(Files)
    /\ cmd.at \in 1..Len(Files) + 1
    /\ cmd.pc \in {"read", "format"} => cmd.at <= Len(cmd.files) + 1
    /\ At("read") => Len(cmd.found) = cmd.at - 1
    /\ IF cmd.name = "fmt" /\ cmd.pc \in {"truncate", "fill"}
       THEN cmd.at <= Len(cmd.files) /\ cmd.text \in Texts
       ELSE cmd.text = Absent
    /\ Len(cmd.checks) <= 3 /\ (~At("report") => Len(cmd.checks) = cmd.round - 1)
    /\ At("compare") \/ (cmd.name = "openapi" /\ cmd.pc \in {"truncate", "fill"}) =>
           Len(cmd.found) = Len(cmd.files) /\ IsPrepared(cmd.found)

CmdInv == FilesTyped /\ cmd \in CommandType /\ Placed /\ Counted

-----------------------------------------------------------------------------
\* What a command read, if nobody else wrote since it began.

\* No check failed so far.
Passing(checks) == \A i \in DOMAIN checks : checks[i] # "fail"

OneService == Cardinality(Services) = 1

\* What the audit's checks but those of the capabilities are about.
ProgramPasses ==
    /\ Sound
    /\ toml.target = "server" =>
           toml.entry \in Present /\ OneService /\ \A f \in Services : source[f].items = "service"

ReadInv ==
    ~dirty =>
    /\ cmd.name \in Preparing \cup {"audit"} /\ (At("manifest") => cmd.round = 2) =>
           cmd.manifest = toml /\ Readable
    /\ Prepares /\ ~At("manifest") /\ ~At("report") => Serves
    /\ cmd.pc \in {"read", "compare", "format", "truncate", "fill"} => cmd.files = PresentFiles
    /\ cmd.pc \in {"read", "compare", "truncate", "fill"} /\ cmd.name \notin Formatting =>
           \A i \in DOMAIN cmd.found : cmd.found[i] = source[cmd.files[i]].items
    /\ cmd.round = 2 /\ ~At("report") =>
           toml.target = "server" /\ (Passing(cmd.checks) <=> Sound)
    /\ At("report") => (Passing(cmd.checks) <=> ProgramPasses)

\* new writes into a directory that held nothing.
Nothing == [source |-> [f \in Range(Files) |-> Absent], toml |-> NoManifest]

NewInv ==
    ~dirty =>
    /\ At("new") => before = [source |-> source, toml |-> toml]
    /\ cmd.pc \in {"toml", "toml_fill", "main", "main_fill"} =>
           before = Nothing /\ openapi = NoDocument
    /\ At("toml") => toml = NoManifest
    /\ cmd.pc \in {"toml", "toml_fill", "main"} => Present = {}
    /\ cmd.pc \in {"main", "main_fill"} => toml = Template
    /\ At("main_fill") => Present = {Main}

\* fmt passed the files before the one it is at.
FmtInv ==
    ~dirty /\ cmd.name \in Formatting =>
    /\ At("collect") \/ cmd.name = "fmt_check" => source = before.source
    /\ cmd.name = "fmt_check" /\ cmd.changed => ~Formatted
    /\ \A f \in Range(Files) : source[f] = Absent <=> before.source[f] = Absent
    /\ cmd.pc \in {"format", "truncate", "fill"} =>
       \A i \in DOMAIN cmd.files :
          LET was == before.source[cmd.files[i]]
              is == source[cmd.files[i]]
          IN  /\ i < cmd.at => Formattable(was) /\ (cmd.name = "fmt" => is = format_source(was))
              /\ i < cmd.at /\ cmd.name = "fmt_check" /\ ~cmd.changed => was.tidy
              /\ i > cmd.at => is = was
              /\ i = cmd.at => /\ is = IF At("fill") THEN Empty ELSE was
                               /\ ~At("format") => Formattable(was) /\ cmd.text = format_source(was)

\* The items of the files, the one that fmt is writing taken as written.
Held ==
    [f \in Range(Files) |->
        IF At("fill") /\ cmd.name = "fmt" /\ f = cmd.files[cmd.at] THEN cmd.text.items
        ELSE source[f].items]

\* openapi.json is the document of the files, taken so.
Documented ==
    /\ \A f \in Range(Files) : Held[f] \notin {"broken", "wrong"}
    /\ \E f \in Range(Files) : /\ has_service(Held[f])
                               /\ \A g \in Range(Files) : has_service(Held[g]) => g = f
    /\ openapi = [server |-> toml.server,
                  items |-> {Held[f] : f \in Range(Files)} \ {"empty", "absent"}]

FreshInv == fresh => ~dirty /\ Readable /\ Serves /\ Documented

\* What the properties say of a command that ended.
FmtOutcome ==
    last.name \in Formatting /\ ~dirty =>
        /\ last.name = "fmt_check" => source = before.source
        /\ \E k \in 1..Len(Files) + 1 : FormattedBefore(k, ~last.ok)
        /\ last.ok => Formatted
        /\ last.name = "fmt_check" /\ ~last.killed /\ Formatted => last.ok

Outcome == FmtOutcome /\ AuditVouchesForRun /\ OnlyEditsDrift

Inv == CmdInv /\ ReadInv /\ NewInv /\ FmtInv /\ FreshInv /\ Outcome

-----------------------------------------------------------------------------
\* The walk lists the files that are there, each once.

\* Files are numbered, each once.
LEMMA FilesInjective ==
    /\ Files \in Seq(Range(Files)) /\ Len(Files) \in Nat /\ DOMAIN Files = 1..Len(Files)
    /\ \A i, j \in 1..Len(Files) : Files[i] = Files[j] => i = j
    /\ \A f \in Range(Files) : \E i \in 1..Len(Files) : Files[i] = f
    /\ \A i \in 1..Len(Files) : Files[i] \in Range(Files)
BY ProjectAssumption DEF IsInjective, Range

\* The files that are present are a selection of all files, in their order.
LEMMA Walk ==
    ASSUME source \in [Range(Files) -> Sources]
    PROVE  /\ PresentFiles \in Seq(Range(Files)) /\ Len(PresentFiles) <= Len(Files)
           /\ \E e : /\ Enumerates(e, {i \in DOMAIN Files : Files[i] \in Present},
                                   Len(PresentFiles), Len(Files))
                     /\ \A i \in 1..Len(PresentFiles) : PresentFiles[i] = Files[e[i]]
<1> DEFINE keep == {i \in DOMAIN Files : Files[i] \in Present}
<1>1. PresentFiles = SelectAt(Files, keep)
  BY DEF PresentFiles
<1> HIDE DEF keep
<1>2. /\ PresentFiles \in Seq(Range(Files))
      /\ \E e : /\ Enumerates(e, keep, Len(PresentFiles), Len(Files))
                /\ \A i \in 1..Len(PresentFiles) : PresentFiles[i] = Files[e[i]]
  BY <1>1, FilesInjective, SelectAtPositions, SMTT(30)
<1>3. Len(PresentFiles) <= Len(Files)
  <2>1. Len(PresentFiles) \in Nat
    BY <1>2
  <2>2. QED
    BY <1>2, <2>1, FilesInjective, EnumeratesAtMost
<1>4. QED
  BY <1>2, <1>3 DEF keep

\* Every present file is in the list, once, and no other.
LEMMA PresentListed ==
    ASSUME source \in [Range(Files) -> Sources]
    PROVE  /\ \A i \in 1..Len(PresentFiles) : PresentFiles[i] \in Present
           /\ \A f \in Present : \E i \in 1..Len(PresentFiles) : PresentFiles[i] = f
           /\ \A i, j \in 1..Len(PresentFiles) : PresentFiles[i] = PresentFiles[j] => i = j
<1> DEFINE keep == {i \in DOMAIN Files : Files[i] \in Present}
           len == Len(PresentFiles)
<1>1. PICK e : /\ Enumerates(e, keep, len, Len(Files))
               /\ \A i \in 1..len : PresentFiles[i] = Files[e[i]]
  BY Walk
<1>2. len \in Nat
  BY Walk
<1>3. \A i \in 1..len : e[i] \in keep
  BY <1>1 DEF Enumerates
<1>4. \A i \in 1..len : PresentFiles[i] \in Present
  BY <1>1, <1>3
<1>5. \A f \in Present : \E i \in 1..len : PresentFiles[i] = f
  <2> SUFFICES ASSUME NEW f \in Present
               PROVE  \E i \in 1..len : PresentFiles[i] = f
    OBVIOUS
  <2>1. PICK p \in 1..Len(Files) : Files[p] = f
    BY FilesInjective DEF Present
  <2>2. p \in keep \cap 1..Len(Files)
    BY <2>1, FilesInjective
  <2>3. PICK i \in 1..len : e[i] = p
    BY <1>1, <2>2 DEF Enumerates
  <2>4. QED
    BY <1>1, <2>1, <2>3
<1>6. \A i, j \in 1..len : PresentFiles[i] = PresentFiles[j] => i = j
  <2> SUFFICES ASSUME NEW i \in 1..len, NEW j \in 1..len, PresentFiles[i] = PresentFiles[j]
               PROVE  i = j
    OBVIOUS
  <2>1. e[i] \in 1..Len(Files) /\ e[j] \in 1..Len(Files)
    BY <1>1 DEF Enumerates
  <2>2. e[i] = e[j]
    BY <1>1, <2>1, FilesInjective
  <2>3. ~(i < j) /\ ~(j < i)
    BY <1>1, <2>1, <2>2 DEF Enumerates
  <2>4. QED
    BY <1>2, <2>3
<1>7. QED
  BY <1>4, <1>5, <1>6

-----------------------------------------------------------------------------
\* Types.

\* The record of no command.
LEMMA NoCommandTyped ==
    /\ NoCommand \in CommandType /\ NoCommand.pc = "idle" /\ NoCommand.name = "none"
    /\ NoCommand.round = 1 /\ NoCommand.files = << >> /\ NoCommand.at = 1
    /\ NoCommand.text = Absent /\ NoCommand.checks = << >>
BY DEF NoCommand, Command, CommandType, AllCommands, Positions, AllManifests, Sources

\* When checks that follow each other pass.
LEMMA VerdictsJoined ==
    /\ Passing(<< >>)
    /\ \A a \in Verdicts : /\ <<a>> \in Seq(Verdicts) /\ Len(<<a>>) = 1
                           /\ Passing(<<a>>) <=> a # "fail"
    /\ \A a, b \in Verdicts : /\ <<a, b>> \in Seq(Verdicts) /\ Len(<<a, b>>) = 2
                              /\ Passing(<<a, b>>) <=> a # "fail" /\ b # "fail"
    /\ \A a, b, c \in Verdicts : /\ <<a, b, c>> \in Seq(Verdicts) /\ Len(<<a, b, c>>) = 3
                                 /\ Passing(<<a, b, c>>) <=> a # "fail" /\ b # "fail" /\ c # "fail"
    /\ \A s, t \in Seq(Verdicts) : /\ s \o t \in Seq(Verdicts) /\ Len(s \o t) = Len(s) + Len(t)
                                   /\ Passing(s \o t) <=> Passing(s) /\ Passing(t)
<1>1. "pass" \in Verdicts /\ "warn" \in Verdicts /\ "fail" \in Verdicts
  BY DEF Verdicts
<1>2. Passing(<< >>)
  BY DEF Passing
<1>3. \A a \in Verdicts : /\ <<a>> \in Seq(Verdicts) /\ Len(<<a>>) = 1
                          /\ Passing(<<a>>) <=> a # "fail"
  BY DEF Passing
<1>4. \A a, b \in Verdicts : /\ <<a, b>> \in Seq(Verdicts) /\ Len(<<a, b>>) = 2
                             /\ Passing(<<a, b>>) <=> a # "fail" /\ b # "fail"
  <2> SUFFICES ASSUME NEW a \in Verdicts, NEW b \in Verdicts
               PROVE  /\ <<a, b>> \in Seq(Verdicts) /\ Len(<<a, b>>) = 2
                      /\ Passing(<<a, b>>) <=> a # "fail" /\ b # "fail"
    OBVIOUS
  <2>1. DOMAIN <<a, b>> = {1, 2}
    OBVIOUS
  <2>2. QED
    BY <2>1 DEF Passing
<1>5. \A a, b, c \in Verdicts : /\ <<a, b, c>> \in Seq(Verdicts) /\ Len(<<a, b, c>>) = 3
                                /\ Passing(<<a, b, c>>) <=> a # "fail" /\ b # "fail" /\ c # "fail"
  <2> SUFFICES ASSUME NEW a \in Verdicts, NEW b \in Verdicts, NEW c \in Verdicts
               PROVE  /\ <<a, b, c>> \in Seq(Verdicts) /\ Len(<<a, b, c>>) = 3
                      /\ Passing(<<a, b, c>>) <=> a # "fail" /\ b # "fail" /\ c # "fail"
    OBVIOUS
  <2>1. DOMAIN <<a, b, c>> = {1, 2, 3}
    OBVIOUS
  <2>2. QED
    BY <2>1 DEF Passing
<1>6. \A s, t \in Seq(Verdicts) : /\ s \o t \in Seq(Verdicts) /\ Len(s \o t) = Len(s) + Len(t)
                                  /\ Passing(s \o t) <=> Passing(s) /\ Passing(t)
  <2> SUFFICES ASSUME NEW s \in Seq(Verdicts), NEW t \in Seq(Verdicts)
               PROVE  /\ s \o t \in Seq(Verdicts) /\ Len(s \o t) = Len(s) + Len(t)
                      /\ Passing(s \o t) <=> Passing(s) /\ Passing(t)
    OBVIOUS
  <2>1. /\ s \o t \in Seq(Verdicts) /\ Len(s \o t) = Len(s) + Len(t)
        /\ Len(s) \in Nat /\ Len(t) \in Nat
        /\ DOMAIN s = 1..Len(s) /\ DOMAIN t = 1..Len(t) /\ DOMAIN (s \o t) = 1..Len(s) + Len(t)
    OBVIOUS
  <2>2. /\ \A i \in 1..Len(s) : (s \o t)[i] = s[i]
        /\ \A i \in 1..Len(t) : (s \o t)[Len(s) + i] = t[i]
    OBVIOUS
  <2>3. ASSUME Passing(s \o t) PROVE Passing(s) /\ Passing(t)
    <3>1. \A i \in 1..Len(s) : i \in DOMAIN (s \o t)
      BY <2>1
    <3>2. \A i \in 1..Len(t) : Len(s) + i \in DOMAIN (s \o t)
      BY <2>1
    <3>3. QED
      BY <2>1, <2>2, <2>3, <3>1, <3>2 DEF Passing
  <2>4. ASSUME Passing(s), Passing(t) PROVE Passing(s \o t)
    <3> SUFFICES ASSUME NEW i \in 1..Len(s) + Len(t) PROVE (s \o t)[i] # "fail"
      BY <2>1 DEF Passing
    <3>1. CASE i <= Len(s)
      BY <2>1, <2>2, <2>4, <3>1 DEF Passing
    <3>2. CASE ~(i <= Len(s))
      <4>1. i - Len(s) \in 1..Len(t) /\ Len(s) + (i - Len(s)) = i
        BY <2>1, <3>2
      <4>2. QED
        BY <2>1, <2>2, <2>4, <4>1 DEF Passing
    <3>3. QED
      BY <3>1, <3>2
  <2>5. QED
    BY <2>1, <2>3, <2>4
<1>7. QED
  BY <1>2, <1>3, <1>4, <1>5, <1>6

\* A list of checks with a failure in it does not pass.
LEMMA FailAppended ==
    ASSUME NEW s \in Seq(Verdicts)
    PROVE  /\ Append(s, "fail") \in Seq(Verdicts) /\ ~Passing(Append(s, "fail"))
           /\ Len(Append(s, "fail")) = Len(s) + 1
<1>1. "fail" \in Verdicts
  BY DEF Verdicts
<1>2. /\ Append(s, "fail") \in Seq(Verdicts) /\ Len(Append(s, "fail")) = Len(s) + 1
      /\ Append(s, "fail")[Len(s) + 1] = "fail" /\ Len(s) + 1 \in DOMAIN Append(s, "fail")
  BY <1>1
<1>3. QED
  BY <1>2 DEF Passing

\* A command that ends leaves the types as they are.
LEMMA ExitTyped ==
    ASSUME CmdInv, NEW ok \in BOOLEAN, Exit(ok),
           source' \in [Range(Files) -> Sources], before' = before, toml' \in AllManifests,
           fresh' \in BOOLEAN, EditorKept
    PROVE  CmdInv'
<1>1. cmd' = NoCommand /\ last' = [name |-> cmd.name, ok |-> ok, killed |-> FALSE]
  BY DEF Exit
<1>2. cmd.name \in AllCommands
  BY DEF CmdInv, CommandType
<1>3. FilesTyped'
  BY <1>1, <1>2, NoCommandTyped DEF CmdInv, FilesTyped, EditorKept, At
<1>4. Len(Files) \in Nat /\ Len(<< >>) = 0
  BY FilesInjective
<1>5. Placed' /\ Counted'
  BY <1>1, <1>4, NoCommandTyped DEF Placed, Counted, At
<1>6. QED
  BY <1>1, <1>3, <1>5, NoCommandTyped DEF CmdInv

\* No command is running at first.
LEMMA CmdInit == Init => CmdInv
<1> SUFFICES ASSUME Init PROVE CmdInv
  OBVIOUS
<1>1. /\ source \in [Range(Files) -> Sources] /\ toml \in AllManifests
      /\ before \in [source : [Range(Files) -> Sources], toml : AllManifests]
  BY ProjectAssumption DEF Init, NothingBefore, Sources, AllManifests
<1>2. last \in [name : AllCommands, ok : BOOLEAN, killed : BOOLEAN]
  BY DEF Init, NoResult, AllCommands
<1>3. FilesTyped
  <2>1. MaxEdits \in Nat
    BY ProjectAssumption
  <2>2. At("idle") /\ edits = 0 /\ dirty = FALSE /\ fresh = FALSE
    BY NoCommandTyped DEF Init, At
  <2>3. edits \in 0..MaxEdits
    BY <2>1, <2>2
  <2>4. QED
    BY <1>1, <1>2, <2>2, <2>3 DEF FilesTyped
<1>4. Len(Files) \in Nat /\ Len(<< >>) = 0
  BY FilesInjective
<1>5. cmd \in CommandType /\ Placed /\ Counted
  BY <1>4, NoCommandTyped DEF Init, Placed, Counted, At
<1>6. QED
  BY <1>3, <1>5 DEF CmdInv

\* An action of the running command that neither ends it nor writes.
LEMMA GoesOn ==
    ASSUME CmdInv, ~At("idle"), cmd' \in CommandType, Placed', Counted', ~At("idle")',
           source' \in [Range(Files) -> Sources], before' = before, toml' \in AllManifests,
           fresh' \in BOOLEAN, EditorKept, UNCHANGED last
    PROVE  CmdInv'
BY DEF CmdInv, FilesTyped, EditorKept

\* A command begins where its name begins.
LEMMA CmdBegin ==
    ASSUME CmdInv, NEW name \in Commands, Begin(name)
    PROVE  CmdInv'
<1>1. /\ cmd'.name = name /\ cmd'.round = 1 /\ cmd'.files = << >> /\ cmd'.at = 1
      /\ cmd'.text = Absent /\ cmd'.checks = << >> /\ cmd' \in CommandType
      /\ cmd'.pc = IF name = "new" THEN "new"
                   ELSE IF name \in Preparing \cup {"audit"} THEN "manifest" ELSE "collect"
  BY DEF Begin, Command, CommandType, AllCommands, Positions, AllManifests, Sources
<1>2. before' \in [source : [Range(Files) -> Sources], toml : AllManifests]
  BY DEF Begin, NothingBefore, CmdInv, FilesTyped, Sources, AllManifests
<1>3. FilesTyped'
  BY <1>2 DEF Begin, CmdInv, FilesTyped, NoResult, AllCommands
<1>4. Placed'
  BY <1>1 DEF Placed, At, Commands
<1>5. Len(Files) \in Nat /\ Len(<< >>) = 0
  BY FilesInjective
<1>6. Counted'
  BY <1>1, <1>5 DEF Counted, At, Commands
<1>7. QED
  BY <1>1, <1>3, <1>4, <1>6 DEF CmdInv

\* The manifest is read, or its absence reported.
LEMMA CmdManifest ==
    ASSUME CmdInv, load_manifest
    PROVE  CmdInv'
<1>1. /\ At("manifest") /\ source' = source /\ before' = before /\ toml' = toml /\ fresh' = fresh
      /\ EditorKept
  BY DEF load_manifest, FilesKept
<1>2. /\ source' \in [Range(Files) -> Sources] /\ toml' \in AllManifests /\ fresh' \in BOOLEAN
      /\ ~At("idle") /\ cmd \in CommandType /\ cmd.name \in Preparing \cup {"audit"}
  BY <1>1 DEF CmdInv, FilesTyped, At, Placed
<1>3. CASE Readable /\ (Prepares => Serves)
  <2>1. cmd' = [cmd EXCEPT !.pc = "collect", !.manifest = IF cmd.round = 1 THEN toml ELSE @]
        /\ UNCHANGED last
    BY <1>3 DEF load_manifest
  <2>2. cmd' \in CommandType
    BY <1>2, <2>1 DEF CommandType, Positions, CmdInv, FilesTyped
  <2>3. /\ cmd'.pc = "collect" /\ cmd'.name = cmd.name /\ cmd'.round = cmd.round
        /\ cmd'.files = cmd.files /\ cmd'.at = cmd.at /\ cmd'.text = cmd.text
        /\ cmd'.checks = cmd.checks
    BY <1>2, <2>1 DEF CommandType
  <2>4. Placed' /\ Counted'
    BY <1>1, <1>2, <2>3 DEF CmdInv, Placed, Counted, At, Preparing
  <2>5. QED
    BY <1>1, <1>2, <2>1, <2>2, <2>3, <2>4, GoesOn DEF At
<1>4. CASE ~(Readable /\ (Prepares => Serves)) /\ Prepares /\ cmd.name = "audit"
  <2>1. /\ cmd' = [cmd EXCEPT !.pc = "report", !.checks = Append(@, "fail")]
        /\ UNCHANGED last
    BY <1>4 DEF load_manifest, Unprepared
  <2>2. cmd.round = 2 /\ cmd.checks \in Seq(Verdicts) /\ Len(cmd.checks) = 1
    <3>1. cmd.round = 2
      BY <1>4 DEF Prepares, Preparing
    <3>2. cmd.checks \in Seq(Verdicts)
      BY <1>2 DEF CommandType
    <3>3. Len(cmd.checks) = cmd.round - 1
      BY <1>1 DEF CmdInv, Counted, At
    <3>4. QED
      BY <3>1, <3>2, <3>3
  <2> DEFINE checks == Append(cmd.checks, "fail")
  <2>7. checks \in Seq(Verdicts) /\ Len(checks) = 2
    <3>1. checks \in Seq(Verdicts) /\ Len(checks) = Len(cmd.checks) + 1
      BY <2>2, FailAppended, Zenon
    <3>2. QED
      BY <2>2, <3>1
  <2>8. cmd' = [cmd EXCEPT !.pc = "report", !.checks = checks]
    BY <1>2, <2>1 DEF CommandType
  <2> HIDE DEF checks
  <2>3. cmd' \in CommandType
    BY <1>2, <2>7, <2>8 DEF CommandType, Positions
  <2>4. /\ cmd'.pc = "report" /\ cmd'.name = "audit" /\ cmd'.round = cmd.round
        /\ cmd'.files = cmd.files /\ cmd'.at = cmd.at /\ cmd'.text = cmd.text
        /\ Len(cmd'.checks) = 2
    BY <1>2, <1>4, <2>7, <2>8 DEF CommandType
  <2>5. Placed' /\ Counted'
    BY <1>1, <1>2, <1>4, <2>4 DEF CmdInv, Placed, Counted, At
  <2>6. QED
    BY <1>1, <1>2, <2>1, <2>3, <2>4, <2>5, GoesOn DEF At
<1>5. CASE ~(Readable /\ (Prepares => Serves)) /\ ~(Prepares /\ cmd.name = "audit")
  <2>1. Exit(FALSE)
    BY <1>5 DEF load_manifest, Unprepared
  <2>2. QED
    BY <1>1, <1>2, <2>1, ExitTyped
<1>6. QED
  BY <1>3, <1>4, <1>5

\* The list of the files is made once.
LEMMA CmdCollect ==
    ASSUME CmdInv, collect_are_files
    PROVE  CmdInv'
<1>1. /\ At("collect") /\ source' = source /\ before' = before /\ toml' = toml /\ fresh' = fresh
      /\ EditorKept /\ UNCHANGED last
      /\ cmd' = [cmd EXCEPT !.pc = IF cmd.name \in Formatting THEN "format" ELSE "read", !.at = 1,
                            !.files = PresentFiles, !.found = << >>]
  BY DEF collect_are_files, FilesKept
<1>2. /\ source' \in [Range(Files) -> Sources] /\ toml' \in AllManifests /\ fresh' \in BOOLEAN
      /\ ~At("idle") /\ cmd \in CommandType
  BY <1>1 DEF CmdInv, FilesTyped, At
<1>3. PresentFiles \in Seq(Range(Files)) /\ Len(PresentFiles) <= Len(Files)
  BY Walk DEF CmdInv, FilesTyped
<1>4. /\ cmd'.pc = IF cmd.name \in Formatting THEN "format" ELSE "read"
      /\ cmd'.name = cmd.name /\ cmd'.round = cmd.round
      /\ cmd'.files = PresentFiles /\ cmd'.at = 1 /\ cmd'.text = cmd.text
      /\ cmd'.found = << >> /\ cmd'.checks = cmd.checks
  BY <1>1, <1>2 DEF CommandType
<1>5. cmd' \in CommandType
  <2>1. << >> \in Seq(AllItems)
    OBVIOUS
  <2>2. QED
    BY <1>1, <1>2, <1>3, <2>1 DEF CommandType, Positions
<1>6. Placed'
  BY <1>1, <1>4 DEF CmdInv, Placed, At, Preparing, Formatting
<1>7. Len(Files) \in Nat /\ Len(PresentFiles) \in Nat
  BY <1>3, FilesInjective
<1>8. Counted'
  BY <1>1, <1>3, <1>4, <1>7 DEF CmdInv, Counted, At, Placed, Formatting
<1>9. QED
  BY <1>1, <1>2, <1>4, <1>5, <1>6, <1>8, GoesOn DEF At

\* The next file of a command is one of the directory.
LEMMA NextFile ==
    ASSUME CmdInv, cmd.at <= Len(cmd.files)
    PROVE  /\ cmd.at \in 1..Len(cmd.files) /\ cmd.files \in Seq(Range(Files))
           /\ cmd.files[cmd.at] \in Range(Files)
           /\ source[cmd.files[cmd.at]] \in Sources /\ before.source[cmd.files[cmd.at]] \in Sources
<1>1. cmd.files \in Seq(Range(Files)) /\ cmd.at \in Nat /\ cmd.at # 0
  <2>1. cmd.files \in Seq(Range(Files)) /\ cmd.at \in Nat
    BY DEF CmdInv, CommandType
  <2>2. QED
    BY <2>1, FilesInjective DEF CmdInv, Counted
<1>2. cmd.at \in 1..Len(cmd.files)
  BY <1>1
<1>3. cmd.files[cmd.at] \in Range(Files)
  BY <1>1, <1>2
<1>4. QED
  BY <1>1, <1>2, <1>3 DEF CmdInv, FilesTyped

\* A file that is read is added to what was found.
LEMMA CmdReads ==
    ASSUME CmdInv, check_source_file
    PROVE  CmdInv'
<1> DEFINE items == source[cmd.files[cmd.at]].items
<1>1. /\ At("read") /\ source' = source /\ before' = before /\ toml' = toml /\ fresh' = fresh
      /\ EditorKept /\ UNCHANGED last /\ cmd.at <= Len(cmd.files)
      /\ cmd' = [cmd EXCEPT !.at = @ + 1, !.found = Append(@, items)]
  BY DEF check_source_file, FilesKept
<1>2. /\ source' \in [Range(Files) -> Sources] /\ toml' \in AllManifests /\ fresh' \in BOOLEAN
      /\ ~At("idle") /\ cmd \in CommandType
  BY <1>1 DEF CmdInv, FilesTyped, At
<1>3. items \in AllItems
  BY <1>1, NextFile DEF Sources, Texts, Absent, AllItems
<1>4. /\ cmd.found \in Seq(AllItems) /\ cmd.at \in Nat /\ Len(cmd.found) = cmd.at - 1
      /\ Len(cmd.files) \in Nat /\ Len(cmd.files) <= Len(Files) /\ Len(Files) \in Nat /\ cmd.at >= 1
  <2>1. cmd.found \in Seq(AllItems) /\ cmd.files \in Seq(Range(Files)) /\ cmd.at \in Nat
    BY <1>2 DEF CommandType
  <2>2. Len(cmd.found) = cmd.at - 1 /\ Len(cmd.files) <= Len(Files) /\ cmd.at >= 1
    BY <1>1, FilesInjective DEF CmdInv, Counted
  <2>3. QED
    BY <2>1, <2>2, FilesInjective
<1> DEFINE found == Append(cmd.found, items)
<1> HIDE DEF items
<1>5. found \in Seq(AllItems) /\ Len(found) = cmd.at
  BY <1>3, <1>4
<1>6. cmd' = [cmd EXCEPT !.at = cmd.at + 1, !.found = found]
  BY <1>1, <1>2 DEF CommandType
<1> HIDE DEF found
<1>11. cmd.at + 1 \in Nat
  BY <1>4
<1>7. /\ cmd' \in CommandType /\ cmd'.pc = cmd.pc /\ cmd'.name = cmd.name /\ cmd'.round = cmd.round
      /\ cmd'.files = cmd.files /\ cmd'.at = cmd.at + 1 /\ cmd'.text = cmd.text
      /\ cmd'.found = found /\ cmd'.checks = cmd.checks
  BY <1>2, <1>5, <1>6, <1>11 DEF CommandType
<1>8. Placed'
  BY <1>1, <1>7 DEF CmdInv, Placed, At
<1>9. Counted'
  BY <1>1, <1>4, <1>5, <1>7, SMTT(30) DEF CmdInv, Counted, At
<1>10. QED
  BY <1>1, <1>2, <1>7, <1>8, <1>9, GoesOn DEF At

\* The checks of the sources end.
LEMMA CmdStaticChecks ==
    ASSUME CmdInv, StaticChecksEnd
    PROVE  CmdInv'
<1> DEFINE static == IF Clean THEN "pass" ELSE "fail"
           checks == IF cmd.manifest.target # "server" THEN <<static>> \o <<"warn">> ELSE <<static>>
<1>1. /\ AllRead /\ At("read") /\ source' = source /\ before' = before /\ toml' = toml
      /\ fresh' = fresh /\ EditorKept /\ UNCHANGED last /\ cmd.name = "audit" /\ cmd.round = 1
  BY DEF StaticChecksEnd, FilesKept, AllRead
<1>2. /\ source' \in [Range(Files) -> Sources] /\ toml' \in AllManifests /\ fresh' \in BOOLEAN
      /\ ~At("idle") /\ cmd \in CommandType
  BY <1>1 DEF CmdInv, FilesTyped, At
<1>3. cmd' = IF cmd.manifest.target # "server" THEN [cmd EXCEPT !.pc = "report", !.checks = checks]
             ELSE [cmd EXCEPT !.pc = "manifest", !.round = 2, !.checks = checks]
  BY DEF StaticChecksEnd
<1>4. /\ checks \in Seq(Verdicts)
      /\ Len(checks) = IF cmd.manifest.target # "server" THEN 2 ELSE 1
  <2>1. static \in Verdicts /\ "warn" \in Verdicts
    BY DEF Verdicts
  <2> HIDE DEF static
  <2>2. <<static>> \in Seq(Verdicts) /\ <<"warn">> \in Seq(Verdicts) /\ Len(<<static>>) = 1
        /\ Len(<<"warn">>) = 1
    BY <2>1, VerdictsJoined
  <2>3. <<static>> \o <<"warn">> \in Seq(Verdicts) /\ Len(<<static>> \o <<"warn">>) = 2
    BY <2>2, VerdictsJoined
  <2>4. QED
    BY <2>2, <2>3
<1> HIDE DEF checks
<1>5. cmd' \in CommandType
  <2>1. 2 \in 1..2
    OBVIOUS
  <2>2. CASE cmd.manifest.target # "server"
    BY <1>2, <1>3, <1>4, <2>2 DEF CommandType, Positions
  <2>3. CASE cmd.manifest.target = "server"
    BY <1>2, <1>3, <1>4, <2>1, <2>3 DEF CommandType, Positions
  <2>4. QED
    BY <2>2, <2>3
<1>6. /\ cmd'.pc = IF cmd.manifest.target # "server" THEN "report" ELSE "manifest"
      /\ cmd'.round = IF cmd.manifest.target # "server" THEN cmd.round ELSE 2
      /\ cmd'.name = cmd.name /\ cmd'.files = cmd.files /\ cmd'.at = cmd.at /\ cmd'.text = cmd.text
      /\ cmd'.checks = checks
  BY <1>2, <1>3 DEF CommandType
<1>7. Placed'
  BY <1>1, <1>6 DEF CmdInv, Placed, At
<1>8. Counted'
  <2>1. /\ Len(cmd.files) <= Len(Files) /\ cmd.at \in 1..Len(Files) + 1 /\ cmd.text = Absent
    BY <1>1 DEF CmdInv, Counted
  <2>2. CASE cmd.manifest.target # "server"
    <3>1. /\ cmd'.pc = "report" /\ cmd'.name = "audit" /\ cmd'.files = cmd.files
          /\ cmd'.at = cmd.at /\ cmd'.text = Absent /\ Len(cmd'.checks) = 2
      BY <1>1, <1>4, <1>6, <2>1, <2>2
    <3>2. QED
      BY <2>1, <3>1 DEF Counted, At
  <2>3. CASE cmd.manifest.target = "server"
    <3>1. /\ cmd'.pc = "manifest" /\ cmd'.name = "audit" /\ cmd'.files = cmd.files
          /\ cmd'.at = cmd.at /\ cmd'.text = Absent /\ Len(cmd'.checks) = 1 /\ cmd'.round = 2
      BY <1>1, <1>4, <1>6, <2>1, <2>3
    <3>2. QED
      BY <2>1, <3>1 DEF Counted, At
  <2>4. QED
    BY <2>2, <2>3
<1>9. QED
  BY <1>1, <1>2, <1>5, <1>6, <1>7, <1>8, GoesOn DEF At

\* All files of a command were read.
LEMMA ReadToTheEnd ==
    ASSUME CmdInv, AllRead
    PROVE  /\ Len(cmd.found) = Len(cmd.files) /\ cmd.at = Len(cmd.files) + 1
           /\ cmd.files \in Seq(Range(Files)) /\ cmd.found \in Seq(AllItems)
<1>1. /\ Len(cmd.found) = cmd.at - 1 /\ cmd.at <= Len(cmd.files) + 1 /\ cmd.at > Len(cmd.files)
  BY DEF CmdInv, Counted, AllRead, At
<1>2. cmd.files \in Seq(Range(Files)) /\ cmd.found \in Seq(AllItems) /\ cmd.at \in Nat
  BY DEF CmdInv, CommandType
<1>3. QED
  BY <1>1, <1>2

\* What the command goes on with when its checks are done.
LEMMA CmdPrepared ==
    ASSUME CmdInv, Prepared
    PROVE  CmdInv'
<1>1. /\ AllRead /\ At("read") /\ source' = source /\ before' = before /\ toml' = toml
      /\ fresh' = fresh /\ EditorKept /\ Prepares
  BY DEF Prepared, FilesKept, AllRead
<1>2. /\ source' \in [Range(Files) -> Sources] /\ toml' \in AllManifests /\ fresh' \in BOOLEAN
      /\ ~At("idle") /\ cmd \in CommandType
  BY <1>1 DEF CmdInv, FilesTyped, At
<1>3. CASE \E ok \in BOOLEAN : Exit(ok)
  BY <1>1, <1>2, <1>3, ExitTyped
<1>4. ASSUME NEW pc \in {"truncate", "compare"}, IsPrepared(cmd.found),
             cmd.name = IF pc = "truncate" THEN "openapi" ELSE "openapi_check",
             Goto(pc), UNCHANGED last
      PROVE  CmdInv'
  <2>1. /\ cmd' \in CommandType /\ cmd'.pc = pc /\ cmd'.name = cmd.name /\ cmd'.round = cmd.round
        /\ cmd'.files = cmd.files /\ cmd'.at = cmd.at /\ cmd'.text = cmd.text
        /\ cmd'.found = cmd.found /\ cmd'.checks = cmd.checks
    BY <1>2, <1>4 DEF CommandType, Positions, Goto
  <2>2. Placed'
    BY <1>1, <1>4, <2>1 DEF CmdInv, Placed, At
  <2>3. Counted'
    BY <1>1, <1>4, <2>1, ReadToTheEnd DEF CmdInv, Counted, At, IsPrepared
  <2>4. QED
    BY <1>1, <1>2, <1>4, <2>1, <2>2, <2>3, GoesOn DEF At
<1>5. ASSUME cmd.name = "audit", UNCHANGED last, NEW checks \in Seq(Verdicts), Len(checks) <= 3,
             cmd' = [cmd EXCEPT !.pc = "report", !.checks = checks]
      PROVE  CmdInv'
  <2>1. /\ cmd' \in CommandType /\ cmd'.pc = "report" /\ cmd'.name = cmd.name
        /\ cmd'.round = cmd.round /\ cmd'.files = cmd.files /\ cmd'.at = cmd.at
        /\ cmd'.text = cmd.text /\ cmd'.checks = checks
    BY <1>2, <1>5 DEF CommandType, Positions
  <2>2. Placed'
    BY <1>1, <1>5, <2>1 DEF CmdInv, Placed, At
  <2>3. Counted'
    BY <1>1, <1>5, <2>1 DEF CmdInv, Counted, At
  <2>4. QED
    BY <1>1, <1>2, <1>5, <2>1, <2>2, <2>3, GoesOn DEF At
<1>6. ASSUME cmd.name = "audit"
      PROVE  /\ cmd.checks \in Seq(Verdicts) /\ Len(cmd.checks) = 1
             /\ Append(cmd.checks, "fail") \in Seq(Verdicts)
             /\ Len(Append(cmd.checks, "fail")) <= 3
             /\ cmd.checks \o <<"pass", audit_route_contracts(cmd.found)>> \in Seq(Verdicts)
             /\ Len(cmd.checks \o <<"pass", audit_route_contracts(cmd.found)>>) <= 3
  <2>1. cmd.round = 2
    BY <1>1, <1>6 DEF Prepares, Preparing
  <2>2. cmd.checks \in Seq(Verdicts)
    BY <1>2 DEF CommandType
  <2>3. Len(cmd.checks) = 1
    BY <1>1, <2>1 DEF CmdInv, Counted, At
  <2>4. "pass" \in Verdicts /\ audit_route_contracts(cmd.found) \in Verdicts
    BY DEF Verdicts, audit_route_contracts
  <2>5. <<"pass", audit_route_contracts(cmd.found)>> \in Seq(Verdicts)
        /\ Len(<<"pass", audit_route_contracts(cmd.found)>>) = 2
    BY <2>4, VerdictsJoined
  <2>6. cmd.checks \o <<"pass", audit_route_contracts(cmd.found)>> \in Seq(Verdicts)
        /\ Len(cmd.checks \o <<"pass", audit_route_contracts(cmd.found)>>) = 3
    <3> DEFINE rest == <<"pass", audit_route_contracts(cmd.found)>>
    <3>1. rest \in Seq(Verdicts) /\ Len(rest) = 2
      BY <2>5
    <3> HIDE DEF rest
    <3>2. cmd.checks \o rest \in Seq(Verdicts) /\ Len(cmd.checks \o rest) = Len(cmd.checks) + Len(rest)
      BY <2>2, <3>1, VerdictsJoined
    <3>3. QED
      BY <2>3, <3>1, <3>2 DEF rest
  <2>7. Append(cmd.checks, "fail") \in Seq(Verdicts) /\ Len(Append(cmd.checks, "fail")) = 2
    <3>1. /\ Append(cmd.checks, "fail") \in Seq(Verdicts)
          /\ Len(Append(cmd.checks, "fail")) = Len(cmd.checks) + 1
      BY <2>2, FailAppended, Zenon
    <3>2. QED
      BY <2>3, <3>1
  <2>8. QED
    BY <2>2, <2>3, <2>6, <2>7
<1>7. CASE ~IsPrepared(cmd.found) /\ cmd.name = "audit"
  <2>1. cmd' = [cmd EXCEPT !.pc = "report", !.checks = Append(cmd.checks, "fail")] /\ UNCHANGED last
    BY <1>2, <1>7 DEF Prepared, Unprepared, CommandType
  <2>2. QED
    BY <1>5, <1>6, <1>7, <2>1
<1>8. CASE ~IsPrepared(cmd.found) /\ cmd.name # "audit"
  BY <1>3, <1>8 DEF Prepared, Unprepared
<1>9. CASE IsPrepared(cmd.found) /\ cmd.name = "audit"
  <2>1. /\ cmd' = [cmd EXCEPT !.pc = "report",
                              !.checks = cmd.checks \o <<"pass", audit_route_contracts(cmd.found)>>]
        /\ UNCHANGED last
    BY <1>2, <1>9 DEF Prepared, CommandType
  <2>2. QED
    BY <1>5, <1>6, <1>9, <2>1
<1>10. CASE IsPrepared(cmd.found) /\ cmd.name # "audit"
  <2>1. \/ \E ok \in BOOLEAN : Exit(ok)
        \/ cmd.name = "openapi" /\ Goto("truncate") /\ UNCHANGED last
        \/ cmd.name = "openapi_check" /\ Goto("compare") /\ UNCHANGED last
    BY <1>10 DEF Prepared
  <2>2. QED
    BY <1>3, <1>4, <1>10, <2>1
<1>11. QED
  BY <1>7, <1>8, <1>9, <1>10

\* A file that is formatted is a file.
LEMMA FormattedTyped ==
    ASSUME NEW content \in Sources, Formattable(content)
    PROVE  content \in Texts /\ format_source(content) \in Texts
<1>1. content \in Texts
  BY DEF Sources, Absent, Formattable
<1>2. QED
  BY <1>1 DEF Texts, format_source

\* fmt looks at the next file.
LEMMA CmdFmt ==
    ASSUME CmdInv, run_fmt
    PROVE  CmdInv'
<1> DEFINE content == source[cmd.files[cmd.at]]
           formatted == format_source(content)
<1>1. /\ At("format") /\ source' = source /\ before' = before /\ toml' = toml /\ fresh' = fresh
      /\ EditorKept /\ cmd.at <= Len(cmd.files)
  BY DEF run_fmt, FilesKept
<1>2. /\ source' \in [Range(Files) -> Sources] /\ toml' \in AllManifests /\ fresh' \in BOOLEAN
      /\ ~At("idle") /\ cmd \in CommandType /\ content \in Sources /\ cmd.name \in Formatting
      /\ cmd.text = Absent
  BY <1>1, NextFile DEF CmdInv, FilesTyped, At, Placed, Counted
<1>3. /\ cmd.at \in Nat /\ Len(cmd.files) \in Nat /\ Len(cmd.files) <= Len(Files)
      /\ Len(Files) \in Nat /\ cmd.at >= 1
  <2>1. cmd.files \in Seq(Range(Files)) /\ cmd.at \in Nat
    BY <1>2 DEF CommandType
  <2>2. QED
    BY <1>1, <2>1, FilesInjective DEF CmdInv, Counted
<1>4. CASE ~Formattable(content)
  <2>1. Exit(FALSE)
    BY <1>4 DEF run_fmt
  <2>2. QED
    BY <1>1, <1>2, <2>1, ExitTyped
<1>5. CASE Formattable(content) /\ (formatted = content \/ cmd.name = "fmt_check")
  <2>1. /\ UNCHANGED last
        /\ \/ cmd' = [cmd EXCEPT !.at = cmd.at + 1]
           \/ cmd' = [cmd EXCEPT !.at = cmd.at + 1, !.changed = TRUE]
    BY <1>2, <1>5 DEF run_fmt, CommandType
  <2>2. cmd.at + 1 \in Nat
    BY <1>3
  <2>3. /\ cmd' \in CommandType /\ cmd'.pc = cmd.pc /\ cmd'.name = cmd.name
        /\ cmd'.round = cmd.round /\ cmd'.files = cmd.files /\ cmd'.at = cmd.at + 1
        /\ cmd'.text = cmd.text /\ cmd'.checks = cmd.checks
    BY <1>2, <2>1, <2>2 DEF CommandType
  <2>4. Placed'
    BY <1>1, <2>3 DEF CmdInv, Placed, At
  <2>5. Counted'
    BY <1>1, <1>2, <1>3, <2>3 DEF CmdInv, Counted, At
  <2>6. QED
    BY <1>1, <1>2, <2>1, <2>3, <2>4, <2>5, GoesOn DEF At
<1>6. CASE Formattable(content) /\ formatted # content /\ cmd.name # "fmt_check"
  <2>1. /\ UNCHANGED last /\ cmd' = [cmd EXCEPT !.pc = "truncate", !.text = formatted]
        /\ cmd.name = "fmt"
    BY <1>2, <1>6 DEF run_fmt, Formatting
  <2>2. formatted \in Texts
    BY <1>2, <1>6, FormattedTyped
  <2> HIDE DEF formatted
  <2>3. /\ cmd' \in CommandType /\ cmd'.pc = "truncate" /\ cmd'.name = cmd.name
        /\ cmd'.round = cmd.round /\ cmd'.files = cmd.files /\ cmd'.at = cmd.at
        /\ cmd'.text = formatted /\ cmd'.checks = cmd.checks
    BY <1>2, <2>1, <2>2 DEF CommandType, Positions, Sources
  <2>4. Placed'
    BY <1>1, <2>1, <2>3 DEF CmdInv, Placed, At
  <2>5. Counted'
    BY <1>1, <1>3, <2>1, <2>2, <2>3 DEF CmdInv, Counted, At
  <2>6. QED
    BY <1>1, <1>2, <2>1, <2>3, <2>4, <2>5, GoesOn DEF At
<1>7. QED
  BY <1>2, <1>4, <1>5, <1>6

\* A command that only moves on in its writing, with the files it has.
LEMMA CmdMoves ==
    ASSUME CmdInv, NEW from, At(from), NEW pc, Goto(pc), UNCHANGED <<last, before>>, EditorKept,
           source' \in [Range(Files) -> Sources], toml' \in AllManifests, fresh' \in BOOLEAN,
           \/ from = "truncate" /\ pc = "fill"
           \/ /\ from \in {"new", "toml", "toml_fill", "main"}
              /\ pc \in {"toml", "toml_fill", "main", "main_fill"}
    PROVE  CmdInv'
<1>1. cmd \in CommandType /\ pc \in Positions /\ ~At("idle") /\ pc # "idle"
  BY DEF CmdInv, Positions, At
<1>2. /\ cmd' \in CommandType /\ cmd'.pc = pc /\ cmd'.name = cmd.name /\ cmd'.round = cmd.round
      /\ cmd'.files = cmd.files /\ cmd'.at = cmd.at /\ cmd'.text = cmd.text
      /\ cmd'.found = cmd.found /\ cmd'.checks = cmd.checks
  BY <1>1 DEF CommandType, Goto
<1>3. Placed'
  BY <1>2 DEF CmdInv, Placed, At
<1>4. Counted'
  <2>1. CASE from = "truncate"
    BY <1>2, <2>1 DEF CmdInv, Placed, Counted, At, IsPrepared
  <2>2. CASE from # "truncate"
    <3>1. cmd.name = "new"
      BY <2>2 DEF CmdInv, Placed, At
    <3>2. QED
      BY <1>2, <2>2, <3>1 DEF CmdInv, Counted, At
  <2>3. QED
    BY <2>1, <2>2
<1>5. QED
  BY <1>1, <1>2, <1>3, <1>4, GoesOn DEF At

\* A file is open for writing.
LEMMA CmdTruncateSource ==
    ASSUME CmdInv, TruncateSource
    PROVE  CmdInv'
<1>1. /\ At("truncate") /\ cmd.name = "fmt" /\ Goto("fill") /\ UNCHANGED <<last, before, toml, fresh>>
      /\ EditorKept /\ source' = [source EXCEPT ![cmd.files[cmd.at]] = Empty]
  BY DEF TruncateSource
<1>2. Empty \in Sources
  BY DEF Empty, Sources, Texts
<1>3. /\ source' \in [Range(Files) -> Sources] /\ toml' \in AllManifests /\ fresh' \in BOOLEAN
  BY <1>1, <1>2 DEF CmdInv, FilesTyped
<1>4. QED
  BY <1>1, <1>3, CmdMoves

\* A file is written.
LEMMA CmdFillSource ==
    ASSUME CmdInv, FillSource
    PROVE  CmdInv'
<1>1. /\ At("fill") /\ cmd.name = "fmt" /\ UNCHANGED <<last, before, toml, fresh>> /\ EditorKept
      /\ source' = [source EXCEPT ![cmd.files[cmd.at]] = cmd.text]
      /\ cmd' = [cmd EXCEPT !.pc = "format", !.at = @ + 1, !.text = Absent]
  BY DEF FillSource
<1>2. /\ cmd \in CommandType /\ cmd.at <= Len(cmd.files) /\ cmd.text \in Sources /\ ~At("idle")
  BY <1>1 DEF CmdInv, Counted, At, Sources
<1>3. /\ source' \in [Range(Files) -> Sources] /\ toml' \in AllManifests /\ fresh' \in BOOLEAN
  BY <1>1, <1>2 DEF CmdInv, FilesTyped
<1>4. /\ cmd.at \in Nat /\ Len(cmd.files) \in Nat /\ Len(cmd.files) <= Len(Files)
      /\ Len(Files) \in Nat /\ cmd.at >= 1 /\ cmd.at + 1 \in Nat
  <2>1. cmd.files \in Seq(Range(Files)) /\ cmd.at \in Nat
    BY <1>2 DEF CommandType
  <2>2. QED
    BY <2>1, FilesInjective DEF CmdInv, Counted
<1>5. Absent \in Sources
  BY DEF Sources
<1>6. /\ cmd' \in CommandType /\ cmd'.pc = "format" /\ cmd'.name = cmd.name
      /\ cmd'.round = cmd.round /\ cmd'.files = cmd.files /\ cmd'.at = cmd.at + 1
      /\ cmd'.text = Absent /\ cmd'.checks = cmd.checks
  BY <1>1, <1>2, <1>4, <1>5 DEF CommandType, Positions
<1>7. Placed'
  BY <1>1, <1>6 DEF CmdInv, Placed, At, Formatting
<1>8. Counted'
  BY <1>1, <1>2, <1>4, <1>6 DEF CmdInv, Counted, At
<1>9. QED
  BY <1>1, <1>2, <1>3, <1>6, <1>7, <1>8, GoesOn DEF At

\* The steps of new.
LEMMA CmdNew ==
    ASSUME CmdInv, create_project \/ WriteManifest \/ WriteMain
    PROVE  CmdInv'
<1>1. /\ source \in [Range(Files) -> Sources] /\ toml \in AllManifests /\ fresh \in BOOLEAN
      /\ Main \in Range(Files) /\ Empty \in Sources /\ Written \in Sources
      /\ EmptyManifest \in AllManifests /\ Template \in AllManifests
  BY ProjectAssumption DEF CmdInv, FilesTyped, Sources, Texts, Empty, Written, AllManifests
<1>2. CASE create_project
  <2>1. CASE IsEmptyDirectory
    BY <1>1, <1>2, <2>1, CmdMoves DEF create_project, FilesKept
  <2>2. CASE ~IsEmptyDirectory
    BY <1>1, <1>2, <2>2, ExitTyped DEF create_project, FilesKept
  <2>3. QED
    BY <2>1, <2>2
<1>3. CASE WriteManifest
  BY <1>1, <1>3, CmdMoves DEF WriteManifest
<1>4. CASE WriteMain
  <2>1. CASE At("main")
    <3>1. /\ source' = [source EXCEPT ![Main] = Empty] /\ Goto("main_fill")
          /\ UNCHANGED <<toml, openapi, fresh, before, last>> /\ EditorKept
      BY <1>4, <2>1 DEF WriteMain, At
    <3>2. source' \in [Range(Files) -> Sources]
      BY <1>1, <3>1
    <3>3. QED
      BY <1>1, <2>1, <3>1, <3>2, CmdMoves
  <2>2. CASE At("main_fill")
    <3>1. /\ source' = [source EXCEPT ![Main] = Written] /\ Exit(TRUE)
          /\ UNCHANGED <<toml, openapi, fresh, before>> /\ EditorKept
      BY <1>4, <2>2 DEF WriteMain, At
    <3>2. source' \in [Range(Files) -> Sources]
      BY <1>1, <3>1
    <3>3. QED
      BY <1>1, <3>1, <3>2, ExitTyped
  <2>3. QED
    BY <1>4, <2>1, <2>2 DEF WriteMain
<1>5. QED
  BY <1>2, <1>3, <1>4

\* The steps of the export of the document.
LEMMA CmdDocument ==
    ASSUME CmdInv, TruncateDocument \/ FillDocument
    PROVE  CmdInv'
<1>1. source \in [Range(Files) -> Sources] /\ toml \in AllManifests /\ fresh \in BOOLEAN /\ dirty \in BOOLEAN
  BY DEF CmdInv, FilesTyped
<1>2. CASE TruncateDocument
  BY <1>1, <1>2, CmdMoves DEF TruncateDocument
<1>3. CASE FillDocument
  BY <1>1, <1>3, ExitTyped DEF FillDocument
<1>4. QED
  BY <1>2, <1>3

\* A command ends by itself.
LEMMA CmdExits ==
    ASSUME CmdInv, CheckEnds \/ report \/ run_openapi_check \/ FmtEnds
    PROVE  CmdInv'
<1>1. /\ source' = source /\ toml' = toml /\ fresh' = fresh /\ before' = before /\ EditorKept
      /\ \E ok \in BOOLEAN : Exit(ok)
  BY DEF CheckEnds, report, run_openapi_check, FmtEnds, FilesKept, Clean
<1>2. QED
  BY <1>1, ExitTyped DEF CmdInv, FilesTyped

\* A command ends by a failure to write, or is killed.
LEMMA CmdInterrupted ==
    ASSUME CmdInv, NEW killed \in BOOLEAN, Interrupted(killed)
    PROVE  CmdInv'
<1>1. /\ cmd' = NoCommand /\ last' = [name |-> cmd.name, ok |-> FALSE, killed |-> killed]
      /\ UNCHANGED <<source, toml, before>> /\ EditorKept
      /\ fresh' = (fresh /\ cmd.pc # "fill")
  BY DEF Interrupted
<1>2. cmd.name \in AllCommands
  BY DEF CmdInv, CommandType
<1>3. fresh' \in BOOLEAN
  BY <1>1
<1>4. FilesTyped'
  BY <1>1, <1>2, <1>3, NoCommandTyped DEF CmdInv, FilesTyped, EditorKept, At
<1>5. Len(Files) \in Nat /\ Len(<< >>) = 0
  BY FilesInjective
<1>6. Placed' /\ Counted'
  BY <1>1, <1>5, NoCommandTyped DEF Placed, Counted, At
<1>7. QED
  BY <1>1, <1>4, <1>6, NoCommandTyped DEF CmdInv

\* The user edits between commands.
LEMMA CmdEdit ==
    ASSUME CmdInv, Edit
    PROVE  CmdInv'
<1>1. /\ UNCHANGED <<cmd, last, before>> /\ edits' = edits + 1 /\ edits < MaxEdits
      /\ dirty' = TRUE /\ fresh' = FALSE
  BY DEF Edit
<1>2. source' \in [Range(Files) -> Sources] /\ toml' \in AllManifests
  <2>1. Contents \cup {Absent} \subseteq Sources /\ Manifests \cup {NoManifest} \subseteq AllManifests
    BY ProjectAssumption DEF Sources, AllManifests
  <2>2. source \in [Range(Files) -> Sources] /\ toml \in AllManifests
    BY DEF CmdInv, FilesTyped
  <2>3. QED
    BY <2>1, <2>2 DEF Edit
<1>3. edits' \in 0..MaxEdits
  BY <1>1, ProjectAssumption DEF CmdInv, FilesTyped
<1>4. FilesTyped'
  BY <1>1, <1>2, <1>3 DEF CmdInv, FilesTyped, At
<1>5. Placed' /\ Counted'
  BY <1>1 DEF CmdInv, Placed, Counted, At, IsPrepared
<1>6. QED
  BY <1>1, <1>4, <1>5 DEF CmdInv

\* Every step keeps the invariant of the running command.
LEMMA CmdStep == CmdInv /\ [Next]_vars => CmdInv'
<1> SUFFICES ASSUME CmdInv, [Next]_vars PROVE CmdInv'
  OBVIOUS
<1>1. CASE UNCHANGED vars
  <2>1. /\ source' = source /\ toml' = toml /\ cmd' = cmd /\ last' = last /\ edits' = edits
        /\ dirty' = dirty /\ fresh' = fresh /\ before' = before
    BY <1>1 DEF vars
  <2>2. FilesTyped' /\ Placed' /\ Counted'
    <3>1. FilesTyped'
      BY <2>1 DEF CmdInv, FilesTyped, At
    <3>2. Placed'
      BY <2>1 DEF CmdInv, Placed, At
    <3>3. Counted'
      BY <2>1 DEF CmdInv, Counted, At, IsPrepared
    <3>4. QED
      BY <3>1, <3>2, <3>3
  <2>3. QED
    BY <2>1, <2>2 DEF CmdInv
<1>2. CASE Next
  BY <1>2, CmdBegin, CmdManifest, CmdCollect, CmdReads, CmdExits, CmdStaticChecks, CmdPrepared,
     CmdFmt, CmdTruncateSource, CmdFillSource, CmdDocument, CmdNew, CmdInterrupted, CmdEdit
     DEF Next
<1>3. QED
  BY <1>1, <1>2

\* So it holds of every behaviour.
LEMMA CmdAlways == Spec => []CmdInv
BY CmdInit, CmdStep, PTL DEF Spec

-----------------------------------------------------------------------------
\* What a command read is what the directory holds.

\* There are finitely many files.
LEMMA FilesFinite == IsFiniteSet(Range(Files))
<1>1. /\ Files \in [1..Len(Files) -> Range(Files)]
      /\ \A f \in Range(Files) : \E i \in 1..Len(Files) : Files[i] = f
  BY FilesInjective
<1>2. Files \in Surjection(1..Len(Files), Range(Files))
  BY <1>1 DEF Surjection
<1>3. IsFiniteSet(1..Len(Files))
  BY FilesInjective, FS_Interval
<1>4. QED
  BY <1>2, <1>3, FS_Surjection DEF ExistsSurjection

\* There are finitely many services.
LEMMA ServicesFinite ==
    ASSUME CmdInv
    PROVE  IsFiniteSet(Services)
<1>1. Services \subseteq Range(Files)
  BY DEF Services, Present, CmdInv, FilesTyped
<1>2. QED
  BY <1>1, FilesFinite, FS_Subset

\* The checks on the files read one by one, and on the files.
LEMMA WhatWasRead ==
    ASSUME CmdInv, cmd.files = PresentFiles, Len(cmd.found) = Len(cmd.files),
           \A i \in DOMAIN cmd.found : cmd.found[i] = source[cmd.files[i]].items
    PROVE  /\ (\A i \in DOMAIN cmd.found : ~has_diagnostics(cmd.found[i])) <=> Sound
           /\ Cardinality({i \in DOMAIN cmd.found : has_service(cmd.found[i])}) = 1 <=> OneService
           /\ \A items : (\E i \in DOMAIN cmd.found : cmd.found[i] = items) <=>
                            (\E f \in Present : source[f].items = items)
<1>1. /\ \A i \in 1..Len(cmd.files) : cmd.files[i] \in Present
      /\ \A f \in Present : \E i \in 1..Len(cmd.files) : cmd.files[i] = f
      /\ \A i, j \in 1..Len(cmd.files) : cmd.files[i] = cmd.files[j] => i = j
      /\ Len(cmd.files) \in Nat
  BY Walk, PresentListed DEF CmdInv, FilesTyped
<1>2. DOMAIN cmd.found = 1..Len(cmd.files)
  <2>1. cmd.found \in Seq(AllItems)
    BY DEF CmdInv, CommandType
  <2>2. QED
    BY <2>1
<1>3. (\A i \in DOMAIN cmd.found : ~has_diagnostics(cmd.found[i])) <=> Sound
  <2>1. ASSUME Sound, NEW i \in DOMAIN cmd.found
        PROVE  ~has_diagnostics(cmd.found[i])
    BY <1>1, <1>2, <2>1 DEF Sound
  <2>2. ASSUME \A i \in DOMAIN cmd.found : ~has_diagnostics(cmd.found[i]), NEW f \in Present
        PROVE  ~has_diagnostics(source[f].items)
    BY <1>1, <1>2, <2>2
  <2>3. QED
    BY <2>1, <2>2 DEF Sound
<1>4. \A items : (\E i \in DOMAIN cmd.found : cmd.found[i] = items) <=>
                    (\E f \in Present : source[f].items = items)
  BY <1>1, <1>2
<1> DEFINE I == {i \in DOMAIN cmd.found : has_service(cmd.found[i])}
<1>5. \A i \in DOMAIN cmd.found : i \in I <=> cmd.files[i] \in Services
  BY <1>1, <1>2 DEF Services
<1>6. IsFiniteSet(I)
  <2>1. I \subseteq 1..Len(cmd.files)
    BY <1>2
  <2>2. IsFiniteSet(1..Len(cmd.files))
    BY <1>1, FS_Interval
  <2>3. QED
    BY <2>1, <2>2, FS_Subset
<1>7. Cardinality(I) = 1 <=> \E i : I = {i}
  BY <1>6, FS_Singleton
<1>8. OneService <=> \E f : Services = {f}
  BY ServicesFinite, FS_Singleton DEF OneService
<1>9. (\E i : I = {i}) <=> (\E f : Services = {f})
  <2>1. ASSUME NEW i, I = {i} PROVE Services = {cmd.files[i]}
    <3>1. i \in DOMAIN cmd.found /\ cmd.files[i] \in Services
      BY <1>5, <2>1
    <3>2. ASSUME NEW g \in Services PROVE g = cmd.files[i]
      <4>1. PICK j \in 1..Len(cmd.files) : cmd.files[j] = g
        BY <1>1, <3>2 DEF Services
      <4>2. j \in I
        BY <1>2, <1>5, <4>1
      <4>3. QED
        BY <2>1, <4>1, <4>2
    <3>3. QED
      BY <3>1, <3>2
  <2>2. ASSUME NEW f, Services = {f} PROVE \E i : I = {i}
    <3>1. PICK i \in 1..Len(cmd.files) : cmd.files[i] = f
      BY <1>1, <2>2 DEF Services
    <3>2. i \in I
      BY <1>2, <1>5, <2>2, <3>1
    <3>3. ASSUME NEW j \in I PROVE j = i
      <4>1. j \in 1..Len(cmd.files) /\ cmd.files[j] \in Services
        BY <1>2, <1>5
      <4>2. QED
        BY <1>1, <2>2, <3>1, <4>1
    <3>4. QED
      BY <3>2, <3>3
  <2>3. QED
    BY <2>1, <2>2
<1>10. QED
  BY <1>3, <1>4, <1>7, <1>8, <1>9

\* A file that is written was there and still is.
LEMMA SameFilesPresent ==
    ASSUME DOMAIN source' = DOMAIN source,
           \A f \in DOMAIN source : source'[f] = Absent <=> source[f] = Absent
    PROVE  Present' = Present /\ PresentFiles' = PresentFiles
<1>1. Present' = Present
  BY DEF Present
<1>2. PresentFiles' = PresentFiles
  BY <1>1 DEF PresentFiles
<1>3. QED
  BY <1>1, <1>2

\* What is read of the files stays while the files do.
LEMMA SameFiles ==
    ASSUME source' = source, toml' = toml
    PROVE  /\ Present' = Present /\ PresentFiles' = PresentFiles
           /\ Sound' = Sound /\ Services' = Services /\ OneService' = OneService
           /\ Serves' = Serves /\ Readable' = Readable /\ ProgramPasses' = ProgramPasses
           /\ Formatted' = Formatted
<1>1. Present' = Present /\ PresentFiles' = PresentFiles
  BY SameFilesPresent
<1>2. Services' = Services
  BY <1>1 DEF Services
<1>3. Sound' = Sound /\ OneService' = OneService /\ Serves' = Serves /\ Readable' = Readable
  BY <1>1, <1>2 DEF Sound, OneService, Serves, Readable
<1>4. ProgramPasses' = ProgramPasses /\ Formatted' = Formatted
  BY <1>1, <1>2, <1>3 DEF ProgramPasses, Formatted
<1>5. QED
  BY <1>1, <1>2, <1>3, <1>4

\* Nothing is held by a command that ended.
LEMMA NothingHeld ==
    ASSUME cmd' = NoCommand
    PROVE  ReadInv' /\ NewInv' /\ FmtInv'
<1>1. /\ cmd'.name = "none" /\ cmd'.pc = "idle" /\ cmd'.round = 1
      /\ "none" \notin Preparing /\ "none" \notin Formatting
  BY NoCommandTyped DEF Preparing, Formatting
<1>2. ReadInv'
  BY <1>1 DEF ReadInv, Prepares, At
<1>3. NewInv' /\ FmtInv'
  BY <1>1 DEF NewInv, FmtInv, At
<1>4. QED
  BY <1>2, <1>3

\* A command that begins has read nothing.
LEMMA ReadBegin ==
    ASSUME CmdInv, NEW name \in Commands, Begin(name)
    PROVE  ReadInv' /\ NewInv'
<1>1. /\ cmd'.name = name /\ cmd'.round = 1
      /\ cmd'.pc = IF name = "new" THEN "new"
                   ELSE IF name \in Preparing \cup {"audit"} THEN "manifest" ELSE "collect"
  BY DEF Begin, Command
<1>2. ReadInv'
  BY <1>1 DEF ReadInv, Prepares, At, Preparing
<1>3. NewInv'
  <2>1. name = "new" => /\ before' = [source |-> source, toml |-> toml]
                        /\ source' = source /\ toml' = toml
    BY DEF Begin
  <2>2. QED
    BY <1>1, <2>1 DEF NewInv, At
<1>4. QED
  BY <1>2, <1>3

\* What was read of the manifest is the manifest.
LEMMA ReadManifest ==
    ASSUME CmdInv, ReadInv, load_manifest
    PROVE  ReadInv'
<1>1. /\ At("manifest") /\ source' = source /\ toml' = toml /\ dirty' = dirty
      /\ cmd \in CommandType /\ cmd.name \in Preparing \cup {"audit"}
  BY DEF load_manifest, FilesKept, EditorKept, CmdInv, Placed, At
<1>2. CASE dirty
  BY <1>1, <1>2 DEF ReadInv
<1>3. CASE ~dirty /\ Readable /\ (Prepares => Serves)
  <2>1. cmd' = [cmd EXCEPT !.pc = "collect", !.manifest = IF cmd.round = 1 THEN toml ELSE @]
    BY <1>3 DEF load_manifest
  <2>2. /\ cmd'.pc = "collect" /\ cmd'.name = cmd.name /\ cmd'.round = cmd.round
        /\ cmd'.checks = cmd.checks /\ cmd'.manifest = IF cmd.round = 1 THEN toml ELSE cmd.manifest
    BY <1>1, <2>1 DEF CommandType
  <2>3. cmd.round \in 1..2
    BY <1>1 DEF CommandType
  <2>4. cmd.round = 2 => cmd.manifest = toml /\ toml.target = "server" /\ (Passing(cmd.checks) <=> Sound)
    BY <1>1, <1>3 DEF ReadInv, At
  <2>5. Prepares' <=> Prepares
    BY <2>2 DEF Prepares
  <2>6. cmd'.manifest = toml
    BY <2>2, <2>3, <2>4
  <2>7. QED
    BY <1>1, <1>3, <2>2, <2>4, <2>5, <2>6, SameFiles DEF ReadInv, At
<1>4. CASE ~dirty /\ ~(Readable /\ (Prepares => Serves)) /\ Prepares /\ cmd.name = "audit"
  <2>1. /\ cmd' = [cmd EXCEPT !.pc = "report", !.checks = Append(@, "fail")]
    BY <1>4 DEF load_manifest, Unprepared
  <2>2. cmd.checks \in Seq(Verdicts) /\ cmd.round = 2
    BY <1>1, <1>4 DEF CommandType, Prepares, Preparing
  <2>3. /\ cmd'.pc = "report" /\ cmd'.name = "audit" /\ cmd'.round = 2
        /\ cmd'.checks = Append(cmd.checks, "fail") /\ cmd'.manifest = cmd.manifest
    BY <1>1, <1>4, <2>1, <2>2 DEF CommandType
  <2>4. ~Passing(cmd'.checks)
    BY <2>2, <2>3, FailAppended
  <2>5. cmd.manifest = toml /\ Readable /\ toml.target = "server"
    BY <1>1, <1>4, <2>2 DEF ReadInv, At
  <2>6. ~ProgramPasses
    BY <1>4, <2>5 DEF Serves, ProgramPasses
  <2>7. QED
    BY <1>1, <2>3, <2>4, <2>5, <2>6, SameFiles DEF ReadInv, At
<1>5. CASE ~dirty /\ ~(Readable /\ (Prepares => Serves)) /\ ~(Prepares /\ cmd.name = "audit")
  <2>1. Exit(FALSE)
    BY <1>5 DEF load_manifest, Unprepared
  <2>2. QED
    BY <2>1, NothingHeld DEF Exit
<1>6. QED
  BY <1>1, <1>2, <1>3, <1>4, <1>5 DEF CmdInv, FilesTyped

\* The files listed are the files present.
LEMMA ReadCollect ==
    ASSUME CmdInv, ReadInv, collect_are_files
    PROVE  ReadInv'
<1>1. /\ At("collect") /\ source' = source /\ toml' = toml /\ dirty' = dirty /\ cmd \in CommandType
      /\ cmd' = [cmd EXCEPT !.pc = IF cmd.name \in Formatting THEN "format" ELSE "read", !.at = 1,
                            !.files = PresentFiles, !.found = << >>]
  BY DEF collect_are_files, FilesKept, EditorKept, CmdInv
<1>2. /\ cmd'.pc = IF cmd.name \in Formatting THEN "format" ELSE "read"
      /\ cmd'.name = cmd.name /\ cmd'.round = cmd.round /\ cmd'.files = PresentFiles
      /\ cmd'.found = << >> /\ cmd'.checks = cmd.checks /\ cmd'.manifest = cmd.manifest
  BY <1>1 DEF CommandType
<1>3. Prepares' <=> Prepares
  BY <1>2 DEF Prepares
<1>4. DOMAIN cmd'.found = {}
  BY <1>2
<1>5. QED
  BY <1>1, <1>2, <1>3, <1>4, SameFiles DEF ReadInv, At

\* What was found in a file is what is in it.
LEMMA ReadReads ==
    ASSUME CmdInv, ReadInv, check_source_file
    PROVE  ReadInv'
<1> DEFINE items == source[cmd.files[cmd.at]].items
<1>1. /\ At("read") /\ source' = source /\ toml' = toml /\ dirty' = dirty /\ cmd \in CommandType
      /\ cmd.at <= Len(cmd.files) /\ cmd.name \notin Formatting
      /\ cmd' = [cmd EXCEPT !.at = @ + 1, !.found = Append(@, items)]
  BY DEF check_source_file, FilesKept, EditorKept, CmdInv, Placed, At, Preparing, Formatting
<1>2. /\ cmd.found \in Seq(AllItems) /\ Len(cmd.found) = cmd.at - 1 /\ items \in AllItems
      /\ cmd.at \in Nat
  <2>1. items \in AllItems
    BY <1>1, NextFile DEF Sources, Texts, Absent, AllItems
  <2>2. QED
    BY <1>1, <2>1 DEF CommandType, CmdInv, Counted, At
<1> HIDE DEF items
<1>3. /\ cmd'.pc = "read" /\ cmd'.name = cmd.name /\ cmd'.round = cmd.round
      /\ cmd'.files = cmd.files /\ cmd'.found = Append(cmd.found, items)
      /\ cmd'.checks = cmd.checks /\ cmd'.manifest = cmd.manifest
  BY <1>1 DEF CommandType, At
<1>4. /\ DOMAIN cmd'.found = DOMAIN cmd.found \cup {cmd.at}
      /\ cmd'.found[cmd.at] = items
      /\ \A i \in DOMAIN cmd.found : cmd'.found[i] = cmd.found[i]
  BY <1>2, <1>3
<1>5. ~dirty => \A i \in DOMAIN cmd'.found : cmd'.found[i] = source[cmd.files[i]].items
  <2> SUFFICES ASSUME ~dirty, NEW i \in DOMAIN cmd'.found
               PROVE  cmd'.found[i] = source[cmd.files[i]].items
    OBVIOUS
  <2>1. CASE i \in DOMAIN cmd.found
    BY <1>1, <1>4, <2>1 DEF ReadInv, At
  <2>2. CASE i = cmd.at
    BY <1>4, <2>2 DEF items
  <2>3. QED
    BY <1>4, <2>1, <2>2
<1>6. Prepares' <=> Prepares
  BY <1>3 DEF Prepares
<1>7. QED
  BY <1>1, <1>3, <1>5, <1>6, SameFiles DEF ReadInv, At

\* The checks of the sources pass exactly if the program has no fault.
LEMMA ReadStaticChecks ==
    ASSUME CmdInv, ReadInv, StaticChecksEnd
    PROVE  ReadInv'
<1> DEFINE static == IF Clean THEN "pass" ELSE "fail"
<1>1. /\ AllRead /\ At("read") /\ source' = source /\ toml' = toml /\ dirty' = dirty
      /\ cmd \in CommandType /\ cmd.name = "audit" /\ cmd.round = 1
      /\ cmd' = IF cmd.manifest.target # "server"
                THEN [cmd EXCEPT !.pc = "report", !.checks = <<static>> \o <<"warn">>]
                ELSE [cmd EXCEPT !.pc = "manifest", !.round = 2, !.checks = <<static>>]
  BY DEF StaticChecksEnd, FilesKept, EditorKept, AllRead, CmdInv
<1>2. ~dirty => /\ cmd.manifest = toml /\ Readable
                /\ cmd.files = PresentFiles
                /\ \A i \in DOMAIN cmd.found : cmd.found[i] = source[cmd.files[i]].items
  BY <1>1 DEF ReadInv, At, Formatting
<1>3. ~dirty => (Clean <=> Sound)
  BY <1>1, <1>2, ReadToTheEnd, WhatWasRead DEF Clean
<1>4. /\ Passing(<<static>>) <=> Clean
      /\ Passing(<<static>> \o <<"warn">>) <=> Clean
  <2>1. static \in Verdicts /\ "warn" \in Verdicts /\ (static # "fail" <=> Clean)
    BY DEF Verdicts
  <2> HIDE DEF static
  <2>2. /\ Passing(<<static>>) <=> Clean
        /\ Passing(<<"warn">>) /\ <<static>> \in Seq(Verdicts) /\ <<"warn">> \in Seq(Verdicts)
    BY <2>1, VerdictsJoined
  <2>3. QED
    BY <2>2, VerdictsJoined
<1> HIDE DEF static
<1>5. CASE cmd.manifest.target # "server"
  <2>1. /\ cmd'.pc = "report" /\ cmd'.name = "audit" /\ cmd'.round = 1
        /\ cmd'.checks = <<static>> \o <<"warn">> /\ cmd'.manifest = cmd.manifest
    BY <1>1, <1>5 DEF CommandType
  <2>2. ~dirty => (Passing(cmd'.checks) <=> ProgramPasses)
    BY <1>2, <1>3, <1>4, <1>5, <2>1 DEF ProgramPasses
  <2>3. QED
    BY <1>1, <1>2, <2>1, <2>2, SameFiles DEF ReadInv, At
<1>6. CASE cmd.manifest.target = "server"
  <2>1. /\ cmd'.pc = "manifest" /\ cmd'.name = "audit" /\ cmd'.round = 2
        /\ cmd'.checks = <<static>> /\ cmd'.manifest = cmd.manifest
    BY <1>1, <1>6 DEF CommandType
  <2>2. QED
    BY <1>1, <1>2, <1>3, <1>4, <1>6, <2>1, SameFiles DEF ReadInv, At
<1>7. QED
  BY <1>5, <1>6

\* What is prepared is prepared of the files that are there.
LEMMA ReadPrepared ==
    ASSUME CmdInv, ReadInv, Prepared
    PROVE  ReadInv'
<1>1. /\ AllRead /\ At("read") /\ Prepares /\ source' = source /\ toml' = toml /\ dirty' = dirty
      /\ cmd \in CommandType /\ cmd.name \in Preparing \cup {"audit"} /\ cmd.name \notin Formatting
  BY DEF Prepared, FilesKept, EditorKept, AllRead, CmdInv, Placed, Prepares, Preparing, Formatting
<1>2. ~dirty => /\ cmd.manifest = toml /\ Readable /\ Serves
                /\ cmd.files = PresentFiles
                /\ \A i \in DOMAIN cmd.found : cmd.found[i] = source[cmd.files[i]].items
  BY <1>1 DEF ReadInv, At
<1>3. CASE \E ok \in BOOLEAN : Exit(ok)
  BY <1>3, NothingHeld DEF Exit
<1>4. ASSUME NEW pc \in {"truncate", "compare"}, Goto(pc) PROVE ReadInv'
  <2>1. /\ cmd'.pc = pc /\ cmd'.name = cmd.name /\ cmd'.round = cmd.round
        /\ cmd'.files = cmd.files /\ cmd'.found = cmd.found
        /\ cmd'.checks = cmd.checks /\ cmd'.manifest = cmd.manifest
    BY <1>1, <1>4 DEF CommandType, Goto
  <2>2. Prepares' <=> Prepares
    BY <2>1 DEF Prepares
  <2>3. QED
    BY <1>1, <1>2, <2>1, <2>2, SameFiles DEF ReadInv, At
<1>5. ASSUME cmd.name = "audit", NEW checks,
             cmd' = [cmd EXCEPT !.pc = "report", !.checks = checks],
             ~dirty => (Passing(checks) <=> ProgramPasses)
      PROVE  ReadInv'
  <2>1. /\ cmd'.pc = "report" /\ cmd'.name = "audit" /\ cmd'.checks = checks
        /\ cmd'.manifest = cmd.manifest
    BY <1>1, <1>5 DEF CommandType
  <2>2. QED
    BY <1>1, <1>2, <1>5, <2>1, SameFiles DEF ReadInv, At
<1>6. ASSUME cmd.name = "audit", ~dirty
      PROVE  /\ cmd.checks \in Seq(Verdicts) /\ (Passing(cmd.checks) <=> Sound)
             /\ toml.target = "server" /\ toml.entry \in Present
             /\ IsPrepared(cmd.found) <=> Sound /\ OneService
             /\ audit_route_contracts(cmd.found) # "fail" <=>
                   \A f \in Services : source[f].items = "service"
  <2>1. cmd.round = 2 /\ cmd.checks \in Seq(Verdicts)
    BY <1>1, <1>6 DEF Prepares, Preparing, CommandType
  <2>2. Len(cmd.found) = Len(cmd.files)
    BY <1>1, ReadToTheEnd
  <2>3. IsPrepared(cmd.found) <=> Sound /\ OneService
    BY <1>2, <1>6, <2>2, WhatWasRead DEF IsPrepared
  <2>4. (\E i \in DOMAIN cmd.found : cmd.found[i] = "bare") <=>
           (\E f \in Present : source[f].items = "bare")
    BY <1>2, <1>6, <2>2, WhatWasRead
  <2>5. (\E f \in Present : source[f].items = "bare") <=> ~ \A f \in Services : source[f].items = "service"
    BY DEF Services, has_service
  <2>6. QED
    BY <1>1, <1>2, <1>6, <2>1, <2>3, <2>4, <2>5 DEF ReadInv, At, Serves, audit_route_contracts
<1>7. CASE ~IsPrepared(cmd.found) /\ cmd.name = "audit"
  <2>1. cmd' = [cmd EXCEPT !.pc = "report", !.checks = Append(cmd.checks, "fail")]
    BY <1>1, <1>7 DEF Prepared, Unprepared, CommandType
  <2>2. ~dirty => ~Passing(Append(cmd.checks, "fail")) /\ ~ProgramPasses
    BY <1>6, <1>7, FailAppended DEF ProgramPasses
  <2>3. QED
    BY <1>5, <1>7, <2>1, <2>2
<1>8. CASE ~IsPrepared(cmd.found) /\ cmd.name # "audit"
  BY <1>3, <1>8 DEF Prepared, Unprepared
<1>9. CASE IsPrepared(cmd.found) /\ cmd.name = "audit"
  <2> DEFINE rest == <<"pass", audit_route_contracts(cmd.found)>>
  <2>1. cmd' = [cmd EXCEPT !.pc = "report", !.checks = cmd.checks \o rest]
    BY <1>1, <1>9 DEF Prepared, CommandType
  <2>2. rest \in Seq(Verdicts) /\ (Passing(rest) <=> audit_route_contracts(cmd.found) # "fail")
    <3>1. "pass" \in Verdicts /\ audit_route_contracts(cmd.found) \in Verdicts
      BY DEF Verdicts, audit_route_contracts
    <3>2. QED
      BY <3>1, VerdictsJoined
  <2> HIDE DEF rest
  <2>3. ~dirty => (Passing(cmd.checks \o rest) <=> Passing(cmd.checks) /\ Passing(rest))
    BY <1>6, <1>9, <2>2, VerdictsJoined
  <2>4. ~dirty => (Passing(cmd.checks \o rest) <=> ProgramPasses)
    BY <1>6, <1>9, <2>2, <2>3 DEF ProgramPasses
  <2>5. QED
    BY <1>5, <1>9, <2>1, <2>4
<1>10. CASE IsPrepared(cmd.found) /\ cmd.name # "audit"
  <2>1. \/ \E ok \in BOOLEAN : Exit(ok)
        \/ Goto("truncate") \/ Goto("compare")
    BY <1>10 DEF Prepared
  <2>2. QED
    BY <1>3, <1>4, <1>10, <2>1
<1>11. QED
  BY <1>7, <1>8, <1>9, <1>10

\* Only the audit reads a second time.
LEMMA RoundOne ==
    ASSUME CmdInv, cmd.name # "audit"
    PROVE  cmd.round = 1
<1>1. cmd.round \in 1..2
  BY DEF CmdInv, CommandType
<1>2. cmd.round # 2
  BY DEF CmdInv, Placed
<1>3. QED
  BY <1>1, <1>2

\* Steps that read nothing more keep what was read true.
LEMMA ReadGoesOn ==
    ASSUME CmdInv, ReadInv, source' = source, toml' = toml, dirty' = dirty,
           cmd'.name = cmd.name, cmd'.round = cmd.round, cmd'.files = cmd.files,
           cmd'.found = cmd.found, cmd'.manifest = cmd.manifest,
           cmd.pc \in {"format", "truncate", "fill"}, cmd'.pc \in {"format", "truncate", "fill"}
    PROVE  ReadInv'
<1>1. cmd.name \in Formatting \cup {"openapi"} /\ cmd.round = 1
  <2>1. cmd.name \in Formatting \cup {"openapi"}
    BY DEF CmdInv, Placed, At, Formatting
  <2>2. QED
    BY <2>1, RoundOne DEF Formatting
<1>2. Prepares' <=> Prepares
  BY DEF Prepares
<1>3. /\ cmd'.pc \notin {"manifest", "report"} /\ cmd.pc \notin {"manifest", "report"}
      /\ cmd'.round = 1
  BY <1>1
<1>4. CASE dirty
  BY <1>4 DEF ReadInv
<1>5. CASE ~dirty
  <2>1. cmd.files = PresentFiles /\ PresentFiles' = PresentFiles /\ Serves' = Serves /\ Readable' = Readable
    BY <1>5, SameFiles DEF ReadInv
  <2>2. cmd.name \in Preparing \cup {"audit"} => cmd.manifest = toml /\ Readable
    BY <1>3, <1>5 DEF ReadInv, At
  <2>3. Prepares => Serves
    BY <1>3, <1>5 DEF ReadInv, At
  <2>4. cmd'.pc \in {"truncate", "fill"} /\ cmd.name \notin Formatting =>
           \A i \in DOMAIN cmd.found : cmd.found[i] = source[cmd.files[i]].items
    BY <1>1, <1>5 DEF ReadInv, CmdInv, Placed, At
  <2>5. QED
    BY <1>2, <1>3, <1>5, <2>1, <2>2, <2>3, <2>4 DEF ReadInv, At
<1>6. QED
  BY <1>4, <1>5 DEF CmdInv, FilesTyped

\* fmt keeps what was read true while it looks.
LEMMA ReadFmt ==
    ASSUME CmdInv, ReadInv, run_fmt
    PROVE  ReadInv'
<1>1. /\ At("format") /\ source' = source /\ toml' = toml /\ dirty' = dirty /\ cmd \in CommandType
  BY DEF run_fmt, FilesKept, EditorKept, CmdInv
<1>2. CASE Exit(FALSE)
  BY <1>2, NothingHeld DEF Exit
<1>3. CASE ~Exit(FALSE)
  <2>1. \/ cmd' = [cmd EXCEPT !.at = @ + 1] \/ cmd' = [cmd EXCEPT !.at = @ + 1, !.changed = TRUE]
        \/ \E text : cmd' = [cmd EXCEPT !.pc = "truncate", !.text = text]
    BY <1>3 DEF run_fmt
  <2>2. /\ cmd'.name = cmd.name /\ cmd'.round = cmd.round /\ cmd'.files = cmd.files
        /\ cmd'.found = cmd.found /\ cmd'.manifest = cmd.manifest
        /\ cmd'.pc \in {cmd.pc, "truncate"}
    BY <1>1, <2>1 DEF CommandType
  <2>3. QED
    BY <1>1, <2>2, ReadGoesOn DEF At
<1>4. QED
  BY <1>2, <1>3

\* What fmt writes is a file that the walk listed.
LEMMA WritesPresent ==
    ASSUME CmdInv, ReadInv, ~dirty, cmd.name = "fmt", cmd.pc \in {"truncate", "fill"},
           NEW content \in Texts, source' = [source EXCEPT ![cmd.files[cmd.at]] = content]
    PROVE  /\ source[cmd.files[cmd.at]] # Absent /\ cmd.files = PresentFiles
           /\ Present' = Present /\ PresentFiles' = PresentFiles
<1>1. cmd.files = PresentFiles /\ cmd.at \in 1..Len(cmd.files)
  BY NextFile DEF ReadInv, CmdInv, Counted
<1>2. cmd.files[cmd.at] \in Present
  BY <1>1, PresentListed DEF CmdInv, FilesTyped
<1>3. source[cmd.files[cmd.at]] # Absent /\ content # Absent
  BY <1>2 DEF Present, Texts, Absent
<1>4. DOMAIN source' = DOMAIN source /\ \A f \in DOMAIN source : source'[f] = Absent <=> source[f] = Absent
  BY <1>3
<1>5. QED
  BY <1>1, <1>3, <1>4, SameFilesPresent

\* fmt has no check to keep true while it writes.
LEMMA ReadFmtWrites ==
    ASSUME CmdInv, ReadInv, TruncateSource \/ FillSource
    PROVE  ReadInv'
<1>1. /\ cmd.pc \in {"truncate", "fill"} /\ cmd.name = "fmt" /\ toml' = toml /\ dirty' = dirty
      /\ cmd \in CommandType /\ cmd.round = 1
  BY RoundOne DEF TruncateSource, FillSource, EditorKept, CmdInv, At
<1>2. PICK content \in Texts : source' = [source EXCEPT ![cmd.files[cmd.at]] = content]
  BY <1>1 DEF TruncateSource, FillSource, Empty, Texts, CmdInv, Counted, At
<1>3. /\ cmd'.name = "fmt" /\ cmd'.round = 1 /\ cmd'.files = cmd.files
      /\ cmd'.pc \in {"fill", "format"}
  BY <1>1 DEF TruncateSource, FillSource, Goto, CommandType
<1>4. ~dirty => cmd'.files = PresentFiles'
  BY <1>1, <1>2, <1>3, WritesPresent
<1>5. QED
  BY <1>1, <1>3, <1>4 DEF ReadInv, At, Preparing, Formatting, Prepares

\* Writing the document changes nothing that was read.
LEMMA ReadDocument ==
    ASSUME CmdInv, ReadInv, TruncateDocument \/ FillDocument
    PROVE  ReadInv'
<1>1. CASE TruncateDocument
  <2>1. /\ At("truncate") /\ source' = source /\ toml' = toml /\ dirty' = dirty
        /\ Goto("fill") /\ cmd \in CommandType
    BY <1>1 DEF TruncateDocument, EditorKept, CmdInv
  <2>2. /\ cmd'.name = cmd.name /\ cmd'.round = cmd.round /\ cmd'.files = cmd.files
        /\ cmd'.found = cmd.found /\ cmd'.manifest = cmd.manifest /\ cmd'.pc = "fill"
    BY <2>1 DEF CommandType, Goto
  <2>3. QED
    BY <2>1, <2>2, ReadGoesOn DEF At
<1>2. CASE FillDocument
  BY <1>2, NothingHeld DEF FillDocument, Exit
<1>3. QED
  BY <1>1, <1>2

\* new reads nothing.
LEMMA ReadNew ==
    ASSUME CmdInv, create_project \/ WriteManifest \/ WriteMain
    PROVE  ReadInv'
<1>1. CASE \E ok : Exit(ok)
  BY <1>1, NothingHeld DEF Exit
<1>2. ASSUME NEW to \in {"toml", "toml_fill", "main", "main_fill"}, Goto(to), cmd.name = "new"
      PROVE  ReadInv'
  <2>1. cmd \in CommandType /\ cmd.round = 1
    BY <1>2, RoundOne DEF CmdInv
  <2>2. cmd'.name = "new" /\ cmd'.round = 1 /\ cmd'.pc = to
    BY <1>2, <2>1 DEF Goto, CommandType
  <2>3. QED
    <3>1. ~Prepares' /\ cmd'.name \notin Preparing \cup {"audit"}
      BY <2>2 DEF Prepares, Preparing
    <3>2. QED
      BY <2>2, <3>1 DEF ReadInv, At
<1>3. cmd.name = "new"
  BY DEF create_project, WriteManifest, WriteMain, CmdInv, Placed, At
<1>4. \/ \E ok : Exit(ok)
      \/ Goto("toml") \/ Goto("toml_fill") \/ Goto("main") \/ Goto("main_fill")
  BY DEF create_project, WriteManifest, WriteMain
<1>5. QED
  BY <1>1, <1>2, <1>3, <1>4

\* Every step keeps what was read true, as long as nothing was edited.
LEMMA ReadStep ==
    ASSUME CmdInv, ReadInv, [Next]_vars
    PROVE  ReadInv'
<1>1. CASE UNCHANGED vars
  <2>1. source' = source /\ toml' = toml /\ cmd' = cmd /\ dirty' = dirty
    BY <1>1 DEF vars
  <2>2. Prepares' <=> Prepares
    BY <2>1 DEF Prepares
  <2>3. QED
    BY <2>1, <2>2, SameFiles DEF ReadInv, At
<1>2. CASE Edit
  BY <1>2 DEF Edit, ReadInv
<1>3. ASSUME NEW killed \in BOOLEAN, Interrupted(killed) PROVE ReadInv'
  BY <1>3, NothingHeld DEF Interrupted
<1>4. CASE CheckEnds \/ report \/ run_openapi_check \/ FmtEnds
  BY <1>4, NothingHeld DEF CheckEnds, report, run_openapi_check, FmtEnds, Exit
<1>5. QED
  BY <1>1, <1>2, <1>3, <1>4, ReadBegin, ReadManifest, ReadCollect, ReadReads, ReadStaticChecks,
     ReadPrepared, ReadFmt, ReadFmtWrites, ReadDocument, ReadNew DEF Next

-----------------------------------------------------------------------------
\* new.

\* Only new has a part in this.
LEMMA NewOther ==
    ASSUME CmdInv', cmd'.name # "new"
    PROVE  NewInv'
BY DEF CmdInv, Placed, NewInv, At

\* A command keeps its name.
LEMMA NameKept ==
    ASSUME CmdInv, Next, cmd'.name \notin {cmd.name, "none"}
    PROVE  At("idle") /\ \E name \in Commands : Begin(name)
<1>1. cmd \in CommandType
  BY DEF CmdInv
<1>2. CASE \E name \in Commands : Begin(name)
  BY <1>2 DEF Begin
<1>3. CASE load_manifest
  BY <1>1, <1>3, NoCommandTyped DEF load_manifest, Unprepared, Exit, CommandType
<1>4. CASE collect_are_files \/ check_source_file
  BY <1>1, <1>4 DEF collect_are_files, check_source_file, CommandType
<1>5. CASE CheckEnds \/ report \/ run_openapi_check \/ FmtEnds \/ FillDocument
  BY <1>5, NoCommandTyped DEF CheckEnds, report, run_openapi_check, FmtEnds, FillDocument, Exit
<1>6. CASE StaticChecksEnd
  BY <1>1, <1>6 DEF StaticChecksEnd, CommandType
<1>7. CASE Prepared
  <2>1. CASE \E ok : Exit(ok)
    BY <2>1, NoCommandTyped DEF Exit
  <2>2. CASE \E pc : Goto(pc)
    BY <1>1, <2>2 DEF Goto, CommandType
  <2>3. CASE \E checks : cmd' = [cmd EXCEPT !.pc = "report", !.checks = checks]
    BY <1>1, <2>3 DEF CommandType
  <2>4. QED
    BY <1>1, <1>7, <2>1, <2>2, <2>3 DEF Prepared, Unprepared, CommandType
<1>8. CASE run_fmt
  BY <1>1, <1>8, NoCommandTyped DEF run_fmt, Exit, CommandType
<1>9. CASE TruncateSource \/ TruncateDocument \/ FillSource
  BY <1>1, <1>9 DEF TruncateSource, TruncateDocument, FillSource, Goto, CommandType
<1>10. CASE create_project \/ WriteManifest \/ WriteMain
  BY <1>1, <1>10, NoCommandTyped DEF create_project, WriteManifest, WriteMain, Goto, Exit, CommandType
<1>11. CASE \E killed \in BOOLEAN : Interrupted(killed)
  BY <1>11, NoCommandTyped DEF Interrupted
<1>12. CASE Edit
  BY <1>12 DEF Edit
<1>13. QED
  BY <1>2, <1>3, <1>4, <1>5, <1>6, <1>7, <1>8, <1>9, <1>10, <1>11, <1>12 DEF Next

\* new writes its files one by one, into what was empty.
LEMMA NewWrites ==
    ASSUME CmdInv, NewInv, create_project \/ WriteManifest \/ WriteMain
    PROVE  NewInv'
<1>1. cmd \in CommandType /\ dirty' = dirty
  BY DEF CmdInv, create_project, WriteManifest, WriteMain, EditorKept
<1>2. CASE dirty
  BY <1>1, <1>2 DEF NewInv
<1>3. CASE \E ok : Exit(ok)
  BY <1>3, NothingHeld DEF Exit
<1>4. CASE ~dirty /\ create_project /\ IsEmptyDirectory
  <2>1. source' = source /\ toml' = toml /\ openapi' = openapi /\ cmd'.pc = "toml" /\ before' = before
    BY <1>1, <1>4 DEF create_project, FilesKept, Goto, CommandType
  <2>2. Present' = Present
    BY <2>1, SameFiles
  <2>3. before = Nothing
    <3>1. source = [f \in Range(Files) |-> Absent]
      BY <1>4 DEF IsEmptyDirectory, Present, CmdInv, FilesTyped
    <3>2. before = [source |-> source, toml |-> toml] /\ toml = NoManifest
      BY <1>4 DEF NewInv, create_project, IsEmptyDirectory
    <3>3. QED
      BY <3>1, <3>2 DEF Nothing
  <2>4. QED
    BY <1>4, <2>1, <2>2, <2>3 DEF NewInv, IsEmptyDirectory, At, Nothing
<1>5. CASE ~dirty /\ WriteManifest
  <2>1. source' = source /\ openapi' = openapi /\ before' = before
    BY <1>5 DEF WriteManifest
  <2>2. Present' = Present
    BY <2>1 DEF Present
  <2>3. Present = {} /\ openapi = NoDocument /\ before = Nothing
    BY <1>5 DEF WriteManifest, NewInv, At
  <2>4. \/ cmd'.pc = "toml_fill"
        \/ cmd'.pc = "main" /\ toml' = Template
    BY <1>1, <1>5 DEF WriteManifest, Goto, CommandType
  <2>5. QED
    BY <2>1, <2>2, <2>3, <2>4 DEF NewInv, At, Nothing
<1>6. CASE ~dirty /\ WriteMain /\ At("main")
  <2>1. /\ source' = [source EXCEPT ![Main] = Empty] /\ toml' = toml /\ openapi' = openapi
        /\ cmd'.pc = "main_fill" /\ before' = before
    BY <1>1, <1>6 DEF WriteMain, Goto, CommandType, At
  <2>2. Present = {} /\ openapi = NoDocument /\ toml = Template /\ before = Nothing
    BY <1>6 DEF NewInv, At
  <2>3. Present' = {Main}
    <3>1. Main \in DOMAIN source
      BY ProjectAssumption DEF CmdInv, FilesTyped
    <3>2. Empty # Absent
      BY DEF Empty, Absent
    <3>3. \A f \in DOMAIN source : source[f] = Absent
      BY <2>2 DEF Present
    <3>4. QED
      BY <2>1, <3>1, <3>2, <3>3 DEF Present
  <2>4. QED
    BY <2>1, <2>2, <2>3 DEF NewInv, At, Nothing
<1>7. QED
  BY <1>2, <1>3, <1>4, <1>5, <1>6 DEF create_project, WriteMain, CmdInv, FilesTyped

\* Every step keeps what new has written so far.
LEMMA NewStep ==
    ASSUME CmdInv, CmdInv', NewInv, [Next]_vars
    PROVE  NewInv'
<1>1. CASE UNCHANGED vars
  <2>1. source' = source /\ toml' = toml /\ cmd' = cmd /\ dirty' = dirty /\ openapi' = openapi
        /\ before' = before
    BY <1>1 DEF vars
  <2>2. QED
    BY <2>1, SameFiles DEF NewInv, At, Nothing
<1>2. CASE cmd'.name # "new"
  BY <1>2, NewOther
<1>3. CASE \E name \in Commands : Begin(name)
  BY <1>3, ReadBegin
<1>4. CASE Next /\ cmd.name = "new"
  <2>1. CASE Edit
    BY <2>1 DEF Edit, NewInv
  <2>2. CASE \E killed \in BOOLEAN : Interrupted(killed)
    BY <2>2, NothingHeld DEF Interrupted
  <2>3. CASE create_project \/ WriteManifest \/ WriteMain
    BY <2>3, NewWrites
  <2>4. /\ ~load_manifest /\ ~collect_are_files /\ ~check_source_file /\ ~CheckEnds
        /\ ~StaticChecksEnd /\ ~Prepared /\ ~report /\ ~run_openapi_check /\ ~run_fmt
        /\ ~FmtEnds /\ ~TruncateSource /\ ~FillSource /\ ~TruncateDocument /\ ~FillDocument
    <3>1. /\ ~At("manifest") /\ ~At("collect") /\ ~At("read") /\ ~At("report") /\ ~At("compare")
          /\ ~At("format") /\ ~At("truncate") /\ ~At("fill")
      BY <1>4 DEF CmdInv, Placed, At, Preparing, Formatting
    <3>2. QED
      BY <3>1 DEF load_manifest, collect_are_files, check_source_file, CheckEnds,
         StaticChecksEnd, Prepared, report, run_openapi_check, run_fmt, FmtEnds, TruncateSource,
         FillSource, TruncateDocument, FillDocument, AllRead
  <2>5. QED
    BY <1>3, <1>4, <2>1, <2>2, <2>3, <2>4 DEF Next
<1>5. QED
  BY <1>1, <1>2, <1>3, <1>4, NameKept DEF CmdInv

-----------------------------------------------------------------------------
\* fmt.

\* fmt that begins has formatted nothing.
LEMMA FmtBegin ==
    ASSUME CmdInv, NEW name \in Commands, Begin(name)
    PROVE  FmtInv'
<1>1. /\ cmd'.name = name /\ source' = source
      /\ cmd'.pc = IF name = "new" THEN "new"
                   ELSE IF name \in Preparing \cup {"audit"} THEN "manifest" ELSE "collect"
      /\ cmd'.changed = FALSE
      /\ name \in Formatting => before' = [source |-> source, toml |-> toml]
  BY DEF Begin, Command
<1>2. QED
  BY <1>1 DEF FmtInv, At, Formatting, Preparing

\* fmt begins at the first file.
LEMMA FmtCollect ==
    ASSUME CmdInv, FmtInv, collect_are_files
    PROVE  FmtInv'
<1>1. /\ At("collect") /\ source' = source /\ before' = before /\ dirty' = dirty /\ cmd \in CommandType
      /\ cmd' = [cmd EXCEPT !.pc = IF cmd.name \in Formatting THEN "format" ELSE "read", !.at = 1,
                            !.files = PresentFiles, !.found = << >>]
  BY DEF collect_are_files, FilesKept, EditorKept, CmdInv
<1>2. /\ cmd'.pc = IF cmd.name \in Formatting THEN "format" ELSE "read"
      /\ cmd'.name = cmd.name /\ cmd'.files = PresentFiles /\ cmd'.at = 1
  BY <1>1 DEF CommandType
<1>3. DOMAIN PresentFiles = 1..Len(PresentFiles) /\ Len(PresentFiles) \in Nat
  BY Walk DEF CmdInv, FilesTyped
<1>4. CASE dirty \/ cmd.name \notin Formatting
  BY <1>1, <1>2, <1>4 DEF FmtInv
<1>5. CASE ~dirty /\ cmd.name \in Formatting
  <2>1. source = before.source
    BY <1>1, <1>5 DEF FmtInv, At
  <2>2. cmd'.changed = cmd.changed /\ Formatted' = Formatted
    <3>1. toml' = toml
      BY DEF collect_are_files, FilesKept
    <3>2. QED
      BY <1>1, <3>1, SameFiles DEF CommandType
  <2>3. QED
    BY <1>1, <1>2, <1>3, <1>5, <2>1, <2>2 DEF FmtInv, At
<1>6. QED
  BY <1>4, <1>5

\* A file that can be formatted, and is, is left as it is.
LEMMA TidyIsKept ==
    ASSUME NEW content \in Sources, Formattable(content), content.tidy
    PROVE  format_source(content) = content
<1>1. content \in Texts /\ content.comments = FALSE /\ content.tidy = TRUE
  BY FormattedTyped DEF Formattable, Texts
<1>2. \A a, b \in Texts :
         a.items = b.items /\ a.tidy = b.tidy /\ a.comments = b.comments => a = b
  BY DEF Texts
<1>3. /\ format_source(content) \in Texts /\ format_source(content).items = content.items
      /\ format_source(content).tidy = TRUE /\ format_source(content).comments = FALSE
  BY <1>1 DEF format_source, Texts
<1>4. QED
  BY <1>1, <1>2, <1>3

\* A file that fmt comes to and that can be formatted is there.
LEMMA NextPresent ==
    ASSUME CmdInv, At("format"), cmd.at <= Len(cmd.files),
           Formattable(source[cmd.files[cmd.at]])
    PROVE  cmd.files[cmd.at] \in Present
<1>1. cmd.at \in 1..Len(cmd.files) /\ cmd.files \in Seq(Range(Files))
  BY NextFile DEF CmdInv, CommandType
<1>2. cmd.files[cmd.at] \in DOMAIN source
  BY <1>1 DEF CmdInv, FilesTyped
<1>3. source[cmd.files[cmd.at]] # Absent
  BY DEF Formattable, Absent
<1>4. QED
  BY <1>2, <1>3 DEF Present

\* A file that fmt goes past is formatted, or fmt has refused it.
LEMMA FmtFmt ==
    ASSUME CmdInv, FmtInv, run_fmt
    PROVE  FmtInv'
<1> DEFINE content == source[cmd.files[cmd.at]]
           formatted == format_source(content)
           was(i) == before.source[cmd.files[i]]
           is(i) == source[cmd.files[i]]
<1>1. /\ At("format") /\ source' = source /\ before' = before /\ dirty' = dirty /\ cmd \in CommandType
      /\ cmd.at <= Len(cmd.files) /\ cmd.name \in Formatting
  BY DEF run_fmt, FilesKept, EditorKept, CmdInv, Placed, At
<1>2. cmd.at \in 1..Len(cmd.files) /\ DOMAIN cmd.files = 1..Len(cmd.files) /\ Len(cmd.files) \in Nat
      /\ content \in Sources
  BY <1>1, NextFile
<1>3. CASE dirty
  BY <1>1, <1>3 DEF FmtInv
<1>4. CASE ~Formattable(content)
  <2>1. Exit(FALSE)
    BY <1>4 DEF run_fmt
  <2>2. QED
    BY <2>1, NothingHeld DEF Exit
<1>5. ASSUME ~dirty, Formattable(content)
      PROVE  /\ cmd.name = "fmt_check" => source = before.source /\ (cmd.changed => ~Formatted)
             /\ \A f \in Range(Files) : source[f] = Absent <=> before.source[f] = Absent
             /\ \A i \in DOMAIN cmd.files :
                   /\ i < cmd.at => Formattable(was(i)) /\ (cmd.name = "fmt" => is(i) = format_source(was(i)))
                   /\ i < cmd.at /\ cmd.name = "fmt_check" /\ ~cmd.changed => was(i).tidy
                   /\ i >= cmd.at => is(i) = was(i)
             /\ was(cmd.at) = content
  BY <1>1, <1>2, <1>5 DEF FmtInv, At
<1>6. CASE ~dirty /\ Formattable(content) /\ (formatted = content \/ cmd.name = "fmt_check")
  <2>1. \/ formatted = content /\ cmd' = [cmd EXCEPT !.at = cmd.at + 1]
        \/ cmd.name = "fmt_check" /\ cmd' = [cmd EXCEPT !.at = cmd.at + 1, !.changed = TRUE]
    BY <1>1, <1>6 DEF run_fmt, CommandType
  <2>2. /\ cmd'.pc = "format" /\ cmd'.name = cmd.name /\ cmd'.files = cmd.files
        /\ cmd'.at = cmd.at + 1 /\ cmd'.changed \in {cmd.changed, TRUE}
        /\ formatted # content => cmd'.changed /\ cmd.name = "fmt_check"
    BY <1>1, <2>1 DEF CommandType, At
  <2>3. formatted = content => content.tidy
    BY <1>2, <1>6, FormattedTyped DEF format_source, Texts
  <2> HIDE DEF formatted
  <2>4. \A i \in DOMAIN cmd.files :
           /\ i < cmd.at + 1 => Formattable(was(i)) /\ (cmd.name = "fmt" => is(i) = format_source(was(i)))
           /\ i < cmd.at + 1 /\ cmd.name = "fmt_check" /\ ~cmd'.changed => was(i).tidy
           /\ i >= cmd.at + 1 => is(i) = was(i)
    <3> SUFFICES ASSUME NEW i \in DOMAIN cmd.files
                 PROVE  /\ i < cmd.at + 1 => Formattable(was(i)) /\ (cmd.name = "fmt" => is(i) = format_source(was(i)))
                        /\ i < cmd.at + 1 /\ cmd.name = "fmt_check" /\ ~cmd'.changed => was(i).tidy
                        /\ i >= cmd.at + 1 => is(i) = was(i)
      OBVIOUS
    <3>1. CASE i = cmd.at
      <4>1. is(i) = content /\ was(i) = content
        BY <1>5, <1>6, <3>1
      <4>2. cmd.name = "fmt" => formatted = content
        BY <1>6
      <4>3. QED
        BY <1>2, <1>6, <2>2, <2>3, <3>1, <4>1, <4>2 DEF formatted
    <3>2. CASE i # cmd.at
      <4>1. (i < cmd.at + 1 <=> i < cmd.at) /\ (i >= cmd.at + 1 => i >= cmd.at)
        BY <1>2, <3>2
      <4>2. ~cmd'.changed => ~cmd.changed
        BY <2>2
      <4>3. QED
        BY <1>5, <1>6, <4>1, <4>2
    <3>3. QED
      BY <3>1, <3>2
  <2>5. cmd.name = "fmt_check" /\ cmd'.changed => ~Formatted
    <3>1. CASE formatted = content
      <4>1. cmd'.changed = cmd.changed
        <5>1. cmd' = [cmd EXCEPT !.at = cmd.at + 1]
          BY <1>1, <1>6, <3>1 DEF run_fmt, CommandType, formatted
        <5>2. QED
          BY <1>1, <5>1 DEF CommandType
      <4>2. QED
        BY <1>5, <1>6, <4>1
    <3>2. CASE formatted # content
      <4>1. ~content.tidy
        BY <1>2, <1>6, <3>2, TidyIsKept DEF formatted
      <4>2. cmd.files[cmd.at] \in Present
        BY <1>1, <1>6, NextPresent
      <4>3. QED
        BY <4>1, <4>2 DEF Formatted
    <3>3. QED
      BY <3>1, <3>2
  <2>6. Formatted' = Formatted
    <3>1. toml' = toml
      BY DEF run_fmt, FilesKept
    <3>2. QED
      BY <1>1, <3>1, SameFiles
  <2>7. QED
    BY <1>1, <1>2, <1>5, <1>6, <2>2, <2>4, <2>5, <2>6 DEF FmtInv, At
<1>7. CASE ~dirty /\ Formattable(content) /\ formatted # content /\ cmd.name # "fmt_check"
  <2>1. cmd' = [cmd EXCEPT !.pc = "truncate", !.text = formatted]
    BY <1>1, <1>7 DEF run_fmt, Formatting
  <2>2. /\ cmd'.pc = "truncate" /\ cmd'.name = cmd.name /\ cmd'.files = cmd.files
        /\ cmd'.at = cmd.at /\ cmd'.changed = cmd.changed /\ cmd'.text = formatted
    BY <1>1, <2>1 DEF CommandType
  <2>3. QED
    BY <1>1, <1>2, <1>5, <1>7, <2>2 DEF FmtInv, At
<1>8. QED
  BY <1>1, <1>3, <1>4, <1>6, <1>7 DEF CmdInv, FilesTyped

\* A write to the file that fmt is at leaves the others alone.
LEMMA FmtWrites ==
    ASSUME CmdInv, ReadInv, FmtInv, ~dirty, cmd.name = "fmt", cmd.pc \in {"truncate", "fill"},
           NEW content \in Texts, source' = [source EXCEPT ![cmd.files[cmd.at]] = content]
    PROVE  /\ \A f \in Range(Files) : source'[f] = Absent <=> before.source[f] = Absent
           /\ source'[cmd.files[cmd.at]] = content
           /\ \A i \in DOMAIN cmd.files : i # cmd.at => source'[cmd.files[i]] = source[cmd.files[i]]
           /\ cmd.at \in Nat /\ \A i \in DOMAIN cmd.files : i \in Nat
<1>1. /\ cmd.at \in 1..Len(cmd.files) /\ cmd.files \in Seq(Range(Files))
      /\ cmd.files[cmd.at] \in Range(Files)
  BY NextFile DEF CmdInv, Counted
<1>2. source[cmd.files[cmd.at]] # Absent /\ cmd.files = PresentFiles /\ content # Absent
  <2>1. content # Absent
    BY DEF Texts, Absent
  <2>2. source[cmd.files[cmd.at]] # Absent /\ cmd.files = PresentFiles
    BY WritesPresent
  <2>3. QED
    BY <2>1, <2>2
<1>3. source'[cmd.files[cmd.at]] = content
  BY <1>1 DEF CmdInv, FilesTyped
<1>4. \A f \in Range(Files) : source'[f] = Absent <=> source[f] = Absent
  BY <1>2, <1>3 DEF CmdInv, FilesTyped
<1>5. \A f \in Range(Files) : source[f] = Absent <=> before.source[f] = Absent
  BY DEF FmtInv, Formatting
<1>6. \A i \in DOMAIN cmd.files : i # cmd.at => source'[cmd.files[i]] = source[cmd.files[i]]
  <2> SUFFICES ASSUME NEW i \in DOMAIN cmd.files, i # cmd.at
               PROVE  source'[cmd.files[i]] = source[cmd.files[i]]
    OBVIOUS
  <2>1. i \in 1..Len(cmd.files) /\ cmd.files[i] \in Range(Files)
    BY <1>1
  <2>2. cmd.files[i] # cmd.files[cmd.at]
    BY <1>1, <1>2, <2>1, PresentListed DEF CmdInv, FilesTyped
  <2>3. QED
    BY <2>1, <2>2 DEF CmdInv, FilesTyped
<1>7. QED
  BY <1>1, <1>3, <1>4, <1>5, <1>6

\* A file that fmt opens is empty until it is written, the others are as they were.
LEMMA FmtTruncate ==
    ASSUME CmdInv, ReadInv, FmtInv, TruncateSource
    PROVE  FmtInv'
<1>1. /\ At("truncate") /\ cmd.name = "fmt" /\ dirty' = dirty /\ before' = before
      /\ source' = [source EXCEPT ![cmd.files[cmd.at]] = Empty] /\ Goto("fill") /\ cmd \in CommandType
  BY DEF TruncateSource, EditorKept, CmdInv
<1>2. /\ cmd'.pc = "fill" /\ cmd'.name = "fmt" /\ cmd'.files = cmd.files /\ cmd'.at = cmd.at
      /\ cmd'.text = cmd.text
  BY <1>1 DEF CommandType, Goto
<1>3. CASE dirty
  BY <1>1, <1>3 DEF FmtInv
<1>4. CASE ~dirty
  <2>1. Empty \in Texts
    BY DEF Empty, Texts
  <2>2. /\ \A f \in Range(Files) : source'[f] = Absent <=> before.source[f] = Absent
        /\ source'[cmd.files[cmd.at]] = Empty
        /\ \A i \in DOMAIN cmd.files : i # cmd.at => source'[cmd.files[i]] = source[cmd.files[i]]
        /\ cmd.at \in Nat /\ \A i \in DOMAIN cmd.files : i \in Nat
    <3>1. cmd.pc \in {"truncate", "fill"}
      BY <1>1 DEF At
    <3>2. QED
      BY <1>1, <1>4, <2>1, <3>1, FmtWrites
  <2>3. \A i \in DOMAIN cmd.files :
           /\ i < cmd.at => /\ Formattable(before.source[cmd.files[i]])
                            /\ source[cmd.files[i]] = format_source(before.source[cmd.files[i]])
           /\ i > cmd.at => source[cmd.files[i]] = before.source[cmd.files[i]]
           /\ i = cmd.at => /\ Formattable(before.source[cmd.files[i]])
                            /\ cmd.text = format_source(before.source[cmd.files[i]])
    BY <1>1, <1>4 DEF FmtInv, At, Formatting
  <2>4. QED
    BY <1>1, <1>2, <2>2, <2>3 DEF FmtInv, At
<1>5. QED
  BY <1>3, <1>4 DEF CmdInv, FilesTyped

\* A file that is written is formatted, and the same program.
LEMMA FmtFill ==
    ASSUME CmdInv, ReadInv, FmtInv, FillSource
    PROVE  FmtInv'
<1>1. /\ At("fill") /\ cmd.name = "fmt" /\ dirty' = dirty /\ before' = before
      /\ source' = [source EXCEPT ![cmd.files[cmd.at]] = cmd.text] /\ cmd \in CommandType
      /\ cmd' = [cmd EXCEPT !.pc = "format", !.at = @ + 1, !.text = Absent]
  BY DEF FillSource, EditorKept, CmdInv
<1>2. /\ cmd'.pc = "format" /\ cmd'.name = "fmt" /\ cmd'.files = cmd.files /\ cmd'.at = cmd.at + 1
  BY <1>1 DEF CommandType
<1>3. CASE dirty
  BY <1>1, <1>3 DEF FmtInv
<1>4. CASE ~dirty
  <2>1. cmd.text \in Texts
    BY <1>1 DEF CmdInv, Counted, At
  <2>2. /\ \A f \in Range(Files) : source'[f] = Absent <=> before.source[f] = Absent
        /\ source'[cmd.files[cmd.at]] = cmd.text
        /\ \A i \in DOMAIN cmd.files : i # cmd.at => source'[cmd.files[i]] = source[cmd.files[i]]
        /\ cmd.at \in Nat /\ \A i \in DOMAIN cmd.files : i \in Nat
    <3>1. cmd.pc \in {"truncate", "fill"}
      BY <1>1 DEF At
    <3>2. QED
      BY <1>1, <1>4, <2>1, <3>1, FmtWrites
  <2>3. \A i \in DOMAIN cmd.files :
           /\ i < cmd.at => /\ Formattable(before.source[cmd.files[i]])
                            /\ source[cmd.files[i]] = format_source(before.source[cmd.files[i]])
           /\ i > cmd.at => source[cmd.files[i]] = before.source[cmd.files[i]]
           /\ i = cmd.at => /\ Formattable(before.source[cmd.files[i]])
                            /\ cmd.text = format_source(before.source[cmd.files[i]])
    BY <1>1, <1>4 DEF FmtInv, At, Formatting
  <2>4. \A i \in DOMAIN cmd.files :
           /\ i < cmd.at + 1 => /\ Formattable(before.source[cmd.files[i]])
                                /\ source'[cmd.files[i]] = format_source(before.source[cmd.files[i]])
           /\ i >= cmd.at + 1 => source'[cmd.files[i]] = before.source[cmd.files[i]]
    <3> SUFFICES ASSUME NEW i \in DOMAIN cmd.files
                 PROVE  /\ i < cmd.at + 1 => /\ Formattable(before.source[cmd.files[i]])
                                             /\ source'[cmd.files[i]] = format_source(before.source[cmd.files[i]])
                        /\ i >= cmd.at + 1 => source'[cmd.files[i]] = before.source[cmd.files[i]]
      OBVIOUS
    <3>1. CASE i = cmd.at
      BY <2>2, <2>3, <3>1
    <3>2. CASE i # cmd.at
      BY <2>2, <2>3, <3>2
    <3>3. QED
      BY <3>1, <3>2
  <2>5. QED
    BY <1>1, <1>2, <2>2, <2>4 DEF FmtInv, At
<1>5. QED
  BY <1>3, <1>4 DEF CmdInv, FilesTyped

\* Every step keeps what fmt has done so far.
LEMMA FmtStep ==
    ASSUME CmdInv, CmdInv', ReadInv, FmtInv, [Next]_vars
    PROVE  FmtInv'
<1>1. CASE UNCHANGED vars
  <2>1. source' = source /\ before' = before /\ cmd' = cmd /\ dirty' = dirty /\ toml' = toml
    BY <1>1 DEF vars
  <2>2. QED
    BY <2>1, SameFiles DEF FmtInv, At
<1>2. CASE cmd'.name \notin Formatting
  BY <1>2 DEF FmtInv
<1>3. CASE \E name \in Commands : Begin(name)
  BY <1>3, FmtBegin
<1>4. CASE Next /\ cmd.name \in Formatting
  <2>1. CASE Edit
    BY <2>1 DEF Edit, FmtInv
  <2>2. CASE (\E killed \in BOOLEAN : Interrupted(killed)) \/ FmtEnds
    BY <2>2, NothingHeld DEF Interrupted, FmtEnds, Exit
  <2>3. CASE collect_are_files \/ run_fmt \/ TruncateSource \/ FillSource
    BY <2>3, FmtCollect, FmtFmt, FmtTruncate, FmtFill
  <2>4. /\ ~load_manifest /\ ~check_source_file /\ ~CheckEnds /\ ~StaticChecksEnd /\ ~Prepared
        /\ ~report /\ ~run_openapi_check /\ ~TruncateDocument /\ ~FillDocument
        /\ ~create_project /\ ~WriteManifest /\ ~WriteMain
    <3>1. /\ ~At("manifest") /\ ~At("read") /\ ~At("report") /\ ~At("compare")
          /\ ~At("new") /\ ~At("toml") /\ ~At("toml_fill") /\ ~At("main") /\ ~At("main_fill")
          /\ cmd.name # "openapi"
      BY <1>4 DEF CmdInv, Placed, At, Preparing, Formatting
    <3>2. QED
      BY <3>1 DEF load_manifest, check_source_file, CheckEnds, StaticChecksEnd, Prepared, report,
         run_openapi_check, TruncateDocument, FillDocument, create_project, WriteManifest,
         WriteMain, AllRead
  <2>5. QED
    BY <1>3, <1>4, <2>1, <2>2, <2>3, <2>4 DEF Next
<1>5. QED
  BY <1>1, <1>2, <1>3, <1>4, NameKept, NoCommandTyped DEF Formatting

-----------------------------------------------------------------------------
\* The document.

\* The items of a file tell whether it is there.
LEMMA ItemsTell ==
    ASSUME CmdInv, NEW f \in Range(Files)
    PROVE  /\ source[f].items \in AllItems
           /\ f \in Present <=> source[f].items # "absent"
<1>1. source[f] \in Sources /\ DOMAIN source = Range(Files)
  BY DEF CmdInv, FilesTyped
<1>2. source[f] # Absent => source[f].items \in AllItems /\ source[f].items # "absent"
  BY <1>1 DEF Sources, Texts, AllItems
<1>3. Absent.items = "absent" /\ "absent" \in AllItems
  BY DEF Absent, AllItems
<1>4. QED
  BY <1>1, <1>2, <1>3 DEF Present

\* The items that were read are those of the files.
LEMMA ItemsRead ==
    ASSUME CmdInv, cmd.files = PresentFiles, Len(cmd.found) = Len(cmd.files),
           \A i \in DOMAIN cmd.found : cmd.found[i] = source[cmd.files[i]].items
    PROVE  Range(cmd.found) \ {"empty"} = {source[f].items : f \in Range(Files)} \ {"empty", "absent"}
<1>1. \A items : items \in Range(cmd.found) <=> \E f \in Present : source[f].items = items
  BY WhatWasRead DEF Range
<1>2. \A f \in Present : f \in Range(Files)
  BY DEF Present, CmdInv, FilesTyped
<1>3. QED
  BY <1>1, <1>2, ItemsTell

\* A document is that of a service.
LEMMA DocumentHasService ==
    ASSUME Documented
    PROVE  openapi # NoDocument /\ openapi # EmptyDocument
<1>1. PICK f \in Range(Files) : has_service(Held[f])
  BY DEF Documented
<1>2. Held[f] \in openapi.items
  BY <1>1 DEF Documented, has_service
<1>3. NoDocument.items = {} /\ EmptyDocument.items = {}
  BY DEF NoDocument, EmptyDocument
<1>4. QED
  BY <1>2, <1>3

\* What a document is of, when fmt is not in the middle of a file.
LEMMA NothingTorn ==
    ASSUME ~(At("fill") /\ cmd.name = "fmt")
    PROVE  Held = [f \in Range(Files) |-> source[f].items]
BY DEF Held

\* A fresh document stays fresh while files and document stay.
LEMMA FreshSame ==
    ASSUME FreshInv, fresh, source' = source, toml' = toml, openapi' = openapi, ~dirty', Held' = Held
    PROVE  FreshInv'
<1>1. Readable' = Readable /\ Serves' = Serves
  BY SameFiles
<1>2. Documented' = Documented
  BY DEF Documented
<1>3. QED
  BY <1>1, <1>2 DEF FreshInv

\* What fmt writes has the items of what it read.
LEMMA FreshFmt ==
    ASSUME CmdInv, ReadInv, FmtInv, FreshInv, TruncateSource \/ FillSource
    PROVE  FreshInv'
<1>1. /\ cmd.pc \in {"truncate", "fill"} /\ cmd.name = "fmt" /\ toml' = toml /\ dirty' = dirty
      /\ openapi' = openapi /\ fresh' = fresh /\ cmd \in CommandType
  BY DEF TruncateSource, FillSource, EditorKept, CmdInv, At
<1>2. PICK content \in Texts : source' = [source EXCEPT ![cmd.files[cmd.at]] = content]
  BY <1>1 DEF TruncateSource, FillSource, Empty, Texts, CmdInv, Counted, At
<1>3. CASE ~fresh
  BY <1>1, <1>3 DEF FreshInv
<1>4. CASE fresh
  <2>1. ~dirty /\ Readable /\ Serves /\ Documented
    BY <1>4 DEF FreshInv
  <2>2. Present' = Present /\ cmd.files[cmd.at] \in Range(Files)
    BY <1>1, <1>2, <2>1, WritesPresent, NextFile DEF CmdInv, Counted
  <2>3. Readable' = Readable /\ Serves' = Serves
    BY <1>1, <2>2 DEF Readable, Serves
  <2>4. \A f \in Range(Files) : f # cmd.files[cmd.at] => source'[f] = source[f]
    BY <1>2 DEF CmdInv, FilesTyped
  <2>5. CASE TruncateSource
    <3>1. /\ cmd'.pc = "fill" /\ cmd'.name = "fmt" /\ cmd'.files = cmd.files /\ cmd'.at = cmd.at
          /\ cmd'.text = cmd.text /\ cmd.pc = "truncate"
      BY <1>1, <2>5 DEF TruncateSource, CommandType, Goto, At
    <3>2. cmd.at \in DOMAIN cmd.files /\ cmd.at \in Nat
      <4>1. cmd.at \in 1..Len(cmd.files) /\ cmd.files \in Seq(Range(Files))
        BY <1>1, NextFile DEF CmdInv, Counted
      <4>2. QED
        BY <4>1
    <3>3. cmd.text.items = source[cmd.files[cmd.at]].items
      <4>1. /\ source[cmd.files[cmd.at]] = before.source[cmd.files[cmd.at]]
            /\ Formattable(before.source[cmd.files[cmd.at]])
            /\ cmd.text = format_source(before.source[cmd.files[cmd.at]])
        BY <1>1, <2>1, <3>1, <3>2 DEF FmtInv, Formatting, At
      <4>2. before.source[cmd.files[cmd.at]] \in Texts
        BY <1>1, <4>1, NextFile, FormattedTyped DEF CmdInv, Counted
      <4>3. QED
        BY <4>1, <4>2 DEF format_source, Texts
    <3>4. /\ Held' = [f \in Range(Files) |-> IF f = cmd.files[cmd.at] THEN cmd.text.items
                                             ELSE source'[f].items]
          /\ Held = [f \in Range(Files) |-> source[f].items]
      BY <1>1, <3>1 DEF Held, At
    <3>5. Held' = Held
      BY <2>4, <3>3, <3>4
    <3>6. QED
      BY <1>1, <2>1, <2>3, <3>5 DEF FreshInv, Documented
  <2>6. CASE FillSource
    <3>1. /\ cmd'.pc = "format" /\ cmd.pc = "fill"
          /\ source' = [source EXCEPT ![cmd.files[cmd.at]] = cmd.text]
      BY <1>1, <2>6 DEF FillSource, CommandType, At
    <3>2. source'[cmd.files[cmd.at]] = cmd.text
      BY <2>2, <3>1 DEF CmdInv, FilesTyped
    <3>3. /\ Held' = [f \in Range(Files) |-> source'[f].items]
          /\ Held = [f \in Range(Files) |-> IF f = cmd.files[cmd.at] THEN cmd.text.items
                                            ELSE source[f].items]
      BY <1>1, <3>1 DEF Held, At
    <3>4. Held' = Held
      BY <2>4, <3>2, <3>3
    <3>5. QED
      BY <1>1, <2>1, <2>3, <3>4 DEF FreshInv, Documented
  <2>7. QED
    BY <2>5, <2>6
<1>5. QED
  BY <1>3, <1>4

\* A document that was just exported is that of the program.
LEMMA FreshExport ==
    ASSUME CmdInv, ReadInv, FillDocument
    PROVE  FreshInv'
<1>1. /\ At("fill") /\ cmd.name = "openapi" /\ source' = source /\ toml' = toml /\ dirty' = dirty
      /\ openapi' = openapi_document(cmd.manifest, cmd.found) /\ fresh' = ~dirty
      /\ cmd' = NoCommand
  BY DEF FillDocument, EditorKept, Exit
<1>2. CASE dirty
  BY <1>1, <1>2 DEF FreshInv
<1>3. CASE ~dirty
  <2>1. /\ cmd.manifest = toml /\ Readable /\ Serves /\ cmd.files = PresentFiles
        /\ \A i \in DOMAIN cmd.found : cmd.found[i] = source[cmd.files[i]].items
    BY <1>1, <1>3 DEF ReadInv, Prepares, Preparing, Formatting, At
  <2>2. Len(cmd.found) = Len(cmd.files) /\ IsPrepared(cmd.found)
    BY <1>1 DEF CmdInv, Counted, At
  <2>3. Sound /\ OneService
    BY <2>1, <2>2, WhatWasRead DEF IsPrepared
  <2>4. Held' = [f \in Range(Files) |-> source[f].items]
    BY <1>1, NoCommandTyped DEF Held, At
  <2>5. \A f \in Range(Files) : Held'[f] \notin {"broken", "wrong"}
    BY <2>3, <2>4, ItemsTell DEF Sound, has_diagnostics
  <2>6. \E f \in Range(Files) : /\ has_service(Held'[f])
                                /\ \A g \in Range(Files) : has_service(Held'[g]) => g = f
    <3>1. PICK f : Services = {f}
      BY <2>3, ServicesFinite, FS_Singleton DEF OneService
    <3>2. f \in Range(Files) /\ has_service(source[f].items)
      BY <3>1 DEF Services, Present, CmdInv, FilesTyped
    <3>3. \A g \in Range(Files) : has_service(source[g].items) => g \in Services
      BY ItemsTell DEF Services, has_service
    <3>4. QED
      BY <2>4, <3>1, <3>2, <3>3
  <2>7. Range(cmd.found) \ {"empty"} = {Held'[f] : f \in Range(Files)} \ {"empty", "absent"}
    <3>1. {Held'[f] : f \in Range(Files)} = {source[f].items : f \in Range(Files)}
      BY <2>4
    <3>2. QED
      BY <2>1, <2>2, <3>1, ItemsRead
  <2>8. openapi' = [server |-> toml.server,
                    items |-> {Held'[f] : f \in Range(Files)} \ {"empty", "absent"}]
    BY <1>1, <2>1, <2>7 DEF openapi_document
  <2>9. Documented'
    BY <1>1, <2>5, <2>6, <2>8 DEF Documented
  <2>10. QED
    BY <1>1, <1>3, <2>1, <2>9, SameFiles DEF FreshInv
<1>4. QED
  BY <1>2, <1>3 DEF CmdInv, FilesTyped

\* The other actions, but those of the editor, do not get to the middle of a file.
LEMMA NotFilling ==
    ASSUME CmdInv, Next, ~Edit, ~TruncateSource, ~TruncateDocument
    PROVE  cmd'.pc # "fill"
<1>1. cmd \in CommandType
  BY DEF CmdInv
<1>2. CASE \E name \in Commands : Begin(name)
  BY <1>2 DEF Begin, Command
<1>3. CASE load_manifest
  BY <1>1, <1>3, NoCommandTyped DEF load_manifest, Unprepared, Exit, CommandType
<1>4. CASE collect_are_files \/ check_source_file
  BY <1>1, <1>4 DEF collect_are_files, check_source_file, CommandType, At
<1>5. CASE CheckEnds \/ report \/ run_openapi_check \/ FmtEnds \/ FillDocument
  BY <1>5, NoCommandTyped DEF CheckEnds, report, run_openapi_check, FmtEnds, FillDocument, Exit
<1>6. CASE StaticChecksEnd
  BY <1>1, <1>6 DEF StaticChecksEnd, CommandType
<1>7. CASE Prepared
  <2>1. CASE \E ok : Exit(ok)
    BY <2>1, NoCommandTyped DEF Exit
  <2>2. CASE Goto("truncate") \/ Goto("compare")
    BY <1>1, <2>2 DEF Goto, CommandType
  <2>3. CASE \E checks : cmd' = [cmd EXCEPT !.pc = "report", !.checks = checks]
    BY <1>1, <2>3 DEF CommandType
  <2>4. QED
    BY <1>1, <1>7, <2>1, <2>2, <2>3 DEF Prepared, Unprepared, CommandType
<1>8. CASE run_fmt
  BY <1>1, <1>8, NoCommandTyped DEF run_fmt, Exit, CommandType, At
<1>9. CASE FillSource
  BY <1>1, <1>9 DEF FillSource, CommandType
<1>10. CASE create_project \/ WriteManifest \/ WriteMain
  BY <1>1, <1>10, NoCommandTyped DEF create_project, WriteManifest, WriteMain, Goto, Exit, CommandType
<1>11. CASE \E killed \in BOOLEAN : Interrupted(killed)
  BY <1>11, NoCommandTyped DEF Interrupted
<1>12. QED
  BY <1>2, <1>3, <1>4, <1>5, <1>6, <1>7, <1>8, <1>9, <1>10, <1>11 DEF Next

\* Every step keeps a fresh document that of the program.
LEMMA FreshStep ==
    ASSUME CmdInv, ReadInv, NewInv, FmtInv, FreshInv, [Next]_vars
    PROVE  FreshInv'
<1>1. CASE UNCHANGED vars
  <2>1. /\ source' = source /\ toml' = toml /\ openapi' = openapi /\ dirty' = dirty
        /\ fresh' = fresh /\ cmd' = cmd
    BY <1>1 DEF vars
  <2>2. Held' = Held
    BY <2>1 DEF Held, At
  <2>3. QED
    BY <2>1, <2>2, FreshSame DEF FreshInv
<1>2. CASE Edit
  BY <1>2 DEF Edit, FreshInv
<1>3. CASE TruncateSource \/ FillSource
  BY <1>3, FreshFmt
<1>4. CASE TruncateDocument
  BY <1>4 DEF TruncateDocument, FreshInv
<1>5. CASE FillDocument
  BY <1>5, FreshExport
<1>6. CASE WriteManifest \/ WriteMain
  <2>1. fresh' = fresh /\ (At("toml") \/ At("toml_fill") \/ At("main") \/ At("main_fill"))
    BY <1>6 DEF WriteManifest, WriteMain
  <2>2. ~fresh
    BY <2>1, DocumentHasService DEF FreshInv, NewInv, At
  <2>3. QED
    BY <2>1, <2>2 DEF FreshInv
<1>7. CASE Next /\ ~Edit /\ ~TruncateSource /\ ~FillSource /\ ~TruncateDocument /\ ~FillDocument
            /\ ~WriteManifest /\ ~WriteMain
  <2>1. /\ source' = source /\ toml' = toml /\ openapi' = openapi
        /\ dirty' = dirty \/ ~dirty'
        /\ fresh' => fresh /\ (cmd.pc = "fill" => \E name \in Commands : Begin(name))
    <3>1. CASE \E name \in Commands : Begin(name)
      BY <3>1 DEF Begin
    <3>2. CASE \E killed \in BOOLEAN : Interrupted(killed)
      BY <3>2 DEF Interrupted, EditorKept
    <3>3. CASE create_project
      BY <3>3 DEF create_project, FilesKept, EditorKept, At
    <3>4. CASE \/ load_manifest \/ collect_are_files \/ check_source_file \/ CheckEnds
               \/ StaticChecksEnd \/ Prepared \/ report \/ run_openapi_check \/ run_fmt \/ FmtEnds
      <4>1. FilesKept /\ EditorKept /\ cmd.pc \in {"manifest", "collect", "read", "report", "compare", "format"}
        <5>1. CASE load_manifest \/ collect_are_files \/ check_source_file
          BY <5>1 DEF load_manifest, collect_are_files, check_source_file, At
        <5>2. CASE CheckEnds \/ StaticChecksEnd \/ Prepared
          BY <5>2 DEF CheckEnds, StaticChecksEnd, Prepared, AllRead, At
        <5>3. CASE report \/ run_openapi_check \/ run_fmt \/ FmtEnds
          BY <5>3 DEF report, run_openapi_check, run_fmt, FmtEnds, At
        <5>4. QED
          BY <3>4, <5>1, <5>2, <5>3
      <4>2. QED
        BY <4>1 DEF FilesKept, EditorKept
    <3>5. QED
      BY <1>7, <3>1, <3>2, <3>3, <3>4 DEF Next
  <2>2. (\E name \in Commands : Begin(name)) => cmd.pc = "idle"
    BY DEF Begin, At
  <2>3. CASE ~fresh'
    BY <2>3 DEF FreshInv
  <2>4. CASE fresh'
    <3>1. cmd.pc # "fill" /\ cmd'.pc # "fill"
      BY <1>7, <2>1, <2>2, <2>4, NotFilling
    <3>2. Held' = Held
      BY <2>1, <3>1 DEF Held, At
    <3>3. QED
      BY <2>1, <2>4, <3>2, FreshSame DEF FreshInv
  <2>5. QED
    BY <2>3, <2>4
<1>8. QED
  BY <1>1, <1>2, <1>3, <1>4, <1>5, <1>6, <1>7

-----------------------------------------------------------------------------
\* What fmt leaves.

\* Formatting gives the same program, tidy, that formats to itself.
LEMMA FormattedIsTidy ==
    ASSUME NEW content \in Sources, Formattable(content)
    PROVE  /\ format_source(content) = [content EXCEPT !.tidy = TRUE]
           /\ Formattable(format_source(content)) /\ format_source(content).tidy
<1>1. content \in Texts /\ content.comments = FALSE /\ content.items \notin {"broken", "absent"}
  BY FormattedTyped DEF Formattable, Texts
<1>2. \A a, b \in Texts :
         a.items = b.items /\ a.tidy = b.tidy /\ a.comments = b.comments => a = b
  BY DEF Texts
<1>3. /\ format_source(content) \in Texts /\ format_source(content).items = content.items
      /\ format_source(content).tidy = TRUE /\ format_source(content).comments = FALSE
  BY <1>1 DEF format_source, Texts
<1>4. /\ [content EXCEPT !.tidy = TRUE] \in Texts
      /\ [content EXCEPT !.tidy = TRUE].items = content.items
      /\ [content EXCEPT !.tidy = TRUE].tidy = TRUE
      /\ [content EXCEPT !.tidy = TRUE].comments = FALSE
  BY <1>1 DEF Texts
<1>5. format_source(content) = [content EXCEPT !.tidy = TRUE]
  BY <1>2, <1>3, <1>4
<1>6. QED
  BY <1>1, <1>3, <1>5 DEF Formattable

\* A fmt that nobody disturbs passed some files, tore at most the next, and
\* touched no other.
LEMMA FmtReached ==
    ASSUME CmdInv, ReadInv, FmtInv, ~dirty, cmd.name = "fmt"
    PROVE  \E k \in 1..Len(Files) + 1 : FormattedBefore(k, At("fill"))
<1>1. cmd.pc \in {"collect", "format", "truncate", "fill"}
  BY DEF CmdInv, CommandType, Positions, Placed, At, Preparing, NoCommand, Command
<1>2. Len(Files) \in Nat /\ DOMAIN Files = 1..Len(Files)
  BY FilesInjective
<1>3. CASE At("collect")
  <2>1. source = before.source
    BY <1>3 DEF FmtInv, Formatting
  <2>2. FormattedBefore(1, At("fill"))
    BY <1>2, <2>1 DEF FormattedBefore
  <2>3. 1 \in 1..Len(Files) + 1
    BY <1>2
  <2>4. QED
    BY <2>2, <2>3
<1>4. CASE ~At("collect")
  <2> DEFINE keep == {i \in DOMAIN Files : Files[i] \in Present}
             len == Len(cmd.files)
  <2>1. cmd.pc \in {"format", "truncate", "fill"} /\ cmd.files = PresentFiles
    BY <1>1, <1>4 DEF ReadInv, At
  <2>2. PICK e : /\ Enumerates(e, keep, len, Len(Files))
                 /\ \A j \in 1..len : cmd.files[j] = Files[e[j]]
    BY <2>1, Walk DEF CmdInv, FilesTyped
  <2>3. /\ len \in Nat /\ DOMAIN cmd.files = 1..len /\ cmd.at \in Nat /\ cmd.at >= 1
    <3>1. cmd.files \in Seq(Range(Files)) /\ cmd.at \in Nat
      BY DEF CmdInv, CommandType
    <3>2. cmd.at >= 1
      BY <1>2 DEF CmdInv, Counted
    <3>3. QED
      BY <3>1, <3>2
  <2>4. /\ e \in [1..len -> keep \cap 1..Len(Files)]
        /\ \A i, j \in 1..len : i < j => e[i] < e[j]
        /\ \A p \in keep \cap 1..Len(Files) : \E i \in 1..len : e[i] = p
    BY <2>2 DEF Enumerates
  <2> DEFINE k == IF cmd.at <= len THEN e[cmd.at] ELSE Len(Files) + 1
  <2>5. k \in 1..Len(Files) + 1
    <3>1. CASE cmd.at <= len
      <4>1. cmd.at \in 1..len
        BY <2>3, <3>1
      <4>2. e[cmd.at] \in 1..Len(Files)
        BY <2>4, <4>1
      <4>3. QED
        BY <1>2, <3>1, <4>2
    <3>2. CASE ~(cmd.at <= len)
      BY <1>2, <3>2
    <3>3. QED
      BY <3>1, <3>2
  <2>6. \A j \in 1..len :
           LET was == before.source[cmd.files[j]]
               is == source[cmd.files[j]]
           IN  /\ j < cmd.at => Formattable(was) /\ is = format_source(was)
               /\ j > cmd.at => is = was
               /\ j = cmd.at => is = IF At("fill") THEN Empty ELSE was
    BY <2>1, <2>3 DEF FmtInv, Formatting
  <2>7. ASSUME NEW i \in DOMAIN Files
        PROVE  LET was == before.source[Files[i]]
                   is == source[Files[i]]
               IN  \/ was = Absent /\ is = Absent
                   \/ i < k /\ Formattable(was) /\ is = [was EXCEPT !.tidy = TRUE]
                   \/ i >= k /\ is = was
                   \/ i = k /\ At("fill") /\ is = Empty
    <3>1. Files[i] \in Range(Files) /\ i \in 1..Len(Files)
      BY <1>2, FilesInjective
    <3>2. CASE i \notin keep
      <4>1. source[Files[i]] = Absent
        BY <3>1, <3>2 DEF Present, CmdInv, FilesTyped
      <4>2. before.source[Files[i]] = Absent
        BY <3>1, <4>1 DEF FmtInv, Formatting
      <4>3. QED
        BY <4>1, <4>2
    <3>3. CASE i \in keep
      <4>1. PICK j \in 1..len : e[j] = i
        BY <2>4, <3>1, <3>3
      <4>2. cmd.files[j] = Files[i]
        BY <2>2, <4>1
      <4>3. CASE j < cmd.at
        <5>1. i < k
          <6>1. CASE cmd.at <= len
            <7>1. cmd.at \in 1..len /\ j \in 1..len
              BY <2>3, <6>1
            <7>2. e[j] < e[cmd.at]
              BY <2>4, <4>3, <7>1
            <7>3. QED
              BY <4>1, <6>1, <7>2
          <6>2. CASE ~(cmd.at <= len)
            BY <1>2, <3>1, <6>2
          <6>3. QED
            BY <6>1, <6>2
        <5>2. Formattable(before.source[Files[i]]) /\ source[Files[i]] = format_source(before.source[Files[i]])
          BY <2>6, <4>1, <4>2, <4>3
        <5>3. before.source[Files[i]] \in Sources
          BY <3>1 DEF CmdInv, FilesTyped
        <5>4. source[Files[i]] = [before.source[Files[i]] EXCEPT !.tidy = TRUE]
          BY <5>2, <5>3, FormattedIsTidy
        <5> HIDE DEF k
        <5>5. QED
          BY <5>1, <5>2, <5>4
      <4>4. CASE j = cmd.at
        <5>1. i = k
          BY <4>1, <4>4
        <5>2. source[Files[i]] = IF At("fill") THEN Empty ELSE before.source[Files[i]]
          BY <2>6, <4>1, <4>2, <4>4
        <5>3. i >= k
          BY <3>1, <5>1
        <5> HIDE DEF k
        <5>4. QED
          BY <5>1, <5>2, <5>3
      <4>5. CASE j > cmd.at
        <5>1. i >= k
          <6>1. cmd.at \in 1..len /\ cmd.at <= len /\ cmd.at < j
            BY <2>3, <4>5
          <6>2. e[cmd.at] < e[j] /\ k = e[cmd.at]
            BY <2>4, <6>1
          <6>3. e[cmd.at] \in 1..Len(Files)
            BY <2>4, <6>1
          <6>4. QED
            BY <3>1, <4>1, <6>2, <6>3
        <5>2. source[Files[i]] = before.source[Files[i]]
          BY <2>6, <4>1, <4>2, <4>5
        <5> HIDE DEF k
        <5>3. QED
          BY <5>1, <5>2
      <4>6. QED
        BY <2>3, <4>3, <4>4, <4>5
    <3>4. QED
      BY <3>2, <3>3
  <2>8. FormattedBefore(k, At("fill"))
    <3> HIDE DEF k
    <3>1. QED
      BY <2>7 DEF FormattedBefore
  <2>9. QED
    BY <2>5, <2>8
<1>5. QED
  BY <1>3, <1>4

\* Nothing is said of a command that runs, and of most that ended.
LEMMA NothingSaid ==
    ASSUME last'.name \notin Formatting \cup {"audit", "new", "openapi_check"} \/ dirty'
    PROVE  Outcome'
<1>1. FmtOutcome'
  BY DEF FmtOutcome
<1>2. AuditVouchesForRun' /\ OnlyEditsDrift'
  BY DEF AuditVouchesForRun, OnlyEditsDrift, Formatting
<1>3. QED
  BY <1>1, <1>2 DEF Outcome

\* A fmt that ended before it was through, or was interrupted.
LEMMA FmtStopped ==
    ASSUME CmdInv, ReadInv, FmtInv, cmd.name \in Formatting, source' = source, before' = before,
           dirty' = dirty, last'.name = cmd.name, last'.ok = FALSE,
           cmd.name = "fmt_check" => last'.killed \/ dirty \/ ~Formatted
    PROVE  Outcome'
<1>1. CASE dirty
  BY <1>1, NothingSaid
<1>2. CASE ~dirty
  <2>1. cmd.name = "fmt_check" => source = before.source
    BY <1>2 DEF FmtInv
  <2>2. \E k \in 1..Len(Files) + 1 : FormattedBefore(k, TRUE)
    <3>1. CASE cmd.name = "fmt"
      <4>1. PICK k \in 1..Len(Files) + 1 : FormattedBefore(k, At("fill"))
        BY <1>2, <3>1, FmtReached
      <4>2. FormattedBefore(k, TRUE)
        BY <4>1 DEF FormattedBefore
      <4>3. QED
        BY <4>2
    <3>2. CASE cmd.name = "fmt_check"
      <4>1. FormattedBefore(1, TRUE)
        BY <2>1, <3>2, FilesInjective DEF FormattedBefore
      <4>2. 1 \in 1..Len(Files) + 1
        BY FilesInjective
      <4>3. QED
        BY <4>1, <4>2
    <3>3. QED
      BY <3>1, <3>2 DEF Formatting
  <2>3. \E k \in 1..Len(Files) + 1 : FormattedBefore(k, TRUE)'
    BY <2>2 DEF FormattedBefore
  <2>4. FmtOutcome'
    <3>1. Formatted' = Formatted
      <4>1. Present' = Present
        BY SameFilesPresent
      <4>2. QED
        BY <4>1 DEF Formatted
    <3>2. QED
      BY <1>2, <2>1, <2>3, <3>1 DEF FmtOutcome, FormattedBefore
  <2>5. AuditVouchesForRun' /\ OnlyEditsDrift'
    BY DEF AuditVouchesForRun, OnlyEditsDrift, Formatting
  <2>6. QED
    BY <2>4, <2>5 DEF Outcome
<1>3. QED
  BY <1>1, <1>2 DEF CmdInv, FilesTyped

\* One that came to the end of its files.
LEMMA FmtThrough ==
    ASSUME CmdInv, ReadInv, FmtInv, FmtEnds
    PROVE  Outcome'
<1>1. /\ At("format") /\ cmd.at > Len(cmd.files) /\ source' = source /\ before' = before
      /\ dirty' = dirty /\ last'.name = cmd.name /\ last'.ok = ~cmd.changed
      /\ cmd.name \in Formatting
  BY DEF FmtEnds, FilesKept, EditorKept, Exit, CmdInv, Placed, At
<1>2. CASE dirty
  BY <1>1, <1>2, NothingSaid
<1>3. CASE ~dirty
  <2>1. cmd.name = "fmt_check" => source = before.source
    BY <1>3, <1>1 DEF FmtInv
  <2>2. \E k \in 1..Len(Files) + 1 : FormattedBefore(k, FALSE)
    <3>1. CASE cmd.name = "fmt"
      <4>1. PICK k \in 1..Len(Files) + 1 : FormattedBefore(k, At("fill"))
        BY <1>3, <3>1, FmtReached
      <4>2. FormattedBefore(k, FALSE)
        BY <1>1, <4>1 DEF FormattedBefore, At
      <4>3. QED
        BY <4>2
    <3>2. CASE cmd.name = "fmt_check"
      <4>1. FormattedBefore(1, FALSE)
        BY <2>1, <3>2, FilesInjective DEF FormattedBefore
      <4>2. 1 \in 1..Len(Files) + 1
        BY FilesInjective
      <4>3. QED
        BY <4>1, <4>2
    <3>3. QED
      BY <1>1, <3>1, <3>2 DEF Formatting
  <2>3. \E k \in 1..Len(Files) + 1 : FormattedBefore(k, ~last.ok)'
    BY <1>1, <2>2 DEF FormattedBefore
  <2>4. ~cmd.changed => Formatted
    <3> SUFFICES ASSUME ~cmd.changed, NEW f \in Present
                 PROVE  Formattable(source[f]) /\ source[f].tidy
      BY DEF Formatted
    <3>1. cmd.files = PresentFiles
      BY <1>1, <1>3 DEF ReadInv, At
    <3>2. PICK i \in 1..Len(cmd.files) : cmd.files[i] = f
      BY <3>1, PresentListed DEF CmdInv, FilesTyped
    <3>3. i \in DOMAIN cmd.files /\ i < cmd.at /\ f \in Range(Files)
      <4>1. cmd.files \in Seq(Range(Files)) /\ cmd.at \in Nat
        BY DEF CmdInv, CommandType
      <4>2. QED
        BY <1>1, <3>2, <4>1
    <3>4. /\ Formattable(before.source[f])
          /\ cmd.name = "fmt" => source[f] = format_source(before.source[f])
          /\ cmd.name = "fmt_check" => before.source[f].tidy
      BY <1>1, <1>3, <3>2, <3>3 DEF FmtInv, At
    <3>5. before.source[f] \in Sources
      BY <3>3 DEF CmdInv, FilesTyped
    <3>6. QED
      BY <1>1, <2>1, <3>4, <3>5, FormattedIsTidy DEF Formatting
  <2>5. Formatted' = Formatted
    <3>1. Present' = Present
      BY <1>1, SameFilesPresent
    <3>2. QED
      BY <1>1, <3>1 DEF Formatted
  <2>6. FmtOutcome'
    <3>1. cmd.name = "fmt_check" /\ cmd.changed => ~Formatted
      BY <1>1, <1>3 DEF FmtInv
    <3>2. cmd.changed \in BOOLEAN
      BY DEF CmdInv, CommandType
    <3>3. QED
      BY <1>1, <2>1, <2>3, <2>4, <2>5, <3>1, <3>2 DEF FmtOutcome
  <2>7. AuditVouchesForRun' /\ OnlyEditsDrift'
    BY <1>1 DEF AuditVouchesForRun, OnlyEditsDrift, Formatting
  <2>8. QED
    BY <2>6, <2>7 DEF Outcome
<1>4. QED
  BY <1>2, <1>3 DEF CmdInv, FilesTyped

-----------------------------------------------------------------------------
\* The verdict of the audit, and the project that new leaves.

\* The audit passes exactly if each of its checks does.
LEMMA CapabilitiesPass ==
    ASSUME NEW manifest, manifest.capabilities \in BOOLEAN, manifest.process_spawn \in BOOLEAN
    PROVE  /\ audit_capabilities(manifest) \in Seq(Verdicts)
           /\ Passing(audit_capabilities(manifest)) <=>
                 /\ manifest.capabilities /\ manifest.server # None
                 /\ manifest.server \in manifest.network_listen /\ ~manifest.process_spawn
<1> DEFINE listen == audit_network_listen(manifest)
           spawn == IF manifest.process_spawn THEN "fail" ELSE "pass"
<1>1. /\ listen \in Verdicts /\ spawn \in Verdicts /\ "pass" \in Verdicts /\ "fail" \in Verdicts
      /\ listen # "fail" <=> manifest.server # None /\ manifest.server \in manifest.network_listen
      /\ spawn # "fail" <=> ~manifest.process_spawn
  BY DEF Verdicts, audit_network_listen
<1>2. audit_capabilities(manifest) = IF ~manifest.capabilities THEN <<"fail">>
                                     ELSE <<"pass", listen, spawn>>
  BY DEF audit_capabilities
<1> HIDE DEF listen, spawn
<1>3. /\ <<"fail">> \in Seq(Verdicts) /\ ~Passing(<<"fail">>)
      /\ <<"pass", listen, spawn>> \in Seq(Verdicts)
      /\ Passing(<<"pass", listen, spawn>>) <=> listen # "fail" /\ spawn # "fail"
  BY <1>1, VerdictsJoined
<1>4. QED
  BY <1>1, <1>2, <1>3

\* An audit that reports a pass has looked at what it vouches for.
LEMMA AuditReports ==
    ASSUME CmdInv, ReadInv, report
    PROVE  Outcome'
<1>1. /\ At("report") /\ source' = source /\ toml' = toml /\ dirty' = dirty /\ cmd.name = "audit"
      /\ last' = [name |-> "audit", killed |-> FALSE,
                  ok |-> Passing(cmd.checks \o audit_capabilities(cmd.manifest))]
  BY DEF report, FilesKept, EditorKept, Exit, CmdInv, Placed, At, Passing
<1>2. CASE dirty
  BY <1>1, <1>2, NothingSaid
<1>3. CASE ~dirty
  <2>1. cmd.manifest = toml /\ Readable /\ (Passing(cmd.checks) <=> ProgramPasses)
    BY <1>1, <1>3 DEF ReadInv, At
  <2>2. toml.capabilities \in BOOLEAN /\ toml.process_spawn \in BOOLEAN
    BY <2>1, ProjectAssumption DEF Readable, CmdInv, FilesTyped, AllManifests
  <2>3. cmd.checks \in Seq(Verdicts)
    BY DEF CmdInv, CommandType
  <2>4. Passing(cmd.checks \o audit_capabilities(toml)) <=>
           Passing(cmd.checks) /\ Passing(audit_capabilities(toml))
    BY <2>2, <2>3, CapabilitiesPass, VerdictsJoined
  <2>5. AuditPasses <=> ProgramPasses /\ Passing(audit_capabilities(toml))
    BY <2>2, CapabilitiesPass DEF AuditPasses, ProgramPasses, OneService
  <2>6. last'.ok = (Readable /\ AuditPasses)
    <3>1. Readable
      BY <2>1
    <3>2. last'.ok = Passing(cmd.checks \o audit_capabilities(toml))
      BY <1>1, <2>1
    <3>3. Passing(cmd.checks \o audit_capabilities(toml)) <=> AuditPasses
      BY <2>1, <2>4, <2>5
    <3>4. Passing(cmd.checks \o audit_capabilities(toml)) \in BOOLEAN
      BY DEF Passing
    <3>5. AuditPasses \in BOOLEAN
      BY DEF AuditPasses
    <3>6. QED
      BY <3>1, <3>2, <3>3, <3>4, <3>5, Zenon
  <2>7. AuditPasses' = AuditPasses /\ Readable' = Readable
    BY <1>1, SameFiles DEF AuditPasses, OneService
  <2>8. AuditVouchesForRun'
    BY <1>1, <2>6, <2>7 DEF AuditVouchesForRun
  <2>9. FmtOutcome' /\ OnlyEditsDrift'
    BY <1>1 DEF FmtOutcome, OnlyEditsDrift, Formatting
  <2>10. QED
    BY <2>8, <2>9 DEF Outcome
<1>4. QED
  BY <1>2, <1>3 DEF CmdInv, FilesTyped

\* What new leaves when it has succeeded.
LEMMA NewDone ==
    ASSUME CmdInv, NewInv, WriteMain, At("main_fill")
    PROVE  Outcome'
<1>1. /\ source' = [source EXCEPT ![Main] = Written] /\ toml' = toml /\ openapi' = openapi
      /\ dirty' = dirty /\ last' = [name |-> "new", ok |-> TRUE, killed |-> FALSE]
      /\ before' = before
  BY DEF WriteMain, EditorKept, Exit, CmdInv, Placed, At
<1>2. CASE dirty
  BY <1>1, <1>2, NothingSaid
<1>3. CASE ~dirty
  <2>1. Present = {Main} /\ openapi = NoDocument /\ toml = Template /\ before = Nothing
    BY <1>3 DEF NewInv, At
  <2>2. Written # Absent /\ Written.items = "service"
    BY DEF Written, Absent
  <2>3. Present' = {Main} /\ source'[Main] = Written
    BY <1>1, <2>1, <2>2 DEF Present
  <2>4. Services' = {Main}
    BY <2>2, <2>3 DEF Services, has_service
  <2>5. Sound' /\ Cardinality(Services') = 1 /\ \A f \in Services' : source'[f].items = "service"
    BY <2>2, <2>3, <2>4, FS_Singleton DEF Sound, has_diagnostics
  <2>6. AuditPasses'
    BY <1>1, <2>1, <2>3, <2>5, ProjectAssumption DEF AuditPasses
  <2>7. AuditVouchesForRun'
    <3>1. DOMAIN source' = Range(Files)
      BY <1>1 DEF CmdInv, FilesTyped
    <3>2. ~HeldFiles'
      BY <1>1, <2>1, <3>1 DEF HeldFiles, NothingBefore, Nothing
    <3>3. QED
      BY <1>1, <2>1, <2>3, <2>6, <3>2 DEF AuditVouchesForRun
  <2>8. FmtOutcome' /\ OnlyEditsDrift'
    BY <1>1 DEF FmtOutcome, OnlyEditsDrift, Formatting
  <2>9. QED
    BY <2>7, <2>8 DEF Outcome
<1>4. QED
  BY <1>2, <1>3 DEF CmdInv, FilesTyped

-----------------------------------------------------------------------------
\* The verdict of openapi --check.

\* What an exported document says of the files, when fmt tears none.
LEMMA DocumentedSound ==
    ASSUME CmdInv, Documented, ~(At("fill") /\ cmd.name = "fmt")
    PROVE  /\ Sound /\ OneService
           /\ openapi = [server |-> toml.server,
                         items |-> {source[f].items : f \in Range(Files)} \ {"empty", "absent"}]
<1>1. Held = [f \in Range(Files) |-> source[f].items]
  BY NothingTorn
<1>2. Sound
  BY <1>1 DEF Documented, Sound, Present, has_diagnostics, CmdInv, FilesTyped, Sources, Texts
<1>3. OneService
  <2>1. PICK f \in Range(Files) : /\ has_service(source[f].items)
                                  /\ \A g \in Range(Files) : has_service(source[g].items) => g = f
    BY <1>1 DEF Documented
  <2>2. Services = {f}
    BY <2>1, ItemsTell DEF Services, Present, has_service, CmdInv, FilesTyped
  <2>3. QED
    BY <2>2, FS_Singleton DEF OneService
<1>4. {Held[f] : f \in Range(Files)} = {source[f].items : f \in Range(Files)}
  BY <1>1
<1>5. QED
  BY <1>2, <1>3, <1>4 DEF Documented

\* The document of the files as they are, and whether there is one.
FilesDocument ==
    [server |-> toml.server, items |-> {source[f].items : f \in Present} \ {"empty"}]

Preparable == Readable /\ Serves /\ Sound /\ OneService

\* It is that of what they hold, the files that are not there left out.
LEMMA FilesDocumentIs ==
    ASSUME CmdInv
    PROVE  FilesDocument =
              [server |-> toml.server,
               items |-> {source[f].items : f \in Range(Files)} \ {"empty", "absent"}]
<1>1. \A f \in Range(Files) : f \in Present <=> source[f].items # "absent"
  BY ItemsTell
<1>2. Present \subseteq Range(Files)
  BY DEF Present, CmdInv, FilesTyped
<1>3. {source[f].items : f \in Present} \ {"empty"}
      = {source[f].items : f \in Range(Files)} \ {"empty", "absent"}
  BY <1>1, <1>2
<1>4. QED
  BY <1>3 DEF FilesDocument

\* The verdict of an openapi --check that ended, if it is that of the files.
LEMMA CheckEnded ==
    ASSUME CmdInv, source' = source, toml' = toml, last'.name = "openapi_check",
           last'.ok = (Preparable /\ openapi' = FilesDocument), fresh' => last'.ok
    PROVE  Outcome'
<1>1. Preparable' = Preparable /\ FilesDocument' = FilesDocument
  BY SameFiles DEF Preparable, FilesDocument
<1>2. OnlyEditsDrift'
  BY <1>1 DEF OnlyEditsDrift, Preparable, OneService, FilesDocument
<1>3. FmtOutcome' /\ AuditVouchesForRun'
  BY DEF FmtOutcome, AuditVouchesForRun, Formatting
<1>4. QED
  BY <1>2, <1>3 DEF Outcome

\* openapi --check fails before it compares only when there is nothing fresh,
\* and no program to compare with.
LEMMA CheckFails ==
    ASSUME CmdInv, source' = source, toml' = toml,
           last'.name = "openapi_check", last'.ok = FALSE, last'.killed \/ (~fresh' /\ ~Preparable)
    PROVE  Outcome'
<1>1. CASE last'.killed
  BY <1>1 DEF Outcome, FmtOutcome, AuditVouchesForRun, OnlyEditsDrift, Formatting
<1>2. CASE ~fresh' /\ ~Preparable
  BY <1>2, CheckEnded
<1>3. QED
  BY <1>1, <1>2

\* openapi --check succeeds exactly if document and program agree.
LEMMA CheckCompares ==
    ASSUME CmdInv, ReadInv, FreshInv, run_openapi_check
    PROVE  Outcome'
<1> DEFINE document == openapi_document(cmd.manifest, cmd.found)
<1>1. /\ At("compare") /\ source' = source /\ toml' = toml /\ dirty' = dirty /\ fresh' = fresh
      /\ openapi' = openapi /\ cmd.name = "openapi_check"
      /\ last' = [name |-> "openapi_check", ok |-> (openapi = document), killed |-> FALSE]
  BY DEF run_openapi_check, FilesKept, EditorKept, Exit, CmdInv, Placed, At
<1>2. CASE dirty
  BY <1>1, <1>2, NothingSaid
<1>3. CASE ~dirty
  <2>1. /\ cmd.manifest = toml /\ cmd.files = PresentFiles /\ Readable /\ Serves
        /\ \A i \in DOMAIN cmd.found : cmd.found[i] = source[cmd.files[i]].items
    BY <1>1, <1>3 DEF ReadInv, Prepares, Preparing, Formatting, At
  <2>2. Len(cmd.found) = Len(cmd.files) /\ IsPrepared(cmd.found)
    BY <1>1 DEF CmdInv, Counted, At
  <2>3. Sound /\ OneService
    BY <2>1, <2>2, WhatWasRead DEF IsPrepared
  <2>4. document = [server |-> toml.server,
                    items |-> {source[f].items : f \in Range(Files)} \ {"empty", "absent"}]
    BY <2>1, <2>2, ItemsRead DEF openapi_document
  <2>5. document = FilesDocument
    BY <2>4, FilesDocumentIs
  <2>6. fresh => openapi = document
    BY <1>1, <2>4, DocumentedSound DEF FreshInv, At
  <2> HIDE DEF document
  <2>7. last'.ok = (openapi = FilesDocument)
    BY <1>1, <2>5
  <2>8. Preparable
    BY <2>1, <2>3 DEF Preparable
  <2>9. QED
    BY <1>1, <2>5, <2>6, <2>7, <2>8, CheckEnded
<1>4. QED
  BY <1>2, <1>3 DEF CmdInv, FilesTyped

\* A command that goes on has not ended yet.
LEMMA NotEnded ==
    ASSUME CmdInv, ~At("idle"), UNCHANGED last
    PROVE  Outcome'
<1>1. last'.name = "none"
  BY DEF CmdInv, FilesTyped, NoResult
<1>2. QED
  BY <1>1, NothingSaid DEF Formatting

\* One that ends, whose verdict is its own business.
LEMMA OtherEnded ==
    ASSUME NEW ok, Exit(ok), cmd.name \notin Formatting \cup {"audit", "new", "openapi_check"}
    PROVE  Outcome'
BY NothingSaid DEF Exit

\* A manifest that cannot be read, or that no server can be run from.
LEMMA ManifestRefused ==
    ASSUME CmdInv, ReadInv, FreshInv, load_manifest
    PROVE  Outcome'
<1>1. /\ At("manifest") /\ source' = source /\ toml' = toml /\ dirty' = dirty /\ fresh' = fresh
      /\ cmd.name \in Preparing \cup {"audit"} /\ cmd.round \in 1..2
  BY DEF load_manifest, FilesKept, EditorKept, CmdInv, Placed, CommandType
<1>2. CASE UNCHANGED last
  BY <1>1, <1>2, NotEnded DEF At
<1>3. CASE Exit(FALSE) /\ cmd.name = "audit" /\ ~Readable
  <2>1. last' = [name |-> "audit", ok |-> FALSE, killed |-> FALSE]
    BY <1>3 DEF Exit
  <2>2. ~Readable'
    BY <1>1, <1>3 DEF Readable
  <2>3. AuditVouchesForRun'
    BY <2>1, <2>2 DEF AuditVouchesForRun
  <2>4. FmtOutcome' /\ OnlyEditsDrift'
    BY <2>1 DEF FmtOutcome, OnlyEditsDrift, Formatting
  <2>5. QED
    BY <2>3, <2>4 DEF Outcome
<1>4. CASE Exit(FALSE) /\ cmd.name \in Preparing /\ ~(Readable /\ Serves)
  <2>1. CASE cmd.name = "openapi_check"
    <3>1. ~fresh' /\ ~Preparable
      BY <1>1, <1>4 DEF FreshInv, Preparable
    <3>2. last'.name = "openapi_check" /\ last'.ok = FALSE
      BY <1>4, <2>1 DEF Exit
    <3>3. QED
      BY <1>1, <3>1, <3>2, CheckFails
  <2>2. CASE cmd.name # "openapi_check"
    BY <1>4, <2>2, OtherEnded DEF Preparing, Formatting
  <2>3. QED
    BY <2>1, <2>2
<1>5. QED
  <2>1. CASE Readable /\ (Prepares => Serves)
    BY <1>2, <2>1 DEF load_manifest
  <2>2. CASE ~(Readable /\ (Prepares => Serves)) /\ cmd.name = "audit"
    <3>1. Prepares => UNCHANGED last
      BY <2>2 DEF load_manifest, Unprepared
    <3>2. ~Prepares => Exit(FALSE) /\ ~Readable
      BY <2>2 DEF load_manifest
    <3>3. QED
      BY <1>2, <1>3, <2>2, <3>1, <3>2
  <2>3. CASE ~(Readable /\ (Prepares => Serves)) /\ cmd.name \in Preparing
    <3>1. Prepares /\ cmd.name # "audit"
      BY <2>3 DEF Prepares, Preparing
    <3>2. Exit(FALSE)
      BY <2>3, <3>1 DEF load_manifest, Unprepared
    <3>3. QED
      BY <1>4, <2>3, <3>1, <3>2
  <2>4. QED
    BY <1>1, <2>1, <2>2, <2>3

\* A program that is not prepared is not the one of a fresh document.
LEMMA PreparedOutcome ==
    ASSUME CmdInv, ReadInv, FreshInv, Prepared
    PROVE  Outcome'
<1>1. /\ At("read") /\ source' = source /\ toml' = toml /\ dirty' = dirty /\ fresh' = fresh
      /\ Prepares /\ AllRead
  BY DEF Prepared, AllRead, FilesKept, EditorKept
<1>2. CASE UNCHANGED last
  BY <1>1, <1>2, NotEnded DEF At
<1>3. CASE cmd.name \in {"inspect", "run"} /\ \E ok : Exit(ok)
  BY <1>3, OtherEnded DEF Formatting
<1>4. CASE Exit(FALSE) /\ ~IsPrepared(cmd.found) /\ cmd.name # "audit"
  <2>1. cmd.name \in Preparing
    BY <1>1, <1>4 DEF Prepares, CmdInv, Placed
  <2>2. CASE cmd.name = "openapi_check"
    <3>1. last'.name = "openapi_check" /\ last'.ok = FALSE
      BY <1>4, <2>2 DEF Exit
    <3>2. CASE dirty
      BY <1>1, <3>2, NothingSaid
    <3>3. CASE ~dirty
      <4>1. /\ cmd.files = PresentFiles
            /\ \A i \in DOMAIN cmd.found : cmd.found[i] = source[cmd.files[i]].items
        BY <1>1, <2>2, <3>3 DEF ReadInv, Formatting, At
      <4>2. Len(cmd.found) = Len(cmd.files)
        BY <1>1, ReadToTheEnd DEF AllRead
      <4>3. ~(Sound /\ OneService)
        BY <1>4, <4>1, <4>2, WhatWasRead DEF IsPrepared
      <4>4. ~fresh /\ ~Preparable
        BY <1>1, <4>3, DocumentedSound DEF FreshInv, Preparable, At
      <4>5. QED
        BY <1>1, <3>1, <4>4, CheckFails
    <3>4. QED
      BY <3>2, <3>3
  <2>3. CASE cmd.name # "openapi_check"
    BY <1>4, <2>1, <2>3, OtherEnded DEF Preparing, Formatting
  <2>4. QED
    BY <2>2, <2>3
<1>5. QED
  <2>1. CASE ~IsPrepared(cmd.found)
    BY <1>2, <1>4, <2>1 DEF Prepared, Unprepared
  <2>2. CASE IsPrepared(cmd.found)
    BY <1>2, <1>3, <2>2 DEF Prepared
  <2>3. QED
    BY <2>1, <2>2

\* A new that did not come to its end has left alone what it found.
LEMMA NewStopped ==
    ASSUME CmdInv, NewInv, cmd.pc \in {"new", "toml", "toml_fill", "main", "main_fill"},
           last'.name = "new", last'.ok = FALSE,
           source' = source, toml' = toml, openapi' = openapi, before' = before, dirty' = dirty
    PROVE  Outcome'
<1>1. DOMAIN source = Range(Files)
  BY DEF CmdInv, FilesTyped
<1>2. ASSUME ~dirty, HeldFiles
      PROVE  before = [source |-> source, toml |-> toml]
  <2>1. ~(before = Nothing /\ openapi = NoDocument)
    BY <1>1, <1>2 DEF HeldFiles, NothingBefore, Nothing
  <2>2. At("new")
    BY <1>2, <2>1 DEF NewInv, At
  <2>3. QED
    BY <1>2, <2>2 DEF NewInv
<1>3. HeldFiles' = HeldFiles
  BY DEF HeldFiles, NothingBefore
<1>4. AuditVouchesForRun'
  BY <1>2, <1>3 DEF AuditVouchesForRun
<1>5. FmtOutcome' /\ OnlyEditsDrift'
  BY DEF FmtOutcome, OnlyEditsDrift, Formatting
<1>6. QED
  BY <1>4, <1>5 DEF Outcome

\* A command that is killed, or whose write fails.
LEMMA InterruptedOutcome ==
    ASSUME CmdInv, ReadInv, NewInv, FmtInv, NEW killed \in BOOLEAN, Interrupted(killed)
    PROVE  Outcome'
<1>1. /\ source' = source /\ before' = before /\ dirty' = dirty /\ toml' = toml /\ openapi' = openapi
      /\ last' = [name |-> cmd.name, ok |-> FALSE, killed |-> killed] /\ (killed \/ Writing)
  BY DEF Interrupted, EditorKept
<1>2. CASE cmd.name \in Formatting
  <2>1. cmd.name = "fmt_check" => killed
    BY <1>1 DEF Writing, CmdInv, Placed
  <2>2. QED
    BY <1>1, <1>2, <2>1, FmtStopped
<1>3. CASE cmd.name = "audit"
  <2>1. killed
    BY <1>1, <1>3 DEF Writing, CmdInv, Placed
  <2>2. FmtOutcome' /\ AuditVouchesForRun' /\ OnlyEditsDrift'
    BY <1>1, <1>3, <2>1 DEF FmtOutcome, AuditVouchesForRun, OnlyEditsDrift, Formatting
  <2>3. QED
    BY <2>2 DEF Outcome
<1>4. CASE cmd.name = "new"
  <2>1. /\ ~At("idle") /\ ~At("manifest") /\ ~At("collect") /\ ~At("read") /\ ~At("compare")
        /\ ~At("report") /\ ~At("format") /\ ~At("truncate") /\ ~At("fill")
    BY <1>4, NoCommandTyped DEF CmdInv, Placed, At, Preparing, Formatting
  <2>2. cmd.pc \in {"new", "toml", "toml_fill", "main", "main_fill"}
    BY <2>1 DEF CmdInv, CommandType, Positions, At
  <2>3. last'.name = "new" /\ last'.ok = FALSE
    BY <1>1, <1>4
  <2>4. QED
    BY <1>1, <2>2, <2>3, NewStopped
<1>5. CASE cmd.name = "openapi_check"
  <2>1. killed
    BY <1>1, <1>5 DEF Writing, CmdInv, Placed
  <2>2. last'.name = "openapi_check" /\ last'.ok = FALSE /\ last'.killed
    BY <1>1, <1>5, <2>1
  <2>3. QED
    BY <1>1, <2>2, CheckFails
<1>6. CASE cmd.name \notin Formatting \cup {"audit", "new", "openapi_check"}
  BY <1>1, <1>6, NothingSaid
<1>7. QED
  BY <1>2, <1>3, <1>4, <1>5, <1>6

\* fmt ends before the end of its files only at one it cannot format.
LEMMA FmtRefuses ==
    ASSUME CmdInv, At("format"), run_fmt, Exit(FALSE)
    PROVE  cmd.at <= Len(cmd.files) /\ ~Formattable(source[cmd.files[cmd.at]])
<1>1. cmd'.pc = "idle"
  BY NoCommandTyped DEF Exit
<1>2. cmd \in CommandType
  BY DEF CmdInv
<1>3. ASSUME Formattable(source[cmd.files[cmd.at]])
      PROVE  cmd'.pc # "idle"
  BY <1>2, <1>3 DEF run_fmt, At, CommandType
<1>4. QED
  BY <1>1, <1>3 DEF run_fmt

\* Every step keeps what an exit code promises.
LEMMA OutcomeStep ==
    ASSUME Inv, [Next]_vars
    PROVE  Outcome'
<1>1. CmdInv /\ ReadInv /\ NewInv /\ FmtInv /\ FreshInv /\ Outcome
  BY DEF Inv
<1>2. CASE UNCHANGED vars
  <2>1. /\ source' = source /\ toml' = toml /\ openapi' = openapi /\ last' = last
        /\ dirty' = dirty /\ fresh' = fresh /\ before' = before
    BY <1>2 DEF vars
  <2>2. /\ Present' = Present /\ Services' = Services /\ Sound' = Sound /\ AuditPasses' = AuditPasses
        /\ Formatted' = Formatted /\ Readable' = Readable /\ Serves' = Serves
        /\ HeldFiles' = HeldFiles
    BY <2>1, SameFiles DEF Services, Sound, AuditPasses, HeldFiles, NothingBefore
  <2>3. FmtOutcome'
    BY <1>1, <2>1, <2>2 DEF Outcome, FmtOutcome, FormattedBefore
  <2>4. AuditVouchesForRun' /\ OnlyEditsDrift'
    BY <1>1, <2>1, <2>2 DEF Outcome, AuditVouchesForRun, OnlyEditsDrift
  <2>5. QED
    BY <2>3, <2>4 DEF Outcome
<1>3. CASE \E name \in Commands : Begin(name)
  BY <1>3, NothingSaid DEF Begin, NoResult, Formatting
<1>4. CASE load_manifest
  BY <1>1, <1>4, ManifestRefused
<1>5. CASE collect_are_files \/ check_source_file \/ StaticChecksEnd
  BY <1>1, <1>5, NotEnded DEF collect_are_files, check_source_file, StaticChecksEnd, AllRead, At
<1>6. CASE CheckEnds
  BY <1>6, OtherEnded DEF CheckEnds, Formatting
<1>7. CASE Prepared
  BY <1>1, <1>7, PreparedOutcome
<1>8. CASE report
  BY <1>1, <1>8, AuditReports
<1>9. CASE run_openapi_check
  BY <1>1, <1>9, CheckCompares
<1>10. CASE run_fmt
  <2>1. At("format") /\ cmd.name \in Formatting
    BY <1>1, <1>10 DEF run_fmt, CmdInv, Placed
  <2>2. CASE UNCHANGED last
    BY <1>1, <2>1, <2>2, NotEnded DEF At
  <2>3. CASE Exit(FALSE)
    <3>1. /\ source' = source /\ before' = before /\ dirty' = dirty
          /\ last'.name = cmd.name /\ last'.ok = FALSE
      BY <1>10, <2>3 DEF run_fmt, FilesKept, EditorKept, Exit
    <3>2. ~dirty => ~Formatted
      <4>1. cmd.at <= Len(cmd.files) /\ ~Formattable(source[cmd.files[cmd.at]])
        BY <1>1, <1>10, <2>1, <2>3, FmtRefuses
      <4>2. cmd.at \in 1..Len(cmd.files)
        BY <1>1, <2>1, <4>1, NextFile
      <4>3. ~dirty => cmd.files[cmd.at] \in Present
        BY <1>1, <2>1, <4>2, PresentListed DEF ReadInv, CmdInv, FilesTyped, At
      <4>4. QED
        BY <4>1, <4>3 DEF Formatted
    <3>3. QED
      BY <1>1, <2>1, <3>1, <3>2, FmtStopped
  <2>4. QED
    BY <1>10, <2>2, <2>3 DEF run_fmt
<1>11. CASE FmtEnds
  BY <1>1, <1>11, FmtThrough
<1>12. CASE TruncateSource \/ FillSource \/ TruncateDocument \/ WriteManifest
  BY <1>1, <1>12, NotEnded DEF TruncateSource, FillSource, TruncateDocument, WriteManifest, At
<1>13. CASE FillDocument
  BY <1>13, OtherEnded DEF FillDocument, Formatting
<1>14. CASE create_project
  <2>1. At("new") /\ cmd.name = "new"
    BY <1>1, <1>14 DEF create_project, CmdInv, Placed, At
  <2>2. CASE UNCHANGED last
    BY <1>1, <2>1, <2>2, NotEnded DEF At
  <2>3. CASE Exit(FALSE)
    <3>1. last' = [name |-> "new", ok |-> FALSE, killed |-> FALSE]
      BY <2>1, <2>3 DEF Exit
    <3>2. /\ source' = source /\ toml' = toml /\ openapi' = openapi /\ before' = before
          /\ dirty' = dirty /\ cmd.pc = "new"
      BY <1>14, <2>1 DEF create_project, FilesKept, EditorKept, At
    <3>3. QED
      BY <1>1, <3>1, <3>2, NewStopped
  <2>4. QED
    BY <1>14, <2>2, <2>3 DEF create_project
<1>15. CASE WriteMain
  <2>1. CASE At("main_fill")
    BY <1>1, <1>15, <2>1, NewDone
  <2>2. CASE At("main")
    BY <1>1, <1>15, <2>2, NotEnded DEF WriteMain, At
  <2>3. QED
    BY <1>15, <2>1, <2>2 DEF WriteMain
<1>16. CASE \E killed \in BOOLEAN : Interrupted(killed)
  BY <1>1, <1>16, InterruptedOutcome
<1>17. CASE Edit
  BY <1>17, NothingSaid DEF Edit
<1>18. QED
  BY <1>2, <1>3, <1>4, <1>5, <1>6, <1>7, <1>8, <1>9, <1>10, <1>11, <1>12, <1>13, <1>14, <1>15,
     <1>16, <1>17 DEF Next

-----------------------------------------------------------------------------
\* The theorems.

\* The invariant holds before the first command.
LEMMA InvInit == Init => Inv
<1> SUFFICES ASSUME Init PROVE Inv
  OBVIOUS
<1>1. CmdInv
  BY CmdInit
<1>2. /\ cmd = NoCommand /\ last = NoResult /\ ~fresh
      /\ cmd.pc = "idle" /\ cmd.name = "none" /\ cmd.round = 1
  BY NoCommandTyped DEF Init
<1>3. ReadInv
  BY <1>2 DEF ReadInv, Prepares, Preparing, At
<1>4. NewInv /\ FmtInv /\ FreshInv
  BY <1>2 DEF NewInv, FmtInv, FreshInv, Formatting, At
<1>5. FmtOutcome /\ AuditVouchesForRun /\ OnlyEditsDrift
  BY <1>2 DEF NoResult, FmtOutcome, AuditVouchesForRun, OnlyEditsDrift, Formatting
<1>6. QED
  BY <1>1, <1>3, <1>4, <1>5 DEF Inv, Outcome

\* The invariant holds of every behaviour.
LEMMA InvAlways == Spec => []Inv
<1>1. Inv /\ [Next]_vars => Inv'
  <2> SUFFICES ASSUME Inv, [Next]_vars PROVE Inv'
    OBVIOUS
  <2>1. CmdInv /\ ReadInv /\ NewInv /\ FmtInv /\ FreshInv
    BY DEF Inv
  <2>2. CmdInv'
    BY <2>1, CmdStep
  <2>3. ReadInv' /\ NewInv' /\ FmtInv' /\ FreshInv'
    BY <2>1, <2>2, ReadStep, NewStep, FmtStep, FreshStep
  <2>4. QED
    BY <2>2, <2>3, OutcomeStep DEF Inv
<1>2. QED
  BY <1>1, InvInit, PTL DEF Spec

\* No command leaves its steps: what it found keeps pace with what it read, it
\* holds a text only to write it, its report has at most three checks before
\* those of the capabilities, and a document counts as fresh only once it was
\* written (main.rs).
THEOREM CliTypeCorrect == Spec => []TypeOK
<1>1. Inv => TypeOK
  <2> SUFFICES ASSUME Inv PROVE TypeOK
    OBVIOUS
  <2>1. CmdInv /\ FreshInv
    BY DEF Inv
  <2>2. cmd.name \in Commands \cup {"none"} /\ cmd.round \in 1..2
    BY <2>1 DEF CmdInv, CommandType, AllCommands
  <2>3. cmd.text # Absent => cmd.name = "fmt" /\ Writing
    BY <2>1 DEF CmdInv, Counted, Writing
  <2>4. fresh => openapi \notin {NoDocument, EmptyDocument} /\ edits <= MaxEdits
    BY <2>1, DocumentHasService, ProjectAssumption DEF FreshInv, CmdInv, FilesTyped
  <2>5. QED
    BY <2>1, <2>2, <2>3, <2>4 DEF TypeOK, CmdInv, FilesTyped, Counted, At
<1>2. QED
  BY <1>1, InvAlways, PTL

\* Wherever a fmt stops (at a file it refuses, at a write that fails, killed),
\* it formatted the files before that one, keeps every declaration and every
\* comment, and at most the file it was writing is empty; fmt --check writes
\* nothing and succeeds exactly when every file is formatted; and a fmt that
\* succeeds leaves every file formatted (run_fmt).
THEOREM FmtKeeps == Spec => []FmtKeepsThePrograms
<1>1. Inv => FmtKeepsThePrograms
  <2> SUFFICES ASSUME Inv PROVE FmtKeepsThePrograms
    OBVIOUS
  <2>1. CmdInv /\ ReadInv /\ FmtInv /\ FmtOutcome
    BY DEF Inv, Outcome
  <2>2. ASSUME cmd.name = "fmt_check", ~dirty PROVE source = before.source
    BY <2>1, <2>2 DEF FmtInv, Formatting
  <2>3. ASSUME cmd.name = "fmt", ~dirty
        PROVE  \E k \in 1..Len(Files) + 1 : FormattedBefore(k, At("fill"))
    BY <2>1, <2>3, FmtReached
  <2>4. QED
    BY <2>1, <2>2, <2>3 DEF FmtKeepsThePrograms, FmtOutcome, Formatting
<1>2. QED
  BY <1>1, InvAlways, PTL

\* The verdict of an audit that nobody disturbed is that of the files as they
\* are, though it reads them twice; and new, however it ends, leaves a directory
\* that held anything as it was and fails, and succeeds only with a project that
\* the audit would pass (run_audit, audit_project, create_project).
THEOREM AuditVouches == Spec => []AuditVouchesForRun
<1>1. Inv => AuditVouchesForRun
  BY DEF Inv, Outcome
<1>2. QED
  BY <1>1, InvAlways, PTL

\* openapi --check passes exactly when the files are a program that openapi
\* could export and openapi.json is the document of what they hold now, and it
\* passes after every sequence of commands that follows an export, killed or
\* failed, unless an editor changed a file or a fmt was killed in the middle of
\* one: nothing else makes the document stale (run_openapi_check).
THEOREM DriftIsEdited == Spec => []OnlyEditsDrift
<1>1. Inv => OnlyEditsDrift
  BY DEF Inv, Outcome
<1>2. QED
  BY <1>1, InvAlways, PTL

=============================================================================
