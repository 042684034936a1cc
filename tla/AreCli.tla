-------------------------------- MODULE AreCli --------------------------------
(***************************************************************************)
(* The commands of are (crates/are-cli/src/main.rs, are-audit, are-project,*)
(* are-format) on the files of one project: each reads and writes file by  *)
(* file, may be killed or fail at a write, and runs beside an editor that  *)
(* writes when it likes.  One command runs at a time.                      *)
(*                                                                         *)
(* A source has items, a layout and perhaps comments.  Its items are a     *)
(* service all of whose routes declare type and status ("service"), one    *)
(* with a route that does not ("bare"), declarations without a service     *)
(* ("types"), nothing ("empty"), a program with a diagnostic ("wrong"), or *)
(* one that does not parse ("broken").                                     *)
(***************************************************************************)
EXTENDS Naturals, SequencesExt, AreSequences

CONSTANTS
    Files,          \* the .are files of the directory, in the order of their paths
    Main,           \* main.are
    Contents,       \* what an editor writes to a source
    Manifests,      \* and to are.toml
    Template,       \* the are.toml that `new` writes
    MaxEdits        \* bound on the writes of the editor

VARIABLES
    source,         \* the sources, by file
    toml,           \* are.toml
    openapi,        \* openapi.json
    cmd,            \* the running command
    last,           \* the last command that ended: [name, ok, killed]
    edits,          \* how often the editor wrote
    dirty,          \* whether it did since the command began
    fresh,          \* whether openapi.json was exported from the present program
    before          \* the sources and are.toml when fmt or new began

vars == <<source, toml, openapi, cmd, last, edits, dirty, fresh, before>>

Absent == [items |-> "absent", tidy |-> TRUE, comments |-> FALSE]
Empty == [items |-> "empty", tidy |-> TRUE, comments |-> FALSE]   \* a truncated file
Written == [items |-> "service", tidy |-> TRUE, comments |-> FALSE] \* the main.are of `new`
NoManifest == [target |-> "none"]
EmptyManifest == [target |-> "empty"]   \* a truncated are.toml: it does not parse
NoDocument == [server |-> "none", items |-> {}]
EmptyDocument == [server |-> "empty", items |-> {}]
None == "none"

\* What a file that exists may hold.
Texts == [items : {"service", "bare", "types", "empty", "wrong", "broken"},
          tidy : BOOLEAN, comments : BOOLEAN]

\* No path is listed twice, and `new` writes a server at an address that its
\* are.toml lets it listen on (project_manifest).
ASSUME ProjectAssumption ==
    /\ Files \in Seq(Range(Files)) /\ IsInjective(Files) /\ Main \in Range(Files)
    /\ Contents \subseteq Texts
    /\ \A manifest \in Manifests \cup {Template} :
           /\ manifest \notin {NoManifest, EmptyManifest}
           /\ manifest.capabilities \in BOOLEAN /\ manifest.process_spawn \in BOOLEAN
    /\ Template.target = "server" /\ Template.entry = Main /\ Template.server # None
    /\ Template.capabilities /\ Template.server \in Template.network_listen
    /\ ~Template.process_spawn
    /\ MaxEdits \in Nat

\* The commands that prepare the project: inspect_project, openapi_project, run_project.
Preparing == {"inspect", "openapi", "openapi_check", "run"}
Formatting == {"fmt", "fmt_check"}
Commands == {"check", "audit", "new"} \cup Preparing \cup Formatting

\* pc is where the command is, round how often it read the project, files what
\* it collected and at the next of them, manifest and found what it read, text
\* what it is to write, checks the audit's report, changed the files to format.
Command(name, pc) ==
    [name |-> name, pc |-> pc, round |-> 1, files |-> << >>, at |-> 1, manifest |-> NoManifest,
     found |-> << >>, text |-> Absent, checks |-> << >>, changed |-> FALSE]
NoCommand == Command("none", "idle")
NoResult == [name |-> "none", ok |-> TRUE, killed |-> FALSE]

Present == {f \in DOMAIN source : source[f] # Absent}
PresentFiles == SelectAt(Files, {i \in DOMAIN Files : Files[i] \in Present})
NothingBefore == [source |-> [f \in DOMAIN source |-> Absent], toml |-> NoManifest]

-----------------------------------------------------------------------------
\* What the commands make of what they read.

\* Comments and programs that do not parse are refused (first_comment_range and
\* the parser), for the printer of the formatter knows the declarations alone.
\* Mutant: comments are not looked for.
formattable_parsed(content) == content.items \notin {"broken", "absent"}

Formattable(content) == ~content.comments /\ content.items \notin {"broken", "absent"}

format_source(content) == [content EXCEPT !.tidy = TRUE, !.comments = FALSE]

has_diagnostics(items) == items \in {"broken", "wrong", "absent"}
has_service(items) == items \in {"service", "bare"}

\* find_single_service, over the modules without errors.
IsPrepared(found) ==
    /\ \A i \in DOMAIN found : ~has_diagnostics(found[i])
    /\ Cardinality({i \in DOMAIN found : has_service(found[i])}) = 1

\* Aliases, structs, models and enums are sorted by name, whatever their file.
openapi_document(manifest, found) ==
    [server |-> manifest.server, items |-> Range(found) \ {"empty"}]

\* Mutant: the address is compared when there is one to compare.
listen_if_served(manifest) ==
    IF manifest.server # None /\ manifest.server \notin manifest.network_listen THEN "fail"
    ELSE IF manifest.network_listen = {manifest.server} THEN "pass" ELSE "warn"

\* The checks of the audit: capabilities against the server of the manifest.
audit_network_listen(manifest) ==
    IF manifest.server = None THEN "fail"
    ELSE IF manifest.server \notin manifest.network_listen THEN "fail"
    ELSE IF manifest.network_listen = {manifest.server} THEN "pass" ELSE "warn"

audit_capabilities(manifest) ==
    IF ~manifest.capabilities THEN <<"fail">>
    ELSE <<"pass", audit_network_listen(manifest), IF manifest.process_spawn THEN "fail" ELSE "pass">>

\* A project with the one service, and one that declares the success of every route.
audit_route_contracts(found) == IF \E i \in DOMAIN found : found[i] = "bare" THEN "fail" ELSE "pass"

-----------------------------------------------------------------------------
\* The steps of every command.

At(pc) == cmd.pc = pc
Goto(pc) == cmd' = [cmd EXCEPT !.pc = pc]
Exit(ok) == /\ cmd' = NoCommand
            /\ last' = [name |-> cmd.name, ok |-> ok, killed |-> FALSE]

FilesKept == UNCHANGED <<source, toml, openapi, fresh>>
EditorKept == UNCHANGED <<edits, dirty>>

Begin(name) ==
    /\ At("idle")
    /\ cmd' = Command(name, IF name = "new" THEN "new"
                            ELSE IF name \in Preparing \cup {"audit"} THEN "manifest" ELSE "collect")
    /\ last' = NoResult
    /\ dirty' = FALSE
    /\ before' = IF name \in Formatting \cup {"new"} THEN [source |-> source, toml |-> toml]
                 ELSE NothingBefore
    /\ UNCHANGED <<source, toml, openapi, edits, fresh>>

\* prepare_project, in the commands and in the second round of the audit: a
\* failure is the command's, or a check of the report.
Prepares == cmd.name \in Preparing \/ cmd.round = 2
Unprepared ==
    IF cmd.name = "audit"
    THEN cmd' = [cmd EXCEPT !.pc = "report", !.checks = Append(@, "fail")] /\ UNCHANGED last
    ELSE Exit(FALSE)

\* load_manifest: the audit keeps the manifest of its first round.
Readable == toml \notin {NoManifest, EmptyManifest}
Serves == toml.target = "server" /\ toml.entry \in Present

load_manifest ==
    /\ At("manifest")
    /\ IF Readable /\ (Prepares => Serves)
       THEN /\ cmd' = [cmd EXCEPT !.pc = "collect",
                                  !.manifest = IF cmd.round = 1 THEN toml ELSE @]
            /\ UNCHANGED last
       ELSE IF Prepares THEN Unprepared ELSE Exit(FALSE)
    /\ FilesKept /\ EditorKept /\ UNCHANGED before

\* The walk over the directory.
\* Mutant: what an earlier round found is kept.
collect_more_files ==
    /\ At("collect")
    /\ cmd' = [cmd EXCEPT !.pc = IF cmd.name \in Formatting THEN "format" ELSE "read", !.at = 1,
                          !.files = PresentFiles]
    /\ FilesKept /\ EditorKept /\ UNCHANGED <<last, before>>

collect_are_files ==
    /\ At("collect")
    /\ cmd' = [cmd EXCEPT !.pc = IF cmd.name \in Formatting THEN "format" ELSE "read", !.at = 1,
                          !.files = PresentFiles, !.found = << >>]
    /\ FilesKept /\ EditorKept /\ UNCHANGED <<last, before>>

\* check_path reads the next file: one that is gone is a diagnostic too.
check_source_file ==
    /\ At("read") /\ cmd.at <= Len(cmd.files)
    /\ cmd' = [cmd EXCEPT !.at = @ + 1, !.found = Append(@, source[cmd.files[cmd.at]].items)]
    /\ FilesKept /\ EditorKept /\ UNCHANGED <<last, before>>

Clean == \A i \in DOMAIN cmd.found : ~has_diagnostics(cmd.found[i])
AllRead == At("read") /\ cmd.at > Len(cmd.files)

\* The end of check, and of the static checks of the audit.
CheckEnds ==
    /\ AllRead /\ cmd.name = "check"
    /\ Exit(Clean)
    /\ FilesKept /\ EditorKept /\ UNCHANGED before

StaticChecksEnd ==
    /\ AllRead /\ cmd.name = "audit" /\ cmd.round = 1
    /\ LET static_checks == <<IF Clean THEN "pass" ELSE "fail">>
       IN  cmd' = IF cmd.manifest.target # "server"
                  THEN [cmd EXCEPT !.pc = "report", !.checks = static_checks \o <<"warn">>]
                  ELSE [cmd EXCEPT !.pc = "manifest", !.round = 2, !.checks = static_checks]
    /\ FilesKept /\ EditorKept /\ UNCHANGED <<last, before>>

\* The end of prepare_project, and what follows it: a server that cannot bind
\* its address fails, one that can is the subject of AreServer.
Prepared ==
    /\ AllRead /\ Prepares
    /\ IF ~IsPrepared(cmd.found) THEN Unprepared
       ELSE \/ cmd.name = "inspect" /\ Exit(TRUE)
            \/ cmd.name = "run" /\ \E bound \in BOOLEAN : Exit(bound /\ cmd.manifest.server # None)
            \/ cmd.name = "openapi" /\ Goto("truncate") /\ UNCHANGED last
            \/ cmd.name = "openapi_check" /\ Goto("compare") /\ UNCHANGED last
            \/ /\ cmd.name = "audit"
               /\ cmd' = [cmd EXCEPT !.pc = "report",
                                     !.checks = @ \o <<"pass", audit_route_contracts(cmd.found)>>]
               /\ UNCHANGED last
    /\ FilesKept /\ EditorKept /\ UNCHANGED before

report ==
    /\ At("report")
    /\ LET checks == cmd.checks \o audit_capabilities(cmd.manifest)
       IN  Exit(\A i \in DOMAIN checks : checks[i] # "fail")
    /\ FilesKept /\ EditorKept /\ UNCHANGED before

\* Mutant: documents of one address are taken for equal.
check_server ==
    /\ At("compare")
    /\ Exit(openapi.server = cmd.manifest.server)
    /\ FilesKept /\ EditorKept /\ UNCHANGED before

run_openapi_check ==
    /\ At("compare")
    /\ Exit(openapi = openapi_document(cmd.manifest, cmd.found))
    /\ FilesKept /\ EditorKept /\ UNCHANGED before

-----------------------------------------------------------------------------
\* The writes: fs::write truncates the file and then fills it.

\* fmt reads and formats the next file; --check only counts what would change.
\* A file whose text is formatted already is not written.
run_fmt ==
    /\ At("format") /\ cmd.at <= Len(cmd.files)
    /\ LET content == source[cmd.files[cmd.at]]
           formatted == format_source(content)
       IN  IF ~Formattable(content) THEN Exit(FALSE)
           ELSE /\ cmd' = IF formatted = content THEN [cmd EXCEPT !.at = @ + 1]
                          ELSE IF cmd.name = "fmt_check"
                          THEN [cmd EXCEPT !.at = @ + 1, !.changed = TRUE]
                          ELSE [cmd EXCEPT !.pc = "truncate", !.text = formatted]
                /\ UNCHANGED last
    /\ FilesKept /\ EditorKept /\ UNCHANGED before

FmtEnds ==
    /\ At("format") /\ cmd.at > Len(cmd.files)
    /\ Exit(~cmd.changed)
    /\ FilesKept /\ EditorKept /\ UNCHANGED before

TruncateSource ==
    /\ At("truncate") /\ cmd.name = "fmt"
    /\ source' = [source EXCEPT ![cmd.files[cmd.at]] = Empty]
    /\ Goto("fill")
    /\ UNCHANGED <<toml, openapi, fresh, last, before>> /\ EditorKept

FillSource ==
    /\ At("fill") /\ cmd.name = "fmt"
    /\ source' = [source EXCEPT ![cmd.files[cmd.at]] = cmd.text]
    /\ cmd' = [cmd EXCEPT !.pc = "format", !.at = @ + 1, !.text = Absent]
    /\ UNCHANGED <<toml, openapi, fresh, last, before>> /\ EditorKept

TruncateDocument ==
    /\ At("truncate") /\ cmd.name = "openapi"
    /\ openapi' = EmptyDocument /\ fresh' = FALSE
    /\ Goto("fill")
    /\ UNCHANGED <<source, toml, last, before>> /\ EditorKept

FillDocument ==
    /\ At("fill") /\ cmd.name = "openapi"
    /\ openapi' = openapi_document(cmd.manifest, cmd.found) /\ fresh' = ~dirty
    /\ Exit(TRUE)
    /\ UNCHANGED <<source, toml, before>> /\ EditorKept

\* new, in a directory that is absent or empty: are.toml, then main.are.
IsEmptyDirectory == Present = {} /\ toml = NoManifest /\ openapi = NoDocument

\* Mutant: only the manifest is looked for.
create_beside_sources ==
    /\ At("new")
    /\ IF toml = NoManifest THEN Goto("toml") /\ UNCHANGED last ELSE Exit(FALSE)
    /\ FilesKept /\ EditorKept /\ UNCHANGED before

create_project ==
    /\ At("new")
    /\ IF IsEmptyDirectory THEN Goto("toml") /\ UNCHANGED last ELSE Exit(FALSE)
    /\ FilesKept /\ EditorKept /\ UNCHANGED before

WriteManifest ==
    /\ \/ At("toml") /\ toml' = EmptyManifest /\ Goto("toml_fill")
       \/ At("toml_fill") /\ toml' = Template /\ Goto("main")
    /\ UNCHANGED <<source, openapi, fresh, last, before>> /\ EditorKept

WriteMain ==
    /\ \/ At("main") /\ source' = [source EXCEPT ![Main] = Empty] /\ Goto("main_fill") /\ UNCHANGED last
       \/ At("main_fill") /\ source' = [source EXCEPT ![Main] = Written] /\ Exit(TRUE)
    /\ UNCHANGED <<toml, openapi, fresh, before>> /\ EditorKept

\* A write fails before the file is truncated or after, or the command is
\* killed anywhere: what it wrote so far stays.
Writing == cmd.pc \in {"truncate", "fill", "toml", "toml_fill", "main", "main_fill"}

Interrupted(killed) ==
    /\ cmd.pc # "idle" /\ (killed \/ Writing)
    /\ cmd' = NoCommand
    /\ last' = [name |-> cmd.name, ok |-> FALSE, killed |-> killed]
    /\ fresh' = (fresh /\ cmd.pc # "fill")
    /\ UNCHANGED <<source, toml, openapi, before>> /\ EditorKept

\* The editor writes or removes a file at any time.
Edit ==
    /\ edits < MaxEdits
    /\ \/ \E f \in DOMAIN source, content \in Contents \cup {Absent} :
              source' = [source EXCEPT ![f] = content] /\ UNCHANGED toml
       \/ toml' \in Manifests \cup {NoManifest} /\ UNCHANGED source
    /\ edits' = edits + 1 /\ dirty' = TRUE /\ fresh' = FALSE
    /\ UNCHANGED <<openapi, cmd, last, before>>

-----------------------------------------------------------------------------
Init ==
    /\ source \in [Range(Files) -> Contents \cup {Absent}]
    /\ toml \in Manifests \cup {NoManifest}
    /\ openapi = NoDocument
    /\ cmd = NoCommand /\ last = NoResult
    /\ edits = 0 /\ dirty = FALSE /\ fresh = FALSE /\ before = NothingBefore

Next ==
    \/ \E name \in Commands : Begin(name)
    \/ load_manifest \/ collect_are_files \/ check_source_file
    \/ CheckEnds \/ StaticChecksEnd \/ Prepared \/ report \/ run_openapi_check
    \/ run_fmt \/ FmtEnds \/ TruncateSource \/ FillSource \/ TruncateDocument \/ FillDocument
    \/ create_project \/ WriteManifest \/ WriteMain
    \/ \E killed \in BOOLEAN : Interrupted(killed)
    \/ Edit

Spec == Init /\ [][Next]_vars

-----------------------------------------------------------------------------
\* The state in a command: it reads in step with what it found, holds a text
\* only to write it, and exported a document only from a readable manifest.
TypeOK ==
    /\ DOMAIN source = Range(Files) /\ DOMAIN before.source = Range(Files)
    /\ cmd.name \in Commands \cup {"none"} /\ cmd.round \in 1..2 /\ cmd.at \in 1..Len(Files) + 1
    /\ At("read") => Len(cmd.found) = cmd.at - 1 /\ cmd.at <= Len(cmd.files) + 1
    /\ cmd.text # Absent => cmd.name = "fmt" /\ Writing
    /\ cmd.name = "audit" => Len(cmd.checks) <= 3
    /\ fresh => openapi \notin {NoDocument, EmptyDocument} /\ edits <= MaxEdits

\* The sources as fmt found them, the first k - 1 formatted, the k-th perhaps
\* truncated, the others untouched.
FormattedBefore(k, torn) ==
    \A i \in DOMAIN Files :
        LET was == before.source[Files[i]]
            is == source[Files[i]]
        IN  \/ was = Absent /\ is = Absent
            \/ i < k /\ Formattable(was) /\ is = [was EXCEPT !.tidy = TRUE]
            \/ i >= k /\ is = was
            \/ i = k /\ torn /\ is = Empty

Formatted == \A f \in Present : Formattable(source[f]) /\ source[f].tidy

\* While fmt runs and whatever becomes of it (done, refused at a file, failed
\* at a write, killed), if nobody else writes: the files are formatted in
\* order, each keeps its declarations and no comment is lost, at most the file
\* being written is empty; --check writes nothing; a fmt that succeeds leaves
\* every file formatted, and a --check succeeds exactly when they are, as it
\* does after such a fmt.
FmtKeepsThePrograms ==
    /\ cmd.name \in Formatting /\ ~dirty =>
           IF cmd.name = "fmt_check" THEN source = before.source
           ELSE \E k \in 1..Len(Files) + 1 : FormattedBefore(k, At("fill"))
    /\ last.name \in Formatting /\ ~dirty =>
           /\ last.name = "fmt_check" => source = before.source
           /\ \E k \in 1..Len(Files) + 1 : FormattedBefore(k, ~last.ok)
           /\ last.ok => Formatted
           /\ last.name = "fmt_check" /\ ~last.killed /\ Formatted => last.ok

\* What the README says the audit verifies, of the files as they are.
Sound == \A f \in Present : ~has_diagnostics(source[f].items)
Services == {f \in Present : has_service(source[f].items)}
AuditPasses ==
    /\ toml.capabilities /\ toml.server # None /\ toml.server \in toml.network_listen
    /\ ~toml.process_spawn
    /\ Sound
    /\ toml.target = "server" =>
           /\ toml.entry \in Present /\ Cardinality(Services) = 1
           /\ \A f \in Services : source[f].items = "service"

\* Whether the directory held anything when `new` began: no command but
\* openapi writes openapi.json.
HeldFiles == before # NothingBefore \/ openapi # NoDocument

\* If nobody writes while the audit runs, then its verdict is that of the
\* project: it passes exactly the projects whose checks, contracts and
\* capabilities are in order.  (It reads the manifest and the sources twice.)
\* And new, however it ends, leaves a directory that held anything as it was
\* and reports a failure, so also where a new before it failed between its two
\* writes; it succeeds only with a project the audit would pass.
AuditVouchesForRun ==
    /\ last.name = "audit" /\ ~last.killed /\ ~dirty =>
           last.ok = (Readable /\ AuditPasses)
    /\ last.name = "new" /\ ~dirty =>
           /\ HeldFiles => ~last.ok /\ before = [source |-> source, toml |-> toml]
           /\ last.ok => AuditPasses /\ Present = {Main} /\ openapi = NoDocument

\* openapi --check passes exactly when the files are a program it can prepare
\* and openapi.json is the document of what they contain; and it does whatever
\* commands ran since an export, be they killed or failed, if nobody edited the
\* project: formatting is no drift.
OnlyEditsDrift ==
    last.name = "openapi_check" /\ ~last.killed /\ ~dirty =>
        /\ last.ok =
              (/\ Readable /\ Serves /\ Sound /\ Cardinality(Services) = 1
               /\ openapi = [server |-> toml.server,
                             items |-> {source[f].items : f \in Present} \ {"empty"}])
        /\ fresh => last.ok

=============================================================================
