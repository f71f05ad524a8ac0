------------------------------ MODULE FileTools ------------------------------
(***************************************************************************)
(* The built-in tools as operators on the files of the workspace.  A       *)
(* handler is given the files, the task it works for and its arguments,    *)
(* and yields the set of its outcomes: whether it reports success (it      *)
(* raises, or answers ok false, otherwise) and the files it leaves behind. *)
(* Handlers that await something are cut at the await; what they do before *)
(* and after it are operators of their own.                                *)
(*                                                                         *)
(* Of the text of a file only its last author is kept: a task, or nobody   *)
(* yet, Initially, or Altered if it is what write_text has made of what    *)
(* read_text(errors="replace") made of another text: undecodable bytes are *)
(* replaced and newlines converted.  What a text must contain for an edit  *)
(* to apply (a string, a key, a hunk) is an argument, "fits".              *)
(* Directories above the paths are taken to exist.                         *)
(***************************************************************************)
EXTENDS Naturals, Sequences

CONSTANTS Paths,       (* absolute paths: where a file may be              *)
          IndexFiles,  (* .harness/project_index.json of a directory       *)
          Tasks        (* the tasks tools work for                         *)

ASSUME FilesAssumption == IndexFiles \subseteq Paths /\ Tasks \cap {"initially", "altered"} = {}

Initially == "initially"
Altered   == "altered"

Nothing   == [kind |-> "none", by |-> Initially]
Directory == [kind |-> "dir",  by |-> Initially]
File(t)   == [kind |-> "file", by |-> t]

Contents == {Nothing, Directory} \cup {File(t) : t \in Tasks \cup {Initially, Altered}}
FileSystems == [Paths -> Contents]

IsDir(fs, p)  == fs[p].kind = "dir"
IsFile(fs, p) == fs[p].kind = "file"
Exists(fs, p) == fs[p].kind # "none"

Done(fs)    == {[ok |-> TRUE, fs |-> fs]}
Refused(fs) == {[ok |-> FALSE, fs |-> fs]}

Put(fs, me, p)    == [fs EXCEPT ![p] = File(me)]
PutAll(fs, me, S) == [p \in Paths |-> IF p \in S THEN File(me) ELSE fs[p]]

-----------------------------------------------------------------------------
(* Writing and editing single files.                                       *)

WriteFile(fs, me, p, overwrite) ==
    IF IsDir(fs, p) \/ (Exists(fs, p) /\ ~overwrite)
    THEN Refused(fs) ELSE Done(Put(fs, me, p))

AppendFile(fs, me, p) ==
    IF IsDir(fs, p) THEN Refused(fs) ELSE Done(Put(fs, me, p))

ReplaceInFile(fs, me, p, fits) ==
    IF ~IsFile(fs, p) \/ ~fits THEN Refused(fs) ELSE Done(Put(fs, me, p))

EditFile(fs, me, p, fits) ==
    IF ~IsFile(fs, p) \/ ~fits THEN Refused(fs) ELSE Done(Put(fs, me, p))

JsonEdit(fs, me, p, fits) ==
    IF IsDir(fs, p) \/ ~fits THEN Refused(fs) ELSE Done(Put(fs, me, p))

YamlEdit(fs, me, p, fits) ==
    IF IsDir(fs, p) \/ ~fits THEN Refused(fs) ELSE Done(Put(fs, me, p))

InsertAtLine(fs, me, p) ==
    IF IsDir(fs, p) THEN Refused(fs) ELSE Done(Put(fs, me, p))

DeleteRange(fs, me, p, fits) ==
    IF ~IsFile(fs, p) \/ ~fits THEN Refused(fs) ELSE Done(Put(fs, me, p))

(* It fits when at least one hunk applies: a patch applied in part is      *)
(* written and reported as a success.  No hunk applies to a file that is   *)
(* missing, with allow_creation or without.                                *)
PatchFile(fs, me, p, fits, dryRun) ==
    IF ~IsFile(fs, p) \/ ~fits THEN Refused(fs)
    ELSE IF dryRun THEN Done(fs) ELSE Done(Put(fs, me, p))

DeleteFile(fs, p, confirmed) ==
    IF ~confirmed THEN Refused(fs) ELSE Done([fs EXCEPT ![p] = Nothing])

(* Path.replace: the destination is replaced, unless one of the two is a   *)
(* directory and the other is a file.                                      *)
RenameOrMove(fs, p, q) ==
    IF ~Exists(fs, p) \/ (Exists(fs, q) /\ IsDir(fs, p) # IsDir(fs, q))
    THEN Refused(fs)
    ELSE Done([r \in Paths |-> IF r = q THEN fs[p] ELSE IF r = p THEN Nothing ELSE fs[r]])

CreateDirectory(fs, p) ==
    IF IsFile(fs, p) THEN Refused(fs) ELSE Done([fs EXCEPT ![p] = Directory])

-----------------------------------------------------------------------------
(* Reading.                                                                *)

ReadFile(fs, p)      == IF IsFile(fs, p) THEN Done(fs) ELSE Refused(fs)
ListDirectory(fs, p) == IF IsDir(fs, p) THEN Done(fs) ELSE Refused(fs)
SearchWorkspace(fs, fits) == IF fits THEN Done(fs) ELSE Refused(fs)
ProposeWiring(fs, fits)   == IF fits THEN Done(fs) ELSE Refused(fs)

(* Of the files asked for, or those a possibly stale index lists, what is  *)
(* there is read; what has gone meanwhile is passed over.                  *)
ReadContext(fs) == Done(fs)

(* The walk over the workspace takes in whatever it finds; only the index  *)
(* i below its root_path is written.                                       *)
IndexProject(fs, me, i) ==
    IF IsDir(fs, i) THEN Refused(fs) ELSE Done(Put(fs, me, i))

-----------------------------------------------------------------------------
(* Generated files.  The name of an artifact is a hash of the request, so  *)
(* p is given; "fits" also says that the toolkit (reportlab) is installed. *)

RenderArtifact(fs, me, p, overwrite, fits) ==
    IF ~fits \/ (Exists(fs, p) /\ ~overwrite) \/ IsDir(fs, p)
    THEN Refused(fs) ELSE Done(Put(fs, me, p))

RenderDocument(fs, me, p, overwrite, fits) == RenderArtifact(fs, me, p, overwrite, fits)
RenderChart(fs, me, p, overwrite, fits)    == RenderArtifact(fs, me, p, overwrite, fits)
RenderVector(fs, me, p, overwrite, fits)   == RenderArtifact(fs, me, p, overwrite, fits)

(* The scene p is written before the render job q; when the job cannot be  *)
(* written the scene stays.                                                *)
RenderHyperframes(fs, me, p, q, overwrite, fits) ==
    IF IsDir(fs, p) \/ ((Exists(fs, p) \/ Exists(fs, q)) /\ ~overwrite) THEN Refused(fs)
    ELSE IF IsDir(fs, q) \/ ~fits THEN Refused(Put(fs, me, p))
    ELSE Done(PutAll(fs, me, {p, q}))

(* What a remotion render finds when npm has ended: exit code 0 and an     *)
(* output file.                                                            *)
RenderRemotion(fs, me, p, exitOk) ==
    IF ~exitOk THEN Refused(fs)
    ELSE Done(Put(fs, me, p)) \cup (IF Exists(fs, p) THEN Done(fs) ELSE Refused(fs))

-----------------------------------------------------------------------------
(* Scaffolds: several files in one transaction.                            *)

Conflict(fs, files, overwrite) ==
    \E p \in files : IsDir(fs, p) \/ (Exists(fs, p) /\ ~overwrite)

(* _rollback_scaffold_transaction, with the contents read before the       *)
(* write: where there was a file its text is written back, altered or not. *)
(* It ends at a path where a directory stands by now.                      *)
UndoScaffold(fs, files, before) ==
    LET stuck  == {p \in files : IsDir(fs, p)}
        undone == IF stuck = {} THEN {files} ELSE SUBSET (files \ stuck)
    IN  {[p \in Paths |-> IF p \notin u[1] THEN fs[p]
                          ELSE IF p \in u[2] /\ IsFile(before, p) THEN File(Altered) ELSE before[p]]
         : u \in undone \X SUBSET files}

(* Written, or refused before the first write, or failed in the write of   *)
(* some file: the files written so far are put back, but that file itself  *)
(* is in no list yet and stays as the failed write left it.                *)
WriteScaffold(fs, me, files, overwrite) ==
    IF Conflict(fs, files, overwrite) THEN Refused(fs)
    ELSE Done(PutAll(fs, me, files))
         \cup UNION {Refused(Put(u[1], me, u[2])) \cup Refused(u[1])
                     : u \in UNION {UndoScaffold(fs, files \ {p}, fs) \X {p} : p \in files}}

(* The files of each scaffold: several for a project or a route, of which  *)
(* p and q stand for all, and one for a component.                         *)
ProjectScaffold(p, q) == {p, q}
RouteScaffold(p, q)   == {p, q}
ComponentScaffold(p)  == {p}

InitProject(fs, me, p, q, overwrite) == WriteScaffold(fs, me, ProjectScaffold(p, q), overwrite)

GenerateComponent(fs, me, p, overwrite, fits) ==
    IF ~fits THEN Refused(fs) ELSE WriteScaffold(fs, me, ComponentScaffold(p), overwrite)

GenerateRoute(fs, me, p, q, overwrite, fits) ==
    IF ~fits THEN Refused(fs) ELSE WriteScaffold(fs, me, RouteScaffold(p, q), overwrite)

(* A wiring is inserted where it is missing: any of the files may change.  *)
ApplyWiring(fs, me, files, dryRun) ==
    IF dryRun THEN Done(fs)
    ELSE UNION {Done(PutAll(fs, me, S)) : S \in SUBSET {p \in files : IsFile(fs, p)}}

-----------------------------------------------------------------------------
(* Releases.  p stands for pyproject.toml, which is rewritten first and    *)
(* says what the current version is; when a later file cannot be written   *)
(* the earlier ones stay.                                                  *)
VersionBump(fs, me, p, q, fits, dryRun) ==
    LET files == {r \in {p, q} : IsFile(fs, r)}
    IN  IF ~IsFile(fs, p) \/ ~fits THEN Refused(fs)
        ELSE IF dryRun THEN Done(fs)
        ELSE Done(PutAll(fs, me, files)) \cup Refused(PutAll(fs, me, {p}))

(* After git log, whatever came of it. *)
ReleaseNotes(fs, me, p, dryRun) ==
    IF dryRun THEN Done(fs)
    ELSE IF IsDir(fs, p) THEN Refused(fs) ELSE Done(Put(fs, me, p))

-----------------------------------------------------------------------------
(* Which tools there are, and how the registry and the rollback store sort *)
(* them.                                                                   *)

MUTATING_TOOLS == {"write_file", "append_file", "replace_in_file", "edit_file", "patch_file",
                   "insert_at_line", "delete_range", "yaml_edit", "json_edit", "delete_file",
                   "rename_or_move"}
EditTools == MUTATING_TOOLS \cup {"create_directory"}
ReadTools == {"read_file", "list_directory", "search_workspace", "read_context",
              "index_project", "propose_wiring"}
Generators == {"generate_component", "generate_route", "generate_report", "generate_chart",
               "generate_svg_asset", "generate_hyperframes_scene", "apply_wiring"}

(* Tools that start a process, and those among the tools of the shell cap. *)
ProcessTools == {"shell_command", "run_tests", "run_project_check", "lint_and_fix",
                 "install_dependencies", "tag_and_publish_release", "generate_release_notes",
                 "generate_remotion_video", "init_project"}
ShellTools == {"shell_command", "run_tests", "run_project_check", "lint_and_fix",
               "install_dependencies", "version_bump", "tag_and_publish_release"}
NetworkTools == {"web_fetch", "web_browse", "get_location"}
BrowserTools == {"web_browse"}

Domain(tool) ==
    CASE tool \in ShellTools \cup {"generate_release_notes", "generate_remotion_video"} -> "bash"
      [] tool \in NetworkTools -> "webfetch"
      [] tool \in EditTools    -> "edit"
      [] tool \in ReadTools    -> "read"
      [] OTHER                 -> "other"

Tools == EditTools \cup ReadTools \cup Generators \cup ProcessTools \cup ShellTools \cup NetworkTools
Domains == {"bash", "webfetch", "edit", "read", "other"}

-----------------------------------------------------------------------------
(* How many processes or requests a handler awaits, one after the other;   *)
(* 0 where it refuses its arguments, is denied the command, or only says   *)
(* what it would do.                                                       *)

ShellCommand         == {0, 1}
RunProjectCheck      == {0, 1}
RunTests             == {0, 1}
LintAndFix           == {0, 1}
InstallDependencies  == {0, 1}
ProjectInstall       == {0, 1}
GitLog               == {0, 1}
NpmRender            == {0, 1}
GetLocation          == {1}
WebFetch             == {0, 1, 2}      (* again, without TLS verification  *)
WebBrowse            == {0, 1, 2}      (* Playwright, Obscura or both      *)
TagAndPublishRelease == {0, 2, 3}      (* tag, push, maybe push main       *)

Awaits(tool) ==
    CASE tool = "shell_command"        -> ShellCommand
      [] tool = "run_project_check"    -> RunProjectCheck
      [] tool = "run_tests"            -> RunTests
      [] tool = "lint_and_fix"         -> LintAndFix
      [] tool = "install_dependencies" -> InstallDependencies
      [] tool = "init_project"         -> ProjectInstall
      [] tool = "generate_release_notes"  -> GitLog
      [] tool = "generate_remotion_video" -> NpmRender
      [] tool = "get_location"         -> GetLocation
      [] tool = "web_fetch"            -> WebFetch
      [] tool = "web_browse"           -> WebBrowse
      [] tool = "tag_and_publish_release" -> TagAndPublishRelease

(* The outcomes of a tool that awaits nothing, for arguments p and q and   *)
(* every value of its other arguments.                                     *)
Outcomes(tool, fs, me, p, q) ==
    UNION {CASE tool = "write_file"       -> WriteFile(fs, me, p, a)
             [] tool = "append_file"      -> AppendFile(fs, me, p)
             [] tool = "replace_in_file"  -> ReplaceInFile(fs, me, p, a)
             [] tool = "edit_file"        -> EditFile(fs, me, p, a)
             [] tool = "json_edit"        -> JsonEdit(fs, me, p, a)
             [] tool = "yaml_edit"        -> YamlEdit(fs, me, p, a)
             [] tool = "insert_at_line"   -> InsertAtLine(fs, me, p)
             [] tool = "delete_range"     -> DeleteRange(fs, me, p, a)
             [] tool = "patch_file"       -> PatchFile(fs, me, p, a, b)
             [] tool = "delete_file"      -> DeleteFile(fs, p, a)
             [] tool = "rename_or_move"   -> RenameOrMove(fs, p, q)
             [] tool = "create_directory" -> CreateDirectory(fs, p)
             [] tool = "read_file"        -> ReadFile(fs, p)
             [] tool = "list_directory"   -> ListDirectory(fs, p)
             [] tool = "search_workspace" -> SearchWorkspace(fs, a)
             [] tool = "read_context"     -> ReadContext(fs)
             [] tool = "propose_wiring"   -> ProposeWiring(fs, a)
             [] tool = "index_project"    -> UNION {IndexProject(fs, me, i) : i \in IndexFiles}
             [] tool = "generate_component" -> GenerateComponent(fs, me, p, a, b)
             [] tool = "generate_route"   -> GenerateRoute(fs, me, p, q, a, b)
             [] tool = "generate_report"  -> RenderDocument(fs, me, p, a, b)
             [] tool = "generate_chart"   -> RenderChart(fs, me, p, a, b)
             [] tool = "generate_svg_asset" -> RenderVector(fs, me, p, a, b)
             [] tool = "generate_hyperframes_scene" -> RenderHyperframes(fs, me, p, q, a, b)
             [] tool = "apply_wiring"     -> ApplyWiring(fs, me, {p, q}, a)
             [] tool = "version_bump"     -> VersionBump(fs, me, p, q, a, b)
           : a \in BOOLEAN, b \in BOOLEAN}
=============================================================================
