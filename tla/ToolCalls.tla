------------------------------ MODULE ToolCalls ------------------------------
(***************************************************************************)
(* ToolRegistry.execute_tool: a call goes through the PreToolUse hooks,    *)
(* the permission policy, an approval by the user where a rule says "ask", *)
(* the snapshot for a later rollback, the caps on shell and browser tools, *)
(* the handler, and the PostToolUse hooks.  Around it the endpoints that   *)
(* answer approval requests, edit the rules of the live policy, move the   *)
(* workspace and roll a task back, and restarts of the server.             *)
(*                                                                         *)
(* A call is single-use.  Of its tool only the permission domain is fixed  *)
(* when it begins; which tool of the domain it is, and with which other    *)
(* arguments, is settled in the step that first depends on it.             *)
(***************************************************************************)
EXTENDS RollbackStore, FiniteSets

CONSTANTS Calls,
          Relative,       (* relative names of files                        *)
          Roots,          (* directories that relative names are taken from *)
          Locate,         (* the path of each relative name in each of them *)
          Cwd,            (* the working directory of the server's process  *)
          WorkspaceRoot,  (* --workspace: the directory the server starts in *)
          Arguments,      (* what calls are made with                       *)
          Seeded,         (* the paths that hold a file initially           *)
          Chats,          (* the tasks that are in the cancellation registry *)
          InitialRules,   (* tools.permission_rules                         *)
          NewRules,       (* the rules that administrators may add          *)
          MaxShell,       (* execution.max_concurrent_shell_evals           *)
          MaxBrowser,     (* execution.max_concurrent_browser_sessions      *)
          MaxEvents       (* bound: edits of the live policy, moves of the  *)
                          (* workspace and restarts                         *)

Names == Paths \cup Relative

(* A relative name is that of the path it has below the directory. *)
Resolve(dir, n) == IF n \in Paths THEN n ELSE Locate[dir][n]

Patterns == Names \cup {"*"}
PermissionRules == [permission : Domains \cup {"*"}, pattern : Patterns, action : {"allow", "ask", "deny"}]

(* A call is made for a task, in a permission domain, on two files, maybe   *)
(* with bypass_policy.                                                     *)
Requests == [task : Tasks, domain : Domains, path : Names, dest : Names, bypass : BOOLEAN]

ASSUME CallsAssumption ==
    /\ IsFiniteSet(Calls)
    /\ InitialRules \in Seq(PermissionRules) /\ NewRules \subseteq PermissionRules
    /\ Relative \cap Paths = {}
    /\ Cwd \in Roots /\ WorkspaceRoot \in Roots
    /\ Locate \in [Roots -> [Relative -> Paths]]
    /\ Arguments \subseteq Requests
    /\ Chats \subseteq Tasks
    /\ MaxShell \in Nat \ {0} /\ MaxBrowser \in Nat \ {0}
    /\ MaxEvents \in Nat

VARIABLES
    fs,         (* the files of the workspace                               *)
    snaps,      (* the snapshots on disk                                    *)
    pc,         (* where each call stands                                   *)
    args,       (* its arguments, while they matter                         *)
    label,      (* the reason it may run: ByPolicy, Bypassed, or the rule   *)
                (* that asks for an approval (match_label); else NoLabel    *)
    work,       (* of a handler that awaits: tool, processes left to start, *)
                (* and the contents a scaffold is rolled back to            *)
    pending,    (* ApprovalStore.pending: calls with a registered future    *)
    decision,   (* the result of that future, which is the reply the        *)
                (* endpoint has acknowledged                                *)
    session,    (* ApprovalStore.session_allows                             *)
    rules,      (* PermissionPolicy.permission_rules                        *)
    root,       (* execution.default_cwd and policy.workspace_root          *)
    slots,      (* free slots of the two semaphores                         *)
    alive,      (* calls whose process is running                           *)
    closed,     (* tasks that have ended                                    *)
    ran,        (* history: calls whose handler was entered                 *)
    before,     (* history: what a path was before a task's first mutating  *)
                (* call on it, or Astray                                    *)
    events

store == <<fs, snaps, before>>
asking == <<pending, decision, session>>
admin == <<rules, root, closed, events>>
vars == <<fs, snaps, pc, args, label, work, pending, decision, session, rules, root, slots, alive,
          closed, ran, before, events>>

Labels   == Domains \X Patterns
NoLabel  == <<"none", "none">>
ByPolicy == <<"allowed", "none">>
Bypassed == <<"bypassed_for_superpowered_mode", "none">>

(* The first call of the task on the file, or the first snapshot of it, did *)
(* not take the snapshot of the file it was about to write.                *)
Astray == [kind |-> "astray", by |-> Initially]

NoWork == [tool |-> "none", left |-> 0, undo |-> <<>>]

Unused == [task |-> "none", domain |-> "none", path |-> "none", dest |-> "none", bypass |-> FALSE]

Init == /\ fs = [p \in Paths |-> IF p \in Seeded THEN File(Initially) ELSE Nothing]
        /\ snaps = [t \in Tasks |-> NoSnapshots]
        /\ pc = [c \in Calls |-> "idle"]
        /\ args = [c \in Calls |-> Unused]
        /\ label = [c \in Calls |-> NoLabel]
        /\ work = [c \in Calls |-> NoWork]
        /\ pending = {} /\ session = {} /\ alive = {} /\ closed = {} /\ ran = {}
        /\ decision = [c \in Calls |-> "none"]
        /\ rules = InitialRules
        /\ root = WorkspaceRoot
        /\ slots = [shell |-> MaxShell, browser |-> MaxBrowser]
        /\ before = [t \in Tasks |-> NoSnapshots]
        /\ events = 0

(* Definitions named Bug... are plausible defects of the code that follows *)
(* them; the properties below are checked to find them.                    *)

-----------------------------------------------------------------------------
(* The permission policy.                                                  *)

(* What the patterns of rules are matched against: the paths of file       *)
(* tools, absolute and relative to the workspace; other tools have no path *)
(* among their candidates.                                                 *)
Candidates(a) ==
    LET places == {Resolve(root, a.path), Resolve(root, a.dest)}
    IN  IF a.domain \in {"edit", "read"}
        THEN places \cup {n \in Relative : Locate[root][n] \in places} ELSE {}

Matches(rule, a) == /\ rule.permission \in {a.domain, "*"}
                    /\ rule.pattern \in Candidates(a) \cup {"*"}

(* The last rule that matches decides, and gives the label. *)
LastMatch(a) ==
    LET matching == {i \in DOMAIN rules : Matches(rules[i], a)}
    IN  IF matching = {} THEN [action |-> "none", label |-> NoLabel]
        ELSE LET i == CHOOSE i \in matching : \A j \in matching : j <= i
             IN  [action |-> rules[i].action, label |-> <<a.domain, rules[i].pattern>>]

(* evaluate_tool.  blocked: the name is on the block list; listed: the name *)
(* is on the allow list, or none is needed; reachable: the network, the    *)
(* paths and the commands the call needs are allowed.  A rule that says    *)
(* "ask" comes before the last two, one that says "allow" replaces listed. *)
Verdict(action, blocked, listed, reachable) ==
    IF blocked \/ action = "deny" THEN "deny"
    ELSE IF action = "ask" THEN "ask"
    ELSE IF (listed \/ action = "allow") /\ reachable THEN "allow"
    ELSE "deny"

Verdicts(action) ==
    {Verdict(action, u[1], u[2], u[3]) : u \in BOOLEAN \X BOOLEAN \X BOOLEAN}

-----------------------------------------------------------------------------
(* From the snapshot to the handler.                                       *)

(* The files that are snapshotted: those under the keys path, source_path  *)
(* and target_path, where the working directory of the process has them.   *)
(* There are none for edit_file when its path is given as file_path.       *)
SnapshotPaths(tool, a) ==
    (IF tool \in MUTATING_TOOLS THEN {{Resolve(Cwd, a.path)}} ELSE {{}})
    \cup (IF tool = "edit_file" THEN {{}} ELSE {})

(* The files the handler will write, or move. *)
WrittenPaths(tool, a) ==
    CASE tool = "rename_or_move"  -> {Resolve(root, a.path), Resolve(root, a.dest)}
      [] tool \in MUTATING_TOOLS \ {"rename_or_move"} -> {Resolve(root, a.path)}
      [] OTHER -> {}

(* A snapshot that fails, leaving nothing or half a file, is passed over. *)
TakeSnapshots(c, tool) ==
    LET t == args[c].task
        W == WrittenPaths(tool, args[c])
    IN  \E S \in SnapshotPaths(tool, args[c]) :
           /\ snaps' \in {snaps} \cup UNION {Snapshot(snaps, fs, t, s) \cup {SnapshotTorn(snaps, t, s)}
                                           : s \in S}
           /\ before' = [before EXCEPT ![t] =
                 [p \in Paths |-> IF @[p] # NoSnapshot \/ p \notin S \cup W THEN @[p]
                                  ELSE IF p \in S \cap W /\ snaps'[t][p] # NoSnapshot THEN fs[p]
                                  ELSE Astray]]

Category(tool) == IF tool \in ShellTools THEN "shell"
                  ELSE IF tool \in BrowserTools THEN "browser" ELSE "none"

LeaveHandler(c) ==
    /\ pc' = [pc EXCEPT ![c] = "reporting"]
    /\ args' = [args EXCEPT ![c] = [Unused EXCEPT !.task = args[c].task]]
    /\ work' = [work EXCEPT ![c] = NoWork]

(* The handler runs to its end, and the PostToolUse hooks are next ... *)
RunThrough(c, tool) ==
    /\ LeaveHandler(c)
    /\ fs' \in {r.fs : r \in Outcomes(tool, fs, args[c].task,
                                      Resolve(root, args[c].path), Resolve(root, args[c].dest))}
    /\ UNCHANGED <<slots, alive>>

Take(slot) == IF slot = "none" THEN slots ELSE [slots EXCEPT ![slot] = @ - 1]
Release(slot) == IF slot = "none" THEN slots ELSE [slots EXCEPT ![slot] = @ + 1]

(* The project that init_project writes before packages are installed. *)
Project(c, overwrite) ==
    InitProject(fs, args[c].task, Resolve(root, args[c].path), Resolve(root, args[c].dest), overwrite)

(* ... or to its first await, of a process it has started or of the web.   *)
(* It has settled by then which files it works on, except that the release *)
(* notes are found a place at the end.                                     *)
RunUntilAwait(c, tool) ==
    \E left \in Awaits(tool) \ {0} :
        /\ pc' = [pc EXCEPT ![c] = "running"]
        /\ IF tool # "init_project" THEN UNCHANGED fs
           ELSE \E overwrite \in BOOLEAN : \E r \in Project(c, overwrite) : r.ok /\ fs' = r.fs
        /\ args' = IF tool = "generate_release_notes" THEN args
                   ELSE [args EXCEPT ![c].path = Resolve(root, @), ![c].dest = Resolve(root, @)]
        /\ work' = [work EXCEPT ![c] = [tool |-> tool, left |-> left,
                                          undo |-> IF tool = "init_project" THEN fs ELSE <<>>]]
        /\ slots' = Take(Category(tool))
        /\ alive' = IF tool \in ProcessTools THEN alive \cup {c} ELSE alive

(* The release notes are written whatever has become of git log: denied,   *)
(* timed out or badly ended, it is caught.                                 *)
NotesWritten(c) ==
    LET p == Resolve(root, args[c].path)
    IN  {r.fs : r \in UNION {ReleaseNotes(fs, args[c].task, p, dryRun) : dryRun \in BOOLEAN}}

(* A project without installation is a scaffold and no more; one that is   *)
(* not allowed to install is taken back.                                   *)
ProjectRefused(c) ==
    LET p == Resolve(root, args[c].path)
        q == Resolve(root, args[c].dest)
        written == UNION {Project(c, overwrite) : overwrite \in BOOLEAN}
    IN  {r.fs : r \in written}
        \cup UNION {UndoScaffold(r.fs, ProjectScaffold(p, q), fs) : r \in {r \in written : r.ok}}

(* It comes to its end at once: the command or directory is not allowed by *)
(* the execution policy, arguments do not fit, or it is a dry run.         *)
Refuse(c, tool) ==
    /\ 0 \in Awaits(tool)
    /\ LeaveHandler(c)
    /\ fs' \in CASE tool = "init_project" -> ProjectRefused(c)
                 [] tool = "generate_release_notes" -> {fs} \cup NotesWritten(c)
                 [] OTHER -> {fs}
    /\ UNCHANGED <<slots, alive>>

Handle(c, tool) ==
    /\ ran' = ran \cup {c}
    /\ \/ tool \notin ProcessTools \cup NetworkTools /\ RunThrough(c, tool)
       \/ tool \in ProcessTools \cup NetworkTools /\ (RunUntilAwait(c, tool) \/ Refuse(c, tool))

(* The rest of execute_tool once a call is allowed: nothing is awaited     *)
(* between the snapshot and the handler's first step, unless the call has  *)
(* to wait for a slot.                                                     *)
Dispatch(c) ==
    \E tool \in Tools :
        /\ Domain(tool) = args[c].domain
        /\ LET slot == Category(tool)
           IN  IF slot # "none" /\ slots[slot] = 0
               THEN /\ pc' = [pc EXCEPT ![c] = "queued"]
                    /\ work' = [work EXCEPT ![c] = [NoWork EXCEPT !.tool = tool]]
                    /\ UNCHANGED <<fs, args, slots, alive, ran>>
               ELSE Handle(c, tool)
        /\ TakeSnapshots(c, tool)

(* Or the call goes on to where it awaits something else, or ends. *)
GoTo(c, where) ==
    /\ pc' = [pc EXCEPT ![c] = where]
    /\ args' = IF where = "over" THEN [args EXCEPT ![c] = Unused] ELSE args
    /\ UNCHANGED <<fs, snaps, work, slots, alive, ran, before>>

-----------------------------------------------------------------------------
(* The steps of a call.                                                    *)

Begin(c) ==
    /\ pc[c] = "idle"
    /\ \E a \in Arguments : a.task \notin closed /\ args' = [args EXCEPT ![c] = a]
    /\ pc' = [pc EXCEPT ![c] = "hooks"]
    /\ UNCHANGED <<store, asking, admin, label, work, slots, alive, ran>>

(* The PreToolUse hooks have returned: one of them has aborted the call,   *)
(* or it goes past the policy, or the policy judges it as it stands now.   *)
Evaluate(c) ==
    /\ pc[c] = "hooks"
    /\ \/ GoTo(c, "over") /\ UNCHANGED label
       \/ /\ args[c].bypass
          /\ label' = [label EXCEPT ![c] = Bypassed] /\ Dispatch(c)
       \/ /\ ~args[c].bypass
          /\ LET m == LastMatch(args[c])
             IN  \E v \in Verdicts(m.action) :
                    \/ v = "deny" /\ GoTo(c, "over") /\ UNCHANGED label
                    \/ v = "allow" /\ label' = [label EXCEPT ![c] = ByPolicy] /\ Dispatch(c)
                    \/ /\ v = "ask"
                       /\ label' = [label EXCEPT ![c] = m.label]
                       /\ IF m.label \in session THEN Dispatch(c) ELSE GoTo(c, "announcing")
    /\ UNCHANGED <<asking, admin>>

(* The request has been emitted; only now is its future registered. *)
RegisterApproval(c) ==
    /\ pc[c] = "announcing"
    /\ pc' = [pc EXCEPT ![c] = "waiting"]
    /\ pending' = pending \cup {c}
    /\ UNCHANGED <<store, admin, decision, session, args, label, work, slots, alive, ran>>

(* POST /tools/approval-reply.  A reply that comes before the future is    *)
(* registered, or a second one, is answered by 404 and changes nothing;    *)
(* one for a call that is no longer there is acknowledged.                 *)
Reply(c) ==
    /\ c \in pending
    /\ pending' = pending \ {c}
    /\ \E d \in {"once", "always", "reject"} : decision' = [decision EXCEPT ![c] = d]
    /\ UNCHANGED <<store, admin, pc, session, args, label, work, slots, alive, ran>>

BugIgnoreReject(c) ==
    /\ pc[c] = "waiting" /\ decision[c] # "none"
    /\ session' = IF decision[c] = "always" THEN session \cup {label[c]} ELSE session
    /\ Dispatch(c)
    /\ UNCHANGED <<admin, pending, decision, label>>

Resume(c) ==
    /\ pc[c] = "waiting" /\ decision[c] # "none"
    /\ session' = IF decision[c] = "always" THEN session \cup {label[c]} ELSE session
    /\ IF decision[c] = "reject" THEN GoTo(c, "over") ELSE Dispatch(c)
    /\ UNCHANGED <<admin, pending, decision, label>>

(* The 120 s are over; a reply that comes before the call resumes is       *)
(* acknowledged, but the call is denied all the same.                      *)
Expire(c) ==
    /\ pc[c] = "waiting" /\ decision[c] = "none"
    /\ GoTo(c, "expired")
    /\ UNCHANGED <<asking, admin, label>>

DenyExpired(c) ==
    /\ pc[c] = "expired"
    /\ pending' = pending \ {c}
    /\ GoTo(c, "over")
    /\ UNCHANGED <<admin, decision, session, label>>

(* A slot of the semaphore has come free. *)
Enter(c) ==
    /\ pc[c] = "queued"
    /\ slots[Category(work[c].tool)] > 0
    /\ Handle(c, work[c].tool)
    /\ UNCHANGED <<asking, admin, snaps, before, label>>

(* A process ends by itself, whether or not anybody waits for it. *)
ProcessEnds(c) ==
    /\ c \in alive
    /\ alive' = alive \ {c}
    /\ UNCHANGED <<store, asking, admin, pc, args, label, work, slots, ran>>

StopAwaiting(c) ==
    /\ LeaveHandler(c)
    /\ slots' = Release(Category(work[c].tool))

BugKeepSlot(c) ==
    /\ pc[c] = "running" /\ c \in alive
    /\ LeaveHandler(c)
    /\ UNCHANGED <<store, asking, admin, label, slots, alive, ran>>

(* run_command gives up waiting and raises; the process is not killed.     *)
(* Only generate_release_notes goes on from there.                         *)
TimeOut(c) ==
    /\ pc[c] = "running" /\ c \in alive
    /\ StopAwaiting(c)
    /\ fs' \in IF work[c].tool = "generate_release_notes" THEN NotesWritten(c) ELSE {fs}
    /\ UNCHANGED <<snaps, before, asking, admin, label, alive, ran>>

(* What the handler awaited is there.  Either the next process is started, *)
(* or the handler goes on to its end, well or badly.  A project whose      *)
(* installation failed is put back as it was before it was written,        *)
(* whatever has been written to it meanwhile.                              *)
AfterAwait(c, good) ==
    LET p == Resolve(root, args[c].path)
        q == Resolve(root, args[c].dest)
    IN  CASE work[c].tool = "init_project" ->
                IF good THEN {fs} ELSE UndoScaffold(fs, ProjectScaffold(p, q), work[c].undo)
          [] work[c].tool = "generate_remotion_video" ->
                {r.fs : r \in RenderRemotion(fs, args[c].task, p, good)}
          [] work[c].tool = "generate_release_notes" -> NotesWritten(c)
          [] OTHER -> {fs}

Finish(c) ==
    /\ pc[c] = "running" /\ c \notin alive
    /\ \/ /\ work[c].left > 1
          /\ work' = [work EXCEPT ![c].left = @ - 1]
          /\ alive' = IF work[c].tool \in ProcessTools THEN alive \cup {c} ELSE alive
          /\ UNCHANGED <<fs, pc, args, slots>>
       \/ /\ StopAwaiting(c)
          /\ \E good \in BOOLEAN :
                /\ good => work[c].left = 1
                /\ fs' \in AfterAwait(c, good)
          /\ UNCHANGED alive
    /\ UNCHANGED <<asking, admin, snaps, before, label, ran>>

(* The PostToolUse hooks have returned. *)
Report(c) ==
    /\ pc[c] = "reporting"
    /\ GoTo(c, "over")
    /\ UNCHANGED <<asking, admin, label>>

BugReleaseUnheld(c) ==
    /\ pc[c] \in {"hooks", "announcing", "waiting", "queued", "running", "reporting"}
    /\ pc' = [pc EXCEPT ![c] = "over"]
    /\ args' = [args EXCEPT ![c] = Unused]
    /\ work' = [work EXCEPT ![c] = NoWork]
    /\ slots' = IF pc[c] \in {"queued", "running"} THEN Release(Category(work[c].tool)) ELSE slots
    /\ UNCHANGED <<store, asking, admin, label, alive, ran>>

(* The coroutine of the call is cancelled at one of its awaits.  A process *)
(* goes on, a registered future stays registered.                          *)
Cancel(c) ==
    /\ pc[c] \in {"hooks", "announcing", "waiting", "queued", "running", "reporting"}
    /\ pc' = [pc EXCEPT ![c] = "over"]
    /\ args' = [args EXCEPT ![c] = Unused]
    /\ work' = [work EXCEPT ![c] = NoWork]
    /\ slots' = IF pc[c] = "running" THEN Release(Category(work[c].tool)) ELSE slots
    /\ UNCHANGED <<store, asking, admin, label, alive, ran>>

-----------------------------------------------------------------------------
(* The endpoints and restarts.                                             *)

AddRule ==
    /\ events < MaxEvents
    /\ \E r \in NewRules : rules' = Append(rules, r)
    /\ events' = events + 1
    /\ UNCHANGED <<store, asking, root, closed, pc, args, label, work, slots, alive, ran>>

DeleteRule ==
    /\ events < MaxEvents
    /\ \E i \in DOMAIN rules :
          rules' = SubSeq(rules, 1, i - 1) \o SubSeq(rules, i + 1, Len(rules))
    /\ events' = events + 1
    /\ UNCHANGED <<store, asking, root, closed, pc, args, label, work, slots, alive, ran>>

(* POST /workspace/set-root, to another directory, whatever calls are      *)
(* under way.                                                              *)
SetRoot ==
    /\ events < MaxEvents
    /\ root' \in Roots \ {root}
    /\ events' = events + 1
    /\ UNCHANGED <<store, asking, rules, closed, pc, args, label, work, slots, alive, ran>>

(* A task ends once none of its calls is under way. *)
Close(t) ==
    /\ t \notin closed
    /\ \A c \in Calls : args[c].task # t
    /\ closed' = closed \cup {t}
    /\ UNCHANGED <<store, asking, rules, root, events, pc, args, label, work, slots, alive, ran>>

(* POST /tasks/{id}/rollback: refused while the registry has a live entry  *)
(* of the task, which only a chat has.                                     *)
Rollback(t) ==
    /\ t \in Chats => t \in closed
    /\ HasSnapshots(snaps, t)
    /\ fs' = Restore(snaps, fs, t)
    /\ snaps' = Discard(snaps, t)
    /\ before' = [before EXCEPT ![t] = NoSnapshots]
    /\ UNCHANGED <<asking, admin, pc, args, label, work, slots, alive, ran>>

(* The server goes down and comes back: files, snapshots and processes are *)
(* still there, the rest starts anew.                                      *)
StartAnew ==
    /\ events < MaxEvents
    /\ events' = events + 1
    /\ pc' = [c \in Calls |-> IF pc[c] = "idle" THEN "idle" ELSE "lost"]
    /\ label' = [c \in Calls |-> NoLabel] /\ work' = [c \in Calls |-> NoWork]
    /\ decision' = [c \in Calls |-> "none"]
    /\ pending' = {} /\ session' = {} /\ ran' = {}
    /\ rules' = InitialRules
    /\ root' = WorkspaceRoot
    /\ slots' = [shell |-> MaxShell, browser |-> MaxBrowser]
    /\ closed' = closed \cup {t \in Tasks : \E c \in Calls : args[c].task = t}
    /\ args' = [c \in Calls |-> Unused]
    /\ UNCHANGED <<fs, alive>>

Restart == StartAnew /\ UNCHANGED <<snaps, before>>

(* Whether the call is, or may be, allowed to run at its next step. *)
MayBeAllowed(c) ==
    \/ pc[c] = "waiting" /\ decision[c] \in {"once", "always"}
    \/ /\ pc[c] = "hooks"
       /\ LET m == LastMatch(args[c])
          IN  \/ args[c].bypass
              \/ m.action \in {"none", "allow"}
              \/ m.action = "ask" /\ m.label \in session

(* It goes down while a call that was just allowed writes its snapshot. *)
CrashInSnapshot(c) ==
    /\ MayBeAllowed(c)
    /\ args[c].domain = "edit"
    /\ LET t == args[c].task
           p == Resolve(Cwd, args[c].path)
       IN  /\ snaps' = SnapshotTorn(snaps, t, p)
           /\ before' = IF before[t][p] # NoSnapshot THEN before ELSE [before EXCEPT ![t][p] = Astray]
    /\ StartAnew

(* What a call does by itself.  This is fair: hooks and requests are       *)
(* emitted under a timeout or into a queue, timers fire, and the loop      *)
(* resumes whoever has been woken.  Nobody has to reply.                   *)
Advance(c) == \/ Evaluate(c) \/ RegisterApproval(c) \/ Resume(c) \/ Expire(c) \/ DenyExpired(c)
              \/ Enter(c) \/ TimeOut(c) \/ Finish(c) \/ Report(c)

Next == \/ \E c \in Calls : \/ Begin(c) \/ Advance(c) \/ Reply(c) \/ ProcessEnds(c)
                            \/ Cancel(c) \/ CrashInSnapshot(c)
        \/ \E t \in Tasks : Close(t) \/ Rollback(t)
        \/ AddRule \/ DeleteRule \/ SetRoot \/ Restart

Fairness == \A c \in Calls : WF_vars(Advance(c))

Spec == Init /\ [][Next]_vars /\ Fairness

-----------------------------------------------------------------------------
TypeOK ==
    /\ fs \in FileSystems /\ snaps \in Snapshots
    /\ before \in [Tasks -> [Paths -> Contents \cup {NoSnapshot, Astray}]]
    /\ pc \in [Calls -> {"idle", "hooks", "announcing", "waiting", "expired", "queued", "running",
                        "reporting", "over", "lost"}]
    /\ args \in [Calls -> Requests \cup {Unused} \cup {[Unused EXCEPT !.task = t] : t \in Tasks}]
    /\ label \in [Calls -> Labels \cup {NoLabel, ByPolicy, Bypassed}]
    /\ \A c \in Calls : work[c].tool \in Tools \cup {"none"} /\ work[c].left \in 0 .. 3
    /\ pending \subseteq Calls /\ alive \subseteq Calls /\ ran \subseteq Calls
    /\ decision \in [Calls -> {"none", "once", "always", "reject"}]
    /\ session \subseteq Labels /\ root \in Roots
    /\ slots \in [shell : 0 .. MaxShell, browser : 0 .. MaxBrowser]
    /\ closed \subseteq Tasks
    /\ events \in 0 .. MaxEvents

(* "once" allows a single invocation, "always" all that match the same     *)
(* rule until the server restarts, "reject" denies it (tool_approval_reply *)
(* in server.py): a call that has neither been allowed by the policy nor   *)
(* been made with bypass_policy runs only on the strength of a reply the   *)
(* endpoint has acknowledged, and none runs after a rejection, whatever    *)
(* happens to the rules, the timeout or other calls meanwhile.             *)
OnlyApprovedCallsRun ==
    \A c \in Calls :
        /\ c \in ran =>
              \/ label[c] \in {ByPolicy, Bypassed}
              \/ decision[c] = "once"
              \/ \E d \in Calls : label[d] = label[c] /\ decision[d] = "always"
        /\ decision[c] = "reject" => c \notin ran

(* The slots of the shell and browser semaphores are all accounted for: no *)
(* way out of a handler, be it a timeout, an error or a cancellation while *)
(* it runs or while it queues, loses a slot or gives one back twice.       *)
SlotsAddUp ==
    /\ slots.shell + Cardinality({c \in Calls : pc[c] = "running" /\ work[c].tool \in ShellTools})
          = MaxShell
    /\ slots.browser + Cardinality({c \in Calls : pc[c] = "running" /\ work[c].tool \in BrowserTools})
          = MaxBrowser

(* Rolling a task back gives every file it is on record for the content    *)
(* from before the task's first call on it, or what reading made of it,    *)
(* though other tasks may have written to it since, and touches no other   *)
(* file.  Excepted are the files whose record went astray at that call:    *)
(* they may be given any content that was recorded.                        *)
RollbackUndoes ==
    [][\A t \in Tasks :
          HasSnapshots(snaps, t) /\ ~HasSnapshots(snaps', t) =>
             \A p \in Paths :
                IF snaps[t][p] \in {NoSnapshot, Torn, Unread} \/ IsDir(fs, p)
                THEN fs'[p] = fs[p]
                ELSE \/ before[t][p] = Astray
                     \/ fs'[p] = before[t][p]
                     \/ IsFile(before[t], p) /\ fs'[p] = File(Altered)]_vars

(* A call comes to its end: the approval nobody gives times out, a process *)
(* that hangs is given up, and a slot comes free for those who queue.      *)
CallsEnd == \A c \in Calls : pc[c] = "hooks" ~> pc[c] \in {"over", "lost"}

(* "Tools that mutate files ... should be snapshotted before execution"    *)
(* (rollback.py, above MUTATING_TOOLS): a file that such a tool changes is *)
(* on record for the task.                                                 *)
MutationsAreSnapshotted ==
    [][\A c \in Calls, p \in Paths :
          /\ pc[c] \in {"hooks", "waiting"} /\ pc'[c] = "reporting"
          /\ args[c].domain = "edit"
          /\ fs[p].kind = "file" /\ fs'[p] # fs[p]
          => snaps'[args[c].task][p] # NoSnapshot]_vars
=============================================================================
