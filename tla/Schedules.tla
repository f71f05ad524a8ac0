------------------------------- MODULE Schedules -------------------------------
(***************************************************************************)
(* Task templates, the jobs that run them, and task stacks: what is in     *)
(* memory, what is in the three JSON files of the active workspace, and    *)
(* which jobs the scheduler has (harness/api/server.py).  What a job does  *)
(* when it is due, and when it is switched off, is in Scheduler.           *)
(*                                                                         *)
(* A template is its id, a template job the template it runs; what else a  *)
(* record says is left out, and so is a request that names a template that *)
(* is there already.  A handler runs without a pause, but for the run of a *)
(* template.  Files are written in place, from the top.                    *)
(***************************************************************************)
EXTENDS Naturals, FiniteSets

CONSTANTS Templates,
          JobIds,        (* ids of jobs; a client may choose any            *)
          Maintenance,   (* the id of a maintenance job                     *)
          Roots,         (* workspace directories                           *)
          Launch,        (* the one the server starts in                    *)
          NoJob,         (* an id of which there is no job                  *)
          Torn           (* a file that does not parse, or is not there      *)

VARIABLES
    root,       (* _active_workspace                                        *)
    mem,        (* _task_templates, _scheduled_template_jobs,               *)
                (* _scheduled_task_stack_jobs                               *)
    files,      (* per workspace: their files                               *)
    jobs,       (* the scheduler's jobs: the template it runs, or "stack",  *)
                (* or "maintenance"                                         *)
    running,    (* templates of which a run is under way                    *)
    made,       (* templates there have been                                *)
    moved,      (* whether the workspace has been changed since the start   *)
    crossed     (* ids that have been given to the endpoints of both kinds  *)
                (* of jobs since the start: history                         *)

vars == <<root, mem, files, jobs, running, made, moved, crossed>>

NoJobs == [j \in JobIds |-> NoJob]
Empty  == [templates |-> {}, jobs |-> NoJobs, stacks |-> {}]
Stores == {"templates", "jobs", "stacks"}

Init == /\ root = Launch
        /\ mem = Empty
        /\ files = [r \in Roots |-> Empty]
        /\ jobs = NoJobs
        /\ running = {} /\ made = {} /\ moved = FALSE /\ crossed = {}

(* A file that does not parse is taken for an empty one. *)
Read(file, store) == IF file[store] = Torn THEN Empty[store] ELSE file[store]
Load(file) == [templates |-> Read(file, "templates"), jobs |-> Read(file, "jobs"),
               stacks |-> Read(file, "stacks")]

Save(store) == files' = [files EXCEPT ![root][store] = mem'[store]]

-----------------------------------------------------------------------------
(* Templates.                                                              *)

CreateTemplate(t) ==
    /\ t \notin made
    /\ made' = made \cup {t}
    /\ mem' = [mem EXCEPT !.templates = @ \cup {t}]
    /\ Save("templates")
    /\ UNCHANGED <<root, jobs, running, moved, crossed>>

BugDeleteInMemory(t) ==
    /\ mem' = [mem EXCEPT !.templates = @ \ {t}]
    /\ UNCHANGED <<files, root, jobs, running, made, moved, crossed>>

(* Jobs that run it stay, and fail from now on. *)
DeleteTemplate(t) ==
    /\ mem' = [mem EXCEPT !.templates = @ \ {t}]
    /\ Save("templates")
    /\ UNCHANGED <<root, jobs, running, made, moved, crossed>>

(* _run_template, from POST /tasks/templates/{id}/run or a job *)
BeginRun(t) ==
    /\ t \in mem.templates
    /\ running' = running \cup {t}
    /\ UNCHANGED <<root, mem, files, jobs, made, moved, crossed>>

RunTemplate(t) == BeginRun(t)
RunJob(j) == jobs[j] \in Templates /\ BeginRun(jobs[j])

(* The template goes back among the templates with the run's id, though it *)
(* may have been deleted meanwhile.  Other runs of it may go on.           *)
EndRun(t) ==
    /\ t \in running
    /\ running' \in {running, running \ {t}}
    /\ mem' = [mem EXCEPT !.templates = @ \cup {t}]
    /\ Save("templates")
    /\ UNCHANGED <<root, jobs, made, moved, crossed>>

-----------------------------------------------------------------------------
(* Jobs.                                                                   *)

CreateTemplateJob(j, t) ==
    /\ t \in mem.templates
    /\ mem' = [mem EXCEPT !.jobs[j] = t]
    /\ jobs' = [jobs EXCEPT ![j] = t]
    /\ Save("jobs")
    /\ crossed' = crossed \cup ({j} \cap mem.stacks)
    /\ UNCHANGED <<root, running, made, moved>>

(* remove_job takes away what the scheduler has under the id. *)
DeleteTemplateJob(j) ==
    /\ mem' = [mem EXCEPT !.jobs[j] = NoJob]
    /\ jobs' = [jobs EXCEPT ![j] = NoJob]
    /\ Save("jobs")
    /\ crossed' = crossed \cup ({j} \cap mem.stacks)
    /\ UNCHANGED <<root, running, made, moved>>

InJobs(j) == IF mem.jobs[j] = NoJob THEN {} ELSE {j}

(* The steps are copied from the tasks into the record. *)
CreateTaskStack(j) ==
    /\ mem' = [mem EXCEPT !.stacks = @ \cup {j}]
    /\ jobs' = [jobs EXCEPT ![j] = "stack"]
    /\ Save("stacks")
    /\ crossed' = crossed \cup InJobs(j)
    /\ UNCHANGED <<root, running, made, moved>>

DeleteTaskStack(j) ==
    /\ mem' = [mem EXCEPT !.stacks = @ \ {j}]
    /\ jobs' = [jobs EXCEPT ![j] = NoJob]
    /\ Save("stacks")
    /\ crossed' = crossed \cup InJobs(j)
    /\ UNCHANGED <<root, running, made, moved>>

(* _register_maintenance_jobs: an id that is taken is left alone. *)
RegisterMaintenance ==
    /\ jobs[Maintenance] = NoJob
    /\ jobs' = [jobs EXCEPT ![Maintenance] = "maintenance"]
    /\ UNCHANGED <<root, mem, files, running, made, moved, crossed>>

-----------------------------------------------------------------------------
(* POST /artifacts/cleanup.  It is meant for exported reports, and removes *)
(* every JSON file of the storage directory that is old enough: a store    *)
(* that has not been saved for some days, too.                             *)
Cleanup(store) ==
    /\ files' = [files EXCEPT ![root][store] = Torn]
    /\ UNCHANGED <<root, mem, jobs, running, made, moved, crossed>>

-----------------------------------------------------------------------------
(* The workspace, and the server's start.                                  *)

(* POST /workspace/set-root.  Nothing is loaded: what is in memory goes    *)
(* into the files of the new workspace when it is next saved.              *)
SetRoot(r) ==
    /\ root' = r
    /\ moved' = TRUE
    /\ UNCHANGED <<mem, files, jobs, running, made, crossed>>

BugRehydrateTemplatesOnly(loaded, maintenance) ==
    [j \in JobIds |-> IF loaded.jobs[j] # NoJob THEN loaded.jobs[j]
                      ELSE IF j = Maintenance /\ maintenance THEN "maintenance"
                      ELSE NoJob]

(* Template jobs are registered before task stacks, both after maintenance.*)
Rehydrate(loaded, maintenance) ==
    [j \in JobIds |-> IF j \in loaded.stacks THEN "stack"
                      ELSE IF loaded.jobs[j] # NoJob THEN loaded.jobs[j]
                      ELSE IF j = Maintenance /\ maintenance THEN "maintenance"
                      ELSE NoJob]

StartWith(loaded) ==
    /\ root' = Launch
    /\ mem' = loaded
    /\ \E maintenance \in BOOLEAN : jobs' = Rehydrate(loaded, maintenance)
    /\ running' = {} /\ moved' = FALSE
    /\ crossed' = {j \in loaded.stacks : loaded.jobs[j] # NoJob}
    /\ UNCHANGED made

Restart == StartWith(Load(files[Launch])) /\ UNCHANGED files

(* The server goes down while a handler writes a file. *)
CrashInSave(store) ==
    /\ files' = [files EXCEPT ![root][store] = Torn]
    /\ StartWith(Load(files'[Launch]))

Next == \/ \E t \in Templates : \/ CreateTemplate(t) \/ DeleteTemplate(t)
                                \/ RunTemplate(t) \/ EndRun(t)
                                \/ \E j \in JobIds : CreateTemplateJob(j, t)
        \/ \E j \in JobIds : \/ RunJob(j) \/ DeleteTemplateJob(j)
                             \/ CreateTaskStack(j) \/ DeleteTaskStack(j)
        \/ \E r \in Roots : SetRoot(r)
        \/ \E store \in Stores : Cleanup(store) \/ CrashInSave(store)
        \/ RegisterMaintenance \/ Restart

Spec == Init /\ [][Next]_vars

-----------------------------------------------------------------------------
(* What has been acknowledged is in a file: in that of the workspace the   *)
(* server starts in, unless the workspace has been changed since, and in   *)
(* that of some workspace in any case; so a restart, even one after a      *)
(* crash, gives back all of it that no crash has torn and no cleanup has   *)
(* removed since it was last saved.                                        *)
AcknowledgedIsStored ==
    \A s \in Stores : (\A r \in Roots : files[r][s] # Torn) =>
        /\ \E r \in Roots : Load(files[r])[s] = mem[s]
        /\ ~moved => Load(files[Launch])[s] = mem[s]

(* The scheduler and the records agree, from the start on: it runs no job  *)
(* of a record that is gone, and it has the job of each record, unless its *)
(* id has been used for a job of the other kind, too.                      *)
RecordsAreScheduled ==
    \A j \in JobIds :
        /\ jobs[j] \in Templates => mem.jobs[j] = jobs[j]
        /\ jobs[j] = "stack" => j \in mem.stacks
        /\ j \notin crossed => /\ mem.jobs[j] # NoJob => jobs[j] = mem.jobs[j]
                               /\ j \in mem.stacks => jobs[j] = "stack"

(* A template that was deleted comes back only with the end of a run that  *)
(* was under way, or with a restart after the workspace had been changed.  *)
DeletedStaysDeleted ==
    [][\A t \in made \ mem.templates : t \in mem'.templates => t \in running \/ moved]_vars
=============================================================================
