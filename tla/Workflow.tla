------------------------------- MODULE Workflow -------------------------------
(***************************************************************************)
(* Orchestrator.run_reactive_task between its beginning and its end: the   *)
(* approval gate and the plan phase, the review loop with its role agents, *)
(* the specialists of lightning runs, the implementation, the engine       *)
(* sidecar that replaces all of these, and the announcements at the end.   *)
(* A run is cut wherever it awaits something between two changes of state. *)
(* The endpoints that begin a run decide what is in its input.             *)
(*                                                                         *)
(* The state machine that implements a task, its role models and the       *)
(* sidecar process are external: only how they end is modelled.  An agent  *)
(* is named by its role, the plan item it is for and the round.            *)
(***************************************************************************)
EXTENDS Integers, FiniteSets

CONSTANTS Runs,
          Earlier,            (* tasks of which there is a record already   *)
          MaxItems,           (* bound: the items of a plan                 *)
          IterationSettings,  (* the values that the setting                *)
                              (* superpowered_mode.review_loop_max_iterations *)
                              (* may have: any integers, 0 and less as well *)
          MaxSpecialists,     (* max_subagents                              *)
          RequireVerification,(* require_verification_before_done           *)
          ConfiguredMode,     (* orchestrator.workflow_mode                 *)
          MaxCancels,         (* bound: how often a run is cancelled        *)
          MaxEvents           (* bound: approvals stored or revoked, and    *)
                              (* configuration changes                      *)

ASSUME WorkflowAssumption ==
    /\ MaxItems \in Nat \ {0} /\ MaxSpecialists \in Nat \ {0}
    /\ IterationSettings \subseteq Int /\ IterationSettings # {}
    /\ RequireVerification \in BOOLEAN
    /\ MaxCancels \in Nat /\ MaxEvents \in Nat

VARIABLES
    pc,         (* what each run awaits                                     *)
    task,       (* its input                                                *)
    item,       (* the plan item it is at, the round of the review, and the *)
                (* max_iterations of its loop                               *)
    crew,       (* item_result: the agents of the item it is at             *)
    named,      (* the agents of the items in task_results                  *)
    review,     (* review_result: whether the loop has returned, and how    *)
    spawned,    (* lightning_spawned_ids                                    *)
    active,     (* the agents of the run that are active                    *)
    result,     (* final_result                                             *)
    answer,     (* what the caller gets: the result, or an exception        *)
    told,       (* WORKFLOW_TELEMETRY and Stop: how often, and with what    *)
    engine,     (* the sidecar process of the run, "none" if it has no use  *)
                (* for one                                                  *)
    cancels,    (* how often the run has been cancelled                     *)
    records,    (* runs with a record in the task store, and their draft    *)
    remembered, (* runs whose output is in the memory                       *)
    stored,     (* approvals.json                                           *)
    subagents,  (* orchestrator.enable_subagents                            *)
    sidecar,    (* engine.use_sidecar                                       *)
    flag,       (* Orchestrator.enable_subagents, shared by all runs        *)
    events

progress == <<item, crew, named, review>>
ending == <<result, answer, told>>
settings == <<stored, subagents, sidecar, events>>
vars == <<pc, task, item, crew, named, review, spawned, active, result, answer, told, engine,
          cancels, records, remembered, stored, subagents, sidecar, flag, events>>

Modes == {"lightning", "superpowered"}
Approvals == {"spec", "plan"}
Inputs == [mode : Modes, approved : SUBSET Approvals, reviews : BOOLEAN, strict : BOOLEAN,
           items : 1 .. MaxItems, persist : BOOLEAN]
NoInput == [mode |-> "lightning", approved |-> {}, reviews |-> FALSE, strict |-> FALSE,
            items |-> 1, persist |-> FALSE]

Init == /\ pc = [r \in Runs |-> "idle"]
        /\ task = [r \in Runs |-> NoInput]
        /\ item = [r \in Runs |-> [at |-> 0, round |-> 0, rounds |-> 0]]
        /\ crew = [r \in Runs |-> {}] /\ named = [r \in Runs |-> {}]
        /\ review = [r \in Runs |-> "none"]
        /\ spawned = [r \in Runs |-> {}] /\ active = [r \in Runs |-> {}]
        /\ result = [r \in Runs |-> "none"] /\ answer = [r \in Runs |-> "none"]
        /\ told = [r \in Runs |-> [telemetry |-> 0, stops |-> 0, outcome |-> "none"]]
        /\ engine = [r \in Runs |-> "none"]
        /\ cancels = [r \in Runs |-> 0]
        /\ records \in [Earlier -> 0 .. MaxItems] /\ remembered = {}
        /\ stored = {} /\ subagents = TRUE /\ sidecar = FALSE /\ flag = TRUE
        /\ events = 0

(* Definitions named Bug... are plausible defects of the code that follows *)
(* them; the properties below are checked to find them.                    *)

-----------------------------------------------------------------------------
(* What decides the course of a run.                                       *)

(* hinted: the description has one of the words that ask for a workflow. *)
ResolveMode(explicit, hinted) ==
    IF explicit \in Modes THEN explicit
    ELSE IF ConfiguredMode \in Modes THEN ConfiguredMode
    ELSE IF hinted THEN "superpowered" ELSE "lightning"

BugOneApprovalWillDo(in) ==
    IF in.mode # "superpowered" \/ in.approved # {} THEN {} ELSE Approvals

MissingApprovals(in) == IF in.mode # "superpowered" THEN {} ELSE Approvals \ in.approved

(* Approvals that a request leaves open are taken from approvals.json. *)
Approved(body) == {a \in Approvals : body[a] = "yes" \/ (body[a] = "unset" /\ a \in stored)}
Bodies == [Approvals -> {"yes", "no", "unset"}]

(* A role model that cannot be invoked, or says neither, passes. *)
RoleVerdict(reply) == reply \in {"PASS", "vague", "error"}
Replies == {"PASS", "FAIL", "vague", "empty", "error"}

(* The number of items of a plan draft: one when the planner gave none, or *)
(* something else than a list; 0 stands for a draft that is not ok.        *)
PlanPhase(reply, n) == IF reply = "error" THEN 0 ELSE IF reply = "json" THEN n ELSE 1

-----------------------------------------------------------------------------
(* How a run begins.                                                       *)

BeginRun(r, in) ==
    /\ pc[r] = "idle"
    /\ task' = [task EXCEPT ![r] = in]
    /\ flag' = subagents
    /\ records' = IF in.persist THEN [s \in DOMAIN records \cup {r} |-> IF s = r THEN 0 ELSE records[s]]
                  ELSE records
    /\ pc' = [pc EXCEPT ![r] = IF sidecar THEN "engine_start" ELSE "start"]
    /\ engine' = [engine EXCEPT ![r] = IF sidecar THEN "idle" ELSE "none"]
    /\ UNCHANGED <<progress, ending, settings, spawned, active, cancels, remembered>>

(* POST /chat and /chat/stream: nothing is persisted and nothing reviewed. *)
Chat(r) ==
    \E explicit \in Modes \cup {"none"}, hinted \in BOOLEAN, body \in Bodies :
        BeginRun(r, [mode |-> ResolveMode(explicit, hinted), approved |-> Approved(body),
                     reviews |-> FALSE, strict |-> FALSE, items |-> 1, persist |-> FALSE])

(* POST /runs.  Here and below strict comes from the configuration. *)
SubmitRun(r) ==
    \E explicit \in Modes \cup {"none"}, body \in Bodies, n \in 1 .. MaxItems, strict \in BOOLEAN :
        BeginRun(r, [mode |-> IF explicit = "none" THEN "lightning" ELSE explicit,
                     approved |-> Approved(body),
                     reviews |-> TRUE, strict |-> strict, items |-> n, persist |-> TRUE])

(* POST /tasks/{id}/resume: without approvals. *)
ResumeTask(s, r) ==
    /\ s \in DOMAIN records
    /\ \E mode \in Modes, strict \in BOOLEAN :
          BeginRun(r, [mode |-> mode, approved |-> {}, reviews |-> TRUE, strict |-> strict,
                       items |-> 1, persist |-> TRUE])

(* POST /tasks/{id}/approve-plan, of any task there is a record of.  A     *)
(* task that has no draft is planned as one item.                          *)
ApprovePlan(s, r) ==
    /\ s \in DOMAIN records
    /\ \E n \in 1 .. MaxItems, override, strict \in BOOLEAN :
          BeginRun(r, [mode |-> "superpowered", approved |-> Approvals, reviews |-> TRUE,
                       strict |-> strict, persist |-> TRUE,
                       items |-> IF override THEN n ELSE IF records[s] = 0 THEN 1 ELSE records[s]])

-----------------------------------------------------------------------------
(* How a run ends.                                                         *)

(* deactivate_agents of the lightning agents, and of those that            *)
(* _collect_review_agent_ids finds in the review_result, if there is one.  *)
Retire(r) == active[r] \ (spawned[r] \cup IF review[r] = "none" THEN {} ELSE named[r])

(* The try block is left, and the finally block begins. *)
Leave(r, how) ==
    /\ active' = [active EXCEPT ![r] = Retire(r)]
    /\ answer' = [answer EXCEPT ![r] = how]
    /\ pc' = [pc EXCEPT ![r] = "telemetry"]

(* mark_completed, which fails when the record has been deleted, and the   *)
(* copy of the output in the memory.                                       *)
Record(r, outcome, next) ==
    /\ result' = [result EXCEPT ![r] = outcome]
    /\ IF task[r].persist /\ r \notin DOMAIN records
       THEN Leave(r, "raised") /\ UNCHANGED remembered
       ELSE /\ pc' = [pc EXCEPT ![r] = next]
            /\ remembered' = IF task[r].persist THEN remembered \cup {r} ELSE remembered
            /\ UNCHANGED <<active, answer>>
    /\ UNCHANGED told

(* TASK_COMPLETED has been published. *)
Announce(r) ==
    /\ pc[r] = "announce"
    /\ Leave(r, result[r])
    /\ UNCHANGED <<task, progress, spawned, result, told, engine, cancels, records, remembered,
                   settings, flag>>

BugTelemetryEndsIt(r) ==
    /\ pc[r] = "telemetry"
    /\ told' = [told EXCEPT ![r].telemetry = @ + 1]
    /\ pc' = [pc EXCEPT ![r] = IF answer[r] \in {"success", "failure"} THEN "stop" ELSE "over"]
    /\ UNCHANGED <<task, progress, spawned, active, result, answer, engine, cancels, records,
                   remembered, settings, flag>>

Telemetry(r) ==
    /\ pc[r] = "telemetry"
    /\ told' = [told EXCEPT ![r].telemetry = @ + 1]
    /\ pc' = [pc EXCEPT ![r] = "stop"]
    /\ UNCHANGED <<task, progress, spawned, active, result, answer, engine, cancels, records,
                   remembered, settings, flag>>

Stop(r) ==
    /\ pc[r] = "stop"
    /\ told' = [told EXCEPT ![r].stops = @ + 1, ![r].outcome = result[r]]
    /\ pc' = [pc EXCEPT ![r] = "over"]
    /\ UNCHANGED <<task, progress, spawned, active, result, answer, engine, cancels, records,
                   remembered, settings, flag>>

-----------------------------------------------------------------------------
(* The gate.                                                               *)

others == <<task, ending, spawned, engine, cancels, records, remembered, settings>>

(* The session has been announced: where the run goes on.  The review loop *)
(* reads its number of rounds from the configuration as it is now.         *)
PassGate(r) ==
    /\ pc[r] = "start"
    /\ LET in == task[r]
       IN  /\ pc' = [pc EXCEPT ![r] =
                    IF MissingApprovals(in) # {} THEN "plan"
                    ELSE IF in.mode = "superpowered" /\ in.reviews
                         THEN IF flag THEN "implementer" ELSE "unavailable"
                    ELSE IF in.mode = "lightning" /\ flag THEN "specialists"
                    ELSE "implement"]
           /\ \E max \in IF in.mode = "superpowered" /\ in.reviews THEN IterationSettings ELSE {0} :
                 item' = [item EXCEPT ![r] = [at |-> 1, round |-> 1, rounds |-> max]]
    /\ UNCHANGED <<others, crew, named, review, active, flag>>

(* The planner has answered: the draft goes into the result, and the run   *)
(* is over until somebody approves.                                        *)
Plan(r) ==
    /\ pc[r] = "plan"
    /\ Record(r, "failure", "announce")
    /\ \E reply \in {"error", "json", "prose"}, n \in 1 .. MaxItems :
          records' = IF r \notin DOMAIN records THEN records
                     ELSE [records EXCEPT ![r] = PlanPhase(reply, n)]
    /\ UNCHANGED <<task, progress, spawned, engine, cancels, settings, flag>>

(* Reviews are required and sub-agents are switched off, or the review     *)
(* loop has failed.                                                        *)
Refuse(r) ==
    /\ pc[r] \in {"unavailable", "review_failed"}
    /\ Record(r, "failure", "announce")
    /\ UNCHANGED <<task, progress, spawned, engine, cancels, records, settings, flag>>

-----------------------------------------------------------------------------
(* The review loop.                                                        *)

Agent(r, role) == [role |-> role, item |-> item[r].at,
                   round |-> IF role = "implementer" THEN 0 ELSE item[r].round]

(* spawn_subagent looks at the configuration again and raises when sub-    *)
(* agents have been switched off meanwhile.  Nothing catches this in the   *)
(* review loop.                                                            *)
Spawn(r, role, next) ==
    /\ flag' = subagents
    /\ IF subagents
       THEN /\ active' = [active EXCEPT ![r] = @ \cup {Agent(r, role)}]
            /\ crew' = [crew EXCEPT ![r] = {a \in @ : a.role # role} \cup {Agent(r, role)}]
            /\ pc' = [pc EXCEPT ![r] = next]
            /\ UNCHANGED answer
       ELSE Leave(r, "raised") /\ UNCHANGED crew
    /\ UNCHANGED <<task, item, named, review, spawned, result, told, engine, cancels, records,
                   remembered, settings>>

SpawnImplementer(r)  == pc[r] = "implementer" /\ Spawn(r, "implementer", "item")
SpawnSpecReviewer(r) == pc[r] = "spec_reviewer" /\ Spawn(r, "spec_reviewer", "code_reviewer")
SpawnCodeReviewer(r) == pc[r] = "code_reviewer" /\ Spawn(r, "code_reviewer", "review")
SpawnVerifier(r)     == pc[r] = "verifier" /\ Spawn(r, "verifier", "verify")

FailReview(r) ==
    /\ review' = [review EXCEPT ![r] = "failed"]
    /\ pc' = [pc EXCEPT ![r] = "review_failed"]
    /\ UNCHANGED <<item, named, crew>>

(* The item is complete and goes into task_results. *)
PassItem(r) ==
    /\ named' = [named EXCEPT ![r] = @ \cup crew[r]]
    /\ crew' = [crew EXCEPT ![r] = {}]
    /\ IF item[r].at < task[r].items
       THEN /\ item' = [item EXCEPT ![r].at = @ + 1, ![r].round = 1]
            /\ pc' = [pc EXCEPT ![r] = "implementer"]
            /\ UNCHANGED review
       ELSE /\ review' = [review EXCEPT ![r] = "passed"]
            /\ pc' = [pc EXCEPT ![r] = "implement"]
            /\ UNCHANGED item

(* The item has been reviewed, or there was no round of review for it. *)
AfterReview(r) ==
    IF RequireVerification
    THEN pc' = [pc EXCEPT ![r] = "verifier"] /\ UNCHANGED progress
    ELSE PassItem(r)

(* The implementer has succeeded, or has failed, raised or timed out.  A   *)
(* setting of 0 or less leaves out the rounds, and the item goes on all    *)
(* the same, without the review_warning.                                   *)
ImplementItem(r) ==
    /\ pc[r] = "item"
    /\ \/ /\ item[r].rounds >= 1
          /\ pc' = [pc EXCEPT ![r] = "spec_reviewer"]
          /\ UNCHANGED progress
       \/ item[r].rounds < 1 /\ AfterReview(r)
       \/ FailReview(r)
    /\ UNCHANGED <<others, active, flag>>

BugCountNoRounds(r) ==
    /\ pc[r] = "review"
    /\ \E spec, code \in Replies :
          IF RoleVerdict(spec) /\ RoleVerdict(code)
          THEN AfterReview(r)
          ELSE pc' = [pc EXCEPT ![r] = "spec_reviewer"] /\ UNCHANGED progress
    /\ UNCHANGED <<others, active, flag>>

(* Both reviewers have spoken.  After the last round the item goes on with *)
(* concerns.                                                               *)
Review(r) ==
    /\ pc[r] = "review"
    /\ \E spec, code \in Replies :
          IF (RoleVerdict(spec) /\ RoleVerdict(code)) \/ item[r].round = item[r].rounds
          THEN AfterReview(r)
          ELSE /\ item' = [item EXCEPT ![r].round = @ + 1]
               /\ pc' = [pc EXCEPT ![r] = "spec_reviewer"]
               /\ UNCHANGED <<crew, named, review>>
    /\ UNCHANGED <<others, active, flag>>

Verify(r) ==
    /\ pc[r] = "verify"
    /\ \E reply \in Replies :
          IF RoleVerdict(reply) \/ ~task[r].strict THEN PassItem(r) ELSE FailReview(r)
    /\ UNCHANGED <<others, active, flag>>

-----------------------------------------------------------------------------
(* Lightning runs, and the implementation.                                 *)

(* One specialist after the other, as many as there are roles.  When sub-  *)
(* agents are switched off meanwhile the list of those already there is    *)
(* lost with the exception.                                                *)
SpawnSpecialist(r) ==
    /\ pc[r] = "specialists"
    /\ \/ /\ subagents
          /\ item[r].round <= MaxSpecialists
          /\ active' = [active EXCEPT ![r] = @ \cup {Agent(r, "specialist")}]
          /\ item' = [item EXCEPT ![r].round = @ + 1]
          /\ flag' = subagents
          /\ UNCHANGED <<pc, spawned>>
       \/ /\ ~subagents
          /\ flag' = subagents
          /\ pc' = [pc EXCEPT ![r] = "implement"]
          /\ UNCHANGED <<active, item, spawned>>
       \/ /\ spawned' = [spawned EXCEPT ![r] = active[r]]
          /\ pc' = [pc EXCEPT ![r] = "implement"]
          /\ UNCHANGED <<active, item, flag>>
    /\ UNCHANGED <<task, crew, named, review, ending, engine, cancels, records, remembered, settings>>

(* The state machine has returned, or has raised. *)
Implement(r) ==
    /\ pc[r] = "implement"
    /\ \E outcome \in {"success", "failure"} : Record(r, outcome, "announce")
    /\ UNCHANGED <<task, progress, spawned, engine, cancels, records, settings, flag>>

-----------------------------------------------------------------------------
(* The sidecar.  This path has no finally block.                           *)

RecordEngineRun(r, outcome) ==
    /\ result' = [result EXCEPT ![r] = outcome]
    /\ IF task[r].persist /\ r \notin DOMAIN records
       THEN /\ pc' = [pc EXCEPT ![r] = "over"]
            /\ answer' = [answer EXCEPT ![r] = "raised"]
            /\ UNCHANGED remembered
       ELSE /\ pc' = [pc EXCEPT ![r] = "engine_telemetry"]
            /\ remembered' = IF task[r].persist THEN remembered \cup {r} ELSE remembered
            /\ UNCHANGED answer
    /\ UNCHANGED <<task, progress, spawned, active, told, cancels, records, settings, flag>>

(* SessionStart has been emitted.  The process is started, or there is no  *)
(* command for it, or it cannot be started.                                *)
StartEngine(r) ==
    /\ pc[r] = "engine_start"
    /\ \/ /\ engine' = [engine EXCEPT ![r] = "running"]
          /\ pc' = [pc EXCEPT ![r] = "engine"]
          /\ UNCHANGED <<task, progress, spawned, active, ending, cancels, records, remembered,
                         settings, flag>>
       \/ RecordEngineRun(r, "failure") /\ UNCHANGED engine

(* The process ends by itself, whether or not anybody waits for it. *)
EngineExits(r) ==
    /\ engine[r] = "running"
    /\ engine' = [engine EXCEPT ![r] = "exited"]
    /\ UNCHANGED <<pc, task, progress, spawned, active, ending, cancels, records, remembered,
                   settings, flag>>

(* What it has written says how it went, or its exit code does. *)
EngineAnswers(r) ==
    /\ pc[r] = "engine" /\ engine[r] = "exited"
    /\ \E outcome \in {"success", "failure"} : RecordEngineRun(r, outcome)
    /\ UNCHANGED engine

BugTimeoutLeavesEngine(r) ==
    /\ pc[r] = "engine" /\ engine[r] = "running"
    /\ RecordEngineRun(r, "failure")
    /\ UNCHANGED engine

EngineTimesOut(r) ==
    /\ pc[r] = "engine" /\ engine[r] = "running"
    /\ engine' = [engine EXCEPT ![r] = "killed"]
    /\ RecordEngineRun(r, "failure")

EngineTelemetry(r) ==
    /\ pc[r] = "engine_telemetry"
    /\ told' = [told EXCEPT ![r].telemetry = @ + 1]
    /\ pc' = [pc EXCEPT ![r] = "engine_stop"]
    /\ UNCHANGED <<task, progress, spawned, active, result, answer, engine, cancels, records,
                   remembered, settings, flag>>

EngineStop(r) ==
    /\ pc[r] = "engine_stop"
    /\ told' = [told EXCEPT ![r].stops = @ + 1, ![r].outcome = result[r]]
    /\ answer' = [answer EXCEPT ![r] = result[r]]
    /\ pc' = [pc EXCEPT ![r] = "over"]
    /\ UNCHANGED <<task, progress, spawned, active, result, engine, cancels, records, remembered,
                   settings, flag>>

-----------------------------------------------------------------------------
(* Cancellation, by a timeout or a request, at whatever the run awaits.    *)
(* In the try block it leads to the finally block; there, or with the      *)
(* sidecar, it is the end ("cut_off" where the finally block is cut off).  *)

InTry(r) == pc[r] \in {"start", "plan", "unavailable", "implementer", "item", "spec_reviewer",
                       "code_reviewer", "review", "verifier", "verify", "review_failed",
                       "specialists", "implement", "announce"}
InFinally(r) == pc[r] \in {"telemetry", "stop"}
InEngine(r) == pc[r] \in {"engine_start", "engine", "engine_telemetry", "engine_stop"}

Cancel(r) ==
    /\ cancels[r] < MaxCancels
    /\ cancels' = [cancels EXCEPT ![r] = @ + 1]
    /\ \/ InTry(r) /\ Leave(r, "cancelled")
       \/ /\ InFinally(r) \/ InEngine(r)
          /\ pc' = [pc EXCEPT ![r] = "over"]
          /\ answer' = [answer EXCEPT ![r] = IF InFinally(r) THEN "cut_off" ELSE "cancelled"]
          /\ UNCHANGED active
    /\ UNCHANGED <<task, progress, spawned, result, told, engine, records, remembered, settings, flag>>

-----------------------------------------------------------------------------
(* Other requests.                                                         *)

run == <<pc, task, progress, spawned, active, ending, engine, cancels, remembered>>

ApproveArtifact ==
    /\ events < MaxEvents
    /\ \E a \in Approvals : stored' = stored \cup {a}
    /\ events' = events + 1
    /\ UNCHANGED <<run, records, subagents, sidecar, flag>>

RevokeArtifact ==
    /\ events < MaxEvents
    /\ \E a \in Approvals : stored' = stored \ {a}
    /\ events' = events + 1
    /\ UNCHANGED <<run, records, subagents, sidecar, flag>>

UpdateConfig ==
    /\ events < MaxEvents
    /\ \/ subagents' = ~subagents /\ UNCHANGED sidecar
       \/ sidecar' = ~sidecar /\ UNCHANGED subagents
    /\ events' = events + 1
    /\ UNCHANGED <<run, records, stored, flag>>

(* Another run than these begins, or spawns an agent. *)
OtherRun ==
    /\ flag' = subagents
    /\ UNCHANGED <<run, records, settings>>

(* DELETE /tasks/{id} *)
DeleteTask(r) ==
    /\ events < MaxEvents
    /\ r \in DOMAIN records
    /\ records' = [s \in DOMAIN records \ {r} |-> records[s]]
    /\ events' = events + 1
    /\ UNCHANGED <<run, stored, subagents, sidecar, flag>>

-----------------------------------------------------------------------------
Advance(r) ==
    \/ PassGate(r) \/ Plan(r) \/ Refuse(r)
    \/ SpawnImplementer(r) \/ ImplementItem(r)
    \/ SpawnSpecReviewer(r) \/ SpawnCodeReviewer(r) \/ Review(r)
    \/ SpawnVerifier(r) \/ Verify(r)
    \/ SpawnSpecialist(r) \/ Implement(r)
    \/ Announce(r) \/ Telemetry(r) \/ Stop(r)
    \/ StartEngine(r) \/ EngineAnswers(r) \/ EngineTimesOut(r) \/ EngineTelemetry(r) \/ EngineStop(r)

Next ==
    \/ \E r \in Runs : \/ Chat(r) \/ SubmitRun(r) \/ Advance(r) \/ EngineExits(r)
                       \/ Cancel(r)
    \/ \E s \in Runs \cup Earlier : \/ DeleteTask(s)
                                    \/ \E r \in Runs : ResumeTask(s, r) \/ ApprovePlan(s, r)
    \/ ApproveArtifact \/ RevokeArtifact \/ UpdateConfig \/ OtherRun

(* Models, tools and the sidecar answer or are given up after a timeout;   *)
(* so a run that can go on does.                                           *)
Fairness == \A r \in Runs : WF_vars(Advance(r))

Spec == Init /\ [][Next]_vars /\ Fairness

-----------------------------------------------------------------------------
(* A superpowered run has both approvals before anybody implements, and    *)
(* where reviews are required it comes to the implementation only when     *)
(* every item of its plan has been implemented, reviewed by both reviewers *)
(* and, if so configured, verified (run_reactive_task and                  *)
(* _run_superpowered_review_loop): except that no item has a reviewer when *)
(* the loop read a setting below 1.                                        *)
WorkIsApprovedAndReviewed ==
    \A r \in Runs :
        LET Covered(role) == {a.item : a \in {b \in named[r] : b.role = role}}
            items == 1 .. task[r].items
        IN  task[r].mode = "superpowered" =>
              /\ pc[r] = "implement" \/ crew[r] # {} \/ named[r] # {} =>
                    task[r].approved = Approvals
              /\ pc[r] = "implement" /\ task[r].reviews =>
                    /\ Covered("implementer") = items
                    /\ RequireVerification => Covered("verifier") = items
                    /\ \A role \in {"spec_reviewer", "code_reviewer"} :
                          Covered(role) = IF item[r].rounds >= 1 THEN items ELSE {}

(* The finally block: every run that is over has announced its telemetry   *)
(* and its stop exactly once, whether it returned, raised or was           *)
(* cancelled, unless the announcements themselves were cancelled; and what *)
(* they say of its outcome is what its caller gets.  A run of the sidecar  *)
(* does so when it returns.                                                *)
EndsAreAnnounced ==
    \A r \in Runs :
        pc[r] = "over" =>
            /\ (IF engine[r] = "none" THEN answer[r] # "cut_off"
                ELSE answer[r] \in {"success", "failure"})
               => told[r].telemetry = 1 /\ told[r].stops = 1
            /\ answer[r] \in {"success", "failure"} => told[r].outcome = answer[r]

(* Agents that a run's result names are inactive when the run is over, on  *)
(* every way out.  A run that was answered with success leaves no others   *)
(* active than reviewers of earlier rounds and specialists whose list was  *)
(* lost when sub-agents were switched off.  And only a run that was        *)
(* cancelled leaves its sidecar process running: one that takes too long   *)
(* is killed (SidecarProcessAdapter.run).                                  *)
NothingIsLeftBehind ==
    \A r \in Runs :
        pc[r] \in {"telemetry", "stop", "over"} =>
            /\ engine[r] = "running" => answer[r] = "cancelled"
            /\ active[r] \cap spawned[r] = {}
            /\ review[r] # "none" => active[r] \cap named[r] = {}
            /\ answer[r] = "success" =>
                  \A a \in active[r] :
                      \/ \E b \in named[r] : b.role = a.role /\ b.item = a.item /\ b.round > a.round
                      \/ a.role = "specialist" /\ spawned[r] = {}

(* Every run comes to its end: the review loop gives up after its rounds   *)
(* and goes on with concerns, and what has been cancelled is unwound.      *)
RunsEnd == \A r \in Runs : pc[r] \in {"start", "engine_start"} ~> pc[r] = "over"
=============================================================================
