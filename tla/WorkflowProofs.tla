----------------------------- MODULE WorkflowProofs -----------------------------
(***************************************************************************)
(* Proofs about Workflow, for any runs, any plans, any settings of the     *)
(* number of rounds, any number of specialists, and any cancellations and  *)
(* changes of the settings.                                                *)
(***************************************************************************)
EXTENDS Workflow, TLAPS

Crews == [role : {"implementer", "spec_reviewer", "code_reviewer", "verifier", "specialist"},
          item : Nat, round : Nat]
Outcomes == {"none", "success", "failure"}
Positions == [at : Nat, round : Nat, rounds : Int]

Types ==
    /\ DOMAIN pc = Runs /\ DOMAIN task = Runs /\ DOMAIN item = Runs /\ DOMAIN crew = Runs
    /\ DOMAIN named = Runs /\ DOMAIN active = Runs /\ DOMAIN spawned = Runs
    /\ DOMAIN review = Runs /\ DOMAIN engine = Runs /\ DOMAIN result = Runs
    /\ DOMAIN answer = Runs /\ DOMAIN told = Runs /\ DOMAIN cancels = Runs
    /\ \A s \in DOMAIN records : records[s] \in 0 .. MaxItems

Values(r) ==
    /\ task[r] \in Inputs /\ item[r] \in Positions /\ result[r] \in Outcomes
    /\ DOMAIN told[r] = {"telemetry", "stops", "outcome"}
    /\ \A a \in crew[r] \cup named[r] \cup active[r] : a \in Crews

Workers == {"implementer"} \cup IF RequireVerification THEN {"verifier"} ELSE {}
Reviewers == {"spec_reviewer", "code_reviewer"}

(* The roles that every item of the run is to have been through. *)
Due(r) == Workers \cup IF item[r].rounds >= 1 THEN Reviewers ELSE {}

Covered(r, role) == {a.item : a \in {b \in named[r] : b.role = role}}
OnCrew(r, role) == \E a \in crew[r] : a.role = role

(* Nobody works for the run, or has. *)
Fresh(r) == /\ crew[r] = {} /\ named[r] = {} /\ active[r] = {} /\ spawned[r] = {}
            /\ review[r] = "none"

(* In the review loop: the items before the one the run is at are covered, *)
(* the crew is that of this item, and whoever is active is in a result or  *)
(* on the crew, or has been followed there by somebody of a later round.   *)
Reviewing(r) ==
    /\ task[r].mode = "superpowered" /\ task[r].reviews /\ task[r].approved = Approvals
    /\ review[r] = "none" /\ spawned[r] = {}
    /\ item[r].at \in 1 .. task[r].items
    /\ \A role \in Due(r) : Covered(r, role) = 1 .. item[r].at - 1
    /\ item[r].rounds < 1 => \A a \in named[r] \cup crew[r] : a.role \notin Reviewers
    /\ \A a \in crew[r] : a.item = item[r].at /\ a.round <= item[r].round
    /\ \A a \in active[r] : \E b \in named[r] \cup crew[r] :
          b.role = a.role /\ b.item = a.item /\ b.round >= a.round

(* Whoever is active is going to be deactivated, except those that         *)
(* NothingIsLeftBehind excepts.                                            *)
Tidy(r) ==
    \A a \in active[r] \ spawned[r] :
        \/ review[r] # "none" /\ a \in named[r]
        \/ \E b \in named[r] : b.role = a.role /\ b.item = a.item /\ b.round > a.round
        \/ a.role = "specialist" /\ spawned[r] = {}

Ready(r) == task[r].mode = "superpowered" =>
               /\ task[r].approved = Approvals
               /\ task[r].reviews =>
                     /\ \A role \in Due(r) : Covered(r, role) = 1 .. task[r].items
                     /\ item[r].rounds < 1 => \A a \in named[r] : a.role \notin Reviewers

(* What a run has done when it is at a place of the code. *)
CourseInv(r) ==
    /\ pc[r] \in {"idle", "start", "plan", "unavailable", "engine_start", "engine",
                  "engine_telemetry", "engine_stop"} => Fresh(r)
    /\ pc[r] \in {"implementer", "item", "spec_reviewer", "code_reviewer", "review", "verifier",
                  "verify"} => Reviewing(r)
    /\ pc[r] = "implementer" => crew[r] = {}
    /\ pc[r] \in {"item", "spec_reviewer", "code_reviewer", "review", "verifier", "verify"} =>
          OnCrew(r, "implementer")
    /\ pc[r] \in {"spec_reviewer", "code_reviewer", "review"} => item[r].rounds >= 1
    /\ pc[r] \in {"code_reviewer", "review"} => OnCrew(r, "spec_reviewer")
    /\ pc[r] = "review" => OnCrew(r, "code_reviewer")
    /\ pc[r] \in {"verifier", "verify"} /\ item[r].rounds >= 1 =>
          OnCrew(r, "spec_reviewer") /\ OnCrew(r, "code_reviewer")
    /\ pc[r] = "verify" => OnCrew(r, "verifier")
    /\ pc[r] = "specialists" =>
          /\ task[r].mode = "lightning" /\ crew[r] = {} /\ named[r] = {} /\ spawned[r] = {}
          /\ review[r] = "none" /\ \A a \in active[r] : a.role = "specialist"
    /\ pc[r] = "implement" => Ready(r) /\ Tidy(r)
    /\ pc[r] = "announce" /\ result[r] = "success" => Tidy(r)
    /\ crew[r] # {} \/ named[r] # {} => task[r].approved = Approvals

Announced(r) ==
    /\ (IF engine[r] = "none" THEN answer[r] # "cut_off" ELSE answer[r] \in {"success", "failure"})
       => told[r].telemetry = 1 /\ told[r].stops = 1
    /\ answer[r] \in {"success", "failure"} => told[r].outcome = answer[r]

NothingLeft(r) ==
    /\ engine[r] = "running" => answer[r] = "cancelled"
    /\ active[r] \cap spawned[r] = {}
    /\ review[r] # "none" => active[r] \cap named[r] = {}
    /\ answer[r] = "success" =>
          \A a \in active[r] :
              \/ \E b \in named[r] : b.role = a.role /\ b.item = a.item /\ b.round > a.round
              \/ a.role = "specialist" /\ spawned[r] = {}

(* What has been announced, and what is left of the sidecar's process. *)
EndInv(r) ==
    /\ pc[r] = "idle" \/ InTry(r) => told[r].telemetry = 0 /\ told[r].stops = 0 /\ engine[r] = "none"
    /\ InFinally(r) => /\ told[r].telemetry = IF pc[r] = "stop" THEN 1 ELSE 0
                       /\ told[r].stops = 0 /\ engine[r] = "none"
                       /\ answer[r] \in {"success", "failure"} => result[r] = answer[r]
    /\ InEngine(r) => /\ told[r].telemetry = IF pc[r] = "engine_stop" THEN 1 ELSE 0
                      /\ told[r].stops = 0 /\ engine[r] # "none"
                      /\ pc[r] # "engine" => engine[r] # "running"
    /\ pc[r] \in {"telemetry", "stop", "over"} => NothingLeft(r)
    /\ pc[r] = "over" => Announced(r)

RunInv(r) == Values(r) /\ CourseInv(r) /\ EndInv(r)
WorkflowInv == Types /\ \A r \in Runs : RunInv(r)

-----------------------------------------------------------------------------
(* A run does not notice what other runs do.                               *)

Still(s) ==
    /\ pc'[s] = pc[s] /\ task'[s] = task[s] /\ item'[s] = item[s] /\ crew'[s] = crew[s]
    /\ named'[s] = named[s] /\ review'[s] = review[s] /\ spawned'[s] = spawned[s]
    /\ active'[s] = active[s] /\ result'[s] = result[s] /\ answer'[s] = answer[s]
    /\ told'[s] = told[s] /\ engine'[s] = engine[s]

(* What a step of run r has to be shown to do. *)
Keeps(r) == Types' /\ RunInv(r)' /\ \A s \in Runs \ {r} : Still(s)

LEMMA Elsewhere == ASSUME NEW s, RunInv(s), Still(s) PROVE RunInv(s)'
<1>1. CourseInv(s)'
  BY DEF Still, RunInv, CourseInv, Fresh, Reviewing, OnCrew, Covered, Due, Ready, Tidy
<1>2. EndInv(s)'
  BY DEF Still, RunInv, EndInv, InTry, InFinally, InEngine, NothingLeft, Announced
<1>3. Values(s)'
  BY DEF Still, RunInv, Values
<1> QED
  BY <1>1, <1>2, <1>3 DEF RunInv

LEMMA StepOfOne ==
    ASSUME WorkflowInv, NEW r \in Runs, Keeps(r) PROVE WorkflowInv'
  BY Elsewhere DEF WorkflowInv, Keeps

-----------------------------------------------------------------------------
(* How a run ends.                                                         *)

(* The step from the try block to the finally block. *)
LEMMA Leaving ==
    ASSUME Types, NEW r \in Runs, NEW how, Leave(r, how)
    PROVE  /\ DOMAIN pc' = Runs /\ DOMAIN answer' = Runs /\ DOMAIN active' = Runs
           /\ pc'[r] = "telemetry" /\ answer'[r] = how /\ active'[r] = Retire(r)
           /\ Retire(r) \subseteq active[r]
           /\ \A s \in Runs \ {r} : pc'[s] = pc[s] /\ answer'[s] = answer[s] /\ active'[s] = active[s]
  BY DEF Leave, Types, Retire

(* Out of the try block nothing has been announced yet, and the agents     *)
(* that the result names are deactivated.                                  *)
LEMMA LeavingEnds ==
    ASSUME Types, NEW r \in Runs, RunInv(r), InTry(r), NEW how, Leave(r, how),
           how \in {"success", "failure"} => result'[r] = how,
           how = "success" => Tidy(r),
           named' = named, review' = review, spawned' = spawned, told' = told, engine' = engine
    PROVE  EndInv(r)'
<1>1. NothingLeft(r)'
  BY Leaving DEF NothingLeft, RunInv, EndInv, InTry, Tidy, Retire
<1> QED
  BY <1>1, Leaving DEF RunInv, EndInv, InTry, InFinally, InEngine

LEMMA LeavingCourse ==
    ASSUME Types, NEW r \in Runs, RunInv(r), NEW how, Leave(r, how),
           crew' = crew, named' = named, task' = task
    PROVE  CourseInv(r)'
  BY Leaving DEF RunInv, CourseInv

LEMMA AnnounceKeeps ==
    ASSUME Types, NEW r \in Runs, RunInv(r), Announce(r) PROVE Keeps(r)
<1>1. /\ pc[r] = "announce" /\ Leave(r, result[r])
      /\ UNCHANGED <<task, item, crew, named, review, spawned, result, told, engine, cancels, records>>
  BY DEF Announce, progress
<1>2. Types' /\ Values(r)' /\ \A s \in Runs \ {r} : Still(s)
  BY <1>1, Leaving DEF Types, Values, RunInv, Still
<1>3. CourseInv(r)'
  BY <1>1, LeavingCourse
<1>4. EndInv(r)'
  BY <1>1, LeavingEnds DEF InTry, RunInv, CourseInv
<1> QED
  BY <1>2, <1>3, <1>4 DEF Keeps, RunInv

LEMMA TelemetryKeeps ==
    ASSUME Types, NEW r \in Runs, RunInv(r), Telemetry(r) PROVE Keeps(r)
<1>1. /\ pc[r] = "telemetry" /\ pc' = [pc EXCEPT ![r] = "stop"]
      /\ told' = [told EXCEPT ![r].telemetry = @ + 1]
      /\ UNCHANGED <<task, item, crew, named, review, spawned, active, result, answer, engine,
                     cancels, records>>
  BY DEF Telemetry, progress
<1>2. told[r].telemetry = 0 /\ told[r].stops = 0
  BY <1>1 DEF RunInv, EndInv, InFinally
<1>3. Types' /\ Values(r)' /\ \A s \in Runs \ {r} : Still(s)
  BY <1>1, <1>2 DEF Types, Values, RunInv, Still
<1>4. CourseInv(r)'
  BY <1>1 DEF Types, RunInv, CourseInv
<1>5. told'[r].telemetry = 1 /\ told'[r].stops = 0
  BY <1>1, <1>2 DEF Types, Values, RunInv
<1>6. NothingLeft(r)'
  BY <1>1 DEF Types, RunInv, EndInv, NothingLeft
<1>7. EndInv(r)'
  BY <1>1, <1>5, <1>6 DEF Types, RunInv, EndInv, InTry, InFinally, InEngine
<1> QED
  BY <1>3, <1>4, <1>7 DEF Keeps, RunInv

(* The stop has been announced, with what the result says. *)
LEMMA Stopped ==
    ASSUME Types, NEW r \in Runs, Values(r), told[r].telemetry = 1, told[r].stops = 0,
           told' = [told EXCEPT ![r].stops = @ + 1, ![r].outcome = result[r]]
    PROVE  /\ DOMAIN told' = Runs /\ \A s \in Runs \ {r} : told'[s] = told[s]
           /\ DOMAIN told'[r] = {"telemetry", "stops", "outcome"}
           /\ told'[r].telemetry = 1 /\ told'[r].stops = 1 /\ told'[r].outcome = result[r]
  BY DEF Types, Values

LEMMA StopKeeps ==
    ASSUME Types, NEW r \in Runs, RunInv(r), Stop(r) PROVE Keeps(r)
<1>1. /\ pc[r] = "stop" /\ pc' = [pc EXCEPT ![r] = "over"]
      /\ told' = [told EXCEPT ![r].stops = @ + 1, ![r].outcome = result[r]]
      /\ UNCHANGED <<task, item, crew, named, review, spawned, active, result, answer, engine,
                     cancels, records>>
  BY DEF Stop, progress
<1>2. told[r].telemetry = 1 /\ told[r].stops = 0
  BY <1>1 DEF RunInv, EndInv, InFinally
<1>3. /\ DOMAIN told' = Runs /\ \A s \in Runs \ {r} : told'[s] = told[s]
      /\ DOMAIN told'[r] = {"telemetry", "stops", "outcome"}
      /\ told'[r].telemetry = 1 /\ told'[r].stops = 1 /\ told'[r].outcome = result[r]
  BY <1>1, <1>2, Stopped DEF RunInv
<1>4. Types' /\ Values(r)' /\ \A s \in Runs \ {r} : Still(s)
  BY <1>1, <1>3 DEF Types, Values, RunInv, Still
<1>5. CourseInv(r)'
  BY <1>1 DEF Types, RunInv, CourseInv
<1>6. NothingLeft(r)' /\ Announced(r)'
  BY <1>1, <1>3 DEF Types, RunInv, EndInv, InFinally, NothingLeft, Announced
<1>7. EndInv(r)'
  BY <1>1, <1>6 DEF Types, RunInv, EndInv, InTry, InFinally, InEngine
<1> QED
  BY <1>4, <1>5, <1>7 DEF Keeps, RunInv

(* At whatever a run is cancelled. *)
LEMMA CancelKeeps ==
    ASSUME Types, NEW r \in Runs, RunInv(r), Cancel(r) PROVE Keeps(r)
<1>1. /\ cancels' = [cancels EXCEPT ![r] = @ + 1]
      /\ UNCHANGED <<task, item, crew, named, review, spawned, result, told, engine, records>>
  BY DEF Cancel, progress
<1>2. CASE InTry(r) /\ Leave(r, "cancelled")
  <2>1. Types' /\ Values(r)' /\ \A s \in Runs \ {r} : Still(s)
    BY <1>1, <1>2, Leaving DEF Types, Values, RunInv, Still
  <2>2. CourseInv(r)'
    BY <1>1, <1>2, LeavingCourse
  <2>3. EndInv(r)'
    BY <1>1, <1>2, LeavingEnds
  <2> QED
    BY <2>1, <2>2, <2>3 DEF Keeps, RunInv
<1>3. CASE /\ InFinally(r) \/ InEngine(r)
           /\ pc' = [pc EXCEPT ![r] = "over"]
           /\ answer' = [answer EXCEPT ![r] = IF InFinally(r) THEN "cut_off" ELSE "cancelled"]
           /\ UNCHANGED active
  <2>1. Types' /\ Values(r)' /\ \A s \in Runs \ {r} : Still(s)
    BY <1>1, <1>3 DEF Types, Values, RunInv, Still
  <2>2. CourseInv(r)'
    BY <1>1, <1>3 DEF Types, RunInv, CourseInv
  <2>3. NothingLeft(r)'
    <3>1. CASE InFinally(r)
      BY <1>1, <1>3, <3>1 DEF Types, RunInv, EndInv, InFinally, NothingLeft
    <3>2. CASE InEngine(r) /\ ~InFinally(r)
      BY <1>1, <1>3, <3>2 DEF Types, RunInv, CourseInv, Fresh, InEngine, NothingLeft
    <3> QED
      BY <1>3, <3>1, <3>2
  <2>4. Announced(r)'
    BY <1>1, <1>3 DEF Types, RunInv, EndInv, InFinally, InEngine, Announced
  <2>5. EndInv(r)'
    BY <1>3, <2>3, <2>4 DEF Types, EndInv, InTry, InFinally, InEngine
  <2> QED
    BY <2>1, <2>2, <2>5 DEF Keeps, RunInv
<1> QED
  BY <1>2, <1>3 DEF Cancel

-----------------------------------------------------------------------------
(* How a run begins.                                                       *)

LEMMA BeginRunKeeps ==
    ASSUME Types, NEW r \in Runs, RunInv(r), NEW in \in Inputs, BeginRun(r, in) PROVE Keeps(r)
<1>1. /\ pc[r] = "idle" /\ task' = [task EXCEPT ![r] = in]
      /\ pc' = [pc EXCEPT ![r] = IF sidecar THEN "engine_start" ELSE "start"]
      /\ engine' = [engine EXCEPT ![r] = IF sidecar THEN "idle" ELSE "none"]
      /\ UNCHANGED <<item, crew, named, review, spawned, active, result, answer, told, cancels>>
  BY DEF BeginRun, progress, ending
<1>2. \A s \in DOMAIN records' : records'[s] \in 0 .. MaxItems
  BY WorkflowAssumption DEF BeginRun, Types
<1>3. Types' /\ Values(r)' /\ \A s \in Runs \ {r} : Still(s)
  BY <1>1, <1>2 DEF Types, Values, RunInv, Still
<1>4. CourseInv(r)'
  BY <1>1 DEF Types, RunInv, CourseInv, Fresh
<1>5. EndInv(r)'
  BY <1>1 DEF Types, RunInv, EndInv, InTry, InFinally, InEngine
<1> QED
  BY <1>3, <1>4, <1>5 DEF Keeps, RunInv

LEMMA ChatKeeps ==
    ASSUME Types, NEW r \in Runs, RunInv(r), Chat(r) PROVE Keeps(r)
<1>1. PICK explicit \in Modes \cup {"none"}, hinted \in BOOLEAN, body \in Bodies :
         BeginRun(r, [mode |-> ResolveMode(explicit, hinted), approved |-> Approved(body),
                      reviews |-> FALSE, strict |-> FALSE, items |-> 1, persist |-> FALSE])
  BY DEF Chat
<1>2. [mode |-> ResolveMode(explicit, hinted), approved |-> Approved(body),
       reviews |-> FALSE, strict |-> FALSE, items |-> 1, persist |-> FALSE] \in Inputs
  <2>1. ResolveMode(explicit, hinted) \in Modes /\ Approved(body) \in SUBSET Approvals
    BY DEF ResolveMode, Modes, Approved
  <2> QED
    BY <2>1, WorkflowAssumption DEF Inputs
<1> QED
  BY <1>1, <1>2, BeginRunKeeps

LEMMA SubmitRunKeeps ==
    ASSUME Types, NEW r \in Runs, RunInv(r), SubmitRun(r) PROVE Keeps(r)
<1>1. PICK explicit \in Modes \cup {"none"}, body \in Bodies, n \in 1 .. MaxItems, strict \in BOOLEAN :
         BeginRun(r, [mode |-> IF explicit = "none" THEN "lightning" ELSE explicit,
                      approved |-> Approved(body),
                      reviews |-> TRUE, strict |-> strict, items |-> n, persist |-> TRUE])
  BY DEF SubmitRun
<1>2. [mode |-> IF explicit = "none" THEN "lightning" ELSE explicit, approved |-> Approved(body),
       reviews |-> TRUE, strict |-> strict, items |-> n, persist |-> TRUE] \in Inputs
  BY DEF Inputs, Modes, Approved
<1> QED
  BY <1>1, <1>2, BeginRunKeeps

LEMMA ResumeTaskKeeps ==
    ASSUME Types, NEW r \in Runs, RunInv(r), NEW s, ResumeTask(s, r) PROVE Keeps(r)
<1>1. PICK mode \in Modes, strict \in BOOLEAN :
         BeginRun(r, [mode |-> mode, approved |-> {}, reviews |-> TRUE, strict |-> strict,
                      items |-> 1, persist |-> TRUE])
  BY DEF ResumeTask
<1>2. [mode |-> mode, approved |-> {}, reviews |-> TRUE, strict |-> strict,
       items |-> 1, persist |-> TRUE] \in Inputs
  BY WorkflowAssumption DEF Inputs
<1> QED
  BY <1>1, <1>2, BeginRunKeeps

LEMMA ApprovePlanKeeps ==
    ASSUME Types, NEW r \in Runs, RunInv(r), NEW s, ApprovePlan(s, r) PROVE Keeps(r)
<1>1. s \in DOMAIN records
  BY DEF ApprovePlan
<1>2. PICK n \in 1 .. MaxItems, override \in BOOLEAN, strict \in BOOLEAN :
         BeginRun(r, [mode |-> "superpowered", approved |-> Approvals, reviews |-> TRUE,
                      strict |-> strict, persist |-> TRUE,
                      items |-> IF override THEN n ELSE IF records[s] = 0 THEN 1 ELSE records[s]])
  BY DEF ApprovePlan
<1>3. (IF override THEN n ELSE IF records[s] = 0 THEN 1 ELSE records[s]) \in 1 .. MaxItems
  BY <1>1, WorkflowAssumption DEF Types
<1>4. [mode |-> "superpowered", approved |-> Approvals, reviews |-> TRUE,
       strict |-> strict, persist |-> TRUE,
       items |-> IF override THEN n ELSE IF records[s] = 0 THEN 1 ELSE records[s]] \in Inputs
  BY <1>3 DEF Inputs, Modes
<1> QED
  BY <1>2, <1>4, BeginRunKeeps

-----------------------------------------------------------------------------
(* The gate, and the steps that record how the run went.                   *)

LEMMA PassGateKeeps ==
    ASSUME Types, NEW r \in Runs, RunInv(r), PassGate(r) PROVE Keeps(r)
<1> DEFINE next == IF MissingApprovals(task[r]) # {} THEN "plan"
                   ELSE IF task[r].mode = "superpowered" /\ task[r].reviews
                        THEN IF flag THEN "implementer" ELSE "unavailable"
                   ELSE IF task[r].mode = "lightning" /\ flag THEN "specialists"
                   ELSE "implement"
<1>1. /\ pc[r] = "start" /\ pc' = [pc EXCEPT ![r] = next]
      /\ UNCHANGED <<task, crew, named, review, spawned, active, result, answer, told, engine,
                     cancels, records>>
  BY DEF PassGate, others, ending
<1>8. PICK max \in Int : item' = [item EXCEPT ![r] = [at |-> 1, round |-> 1, rounds |-> max]]
  <2>1. PICK S \in {IterationSettings, {0}} :
          \E max \in S : item' = [item EXCEPT ![r] = [at |-> 1, round |-> 1, rounds |-> max]]
    BY DEF PassGate
  <2>2. S \subseteq Int
    BY WorkflowAssumption
  <2> QED
    BY <2>1, <2>2
<1>2. Types' /\ Values(r)' /\ \A s \in Runs \ {r} : Still(s)
  BY <1>1, <1>8 DEF Types, Values, RunInv, Still, Positions
<1>3. Fresh(r) /\ Fresh(r)'
  BY <1>1 DEF RunInv, CourseInv, Fresh
<1>4. task[r].mode = "superpowered" /\ next # "plan" => task[r].approved = Approvals
  BY DEF MissingApprovals, RunInv, Values, Inputs
<1>5. pc'[r] = next /\ item'[r] = [at |-> 1, round |-> 1, rounds |-> max] /\ task' = task
  BY <1>1, <1>8 DEF Types
<1>6. CourseInv(r)'
  <2>1. next = "implementer" => Reviewing(r)'
    <3>1. HAVE next = "implementer"
    <3>2. task[r].items \in Nat \ {0}
      BY WorkflowAssumption DEF RunInv, Values, Inputs
    <3>3. 1 .. 1 - 1 = {}
      OBVIOUS
    <3>4. \A role : Covered(r, role)' = 1 .. item'[r].at - 1
      BY <1>3, <1>5, <3>3 DEF Covered, Fresh
    <3> QED
      BY <1>3, <1>4, <1>5, <3>1, <3>2, <3>4 DEF Reviewing, Fresh
  <2>2. next = "implement" => Ready(r)' /\ Tidy(r)'
    BY <1>3, <1>4, <1>5 DEF Ready, Tidy, Fresh
  <2>3. next = "specialists" => task[r].mode = "lightning"
    OBVIOUS
  <2>4. next \in {"plan", "implementer", "unavailable", "specialists", "implement"}
    OBVIOUS
  <2> HIDE DEF next
  <2> QED
    BY <1>3, <1>5, <2>1, <2>2, <2>3, <2>4 DEF CourseInv, Fresh
<1>7. EndInv(r)'
  <2>1. next \in {"plan", "implementer", "unavailable", "specialists", "implement"}
    OBVIOUS
  <2> HIDE DEF next
  <2> QED
    BY <1>1, <1>5, <2>1 DEF RunInv, EndInv, InTry, InFinally, InEngine
<1> QED
  BY <1>2, <1>6, <1>7 DEF Keeps, RunInv

(* mark_completed, on whichever of the ways to it. *)
LEMMA RecordKeeps ==
    ASSUME Types, NEW r \in Runs, RunInv(r), InTry(r),
           NEW outcome \in {"success", "failure"}, Record(r, outcome, "announce"),
           outcome = "success" => Tidy(r),
           UNCHANGED <<task, progress, spawned, engine, cancels>>,
           DOMAIN records' = DOMAIN records, \A s \in DOMAIN records' : records'[s] \in 0 .. MaxItems
    PROVE  Keeps(r)
<1>1. /\ result' = [result EXCEPT ![r] = outcome] /\ told' = told
      /\ UNCHANGED <<task, item, crew, named, review, spawned, engine, cancels>>
  BY DEF Record, progress
<1>2. CASE Leave(r, "raised")
  <2>1. Types' /\ Values(r)' /\ \A s \in Runs \ {r} : Still(s)
    BY <1>1, <1>2, Leaving DEF Types, Values, RunInv, Still, Outcomes
  <2>2. CourseInv(r)'
    BY <1>1, <1>2, LeavingCourse
  <2>3. EndInv(r)'
    BY <1>1, <1>2, LeavingEnds
  <2> QED
    BY <2>1, <2>2, <2>3 DEF Keeps, RunInv
<1>3. CASE pc' = [pc EXCEPT ![r] = "announce"] /\ UNCHANGED <<active, answer>>
  <2>1. Types' /\ Values(r)' /\ \A s \in Runs \ {r} : Still(s)
    BY <1>1, <1>3 DEF Types, Values, RunInv, Still, Outcomes
  <2>2. CourseInv(r)'
    BY <1>1, <1>3 DEF Types, RunInv, CourseInv, Tidy
  <2>3. EndInv(r)'
    BY <1>1, <1>3 DEF Types, RunInv, EndInv, InTry, InFinally, InEngine
  <2> QED
    BY <2>1, <2>2, <2>3 DEF Keeps, RunInv
<1> QED
  BY <1>2, <1>3 DEF Record

LEMMA PlanKeeps ==
    ASSUME Types, NEW r \in Runs, RunInv(r), Plan(r) PROVE Keeps(r)
<1>1. DOMAIN records' = DOMAIN records /\ \A s \in DOMAIN records' : records'[s] \in 0 .. MaxItems
  BY WorkflowAssumption DEF Plan, PlanPhase, Types
<1>2. /\ InTry(r) /\ Record(r, "failure", "announce")
      /\ UNCHANGED <<task, progress, spawned, engine, cancels>>
  BY DEF Plan, InTry
<1> QED
  BY <1>1, <1>2, RecordKeeps

LEMMA RefuseKeeps ==
    ASSUME Types, NEW r \in Runs, RunInv(r), Refuse(r) PROVE Keeps(r)
<1>1. /\ InTry(r) /\ Record(r, "failure", "announce")
      /\ UNCHANGED <<task, progress, spawned, engine, cancels, records>>
  BY DEF Refuse, InTry
<1> QED
  BY <1>1, RecordKeeps DEF Types

LEMMA ImplementKeeps ==
    ASSUME Types, NEW r \in Runs, RunInv(r), Implement(r) PROVE Keeps(r)
<1>1. /\ InTry(r) /\ Tidy(r)
      /\ UNCHANGED <<task, progress, spawned, engine, cancels, records>>
  BY DEF Implement, InTry, RunInv, CourseInv
<1>2. PICK outcome \in {"success", "failure"} : Record(r, outcome, "announce")
  BY DEF Implement
<1> QED
  BY <1>1, <1>2, RecordKeeps DEF Types

-----------------------------------------------------------------------------
(* The sidecar.                                                            *)

LEMMA RecordEngineRunKeeps ==
    ASSUME Types, NEW r \in Runs, RunInv(r), pc[r] \in {"engine_start", "engine"},
           NEW outcome \in {"success", "failure"}, RecordEngineRun(r, outcome),
           DOMAIN engine' = Runs, engine'[r] \notin {"none", "running"},
           \A s \in Runs \ {r} : engine'[s] = engine[s]
    PROVE  Keeps(r)
<1>1. /\ result' = [result EXCEPT ![r] = outcome]
      /\ UNCHANGED <<task, item, crew, named, review, spawned, active, told, cancels, records>>
  BY DEF RecordEngineRun, progress
<1>2. \/ pc' = [pc EXCEPT ![r] = "over"] /\ answer' = [answer EXCEPT ![r] = "raised"]
      \/ pc' = [pc EXCEPT ![r] = "engine_telemetry"] /\ answer' = answer
  BY DEF RecordEngineRun
<1>3. Types' /\ Values(r)' /\ \A s \in Runs \ {r} : Still(s)
  BY <1>1, <1>2 DEF Types, Values, RunInv, Still, Outcomes
<1>4. Fresh(r) /\ Fresh(r)'
  BY <1>1 DEF RunInv, CourseInv, Fresh
<1>5. CourseInv(r)'
  BY <1>1, <1>2, <1>4 DEF Types, CourseInv, Fresh
<1>6. EndInv(r)'
  <2>1. told'[r].telemetry = 0 /\ told'[r].stops = 0
    BY <1>1 DEF RunInv, EndInv, InEngine
  <2>2. pc'[r] = "over" => NothingLeft(r)' /\ Announced(r)'
    BY <1>1, <1>2, <1>4 DEF Types, NothingLeft, Announced, Fresh
  <2> QED
    BY <1>2, <2>1, <2>2 DEF Types, EndInv, InTry, InFinally, InEngine
<1> QED
  BY <1>3, <1>5, <1>6 DEF Keeps, RunInv

LEMMA StartEngineKeeps ==
    ASSUME Types, NEW r \in Runs, RunInv(r), StartEngine(r) PROVE Keeps(r)
<1>1. pc[r] = "engine_start" /\ engine[r] \notin {"none", "running"}
  BY DEF StartEngine, RunInv, EndInv, InEngine
<1>2. CASE /\ engine' = [engine EXCEPT ![r] = "running"] /\ pc' = [pc EXCEPT ![r] = "engine"]
           /\ UNCHANGED <<task, progress, spawned, active, ending, cancels, records>>
  <2>1. UNCHANGED <<task, item, crew, named, review, spawned, active, result, answer, told,
                    cancels, records>>
    BY <1>2 DEF progress, ending
  <2>2. Types' /\ Values(r)' /\ \A s \in Runs \ {r} : Still(s)
    BY <1>2, <2>1 DEF Types, Values, RunInv, Still
  <2>3. CourseInv(r)'
    BY <1>1, <1>2, <2>1 DEF Types, RunInv, CourseInv, Fresh
  <2>4. EndInv(r)'
    BY <1>1, <1>2, <2>1 DEF Types, RunInv, EndInv, InTry, InFinally, InEngine
  <2> QED
    BY <2>2, <2>3, <2>4 DEF Keeps, RunInv
<1>3. CASE RecordEngineRun(r, "failure") /\ UNCHANGED engine
  BY <1>1, <1>3, RecordEngineRunKeeps DEF Types
<1> QED
  BY <1>2, <1>3 DEF StartEngine

LEMMA EngineAnswersKeeps ==
    ASSUME Types, NEW r \in Runs, RunInv(r), EngineAnswers(r) PROVE Keeps(r)
<1>1. PICK outcome \in {"success", "failure"} : RecordEngineRun(r, outcome)
  BY DEF EngineAnswers
<1> QED
  BY <1>1, RecordEngineRunKeeps DEF EngineAnswers, Types

LEMMA EngineTimesOutKeeps ==
    ASSUME Types, NEW r \in Runs, RunInv(r), EngineTimesOut(r) PROVE Keeps(r)
  BY RecordEngineRunKeeps DEF EngineTimesOut, Types

LEMMA EngineTelemetryKeeps ==
    ASSUME Types, NEW r \in Runs, RunInv(r), EngineTelemetry(r) PROVE Keeps(r)
<1>1. /\ pc[r] = "engine_telemetry" /\ pc' = [pc EXCEPT ![r] = "engine_stop"]
      /\ told' = [told EXCEPT ![r].telemetry = @ + 1]
      /\ UNCHANGED <<task, item, crew, named, review, spawned, active, result, answer, engine,
                     cancels, records>>
  BY DEF EngineTelemetry, progress
<1>2. told[r].telemetry = 0 /\ told[r].stops = 0 /\ engine[r] \notin {"none", "running"}
  BY <1>1 DEF RunInv, EndInv, InEngine
<1>3. Types' /\ Values(r)' /\ \A s \in Runs \ {r} : Still(s)
  BY <1>1, <1>2 DEF Types, Values, RunInv, Still
<1>4. CourseInv(r)'
  BY <1>1 DEF Types, RunInv, CourseInv, Fresh
<1>5. told'[r].telemetry = 1 /\ told'[r].stops = 0
  BY <1>1, <1>2 DEF Types, Values, RunInv
<1>6. EndInv(r)'
  BY <1>1, <1>2, <1>5 DEF Types, EndInv, InTry, InFinally, InEngine
<1> QED
  BY <1>3, <1>4, <1>6 DEF Keeps, RunInv

LEMMA EngineStopKeeps ==
    ASSUME Types, NEW r \in Runs, RunInv(r), EngineStop(r) PROVE Keeps(r)
<1>1. /\ pc[r] = "engine_stop" /\ pc' = [pc EXCEPT ![r] = "over"]
      /\ told' = [told EXCEPT ![r].stops = @ + 1, ![r].outcome = result[r]]
      /\ answer' = [answer EXCEPT ![r] = result[r]]
      /\ UNCHANGED <<task, item, crew, named, review, spawned, active, result, engine,
                     cancels, records>>
  BY DEF EngineStop, progress
<1>2. told[r].telemetry = 1 /\ told[r].stops = 0 /\ engine[r] \notin {"none", "running"}
  BY <1>1 DEF RunInv, EndInv, InEngine
<1>3. /\ DOMAIN told' = Runs /\ \A s \in Runs \ {r} : told'[s] = told[s]
      /\ DOMAIN told'[r] = {"telemetry", "stops", "outcome"}
      /\ told'[r].telemetry = 1 /\ told'[r].stops = 1 /\ told'[r].outcome = result[r]
  BY <1>1, <1>2, Stopped DEF RunInv
<1>4. Types' /\ Values(r)' /\ \A s \in Runs \ {r} : Still(s)
  BY <1>1, <1>3 DEF Types, Values, RunInv, Still
<1>5. Fresh(r) /\ Fresh(r)'
  BY <1>1 DEF RunInv, CourseInv, Fresh
<1>6. CourseInv(r)'
  BY <1>1, <1>5 DEF Types, CourseInv, Fresh
<1>7. NothingLeft(r)' /\ Announced(r)'
  BY <1>1, <1>2, <1>3, <1>5 DEF Types, NothingLeft, Announced, Fresh
<1>8. EndInv(r)'
  BY <1>1, <1>7 DEF Types, EndInv, InTry, InFinally, InEngine
<1> QED
  BY <1>4, <1>6, <1>8 DEF Keeps, RunInv

LEMMA EngineExitsKeeps ==
    ASSUME Types, NEW r \in Runs, RunInv(r), EngineExits(r) PROVE Keeps(r)
<1>1. /\ engine[r] = "running" /\ engine' = [engine EXCEPT ![r] = "exited"]
      /\ UNCHANGED <<pc, task, item, crew, named, review, spawned, active, result, answer, told,
                     cancels, records>>
  BY DEF EngineExits, progress, ending
<1>2. Types' /\ Values(r)' /\ \A s \in Runs \ {r} : Still(s)
  BY <1>1 DEF Types, Values, RunInv, Still
<1>3. CourseInv(r)'
  BY <1>1 DEF RunInv, CourseInv, Fresh, Reviewing, OnCrew, Covered, Due, Ready, Tidy
<1>4. EndInv(r)'
  BY <1>1 DEF Types, RunInv, EndInv, InTry, InFinally, InEngine, NothingLeft, Announced
<1> QED
  BY <1>2, <1>3, <1>4 DEF Keeps, RunInv

-----------------------------------------------------------------------------
(* The review loop.                                                        *)

(* An agent joins the crew.  One that was there in the same role is of an  *)
(* earlier round.                                                          *)
LEMMA Joining ==
    ASSUME Types, NEW r \in Runs, RunInv(r), Reviewing(r),
           NEW role \in {"implementer", "spec_reviewer", "code_reviewer", "verifier"},
           role = "implementer" => crew[r] = {}, role \in Reviewers => item[r].rounds >= 1,
           active' = [active EXCEPT ![r] = @ \cup {Agent(r, role)}],
           crew' = [crew EXCEPT ![r] = {a \in @ : a.role # role} \cup {Agent(r, role)}],
           UNCHANGED <<task, item, named, review, spawned>>
    PROVE  /\ Reviewing(r)' /\ OnCrew(r, role)'
           /\ \A other : other # role /\ OnCrew(r, other) => OnCrew(r, other)'
           /\ \A a \in crew'[r] \cup named'[r] \cup active'[r] : a \in Crews
<1> DEFINE new == Agent(r, role)
<1>1. /\ active'[r] = active[r] \cup {new}
      /\ crew'[r] = {a \in crew[r] : a.role # role} \cup {new}
  BY DEF Types
<1>2. /\ new \in Crews /\ new.role = role /\ new.item = item[r].at /\ new.round <= item[r].round
      /\ \A b \in crew[r] : b.role = role => b.item = new.item /\ b.round <= new.round
  <2>1. item[r].at \in Nat /\ item[r].round \in Nat
    BY DEF RunInv, Values, Positions
  <2>3. CASE role = "implementer"
    BY <2>1, <2>3 DEF Agent, Crews
  <2>4. CASE role # "implementer"
    BY <2>1, <2>4 DEF Agent, Crews, Reviewing
  <2> QED
    BY <2>3, <2>4
<1> HIDE DEF new
<1>3. \A a \in crew'[r] \cup named'[r] \cup active'[r] : a \in Crews
  BY <1>1, <1>2 DEF RunInv, Values
<1>4. OnCrew(r, role)' /\ \A other : other # role /\ OnCrew(r, other) => OnCrew(r, other)'
  BY <1>1, <1>2 DEF OnCrew
<1>5. \A a \in crew'[r] : a.item = item'[r].at /\ a.round <= item'[r].round
  BY <1>1, <1>2 DEF Reviewing
<1>6. \A a \in active'[r] : \E b \in named'[r] \cup crew'[r] :
         b.role = a.role /\ b.item = a.item /\ b.round >= a.round
  <2>1. TAKE a \in active'[r]
  <2>2. CASE a = new
    BY <1>1, <1>2, <2>2 DEF Crews
  <2>3. CASE a \in active[r]
    <3>1. PICK b \in named[r] \cup crew[r] : b.role = a.role /\ b.item = a.item /\ b.round >= a.round
      BY <2>3 DEF Reviewing
    <3>2. CASE b \in crew[r] /\ b.role = role
      <4>1. a.round \in Nat /\ b.round \in Nat /\ new.round \in Nat
        BY <1>2, <2>3, <3>2 DEF RunInv, Values, Crews
      <4>2. new.role = a.role /\ new.item = a.item /\ new.round >= a.round
        BY <1>2, <3>1, <3>2, <4>1
      <4> QED
        BY <1>1, <4>2
    <3>3. CASE b \in named[r] \/ b.role # role
      BY <1>1, <3>1, <3>3
    <3> QED
      BY <3>2, <3>3
  <2> QED
    BY <1>1, <2>1, <2>2, <2>3
<1>7. item'[r].rounds < 1 => \A a \in named'[r] \cup crew'[r] : a.role \notin Reviewers
  <2>1. item'[r].rounds = item[r].rounds /\ item[r].rounds \in Int
    BY DEF RunInv, Values, Positions
  <2> QED
    BY <1>1, <1>2, <2>1 DEF Reviewing
<1>8. Reviewing(r)'
  BY <1>5, <1>6, <1>7 DEF Reviewing, Covered, Due
<1> QED
  BY <1>3, <1>4, <1>8

LEMMA SpawnKeeps ==
    ASSUME Types, NEW r \in Runs, RunInv(r),
           NEW role \in {"implementer", "spec_reviewer", "code_reviewer", "verifier"},
           NEW next \in {"item", "code_reviewer", "review", "verify"},
           pc[r] = role, Spawn(r, role, next),
           role = "implementer" => next = "item",
           role = "spec_reviewer" => next = "code_reviewer",
           role = "code_reviewer" => next = "review",
           role = "verifier" => next = "verify"
    PROVE  Keeps(r)
<1>1. UNCHANGED <<task, item, named, review, spawned, result, told, engine, cancels, records>>
  BY DEF Spawn
<1>2. CASE Leave(r, "raised") /\ UNCHANGED crew
  <2>1. Types' /\ Values(r)' /\ \A s \in Runs \ {r} : Still(s)
    BY <1>1, <1>2, Leaving DEF Types, Values, RunInv, Still
  <2>2. CourseInv(r)'
    BY <1>1, <1>2, LeavingCourse
  <2>3. EndInv(r)'
    BY <1>1, <1>2, LeavingEnds DEF InTry
  <2> QED
    BY <2>1, <2>2, <2>3 DEF Keeps, RunInv
<1>3. CASE /\ active' = [active EXCEPT ![r] = @ \cup {Agent(r, role)}]
           /\ crew' = [crew EXCEPT ![r] = {a \in @ : a.role # role} \cup {Agent(r, role)}]
           /\ pc' = [pc EXCEPT ![r] = next]
           /\ UNCHANGED answer
  <2>1. /\ Reviewing(r) /\ (role = "implementer" => crew[r] = {})
        /\ role \in Reviewers => item[r].rounds >= 1
    BY DEF RunInv, CourseInv, Reviewers
  <2>2. /\ Reviewing(r)' /\ OnCrew(r, role)'
        /\ \A other : other # role /\ OnCrew(r, other) => OnCrew(r, other)'
        /\ \A a \in crew'[r] \cup named'[r] \cup active'[r] : a \in Crews
    BY <1>1, <1>3, <2>1, Joining
  <2>3. Types' /\ Values(r)' /\ \A s \in Runs \ {r} : Still(s)
    BY <1>1, <1>3, <2>2 DEF Types, Values, RunInv, Still
  <2>4. pc'[r] = next /\ task' = task
    BY <1>1, <1>3 DEF Types
  <2>5. task[r].approved = Approvals
    BY <2>1 DEF Reviewing
  <2>6. CourseInv(r)'
    <3>1. /\ next \in {"code_reviewer", "review", "verify"} => OnCrew(r, "implementer")'
          /\ next = "review" => OnCrew(r, "spec_reviewer")'
          /\ next = "verify" /\ item'[r].rounds >= 1 =>
                OnCrew(r, "spec_reviewer")' /\ OnCrew(r, "code_reviewer")'
          /\ next \in {"code_reviewer", "review"} => item'[r].rounds >= 1
      BY <1>1, <2>2 DEF RunInv, CourseInv
    <3>2. /\ next = "item" => role = "implementer"
          /\ next = "code_reviewer" => role = "spec_reviewer"
          /\ next = "review" => role = "code_reviewer"
          /\ next = "verify" => role = "verifier"
      OBVIOUS
    <3> QED
      BY <2>2, <2>4, <2>5, <3>1, <3>2 DEF CourseInv
  <2>7. EndInv(r)'
    BY <1>1, <2>4 DEF RunInv, EndInv, InTry, InFinally, InEngine
  <2> QED
    BY <2>3, <2>6, <2>7 DEF Keeps, RunInv
<1> QED
  BY <1>2, <1>3 DEF Spawn

LEMMA FailReviewKeeps ==
    ASSUME Types, NEW r \in Runs, RunInv(r), InTry(r), FailReview(r),
           UNCHANGED <<task, spawned, active, result, answer, told, engine, cancels, records>>
    PROVE  Keeps(r)
<1>1. Types' /\ Values(r)' /\ \A s \in Runs \ {r} : Still(s)
  BY DEF FailReview, Types, Values, RunInv, Still
<1>2. CourseInv(r)'
  BY DEF FailReview, Types, RunInv, CourseInv
<1>3. EndInv(r)'
  BY DEF FailReview, Types, RunInv, EndInv, InTry, InFinally, InEngine
<1> QED
  BY <1>1, <1>2, <1>3 DEF Keeps, RunInv

(* The crew of an item covers it in every role. *)
LEMMA Covering ==
    ASSUME NEW r \in Runs, RunInv(r), Reviewing(r), NEW role \in Due(r), OnCrew(r, role),
           named'[r] = named[r] \cup crew[r]
    PROVE  Covered(r, role)' = 1 .. item[r].at
<1>1. item[r].at \in Nat \ {0}
  BY DEF RunInv, Values, Positions, Reviewing
<1>2. Covered(r, role) = 1 .. item[r].at - 1 /\ \A a \in crew[r] : a.item = item[r].at
  BY DEF Reviewing
<1>3. Covered(r, role)' = Covered(r, role) \cup {item[r].at}
  BY <1>2 DEF Covered, OnCrew
<1> QED
  BY <1>1, <1>2, <1>3

LEMMA PassItemKeeps ==
    ASSUME Types, NEW r \in Runs, RunInv(r), Reviewing(r), PassItem(r), InTry(r),
           \A role \in Due(r) : OnCrew(r, role),
           UNCHANGED <<task, spawned, active, result, answer, told, engine, cancels, records>>
    PROVE  Keeps(r)
<1>1. named'[r] = named[r] \cup crew[r] /\ crew'[r] = {}
  BY DEF PassItem, Types
<1>2. item[r].at \in Nat \ {0} /\ task[r].items \in Nat /\ item[r].at <= task[r].items
  BY WorkflowAssumption DEF RunInv, Values, Inputs, Reviewing
<1>3. \A role \in Due(r) : Covered(r, role)' = 1 .. item[r].at
  BY <1>1, Covering
<1>4. \A a \in active'[r] : \E b \in named'[r] :
         b.role = a.role /\ b.item = a.item /\ b.round >= a.round
  BY <1>1 DEF Reviewing
<1>5. \A a \in crew'[r] \cup named'[r] \cup active'[r] : a \in Crews
  BY <1>1 DEF RunInv, Values
<1>8. item[r].rounds < 1 => \A a \in named'[r] \cup crew'[r] : a.role \notin Reviewers
  BY <1>1 DEF Reviewing
<1>6. CASE /\ item[r].at < task[r].items
           /\ item' = [item EXCEPT ![r].at = @ + 1, ![r].round = 1]
           /\ pc' = [pc EXCEPT ![r] = "implementer"]
           /\ UNCHANGED review
  <2>1. /\ item'[r] = [at |-> item[r].at + 1, round |-> 1, rounds |-> item[r].rounds]
        /\ pc'[r] = "implementer"
    BY <1>6 DEF Types, RunInv, Values, Positions
  <2>2. Types' /\ Values(r)' /\ \A s \in Runs \ {r} : Still(s)
    BY <1>2, <1>5, <1>6, <2>1 DEF PassItem, Types, Values, RunInv, Still, Positions
  <2>3. Reviewing(r)'
    <3>1. item'[r].at - 1 = item[r].at /\ item'[r].at \in 1 .. task'[r].items
      BY <1>2, <1>6, <2>1
    <3>2. Due(r)' = Due(r) /\ item'[r].rounds = item[r].rounds
      BY <2>1 DEF Due, Workers
    <3>3. \A role \in Due(r)' : Covered(r, role)' = 1 .. item'[r].at - 1
      BY <1>3, <3>1, <3>2
    <3> QED
      BY <1>1, <1>4, <1>6, <1>8, <3>1, <3>2, <3>3 DEF Reviewing
  <2>4. CourseInv(r)'
    BY <1>1, <2>1, <2>3 DEF CourseInv, Reviewing
  <2>5. EndInv(r)'
    BY <2>1 DEF RunInv, EndInv, InTry, InFinally, InEngine
  <2> QED
    BY <2>2, <2>4, <2>5 DEF Keeps, RunInv
<1>7. CASE /\ ~(item[r].at < task[r].items)
           /\ review' = [review EXCEPT ![r] = "passed"]
           /\ pc' = [pc EXCEPT ![r] = "implement"]
           /\ UNCHANGED item
  <2>1. review'[r] = "passed" /\ pc'[r] = "implement" /\ item[r].at = task[r].items
    BY <1>2, <1>7 DEF Types
  <2>2. Types' /\ Values(r)' /\ \A s \in Runs \ {r} : Still(s)
    BY <1>5, <1>7 DEF PassItem, Types, Values, RunInv, Still
  <2>3. Ready(r)'
    BY <1>3, <1>7, <1>8, <2>1 DEF Ready, Reviewing, Due
  <2>4. Tidy(r)'
    <3>1. SUFFICES ASSUME NEW a \in active'[r]
                   PROVE  \/ a \in named'[r]
                          \/ \E b \in named'[r] : b.role = a.role /\ b.item = a.item /\ b.round > a.round
      BY <2>1 DEF Tidy
    <3>2. PICK b \in named'[r] : b.role = a.role /\ b.item = a.item /\ b.round >= a.round
      BY <1>4
    <3>3. a \in Crews /\ b \in Crews
      BY <1>5
    <3>4. b.round = a.round => a = b
      BY <3>2, <3>3 DEF Crews
    <3> QED
      BY <3>2, <3>3, <3>4 DEF Crews
  <2>5. CourseInv(r)'
    BY <2>1, <2>3, <2>4 DEF CourseInv, Reviewing
  <2>6. EndInv(r)'
    BY <2>1 DEF RunInv, EndInv, InTry, InFinally, InEngine
  <2> QED
    BY <2>2, <2>5, <2>6 DEF Keeps, RunInv
<1> QED
  BY <1>6, <1>7 DEF PassItem

(* The verifier is called for. *)
LEMMA VerifyNextKeeps ==
    ASSUME Types, NEW r \in Runs, RunInv(r), pc[r] \in {"item", "review"},
           pc[r] = "item" => item[r].rounds < 1,
           pc' = [pc EXCEPT ![r] = "verifier"],
           UNCHANGED <<task, item, crew, named, review, spawned, active, result, answer, told,
                       engine, cancels, records>>
    PROVE  Keeps(r)
<1>1. Types' /\ Values(r)' /\ \A s \in Runs \ {r} : Still(s)
  BY DEF Types, Values, RunInv, Still
<1>2. CourseInv(r)'
  <2>1. item[r].rounds \in Int
    BY DEF RunInv, Values, Positions
  <2> QED
    BY <2>1 DEF Types, RunInv, CourseInv, Reviewing, OnCrew, Covered, Due
<1>3. EndInv(r)'
  BY DEF Types, RunInv, EndInv, InTry, InFinally, InEngine
<1> QED
  BY <1>1, <1>2, <1>3 DEF Keeps, RunInv

(* The item has been through its rounds of review, or there were none. *)
LEMMA AfterReviewKeeps ==
    ASSUME Types, NEW r \in Runs, RunInv(r), pc[r] \in {"item", "review"},
           pc[r] = "item" => item[r].rounds < 1, AfterReview(r),
           UNCHANGED <<task, spawned, active, result, answer, told, engine, cancels, records>>
    PROVE  Keeps(r)
<1>1. CASE /\ RequireVerification
           /\ pc' = [pc EXCEPT ![r] = "verifier"] /\ UNCHANGED progress
  BY <1>1, VerifyNextKeeps DEF progress
<1>2. CASE ~RequireVerification /\ PassItem(r)
  <2>1. Reviewing(r) /\ InTry(r) /\ item[r].rounds \in Int
    BY DEF RunInv, CourseInv, InTry, Values, Positions
  <2>2. \A role \in Due(r) : OnCrew(r, role)
    BY <1>2, <2>1 DEF RunInv, CourseInv, Due, Workers, Reviewers
  <2> QED
    BY <1>2, <2>1, <2>2, PassItemKeeps
<1> QED
  BY <1>1, <1>2, WorkflowAssumption DEF AfterReview

LEMMA ImplementItemKeeps ==
    ASSUME Types, NEW r \in Runs, RunInv(r), ImplementItem(r) PROVE Keeps(r)
<1>1. /\ pc[r] = "item" /\ InTry(r)
      /\ UNCHANGED <<task, spawned, active, result, answer, told, engine, cancels, records>>
  BY DEF ImplementItem, others, ending, InTry
<1>2. CASE /\ item[r].rounds >= 1
           /\ pc' = [pc EXCEPT ![r] = "spec_reviewer"] /\ UNCHANGED progress
  <2>1. Types' /\ Values(r)' /\ \A s \in Runs \ {r} : Still(s)
    BY <1>1, <1>2 DEF progress, Types, Values, RunInv, Still
  <2>2. CourseInv(r)'
    BY <1>1, <1>2 DEF progress, Types, RunInv, CourseInv, Reviewing, OnCrew, Covered, Due
  <2>3. EndInv(r)'
    BY <1>1, <1>2 DEF Types, RunInv, EndInv, InTry, InFinally, InEngine
  <2> QED
    BY <2>1, <2>2, <2>3 DEF Keeps, RunInv
<1>3. CASE item[r].rounds < 1 /\ AfterReview(r)
  BY <1>1, <1>3, AfterReviewKeeps
<1>4. CASE FailReview(r)
  BY <1>1, <1>4, FailReviewKeeps
<1> QED
  BY <1>2, <1>3, <1>4 DEF ImplementItem

LEMMA ReviewKeeps ==
    ASSUME Types, NEW r \in Runs, RunInv(r), Review(r) PROVE Keeps(r)
<1>1. /\ pc[r] = "review" /\ InTry(r)
      /\ UNCHANGED <<task, spawned, active, result, answer, told, engine, cancels, records>>
  BY DEF Review, others, ending, InTry
<1>2. /\ Reviewing(r) /\ item[r].rounds >= 1
      /\ OnCrew(r, "implementer") /\ OnCrew(r, "spec_reviewer") /\ OnCrew(r, "code_reviewer")
  BY <1>1 DEF RunInv, CourseInv
<1>3. CASE AfterReview(r)
  BY <1>1, <1>3, AfterReviewKeeps
<1>5. CASE /\ item' = [item EXCEPT ![r].round = @ + 1]
           /\ pc' = [pc EXCEPT ![r] = "spec_reviewer"]
           /\ UNCHANGED <<crew, named, review>>
  <2>1. pc'[r] = "spec_reviewer" /\ item'[r] = [item[r] EXCEPT !.round = @ + 1]
    BY <1>5 DEF Types
  <2>2. /\ item'[r] \in Positions /\ item'[r].at = item[r].at /\ item'[r].rounds = item[r].rounds
        /\ item'[r].round = item[r].round + 1
    BY <2>1 DEF RunInv, Values, Positions
  <2>3. Types' /\ Values(r)' /\ \A s \in Runs \ {r} : Still(s)
    BY <1>1, <1>5, <2>2 DEF Types, Values, RunInv, Still
  <2>4. Reviewing(r)'
    <3>1. \A a \in crew[r] : a.round \in Nat /\ item[r].round \in Nat
      BY DEF RunInv, Values, Crews, Positions
    <3>2. \A a \in crew[r] : a.item = item'[r].at /\ a.round <= item'[r].round
      BY <1>2, <2>2, <3>1 DEF Reviewing
    <3> QED
      BY <1>1, <1>2, <1>5, <2>2, <3>2 DEF Reviewing, Covered, Due
  <2>5. CourseInv(r)'
    BY <1>1, <1>2, <1>5, <2>1, <2>2, <2>4 DEF CourseInv, OnCrew, Reviewing
  <2>6. EndInv(r)'
    BY <1>1, <2>1 DEF RunInv, EndInv, InTry, InFinally, InEngine
  <2> QED
    BY <2>3, <2>5, <2>6 DEF Keeps, RunInv
<1> QED
  BY <1>3, <1>5 DEF Review

LEMMA VerifyKeeps ==
    ASSUME Types, NEW r \in Runs, RunInv(r), Verify(r) PROVE Keeps(r)
<1>1. /\ pc[r] = "verify" /\ InTry(r)
      /\ UNCHANGED <<task, spawned, active, result, answer, told, engine, cancels, records>>
  BY DEF Verify, others, ending, InTry
<1>2. Reviewing(r) /\ \A role \in Due(r) : OnCrew(r, role)
  BY <1>1 DEF RunInv, CourseInv, Due, Workers, Reviewers
<1>3. CASE PassItem(r)
  BY <1>1, <1>2, <1>3, PassItemKeeps
<1>4. CASE FailReview(r)
  BY <1>1, <1>4, FailReviewKeeps
<1> QED
  BY <1>3, <1>4 DEF Verify

-----------------------------------------------------------------------------
(* Lightning runs.                                                         *)

LEMMA SpawnSpecialistKeeps ==
    ASSUME Types, NEW r \in Runs, RunInv(r), SpawnSpecialist(r) PROVE Keeps(r)
<1> DEFINE new == Agent(r, "specialist")
<1>1. /\ pc[r] = "specialists"
      /\ UNCHANGED <<task, crew, named, review, result, answer, told, engine, cancels, records>>
  BY DEF SpawnSpecialist, ending
<1>2. /\ task[r].mode = "lightning" /\ crew[r] = {} /\ named[r] = {} /\ spawned[r] = {}
      /\ review[r] = "none" /\ \A a \in active[r] : a.role = "specialist"
  BY <1>1 DEF RunInv, CourseInv
<1>3. new.role = "specialist" /\ new \in Crews
  BY DEF Agent, Crews, RunInv, Values, Positions
<1> HIDE DEF new
<1>4. CASE /\ active' = [active EXCEPT ![r] = @ \cup {new}]
           /\ item' = [item EXCEPT ![r].round = @ + 1]
           /\ UNCHANGED <<pc, spawned>>
  <2>1. active'[r] = active[r] \cup {new} /\ item'[r] = [item[r] EXCEPT !.round = @ + 1]
    BY <1>4 DEF Types
  <2>2. item'[r] \in Positions
    BY <2>1 DEF RunInv, Values, Positions
  <2>3. Types' /\ Values(r)' /\ \A s \in Runs \ {r} : Still(s)
    BY <1>1, <1>3, <1>4, <2>1, <2>2 DEF Types, Values, RunInv, Still
  <2>4. CourseInv(r)'
    BY <1>1, <1>2, <1>3, <1>4, <2>1 DEF CourseInv
  <2>5. EndInv(r)'
    BY <1>1, <1>4 DEF RunInv, EndInv, InTry, InFinally, InEngine
  <2> QED
    BY <2>3, <2>4, <2>5 DEF Keeps, RunInv
<1>5. CASE /\ pc' = [pc EXCEPT ![r] = "implement"]
           /\ UNCHANGED <<active, item>>
           /\ spawned' = spawned \/ spawned' = [spawned EXCEPT ![r] = active[r]]
  <2>1. Types' /\ Values(r)' /\ \A s \in Runs \ {r} : Still(s)
    BY <1>1, <1>5 DEF Types, Values, RunInv, Still
  <2>2. Ready(r)' /\ Tidy(r)'
    BY <1>1, <1>2, <1>5 DEF Types, Ready, Tidy
  <2>3. CourseInv(r)'
    BY <1>1, <1>2, <1>5, <2>2 DEF Types, CourseInv
  <2>4. EndInv(r)'
    BY <1>1, <1>5 DEF Types, RunInv, EndInv, InTry, InFinally, InEngine
  <2> QED
    BY <2>1, <2>3, <2>4 DEF Keeps, RunInv
<1> QED
  BY <1>4, <1>5 DEF SpawnSpecialist, new

-----------------------------------------------------------------------------
(* The invariant.                                                          *)

LEMMA InitHolds == Init => WorkflowInv
<1> SUFFICES ASSUME Init PROVE WorkflowInv
  OBVIOUS
<1>1. Types
  BY DEF Init, Types
<1>2. ASSUME NEW r \in Runs PROVE Values(r)
  BY <1>2, WorkflowAssumption DEF Init, Values, NoInput, Inputs, Modes, Outcomes, Positions
<1>3. ASSUME NEW r \in Runs PROVE CourseInv(r) /\ EndInv(r)
  BY <1>3 DEF Init, CourseInv, Fresh, EndInv, InTry, InFinally, InEngine
<1> QED
  BY <1>1, <1>2, <1>3 DEF WorkflowInv, RunInv

(* Other requests touch no run. *)
LEMMA OthersHold ==
    ASSUME WorkflowInv, UNCHANGED run, \A s \in DOMAIN records' : records'[s] \in 0 .. MaxItems
    PROVE  WorkflowInv'
<1>1. \A s \in Runs : Still(s)
  BY DEF run, progress, ending, Still
<1>2. Types'
  BY DEF WorkflowInv, run, progress, ending, Types
<1> QED
  BY <1>1, <1>2, Elsewhere DEF WorkflowInv

LEMMA AdvanceKeeps ==
    ASSUME Types, NEW r \in Runs, RunInv(r), Advance(r) PROVE Keeps(r)
<1>1. CASE SpawnImplementer(r)
  BY <1>1, SpawnKeeps DEF SpawnImplementer
<1>2. CASE SpawnSpecReviewer(r)
  BY <1>2, SpawnKeeps DEF SpawnSpecReviewer
<1>3. CASE SpawnCodeReviewer(r)
  BY <1>3, SpawnKeeps DEF SpawnCodeReviewer
<1>4. CASE SpawnVerifier(r)
  BY <1>4, SpawnKeeps DEF SpawnVerifier
<1> QED
  BY <1>1, <1>2, <1>3, <1>4, PassGateKeeps, PlanKeeps, RefuseKeeps, ImplementItemKeeps, ReviewKeeps,
     VerifyKeeps, SpawnSpecialistKeeps, ImplementKeeps, AnnounceKeeps, TelemetryKeeps, StopKeeps,
     StartEngineKeeps, EngineAnswersKeeps, EngineTimesOutKeeps, EngineTelemetryKeeps, EngineStopKeeps
     DEF Advance

LEMMA NextHolds == WorkflowInv /\ [Next]_vars => WorkflowInv'
<1> SUFFICES ASSUME WorkflowInv, [Next]_vars PROVE WorkflowInv'
  OBVIOUS
<1>1. Types /\ \A r \in Runs : RunInv(r)
  BY DEF WorkflowInv
<1>2. ASSUME NEW r \in Runs, Chat(r) \/ SubmitRun(r) \/ Advance(r) \/ EngineExits(r) \/ Cancel(r)
      PROVE  WorkflowInv'
  BY <1>1, <1>2, StepOfOne, ChatKeeps, SubmitRunKeeps, AdvanceKeeps, EngineExitsKeeps, CancelKeeps
<1>3. ASSUME NEW r \in Runs, NEW s, ResumeTask(s, r) \/ ApprovePlan(s, r) PROVE WorkflowInv'
  BY <1>1, <1>3, StepOfOne, ResumeTaskKeeps, ApprovePlanKeeps
<1>4. ASSUME NEW s, DeleteTask(s) PROVE WorkflowInv'
  BY <1>1, <1>4, OthersHold DEF DeleteTask, Types
<1>5. CASE ApproveArtifact \/ RevokeArtifact \/ UpdateConfig \/ OtherRun
  BY <1>1, <1>5, OthersHold DEF ApproveArtifact, RevokeArtifact, UpdateConfig, OtherRun, Types
<1>6. CASE UNCHANGED vars
  BY <1>1, <1>6, OthersHold DEF vars, run, progress, ending, Types
<1> QED
  BY <1>2, <1>3, <1>4, <1>5, <1>6 DEF Next

THEOREM WorkflowInvariant == Spec => []WorkflowInv
  BY InitHolds, NextHolds, PTL DEF Spec

(* A superpowered run works on nothing before both approvals are given,    *)
(* and comes to the implementation only with every item of its plan        *)
(* implemented and verified, and reviewed by both reviewers if and only if *)
(* the setting of the rounds was positive when the loop read it:           *)
(* _run_superpowered_review_loop goes through its items and roles without  *)
(* skipping one, whatever the role models reply, however plans, settings   *)
(* and approvals change meanwhile.                                         *)
THEOREM ApprovedAndReviewed == Spec => []WorkIsApprovedAndReviewed
<1>1. ASSUME NEW r \in Runs, NEW role, \A a \in named[r] : a.role # role
      PROVE  Covered(r, role) = {}
  BY <1>1 DEF Covered
<1>2. ASSUME WorkflowInv, NEW r \in Runs, task[r].mode = "superpowered", pc[r] = "implement", task[r].reviews
      PROVE  /\ \A role \in Due(r) : Covered(r, role) = 1 .. task[r].items
             /\ item[r].rounds < 1 => \A role \in Reviewers : Covered(r, role) = {}
             /\ item[r].rounds \in Int
  BY <1>1, <1>2 DEF WorkflowInv, RunInv, CourseInv, Ready, Values, Positions
<1>3. WorkflowInv => WorkIsApprovedAndReviewed
  <2> SUFFICES ASSUME WorkflowInv, NEW r \in Runs, task[r].mode = "superpowered"
               PROVE  /\ pc[r] = "implement" \/ crew[r] # {} \/ named[r] # {} => task[r].approved = Approvals
                      /\ pc[r] = "implement" /\ task[r].reviews =>
                           /\ Covered(r, "implementer") = 1 .. task[r].items
                           /\ RequireVerification => Covered(r, "verifier") = 1 .. task[r].items
                           /\ \A role \in {"spec_reviewer", "code_reviewer"} :
                                 Covered(r, role) = IF item[r].rounds >= 1 THEN 1 .. task[r].items ELSE {}
    BY DEF WorkIsApprovedAndReviewed, Covered
  <2>1. pc[r] = "implement" \/ crew[r] # {} \/ named[r] # {} => task[r].approved = Approvals
    BY DEF WorkflowInv, RunInv, CourseInv, Ready
  <2>2. ASSUME pc[r] = "implement", task[r].reviews
        PROVE  /\ Covered(r, "implementer") = 1 .. task[r].items
               /\ RequireVerification => Covered(r, "verifier") = 1 .. task[r].items
               /\ \A role \in {"spec_reviewer", "code_reviewer"} :
                     Covered(r, role) = IF item[r].rounds >= 1 THEN 1 .. task[r].items ELSE {}
    BY <1>2, <2>2 DEF Due, Workers, Reviewers
  <2> QED
    BY <2>1, <2>2
<1> QED
  BY <1>3, WorkflowInvariant, PTL

(* The finally block of run_reactive_task, and the end of a sidecar run:   *)
(* a run that is over has announced telemetry and stop exactly once, with  *)
(* the outcome its caller gets, unless they were themselves cancelled.     *)
THEOREM AnnouncedOnce == Spec => []EndsAreAnnounced
<1>1. WorkflowInv => EndsAreAnnounced
  BY DEF WorkflowInv, RunInv, EndInv, Announced, EndsAreAnnounced
<1> QED
  BY <1>1, WorkflowInvariant, PTL

(* deactivate_agents and the sidecar's kill: on every way out of a run no  *)
(* agent that its result names stays active, and only a cancelled run      *)
(* leaves its process behind.                                              *)
THEOREM NothingLeftBehind == Spec => []NothingIsLeftBehind
<1>1. WorkflowInv => NothingIsLeftBehind
  BY DEF WorkflowInv, RunInv, EndInv, NothingLeft, NothingIsLeftBehind
<1> QED
  BY <1>1, WorkflowInvariant, PTL
=============================================================================
