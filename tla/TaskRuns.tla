------------------------------ MODULE TaskRuns ------------------------------
(***************************************************************************)
(* The life of a task: the coroutine of run_reactive_task, the record of   *)
(* it in the task store, its entry in the cancellation registry and the    *)
(* endpoints that start, cancel, delete and purge tasks.                   *)
(*                                                                         *)
(* There are three ways to start one, and they differ in what can stop it: *)
(*                                                                         *)
(*   Queued   POST /runs: executed by the run queue (here the WorkerPool   *)
(*            it implements) under its timeout; recorded in the store      *)
(*   Direct   POST /tasks/{id}/resume, /tasks/{id}/approve-plan and task   *)
(*            templates: awaited by the handler or, under a timeout, by a  *)
(*            scheduler job; recorded in the store                         *)
(*   Chats    POST /chat: awaited by the handler, usually under a timeout; *)
(*            not recorded, but registered for cancellation                *)
(*                                                                         *)
(* Tasks are single-use (uuid4).  A restart of the server loses all but    *)
(* the task store.                                                         *)
(***************************************************************************)
EXTENDS Naturals, Sequences, FiniteSets

CONSTANTS Queued, Direct, Chats,
          MaxWorkers,    (* execution.max_concurrent_runs *)
          MaxTasks,      (* bound: how many tasks are started *)
          MaxRestarts    (* bound: how often the server is restarted *)

ASSUME TasksAssumption ==
    /\ Queued \cap Direct = {} /\ Queued \cap Chats = {} /\ Direct \cap Chats = {}
    /\ MaxWorkers \in Nat \ {0}
    /\ MaxTasks \in Nat
    /\ MaxRestarts \in Nat

VARIABLES
    backlog,     (* the worker pool: accepted runs that have not begun     *)
    status,      (* the worker pool: RunEntry.state                        *)
    coro,        (* the coroutine of each task                             *)
    stop,        (* why it has been cancelled, "no" if it has not          *)
    record,      (* TaskRecord.status, "none" if the store has no record   *)
    registered,  (* the keys of CancellationRegistry._tasks                *)
    answer,      (* what the handler of a chat has answered                *)
    restarts

pool == <<backlog, status>>
vars == <<backlog, status, coro, stop, record, registered, answer, restarts>>

Tasks == Queued \cup Direct \cup Chats
Persisted == Queued \cup Direct

Pool == INSTANCE WorkerPool WITH
            Runs <- Queued,
            Outcomes <- {"completed", "failed", "timeout", "cancelled"}

Init == /\ Pool!Init
        /\ coro = [t \in Tasks |-> "absent"]
        /\ stop = [t \in Tasks |-> "no"]
        /\ record = [t \in Tasks |-> "none"]
        /\ registered = {}
        /\ answer = [c \in Chats |-> "none"]
        /\ restarts = 0

(* asyncio.Task.done is false: the coroutine has begun and has not ended.  *)
(* "recorded" is a run past mark_completed, in its last notifications.     *)
Live(t) == coro[t] \in {"executing", "recorded"}
Over(t) == coro[t] \in {"returned", "raised", "unwound"}

(* Definitions named Bug... are plausible defects of the code that follows *)
(* them; the properties below are checked to find them.                    *)

-----------------------------------------------------------------------------
(* How tasks start.  A persisted task has its record created and marked    *)
(* started before run_reactive_task suspends for the first time.           *)

MayStart(t) == /\ coro[t] = "absent"
               /\ Cardinality({u \in Tasks : coro[u] # "absent"}) < MaxTasks

(* POST /runs *)
SubmitRun(t) ==
    /\ MayStart(t)
    /\ \/ Pool!Accept(t) /\ coro' = [coro EXCEPT ![t] = "scheduled"]
       \/ Pool!Refuse(t) /\ coro' = [coro EXCEPT ![t] = "refused"]
    /\ UNCHANGED <<stop, record, registered, answer, restarts>>

(* The queue begins the oldest accepted run. *)
BeginRun ==
    /\ Pool!Begin
    /\ coro' = [coro EXCEPT ![Head(backlog)] = "executing"]
    /\ record' = [record EXCEPT ![Head(backlog)] = "running"]
    /\ UNCHANGED <<stop, registered, answer, restarts>>

(* resume_task, approve_task_plan, _run_template *)
BeginDirect(t) ==
    /\ MayStart(t)
    /\ coro' = [coro EXCEPT ![t] = "executing"]
    /\ record' = [record EXCEPT ![t] = "running"]
    /\ UNCHANGED <<pool, stop, registered, answer, restarts>>

(* POST /chat: the coroutine becomes an asyncio task and is registered. *)
BeginChat(c) ==
    /\ MayStart(c)
    /\ coro' = [coro EXCEPT ![c] = "executing"]
    /\ registered' = registered \cup {c}
    /\ UNCHANGED <<pool, stop, record, answer, restarts>>

-----------------------------------------------------------------------------
(* How the coroutine ends.                                                 *)

(* The engine has come up with a result, or with an error that counts as a *)
(* failed result, and mark_completed writes it over whatever the record    *)
(* says.  Also a cancelled coroutine may get here: asyncio.wait_for, which *)
(* the engine and the hooks use, drops a cancellation that arrives         *)
(* together with the result it waits for.                                  *)
Complete(t) ==
    /\ coro[t] = "executing"
    /\ t \in Persisted => record[t] # "none"
    /\ coro' = [coro EXCEPT ![t] = "recorded"]
    /\ IF t \in Persisted
       THEN \E result \in {"completed", "failed"} : record' = [record EXCEPT ![t] = result]
       ELSE UNCHANGED record
    /\ UNCHANGED <<pool, stop, registered, answer, restarts>>

BugReturnEarly(t) ==
    /\ Live(t)
    /\ coro' = [coro EXCEPT ![t] = "returned"]
    /\ UNCHANGED <<pool, stop, record, registered, answer, restarts>>

(* The notifications are out. *)
Return(t) ==
    /\ coro[t] = "recorded"
    /\ coro' = [coro EXCEPT ![t] = "returned"]
    /\ UNCHANGED <<pool, stop, record, registered, answer, restarts>>

(* An exception escapes: one of the plan and review phases, for which no   *)
(* except clause is in place, or mark_completed's KeyError when the record *)
(* has been deleted meanwhile.  Nobody touches the record.                 *)
Raise(t) ==
    /\ coro[t] = "executing"
    /\ coro' = [coro EXCEPT ![t] = "raised"]
    /\ UNCHANGED <<pool, stop, record, registered, answer, restarts>>

(* A cancelled coroutine ends with CancelledError, which the handlers of   *)
(* Exception in it let pass.  Nobody touches the record.                   *)
Unwind(t) ==
    /\ Live(t)
    /\ stop[t] # "no"
    /\ coro' = [coro EXCEPT ![t] = "unwound"]
    /\ UNCHANGED <<pool, stop, record, registered, answer, restarts>>

(* The wait_for of the queue, of the chat handler or of the scheduler that *)
(* runs a template gives up waiting and cancels the coroutine.             *)
Expire(t) ==
    /\ Live(t)
    /\ stop[t] # "timeout"
    /\ stop' = [stop EXCEPT ![t] = "timeout"]
    /\ UNCHANGED <<pool, coro, record, registered, answer, restarts>>

(* What waiting for the coroutine with a timeout comes to. *)
Outcome(t) ==
    CASE coro[t] = "returned"                        -> "completed"
      [] coro[t] = "raised"                          -> "failed"
      [] coro[t] = "unwound" /\ stop[t] = "timeout"  -> "timeout"
      [] coro[t] = "unwound" /\ stop[t] # "timeout"  -> "cancelled"

BugEndWithRecord(t) ==
    /\ Over(t)
    /\ record[t] # "none"
    /\ Pool!End(t)
    /\ status'[t] = Outcome(t)
    /\ UNCHANGED <<coro, stop, record, registered, answer, restarts>>

(* The queue learns that the coroutine of a run has ended. *)
EndRun(t) ==
    /\ Over(t)
    /\ Pool!End(t)
    /\ status'[t] = Outcome(t)
    /\ UNCHANGED <<coro, stop, record, registered, answer, restarts>>

BugLeaveTimeoutsRegistered(c) ==
    /\ Over(c)
    /\ answer[c] = "none"
    /\ answer' = [answer EXCEPT ![c] = Outcome(c)]
    /\ registered' = IF Outcome(c) = "timeout" THEN registered ELSE registered \ {c}
    /\ UNCHANGED <<pool, coro, stop, record, restarts>>

BugAnswerWhileRegistered(c) ==
    /\ Over(c)
    /\ c \in registered
    /\ answer' = [answer EXCEPT ![c] = Outcome(c)]
    /\ registered' = registered \ {c}
    /\ UNCHANGED <<pool, coro, stop, record, restarts>>

(* The chat handler learns it, leaves the registry (finally) and answers.  *)
(* Its mark_cancelled does nothing: a chat has no record.                  *)
AnswerChat(c) ==
    /\ Over(c)
    /\ answer[c] = "none"
    /\ answer' = [answer EXCEPT ![c] = Outcome(c)]
    /\ registered' = registered \ {c}
    /\ UNCHANGED <<pool, coro, stop, record, restarts>>

-----------------------------------------------------------------------------
(* What clients do to tasks.                                               *)

BugCloseWhateverIsThere(t) ==
    /\ LET hit == t \in registered /\ Live(t)
       IN  /\ registered' = registered \ {t}
           /\ stop' = IF hit /\ stop[t] = "no" THEN [stop EXCEPT ![t] = "cancel"] ELSE stop
           /\ record' = IF record[t] # "none" THEN [record EXCEPT ![t] = "cancelled"] ELSE record
    /\ UNCHANGED <<pool, coro, answer, restarts>>

BugMarkCancelling(t) ==
    /\ LET hit == t \in registered /\ Live(t)
       IN  /\ registered' = registered \ {t}
           /\ stop' = IF hit /\ stop[t] = "no" THEN [stop EXCEPT ![t] = "cancel"] ELSE stop
           /\ record' = IF record[t] = "running" THEN [record EXCEPT ![t] = "cancelling"] ELSE record
    /\ UNCHANGED <<pool, coro, answer, restarts>>

(* POST /tasks/{id}/cancel: the registered coroutine is cancelled and      *)
(* forgotten; a record that says "running" is closed in any case.          *)
CancelTask(t) ==
    /\ LET hit == t \in registered /\ Live(t)
       IN  /\ registered' = registered \ {t}
           /\ stop' = IF hit /\ stop[t] = "no" THEN [stop EXCEPT ![t] = "cancel"] ELSE stop
           /\ record' = IF record[t] = "running" \/ (hit /\ record[t] # "none")
                        THEN [record EXCEPT ![t] = "cancelled"]
                        ELSE record
    /\ UNCHANGED <<pool, coro, answer, restarts>>

(* DELETE /tasks/{id} *)
DeleteTask(t) ==
    /\ record[t] # "none"
    /\ record' = [record EXCEPT ![t] = "none"]
    /\ UNCHANGED <<pool, coro, stop, registered, answer, restarts>>

(* POST /tasks/purge, for the records in some scope *)
PurgeTasks ==
    /\ \E scope \in SUBSET {t \in Tasks : record[t] # "none"} :
          record' = [t \in Tasks |-> IF t \in scope THEN "none" ELSE record[t]]
    /\ UNCHANGED <<pool, coro, stop, registered, answer, restarts>>

(* The process dies and comes back: TaskStore._init_db reads the records,  *)
(* everything else starts empty.  A crash may also come between the two    *)
(* commits of create and mark_started, on behalf of a run that begins.     *)
RestartWith(rows) ==
    /\ restarts < MaxRestarts
    /\ restarts' = restarts + 1
    /\ coro' = [t \in Tasks |-> IF coro[t] \in {"absent", "refused"} THEN coro[t] ELSE "lost"]
    /\ record' = rows
    /\ backlog' = <<>>
    /\ status' = [t \in Queued |-> "unknown"]
    /\ stop' = [t \in Tasks |-> "no"]
    /\ registered' = {}
    /\ UNCHANGED answer

Restart ==
    \/ RestartWith(record)
    \/ \E t \in Queued : /\ coro[t] = "scheduled"
                         /\ RestartWith([record EXCEPT ![t] = "pending"])

Next == \/ \E t \in Queued : SubmitRun(t) \/ EndRun(t)
        \/ BeginRun
        \/ \E t \in Direct : BeginDirect(t)
        \/ \E c \in Chats : BeginChat(c) \/ AnswerChat(c)
        \/ \E t \in Tasks : \/ Complete(t) \/ Return(t) \/ Raise(t) \/ Unwind(t) \/ Expire(t)
                            \/ CancelTask(t) \/ DeleteTask(t)
        \/ PurgeTasks
        \/ Restart

(* The fairness of the queue (RunQueue); a cancelled coroutine runs to its *)
(* end, be it that it unwinds or that it completes after all, for the      *)
(* engine has a timeout of its own; a handler resumes when what it awaits  *)
(* is there.  A coroutine nobody cancels may take for ever.                *)
GoToTheEnd(t) == stop[t] # "no" /\ (Unwind(t) \/ Complete(t) \/ Return(t) \/ Raise(t))

Fairness == /\ WF_vars(BeginRun)
            /\ \A t \in Queued : WF_vars(Expire(t)) /\ WF_vars(EndRun(t))
            /\ \A t \in Tasks : WF_vars(GoToTheEnd(t))
            /\ \A c \in Chats : WF_vars(AnswerChat(c))

Spec == Init /\ [][Next]_vars /\ Fairness

-----------------------------------------------------------------------------
Ends == {"none", "completed", "failed", "timeout", "cancelled"}

TypeOK == /\ backlog \in Seq(Queued)
          /\ status \in [Queued -> Pool!Statuses]
          /\ coro \in [Tasks -> {"absent", "refused", "scheduled", "executing", "recorded",
                                 "returned", "raised", "unwound", "lost"}]
          /\ stop \in [Tasks -> {"no", "cancel", "timeout"}]
          /\ record \in [Tasks -> {"none", "pending", "running", "completed", "failed", "cancelled"}]
          /\ registered \in SUBSET Tasks
          /\ answer \in [Chats -> Ends]
          /\ restarts \in 0 .. MaxRestarts

(* The two places a client can ask about a run, GET /runs/{id} and GET     *)
(* /tasks/{id}, do not contradict each other: a run that returned has its  *)
(* result in the store unless somebody deleted it, whoever tried to cancel *)
(* it meanwhile; and a record is only ever "running" for a run that is, or *)
(* that was cut short by a timeout, an exception or a restart.             *)
EntryAndRecordAgree ==
    \A t \in Persisted :
        /\ coro[t] \in {"recorded", "returned"} => record[t] \in {"none", "completed", "failed"}
        /\ t \in Queued /\ status[t] = "completed" => record[t] \in {"none", "completed", "failed"}
        /\ coro[t] \in {"absent", "refused", "scheduled"} => record[t] = "none"
        /\ record[t] = "pending" => coro[t] = "lost"

(* A chat that has been answered is over and has left the registry, and no *)
(* other task ever is in it: the registry does not grow, and a later       *)
(* cancel or rollback does not mistake a finished chat for a running one.  *)
RegistryHoldsOpenChats ==
    /\ \A c \in Chats : answer[c] # "none" => ~Live(c) /\ c \notin registered
    /\ \A t \in registered : t \in Chats /\ (Live(t) \/ Over(t))

(* A result in the store is not overwritten, in particular not by a cancel *)
(* that comes late, and a stale record that was force-closed stays closed. *)
RecordedResultIsFinal ==
    [][\A t \in Tasks :
          /\ record[t] \in {"completed", "failed"} => record'[t] \in {record[t], "none"}
          /\ record[t] = "cancelled" /\ ~Live(t) => record'[t] \in {"cancelled", "none"}]_vars

(* A chat that was cancelled, by its client or its timeout, is answered:   *)
(* the request does not hang, unless the server goes down first.           *)
CancelledChatsAreAnswered ==
    \A c \in Chats : stop[c] # "no" ~> (answer[c] # "none" \/ coro[c] = "lost")

(* A client that polls GET /runs/{id} sees an outcome in the end, even of  *)
(* runs whose record it has cancelled or deleted.                          *)
RunsAreDecided ==
    \A t \in Queued : coro[t] = "scheduled" ~> (status[t] \in Ends \/ coro[t] = "lost")

(* "After API restarts, in-memory cancellation tokens are lost but task    *)
(* store can still show a task as running.  In that case, force-close the  *)
(* stale task" (cancel_task): a record is only closed when the coroutine   *)
(* of the task has been cancelled or is no more.  The code does not keep   *)
(* this: queued and direct runs are never registered.                      *)
ForceCloseOnlyStale ==
    [][\A t \in Tasks :
          (record[t] = "running" /\ record'[t] = "cancelled") => stop'[t] # "no" \/ ~Live(t)]_vars
=============================================================================
