----------------------------- MODULE Scheduler -----------------------------
(***************************************************************************)
(* harness/scheduler/module.py, and the server's use of it.                *)
(*                                                                         *)
(* Jobs are run by Scheduler.tick, one after the other in the order of the *)
(* dictionary they are registered in.  Ticks are run by a background loop  *)
(* of the server and by POST /scheduler/tick, so two may be under way, and *)
(* jobs are registered, replaced, removed and toggled while a tick awaits  *)
(* a callback.                                                             *)
(*                                                                         *)
(* A job here is a ScheduledJob object: registering an id again puts a new *)
(* object in the place of the old one.  Time counts minutes for cron jobs  *)
(* and any unit for interval jobs; it starts at 1, and 0 stands for never. *)
(* Bounds: MaxTime, MaxRequests; each object is registered once.  A        *)
(* dictionary that has seen up to five keys is never compacted, so an      *)
(* iterator's position in it is stable; instances keep to that.            *)
(***************************************************************************)
EXTENDS Naturals, Sequences, FiniteSets, FiniteSetsExt

CONSTANTS Jobs,         (* ScheduledJob objects                                  *)
          Id,           (* their job_id                                          *)
          CronJobs,     (* those with a cron schedule                            *)
          Period,       (* interval_seconds, or n for the cron "*/n * * * *"     *)
          TimedJobs,    (* those with a timeout_s                                *)
          MaxFailures,  (* max_failures of every job                             *)
          Tickers,      (* who runs ticks: the background loop and API requests  *)
          Loop,         (* the background loop                                   *)
          Nobody,       (* the callback of no job                                *)
          MaxRequests,  (* how many API calls there are beside those that register jobs  *)
          MaxTime

ASSUME SchedulerAssumption ==
    /\ CronJobs \subseteq Jobs /\ TimedJobs \subseteq Jobs
    /\ DOMAIN Id = Jobs
    /\ Period \in [Jobs -> Nat \ {0}]
    /\ MaxFailures \in Nat \ {0}
    /\ Loop \in Tickers
    /\ Nobody \notin Jobs
    /\ MaxRequests \in Nat
    /\ MaxTime \in Nat \ {0}

VARIABLES
    now,
    entries,     (* the entries of the jobs dictionary in order, Nobody where one was deleted *)
    registered,  (* the objects that have been registered so far                              *)
    enabled,     (* ScheduledJob.enabled                                                      *)
    failures,    (* failure_count up to max_failures; last_error is set when it is not 0      *)
    last,        (* last_run_at                                                               *)
    running,     (* is_running                                                                *)
    tick,        (* each ticker's tick: when it began, the size of the dictionary then, the   *)
                 (* position of its iterator, how many more entries that expects and the job  *)
                 (* whose callback it awaits                                                  *)
    requests,    (* how many API calls there have been                                        *)
    overruled    (* history: jobs an operator enabled although they had failed too often      *)

settings == <<entries, registered>>
results == <<failures, last>>
vars == <<now, entries, registered, enabled, failures, last, running, tick, requests, overruled>>

Idle == [at |-> 0, size |-> 0, pos |-> 0, left |-> 0, job |-> Nobody]

Init == /\ now = 1
        /\ entries = <<>>
        /\ registered = {}
        /\ enabled = [j \in Jobs |-> FALSE]
        /\ failures = [j \in Jobs |-> 0]
        /\ last = [j \in Jobs |-> 0]
        /\ running = [j \in Jobs |-> FALSE]
        /\ tick = [k \in Tickers |-> Idle]
        /\ requests = 0
        /\ overruled = {}

Size == Cardinality({i \in DOMAIN entries : entries[i] # Nobody})

Held(j) == \E i \in DOMAIN entries : entries[i] = j

(* _cron_due: the minute matches and is not the minute of the last run. *)
CronDue(j, at) == at % Period[j] = 0 /\ last[j] # at

(* _interval_due: also straight away after a failure. *)
IntervalDue(j, at) == last[j] = 0 \/ failures[j] > 0 \/ at >= last[j] + Period[j]

JobDue(j, at) == IF j \in CronJobs THEN CronDue(j, at) ELSE IntervalDue(j, at)

(* How many entries an iterator at pos goes through to get to position i. *)
Steps(pos, i) == Cardinality({h \in pos + 1 .. i : entries[h] # Nobody})

(* The positions an iterator at pos gets to, of jobs that a tick begun at  *)
(* `at` will run.  One that finds more entries than it expects, because    *)
(* some have been deleted behind it and others added, raises RuntimeError. *)
Ahead(at, pos, left) == {i \in DOMAIN entries :
                           /\ i > pos
                           /\ Steps(pos, i) <= left
                           /\ entries[i] # Nobody
                           /\ enabled[entries[i]]
                           /\ JobDue(entries[i], at)}

AwaitJob(at, size, pos, left, i) ==
    [at |-> at, size |-> size, pos |-> i, left |-> left - Steps(pos, i), job |-> entries[i]]

BugStopAtDisabled(k, at, size, pos, left, flags) ==
    LET ahead == {i \in Ahead(at, pos, left) :
                    \A h \in pos + 1 .. i : entries[h] # Nobody => enabled[entries[h]]}
    IN  IF Size # size \/ ahead = {}
        THEN /\ tick' = [tick EXCEPT ![k] = Idle]
             /\ running' = flags
        ELSE LET i == Min(ahead)
             IN  /\ tick' = [tick EXCEPT ![k] = AwaitJob(at, size, pos, left, i)]
                 /\ running' = [flags EXCEPT ![entries[i]] = TRUE]

(* The loop of tick, from one suspension to the next: on to the next job   *)
(* that is enabled and due, whose callback is started and awaited.  A      *)
(* dictionary whose size has changed since the tick began makes the        *)
(* iterator raise RuntimeError, and the tick is over.                      *)
Continue(k, at, size, pos, left, flags) ==
    LET ahead == Ahead(at, pos, left)
    IN  IF Size # size \/ ahead = {}
        THEN /\ tick' = [tick EXCEPT ![k] = Idle]
             /\ running' = flags
        ELSE LET i == Min(ahead)
             IN  /\ tick' = [tick EXCEPT ![k] = AwaitJob(at, size, pos, left, i)]
                 /\ running' = [flags EXCEPT ![entries[i]] = TRUE]

(* ... and on from there when the job has ended. *)
GoOn(k, flags) == Continue(k, tick[k].at, tick[k].size, tick[k].pos, tick[k].left, flags)

(* A client of the API makes a call. *)
Request == requests < MaxRequests /\ requests' = requests + 1

(* tick is called; the time it goes by is read once, here. *)
BeginTick(k) ==
    /\ tick[k] = Idle
    /\ IF k = Loop THEN UNCHANGED requests ELSE Request
    /\ Continue(k, now, Size, 0, Size, running)
    /\ UNCHANGED <<now, settings, enabled, results, overruled>>

(* The callback of the job has returned. *)
JobSucceeds(k) ==
    LET j == tick[k].job
    IN  /\ j # Nobody
        /\ failures' = [failures EXCEPT ![j] = 0]
        /\ last' = [last EXCEPT ![j] = now]
        /\ overruled' = overruled \ {j}
        /\ GoOn(k, [running EXCEPT ![j] = FALSE])
        /\ UNCHANGED <<now, settings, enabled, requests>>

BugFailWithoutGuardrail(k) ==
    LET j == tick[k].job
    IN  /\ j # Nobody
        /\ failures' = [failures EXCEPT ![j] = Min({failures[j] + 1, MaxFailures})]
        /\ last' = [last EXCEPT ![j] = now]
        /\ enabled' = IF failures[j] >= MaxFailures THEN [enabled EXCEPT ![j] = FALSE] ELSE enabled
        /\ GoOn(k, [running EXCEPT ![j] = FALSE])
        /\ UNCHANGED <<now, settings, requests, overruled>>

BugFailWithoutFinally(k) ==
    LET j == tick[k].job
    IN  /\ j # Nobody
        /\ failures' = [failures EXCEPT ![j] = Min({failures[j] + 1, MaxFailures})]
        /\ last' = [last EXCEPT ![j] = now]
        /\ enabled' = IF failures[j] + 1 >= MaxFailures THEN [enabled EXCEPT ![j] = FALSE] ELSE enabled
        /\ GoOn(k, running)
        /\ UNCHANGED <<now, settings, requests, overruled>>

(* The callback has raised, or timeout_s has passed: the failure is        *)
(* counted, and a job that has failed max_failures times is disabled.      *)
JobFails(k) ==
    LET j == tick[k].job
    IN  /\ j # Nobody
        /\ failures' = [failures EXCEPT ![j] = Min({failures[j] + 1, MaxFailures})]
        /\ last' = [last EXCEPT ![j] = now]
        /\ enabled' = IF failures[j] + 1 >= MaxFailures THEN [enabled EXCEPT ![j] = FALSE] ELSE enabled
        /\ GoOn(k, [running EXCEPT ![j] = FALSE])
        /\ UNCHANGED <<now, settings, requests, overruled>>

(* register_job: a new key is appended, a known one gets the new object. *)
RegisterJob(j) ==
    /\ j \notin registered
    /\ registered' = registered \cup {j}
    /\ entries' = IF \E h \in Jobs : Held(h) /\ Id[h] = Id[j]
                  THEN [i \in DOMAIN entries |->
                          IF entries[i] # Nobody /\ Id[entries[i]] = Id[j] THEN j ELSE entries[i]]
                  ELSE Append(entries, j)
    /\ \E flag \in BOOLEAN : enabled' = [enabled EXCEPT ![j] = flag]
    /\ UNCHANGED <<now, results, running, tick, requests, overruled>>

(* remove_job *)
RemoveJob(j) ==
    /\ Request
    /\ Held(j)
    /\ entries' = [i \in DOMAIN entries |-> IF entries[i] = j THEN Nobody ELSE entries[i]]
    /\ UNCHANGED <<now, registered, enabled, results, running, tick, overruled>>

(* set_enabled, which leaves the failure count as it is *)
SetEnabled(j, flag) ==
    /\ Request
    /\ Held(j)
    /\ enabled' = [enabled EXCEPT ![j] = flag]
    /\ overruled' = IF flag /\ failures[j] >= MaxFailures THEN overruled \cup {j} ELSE overruled
    /\ UNCHANGED <<now, settings, results, running, tick>>

Advance ==
    /\ now < MaxTime
    /\ now' = now + 1
    /\ UNCHANGED <<settings, enabled, results, running, tick, requests, overruled>>

EndJob(k) == JobSucceeds(k) \/ JobFails(k)

Next == \/ \E k \in Tickers : BeginTick(k) \/ EndJob(k)
        \/ \E j \in Jobs : \/ RegisterJob(j) \/ RemoveJob(j)
                           \/ \E flag \in BOOLEAN : SetEnabled(j, flag)
        \/ Advance

(* The background loop ticks over and over, and a job with a timeout ends, *)
(* one way or the other.  Nobody has to call the API.                      *)
Fairness == /\ WF_vars(BeginTick(Loop))
            /\ \A j \in TimedJobs : \A k \in Tickers : WF_vars(tick[k].job = j /\ EndJob(k))

Spec == Init /\ [][Next]_vars /\ Fairness

-----------------------------------------------------------------------------
Executes(k, j) == tick[k].job = j

(* The guardrail holds whoever runs the ticks: a job that has failed       *)
(* max_failures times in a row is enabled only if an operator has said so  *)
(* since, even when ticks that overlap report a failure and a success of   *)
(* it in either order.                                                     *)
GuardrailHolds == \A j \in Jobs : failures[j] >= MaxFailures /\ enabled[j] => j \in overruled

(* No job is left marked as running (GET /scheduler/jobs) when its         *)
(* callback is over, or its object replaced or removed while it ran.       *)
RunningIsNotStuck == \A j \in Jobs : running[j] => \E k \in Tickers : Executes(k, j)

(* "test_scheduler_cron_job_runs_once_per_minute_window": a cron job is    *)
(* not started for a minute for which it is running already, or for which  *)
(* it has been run.                                                        *)
CronOncePerWindow ==
    [][\A j \in CronJobs : \A k \in Tickers :
          (~Executes(k, j) /\ Executes(k, j)') =>
              /\ last[j] # tick'[k].at
              /\ \A h \in Tickers : ~(Executes(h, j) /\ tick[h].at = tick'[k].at)]_vars

(* A job that has never run is run before long, however many jobs before   *)
(* it fail, time out or are disabled, as long as it stays registered and   *)
(* enabled and the jobs have timeouts.                                     *)
NewJobsRun ==
    \A j \in Jobs \ CronJobs :
        (Held(j) /\ enabled[j] /\ last[j] = 0)
            ~> (~Held(j) \/ ~enabled[j] \/ last[j] # 0 \/ \E k \in Tickers : Executes(k, j))
=============================================================================
