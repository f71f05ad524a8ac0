------------------------------ MODULE RunQueue ------------------------------
(***************************************************************************)
(* harness/execution/queue.py: the queue that bounds how many runs execute *)
(* at once and gives each of them a wall-clock timeout.                    *)
(*                                                                         *)
(* All of it runs on one asyncio event loop, so an action here is one      *)
(* stretch of code between two suspensions.  A run goes through            *)
(*                                                                         *)
(*   absent -> ready -> [waiting -> granted ->] executing                  *)
(*          -> [stopping ->] ended                                         *)
(*                                                                         *)
(* "ready" is the _execute task created by submit and not yet scheduled,   *)
(* "waiting" the task parked in the semaphore, "granted" the task whose    *)
(* waiter the semaphore has resolved but which has not resumed, "stopping" *)
(* a run that wait_for has cancelled after its timeout and whose coroutine *)
(* has not unwound.                                                        *)
(*                                                                         *)
(* The semaphore is asyncio.Semaphore of the Python versions the project   *)
(* supports (3.11): release hands its slot to the oldest parked task       *)
(* rather than leaving it for whoever comes first, and a newcomer parks    *)
(* behind tasks that were woken and have not resumed.                      *)
(***************************************************************************)
EXTENDS Naturals, Sequences, FiniteSets

CONSTANTS Runs,        (* run identifiers; each is submitted at most once (uuid4) *)
          MaxWorkers   (* execution.max_concurrent_runs                           *)

(* RunQueue.__init__ raises ValueError for anything smaller. *)
ASSUME MaxWorkersAssumption == MaxWorkers \in Nat \ {0}

VARIABLES
    pc,         (* where the _execute task of each run is                        *)
    state,      (* RunEntry.state, "none" while the run has no entry             *)
    completed,  (* runs whose RunEntry.completed event is set                    *)
    runs,       (* the keys of _runs in insertion order                          *)
    ready,      (* _execute tasks the event loop has yet to start, oldest first  *)
    slots,      (* Semaphore._value                                              *)
    granted,    (* Semaphore._waiters, the resolved prefix, oldest first         *)
    waiters     (* Semaphore._waiters, the unresolved rest, oldest first         *)

semaphore == <<slots, granted, waiters>>
vars == <<pc, state, completed, runs, ready, slots, granted, waiters>>

Outcomes == {"completed", "failed", "timeout", "cancelled"}

Init == /\ pc = [r \in Runs |-> "absent"]
        /\ state = [r \in Runs |-> "none"]
        /\ completed = {}
        /\ runs = <<>>
        /\ ready = <<>>
        /\ slots = MaxWorkers
        /\ granted = <<>>
        /\ waiters = <<>>

(* Definitions named Bug... are plausible defects of the code that follows *)
(* them; a property that no such defect can break says nothing about it.   *)
BugRefuseEarly == slots <= 1

at_capacity == slots = 0

(* Semaphore.locked: no slot is free, or somebody is parked already. *)
locked == slots = 0 \/ granted # <<>> \/ waiters # <<>>

(* Semaphore._wake_up_next with the counter at free, held the resolved     *)
(* waiters and places the tasks' whereabouts: the oldest unresolved waiter,*)
(* if there is one, is given a slot.                                       *)
WakeNext(free, held, places) ==
    IF waiters = <<>>
    THEN /\ slots' = free
         /\ granted' = held
         /\ pc' = places
         /\ UNCHANGED waiters
    ELSE /\ slots' = free - 1
         /\ granted' = Append(held, Head(waiters))
         /\ pc' = [places EXCEPT ![Head(waiters)] = "granted"]
         /\ waiters' = Tail(waiters)

(* submit, the accepting path: the entry is created, the task scheduled. *)
Accept(r) ==
    /\ pc[r] = "absent"
    /\ ~at_capacity
    /\ pc' = [pc EXCEPT ![r] = "ready"]
    /\ state' = [state EXCEPT ![r] = "running"]
    /\ runs' = Append(runs, r)
    /\ ready' = Append(ready, r)
    /\ UNCHANGED <<completed, semaphore>>

(* submit, the refusing path: the coroutine is closed, False is returned. *)
Refuse(r) ==
    /\ pc[r] = "absent"
    /\ at_capacity
    /\ pc' = [pc EXCEPT ![r] = "refused"]
    /\ UNCHANGED <<state, completed, runs, ready, semaphore>>

BugTakeAnyFreeSlot(r) ==
    /\ ready # <<>> /\ r = Head(ready)
    /\ slots > 0
    /\ ready' = Tail(ready)
    /\ pc' = [pc EXCEPT ![r] = "executing"]
    /\ slots' = slots - 1
    /\ UNCHANGED <<state, completed, runs, granted, waiters>>

(* The first step of _execute, up to wait_for when a slot is free. *)
StartNow(r) ==
    /\ ready # <<>> /\ r = Head(ready)
    /\ ~locked
    /\ ready' = Tail(ready)
    /\ pc' = [pc EXCEPT ![r] = "executing"]
    /\ slots' = slots - 1
    /\ UNCHANGED <<state, completed, runs, granted, waiters>>

(* The first step of _execute when it has to park in the semaphore. *)
Park(r) ==
    /\ ready # <<>> /\ r = Head(ready)
    /\ locked
    /\ ready' = Tail(ready)
    /\ pc' = [pc EXCEPT ![r] = "waiting"]
    /\ waiters' = Append(waiters, r)
    /\ UNCHANGED <<state, completed, runs, slots, granted>>

(* A granted task resumes in Semaphore.acquire, passes a spare slot on to  *)
(* the next waiter, and enters wait_for.                                   *)
Resume(r) ==
    /\ granted # <<>> /\ r = Head(granted)
    /\ LET entered == [pc EXCEPT ![r] = "executing"]
       IN  IF slots > 0
           THEN WakeNext(slots, Tail(granted), entered)
           ELSE /\ granted' = Tail(granted)
                /\ pc' = entered
                /\ UNCHANGED <<slots, waiters>>
    /\ UNCHANGED <<state, completed, runs, ready>>

BugReportTimeoutAtOnce(r) ==
    /\ pc[r] = "executing"
    /\ pc' = [pc EXCEPT ![r] = "stopping"]
    /\ state' = [state EXCEPT ![r] = "timeout"]
    /\ completed' = completed \cup {r}
    /\ UNCHANGED <<runs, ready, semaphore>>

BugReleaseAtTimeout(r) ==
    /\ pc[r] = "executing"
    /\ WakeNext(slots + 1, granted, [pc EXCEPT ![r] = "stopping"])
    /\ UNCHANGED <<state, completed, runs, ready>>

(* wait_for: timeout_s has passed since the task entered it, the coroutine *)
(* is cancelled and _execute waits for it to unwind, its slot still held.  *)
Expire(r) ==
    /\ pc[r] = "executing"
    /\ pc' = [pc EXCEPT ![r] = "stopping"]
    /\ UNCHANGED <<state, completed, runs, ready, semaphore>>

(* The rest of _execute: the outcome is recorded, the completed event set, *)
(* and leaving the `async with` block releases the slot.                   *)
Finish(r, outcome) ==
    /\ state' = [state EXCEPT ![r] = outcome]
    /\ completed' = completed \cup {r}
    /\ WakeNext(slots + 1, granted, [pc EXCEPT ![r] = "ended"])
    /\ UNCHANGED <<runs, ready>>

BugKeepSlotWhenCancelled(r) ==
    /\ pc[r] = "executing"
    /\ \/ \E outcome \in {"completed", "failed"} : Finish(r, outcome)
       \/ /\ state' = [state EXCEPT ![r] = "cancelled"]
          /\ completed' = completed \cup {r}
          /\ pc' = [pc EXCEPT ![r] = "ended"]
          /\ UNCHANGED <<runs, ready, semaphore>>

(* The coroutine ended by itself: it returned, raised, or was cancelled    *)
(* from inside (wait_for lets its CancelledError through).                 *)
FinishInTime(r) ==
    /\ pc[r] = "executing"
    /\ \E outcome \in {"completed", "failed", "cancelled"} : Finish(r, outcome)

(* The coroutine ended after its cancellation.  Only a CancelledError is a *)
(* timeout: a result or an exception it came up with meanwhile stands.     *)
FinishLate(r) ==
    /\ pc[r] = "stopping"
    /\ \E outcome \in {"timeout", "completed", "failed"} : Finish(r, outcome)

Submit(r) == Accept(r) \/ Refuse(r)
Start(r) == StartNow(r) \/ Park(r)
Execute(r) == \/ Start(r) \/ Resume(r)
              \/ Expire(r) \/ FinishInTime(r) \/ FinishLate(r)

Next == \E r \in Runs : Submit(r) \/ Execute(r)

(* The event loop runs every scheduled callback, timers fire, and a        *)
(* cancelled coroutine unwinds: the orchestrator catches Exception, which  *)
(* CancelledError is not.  Nothing obliges a caller to submit, or a run to *)
(* end before its timeout.                                                 *)
Fairness == \A r \in Runs : /\ WF_vars(Start(r))
                            /\ WF_vars(Resume(r))
                            /\ WF_vars(Expire(r))
                            /\ WF_vars(FinishLate(r))

Spec == Init /\ [][Next]_vars /\ Fairness

-----------------------------------------------------------------------------
Places == {"absent", "ready", "waiting", "granted", "executing", "stopping",
           "ended", "refused"}

TypeOK == /\ pc \in [Runs -> Places]
          /\ state \in [Runs -> {"none", "running"} \cup Outcomes]
          /\ completed \in SUBSET Runs
          /\ runs \in Seq(Runs)
          /\ ready \in Seq(Runs)
          /\ slots \in 0 .. MaxWorkers
          /\ granted \in Seq(Runs)
          /\ waiters \in Seq(Runs)

(* Where the runs of a line are, and that none stands in it twice. *)
Lined(line, places, place) ==
    /\ \A i \in DOMAIN line : places[line[i]] = place
    /\ \A i, j \in DOMAIN line : line[i] = line[j] => i = j

(* The runs that have taken a slot of the semaphore. *)
Holders(places) == {r \in Runs : places[r] \in {"granted", "executing", "stopping"}}

InLine == /\ Lined(ready, pc, "ready")
          /\ Lined(granted, pc, "granted")
          /\ Lined(waiters, pc, "waiting")

SlotsAddUp == /\ IsFiniteSet(Holders(pc))
              /\ slots + Cardinality(Holders(pc)) = MaxWorkers

EntriesMatch ==
    \A r \in Runs : /\ state[r] = "none" <=> pc[r] \in {"absent", "refused"}
                    /\ state[r] \in Outcomes <=> pc[r] = "ended"
                    /\ r \in completed <=> pc[r] = "ended"

Executing == {r \in Runs : pc[r] \in {"executing", "stopping"}}

(* The cap of queue.py:1-6: however submissions, timeouts and hand-overs   *)
(* interleave, no more than MaxWorkers coroutines run at once, those being *)
(* cancelled after their timeout included.                                 *)
WithinCap == Cardinality(Executing) <= MaxWorkers

(* A free slot is never left unused while a run is parked: if the counter  *)
(* is positive and somebody waits, a woken task is on its way that will    *)
(* pass the slot on.  Without it a parked run could wait for ever beside a *)
(* free worker, long after the caller was told "running".                  *)
NoLostWakeup == (slots > 0 /\ waiters # <<>>) => granted # <<>>

(* The books balance at every suspension of every task: each slot is free  *)
(* or held by exactly one run, each line holds the runs that are in it     *)
(* once, and the entries clients read agree with where the tasks are.      *)
(* This is the inductive invariant behind the theorems of RunQueueProofs.  *)
QueueInv == TypeOK /\ InLine /\ SlotsAddUp /\ EntriesMatch /\ NoLostWakeup

(* Runs begin in the order submit accepted them, although an accepted run  *)
(* may find slots free that others were promised: a later run never        *)
(* executes, or ends, while an earlier one has yet to begin.               *)
NoOvertaking ==
    \A i, j \in DOMAIN runs :
        (i < j /\ pc[runs[j]] \in {"executing", "stopping", "ended"})
            => pc[runs[i]] \in {"executing", "stopping", "ended"}

(* What a client polling GET /runs/{id} sees never goes back: an outcome,  *)
(* once reported, stays, and a waiter of await_result is released exactly  *)
(* when there is an outcome to report.                                     *)
OutcomeIsFinal ==
    [][\A r \in Runs : /\ state[r] \in Outcomes => state'[r] = state[r]
                       /\ r \in completed' <=> state'[r] \in Outcomes]_vars

(* The claim of the load test (tests/test_load.py:7-8), that with a cap of *)
(* N the (N+1)st simultaneous request is refused: no more accepted,        *)
(* unfinished runs than workers.  The code does not keep it: submit looks  *)
(* at the semaphore, which accepted tasks only take when they first run.   *)
AcceptedWithinCap == Cardinality({r \in Runs : state[r] = "running"}) <= MaxWorkers

(* Every run a caller was told is running ends, and await_result returns:  *)
(* no run is forgotten in the semaphore and none outlives its timeout.     *)
AcceptedRunsEnd == \A r \in Runs : state[r] = "running" ~> r \in completed

-----------------------------------------------------------------------------
(* The queue is a bounded pool served in order.  Runs that hold a slot     *)
(* without having resumed still count as backlog: they begin next.         *)
PoolStatus ==
    [r \in Runs |->
        CASE pc[r] = "absent"                           -> "unknown"
          [] pc[r] = "refused"                          -> "refused"
          [] pc[r] \in {"ready", "waiting", "granted"}  -> "queued"
          [] pc[r] \in {"executing", "stopping"}        -> "active"
          [] pc[r] = "ended"                            -> state[r]]

Pool == INSTANCE WorkerPool WITH backlog <- granted \o waiters \o ready,
                                 status <- PoolStatus

(* The queue implements the worker pool: one accepted run after another is *)
(* begun, at most MaxWorkers at a time, and refusals are justified.        *)
PoolSpec == Pool!Spec
=============================================================================
