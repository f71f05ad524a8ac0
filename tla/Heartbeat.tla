------------------------------ MODULE Heartbeat ------------------------------
(***************************************************************************)
(* The scheduler's heartbeat: who beats, who looks at it, and who is told  *)
(* when it has been missed (harness/scheduler/module.py and its callers in *)
(* harness/api/server.py).  What a tick does with the jobs is in Scheduler;*)
(* here it matters only that it may keep the background loop for any time. *)
(***************************************************************************)
EXTENDS Naturals

CONSTANTS Timeout,    (* heartbeat_timeout_s                                *)
          MaxClock    (* bound: the time                                    *)

VARIABLES
    clock,
    beat,       (* last_heartbeat_at; 0 before the first one                *)
    alert,      (* heartbeat_alert_active                                   *)
    reports,    (* when MODULE_ERROR was published, and of which beat being *)
                (* the last: history                                        *)
    carried     (* whether the alert is of an earlier outage that a beat of *)
                (* the API ended, and no tick has been since: history       *)

vars == <<clock, beat, alert, reports, carried>>

Init == clock = 1 /\ beat = 0 /\ alert = FALSE /\ reports = {} /\ carried = FALSE

Missed == beat # 0 /\ clock - beat > Timeout

(* _heartbeat_state: before the first beat nothing is looked at. *)
HeartbeatState == alert' = IF beat = 0 THEN alert ELSE Missed

BugMissed == Missed

NewlyMissed == Missed /\ ~alert

(* _scheduler_background_loop beats right before its own tick: that tick   *)
(* never finds the beat missed, and an alert that was active is over, of   *)
(* which nothing is logged.                                                *)
LoopTick ==
    /\ beat' = clock
    /\ alert' = FALSE /\ carried' = FALSE
    /\ UNCHANGED <<clock, reports>>

(* POST /scheduler/heartbeat *)
ApiHeartbeat ==
    /\ beat' = clock
    /\ carried' = alert
    /\ UNCHANGED <<clock, alert, reports>>

(* POST /scheduler/tick, which may come while the loop awaits a callback. *)
ApiTick ==
    /\ HeartbeatState
    /\ reports' = IF NewlyMissed THEN reports \cup {[beat |-> beat, at |-> clock]} ELSE reports
    /\ carried' = (carried /\ alert')
    /\ UNCHANGED <<clock, beat>>

Advance ==
    /\ clock < MaxClock
    /\ clock' = clock + 1
    /\ UNCHANGED <<beat, alert, reports, carried>>

Next == LoopTick \/ ApiHeartbeat \/ ApiTick \/ Advance

Spec == Init /\ [][Next]_vars

-----------------------------------------------------------------------------
(* An outage is reported once, and never without one; and while an alert   *)
(* is active its outage has been reported, unless the alert is left from   *)
(* an earlier one: POST /scheduler/heartbeat beats without a look at it,   *)
(* so a second outage before the next tick goes unreported.                *)
OutagesAreReportedOnce ==
    /\ \A r \in reports : r.at - r.beat > Timeout
    /\ \A r, q \in reports : r.beat = q.beat => r = q
    /\ alert => carried \/ \E r \in reports : r.beat = beat
=============================================================================
