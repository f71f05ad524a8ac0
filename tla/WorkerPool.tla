----------------------------- MODULE WorkerPool -----------------------------
(***************************************************************************)
(* What the run queue of the harness promises to its callers, and nothing  *)
(* of how it does it: a bounded pool of workers served in order of         *)
(* arrival.                                                                *)
(*                                                                         *)
(*   - at most MaxWorkers runs are active at a time;                       *)
(*   - accepted runs become active in the order they were accepted;        *)
(*   - a run is refused only when accepted, unfinished runs could use      *)
(*     every worker;                                                       *)
(*   - an accepted run ends with exactly one outcome.                      *)
(*                                                                         *)
(* RunQueue implements this specification (RunQueue!PoolSpec).             *)
(***************************************************************************)
EXTENDS Naturals, Sequences, FiniteSets

CONSTANTS Runs,        (* the identifiers a caller may submit    *)
          MaxWorkers,  (* how many runs may be active at a time  *)
          Outcomes     (* how a run may end                      *)

VARIABLES backlog,     (* accepted runs that are not active yet, oldest first *)
          status       (* what a caller can learn about each run              *)

vars == <<backlog, status>>

Statuses == {"unknown", "queued", "active", "refused"} \cup Outcomes

Active == {r \in Runs : status[r] = "active"}

Init == /\ backlog = <<>>
        /\ status = [r \in Runs |-> "unknown"]

Accept(r) == /\ status[r] = "unknown"
             /\ status' = [status EXCEPT ![r] = "queued"]
             /\ backlog' = Append(backlog, r)

Refuse(r) == /\ status[r] = "unknown"
             /\ Cardinality(Active) + Len(backlog) >= MaxWorkers
             /\ status' = [status EXCEPT ![r] = "refused"]
             /\ UNCHANGED backlog

Begin == /\ backlog # <<>>
         /\ Cardinality(Active) < MaxWorkers
         /\ status' = [status EXCEPT ![Head(backlog)] = "active"]
         /\ backlog' = Tail(backlog)

End(r) == /\ status[r] = "active"
          /\ \E o \in Outcomes : status' = [status EXCEPT ![r] = o]
          /\ UNCHANGED backlog

Next == \/ \E r \in Runs : Accept(r) \/ Refuse(r) \/ End(r)
        \/ Begin

Fairness == /\ WF_vars(Begin)
            /\ \A r \in Runs : WF_vars(End(r))

Spec == Init /\ [][Next]_vars /\ Fairness
=============================================================================
