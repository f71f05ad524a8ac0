--------------------------- MODULE TaskRunsProofs ---------------------------
(***************************************************************************)
(* Proofs about TaskRuns, for any sets of tasks, any number of workers and *)
(* any number of restarts.                                                 *)
(***************************************************************************)
EXTENDS TaskRuns, TLAPS

(* The runs of the backlog have not begun, and each is in it once. *)
BacklogScheduled ==
    /\ \A i \in 1 .. Len(backlog) : coro[backlog[i]] = "scheduled"
    /\ \A i, j \in 1 .. Len(backlog) : backlog[i] = backlog[j] => i = j

(* A run that executes has no result in the store yet. *)
ExecutingUndecided ==
    \A t \in Persisted : coro[t] = "executing" => record[t] \in {"none", "running", "cancelled"}

CompletedHasReturned == \A t \in Queued : status[t] = "completed" => coro[t] = "returned"

AnsweredIsOver ==
    \A c \in Chats : answer[c] # "none" => coro[c] \in {"returned", "raised", "unwound", "lost"}

ChatsUnrecorded == \A c \in Chats : record[c] = "none"

(* The inductive invariant. *)
RunsInv == /\ TypeOK
           /\ EntryAndRecordAgree
           /\ RegistryHoldsOpenChats
           /\ BacklogScheduled
           /\ ExecutingUndecided
           /\ CompletedHasReturned
           /\ AnsweredIsOver
           /\ ChatsUnrecorded

(* The server starts with nothing to contradict. *)
LEMMA InitRuns == Init => RunsInv
  BY TasksAssumption
  DEF Init, Pool!Init, RunsInv, TypeOK, EntryAndRecordAgree, RegistryHoldsOpenChats, BacklogScheduled,
      ExecutingUndecided, CompletedHasReturned, AnsweredIsOver, ChatsUnrecorded, Tasks, Persisted, Pool!Statuses, Ends, Live

(* Every action of a task keeps the invariant. *)
LEMMA NextRuns == RunsInv /\ [Next]_vars => RunsInv'
<1> SUFFICES ASSUME RunsInv, [Next]_vars PROVE RunsInv'
  OBVIOUS
<1> USE TasksAssumption
    DEF RunsInv, TypeOK, EntryAndRecordAgree, RegistryHoldsOpenChats, BacklogScheduled,
        ExecutingUndecided, CompletedHasReturned, AnsweredIsOver, ChatsUnrecorded, Tasks, Persisted,
        Live, Over, pool
<1>1. ASSUME NEW t \in Queued, SubmitRun(t) PROVE RunsInv'
  <2>1. CASE Pool!Accept(t) /\ coro' = [coro EXCEPT ![t] = "scheduled"]
    BY <1>1, <2>1 DEF SubmitRun, MayStart, Pool!Accept, Pool!Statuses
  <2>2. CASE Pool!Refuse(t) /\ coro' = [coro EXCEPT ![t] = "refused"]
    BY <1>1, <2>2 DEF SubmitRun, MayStart, Pool!Refuse, Pool!Statuses
  <2>3. QED
    BY <1>1, <2>1, <2>2 DEF SubmitRun
<1>2. ASSUME NEW t \in Queued, EndRun(t) PROVE RunsInv'
  BY <1>2 DEF EndRun, Pool!End, Pool!Statuses, Outcome
<1>3. CASE BeginRun
  <2>1. Head(backlog) \in Queued /\ Tail(backlog) \in Seq(Queued) /\ coro[Head(backlog)] = "scheduled"
    BY <1>3 DEF BeginRun, Pool!Begin
  <2>2. BacklogScheduled'
    BY <1>3, <2>1 DEF BeginRun, Pool!Begin
  <2>3. TypeOK'
    BY <1>3, <2>1 DEF BeginRun, Pool!Begin, Pool!Statuses
  <2>4. QED
    BY <1>3, <2>1, <2>2, <2>3 DEF BeginRun, Pool!Begin
<1>4. ASSUME NEW t \in Direct, BeginDirect(t) PROVE RunsInv'
  BY <1>4 DEF BeginDirect, MayStart
<1>5. ASSUME NEW c \in Chats, BeginChat(c) PROVE RunsInv'
  BY <1>5 DEF BeginChat, MayStart
<1>6. ASSUME NEW c \in Chats, AnswerChat(c) PROVE RunsInv'
  BY <1>6 DEF AnswerChat, Outcome, Ends
<1>7. ASSUME NEW t \in Tasks, Complete(t) PROVE RunsInv'
  BY <1>7 DEF Complete
<1>8. ASSUME NEW t \in Tasks, Return(t) PROVE RunsInv'
  BY <1>8 DEF Return
<1>9. ASSUME NEW t \in Tasks, Raise(t) \/ Unwind(t) PROVE RunsInv'
  <2>1. CASE Raise(t)
    BY <2>1 DEF Raise
  <2>2. CASE Unwind(t)
    BY <2>2 DEF Unwind
  <2>3. QED
    BY <1>9, <2>1, <2>2
<1>10. ASSUME NEW t \in Tasks, Expire(t) PROVE RunsInv'
  BY <1>10 DEF Expire
<1>11. ASSUME NEW t \in Tasks, CancelTask(t) PROVE RunsInv'
  BY <1>11 DEF CancelTask
<1>12. ASSUME NEW t \in Tasks, DeleteTask(t) PROVE RunsInv'
  BY <1>12 DEF DeleteTask
<1>13. CASE PurgeTasks
  BY <1>13 DEF PurgeTasks
<1>14. CASE Restart
  <2>1. ASSUME RestartWith(record) PROVE RunsInv'
    BY <2>1 DEF RestartWith, Pool!Statuses
  <2>2. ASSUME NEW t \in Queued, coro[t] = "scheduled",
               RestartWith([record EXCEPT ![t] = "pending"])
        PROVE  RunsInv'
    BY <2>2 DEF RestartWith, Pool!Statuses
  <2>3. QED
    BY <1>14, <2>1, <2>2 DEF Restart
<1>15. CASE UNCHANGED vars
  BY <1>15 DEF vars
<1>16. QED
  BY <1>1, <1>2, <1>3, <1>4, <1>5, <1>6, <1>7, <1>8, <1>9, <1>10, <1>11, <1>12, <1>13, <1>14, <1>15
  DEF Next

(* The invariant holds throughout. *)
LEMMA RunsInvariant == Spec => []RunsInv
  BY InitRuns, NextRuns, PTL DEF Spec

(* No variable leaves its type. *)
THEOREM TypesHold == Spec => []TypeOK
<1>1. RunsInv => TypeOK
  BY DEF RunsInv
<1>2. QED
  BY <1>1, RunsInvariant, PTL

(* What GET /runs/{id} and GET /tasks/{id} say of a run is consistent,     *)
(* whatever clients cancel, delete or purge and whenever the server is     *)
(* restarted.                                                              *)
THEOREM ViewsAgree == Spec => []EntryAndRecordAgree
<1>1. RunsInv => EntryAndRecordAgree
  BY DEF RunsInv
<1>2. QED
  BY <1>1, RunsInvariant, PTL

(* The cancellation registry holds the chats that are not answered yet and *)
(* nothing else.                                                           *)
THEOREM RegistryExact == Spec => []RegistryHoldsOpenChats
<1>1. RunsInv => RegistryHoldsOpenChats
  BY DEF RunsInv
<1>2. QED
  BY <1>1, RunsInvariant, PTL

(* A result in the store is never overwritten and a force-closed record    *)
(* stays closed.                                                           *)
THEOREM ResultsAreFinal == Spec => RecordedResultIsFinal
<1> DEFINE Step == \A t \in Tasks :
          /\ record[t] \in {"completed", "failed"} => record'[t] \in {record[t], "none"}
          /\ record[t] = "cancelled" /\ ~Live(t) => record'[t] \in {"cancelled", "none"}
<1>1. RunsInv /\ [Next]_vars => [Step]_vars
  <2> SUFFICES ASSUME RunsInv, Next PROVE Step
    OBVIOUS
  <2> USE TasksAssumption
      DEF RunsInv, TypeOK, EntryAndRecordAgree, ExecutingUndecided, Tasks, Persisted, Live, pool
  <2>1. ASSUME NEW t \in Tasks, Complete(t) PROVE Step
    BY <2>1 DEF Complete
  <2>2. CASE BeginRun
    <3>1. Head(backlog) \in Queued /\ coro[Head(backlog)] = "scheduled"
      BY <2>2 DEF BeginRun, Pool!Begin, BacklogScheduled
    <3>2. QED
      BY <2>2, <3>1 DEF BeginRun
  <2>3. ASSUME NEW t \in Direct, BeginDirect(t) PROVE Step
    BY <2>3 DEF BeginDirect, MayStart
  <2>4. ASSUME NEW t \in Tasks, CancelTask(t) PROVE Step
    BY <2>4 DEF CancelTask, RegistryHoldsOpenChats, ChatsUnrecorded
  <2>5. ASSUME NEW t \in Tasks, DeleteTask(t) PROVE Step
    BY <2>5 DEF DeleteTask
  <2>6. CASE PurgeTasks
    BY <2>6 DEF PurgeTasks
  <2>7. CASE Restart
    BY <2>7 DEF Restart, RestartWith
  <2>8. ASSUME record' = record PROVE Step
    BY <2>8
  <2>9. QED
    BY <2>1, <2>2, <2>3, <2>4, <2>5, <2>6, <2>7, <2>8
    DEF Next, SubmitRun, EndRun, BeginChat, AnswerChat, Return, Raise, Unwind, Expire
<1>2. QED
  BY <1>1, RunsInvariant, PTL DEF Spec, RecordedResultIsFinal
=============================================================================
