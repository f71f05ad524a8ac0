---------------------------- MODULE RunAdmission ----------------------------
(***************************************************************************)
(* How the API server (harness/api/server.py) uses the run queue: POST     *)
(* /runs submits to it, /chat and /chat/stream only look whether it is     *)
(* full, GET /runs/{id} and its event stream read it, and every change of  *)
(* an execution.* setting replaces it by a new, empty one while the old    *)
(* one still executes the runs it has accepted.                            *)
(*                                                                         *)
(* The two queues are two instances of RunQueue.  Bound: the setting is    *)
(* changed at most once, so there are at most two queues.                  *)
(***************************************************************************)
EXTENDS Naturals, Sequences, FiniteSets

CONSTANTS Runs,       (* run identifiers of POST /runs                        *)
          Chats,      (* requests to /chat and /chat/stream                   *)
          CapBefore,  (* execution.max_concurrent_runs when the server starts *)
          CapAfter    (* ... and after the setting is changed                 *)

ASSUME CapsAssumption == CapBefore \in Nat \ {0} /\ CapAfter \in Nat \ {0}

VARIABLES
    reloaded,   (* has _reload_run_queue replaced the first queue?            *)
    pc1, state1, completed1, runs1, ready1, slots1, granted1, waiters1,
    pc2, state2, completed2, runs2, ready2, slots2, granted2, waiters2,
    chat,       (* the coroutine of each chat request                         *)
    stream      (* the GET /runs/{id}/stream response a client has for a run  *)

queue1 == <<pc1, state1, completed1, runs1, ready1, slots1, granted1, waiters1>>
queue2 == <<pc2, state2, completed2, runs2, ready2, slots2, granted2, waiters2>>
vars == <<reloaded, queue1, queue2, chat, stream>>

First == INSTANCE RunQueue WITH MaxWorkers <- CapBefore,
            pc <- pc1, state <- state1, completed <- completed1, runs <- runs1,
            ready <- ready1, slots <- slots1, granted <- granted1, waiters <- waiters1

Second == INSTANCE RunQueue WITH MaxWorkers <- CapAfter,
            pc <- pc2, state <- state2, completed <- completed2, runs <- runs2,
            ready <- ready2, slots <- slots2, granted <- granted2, waiters <- waiters2

Init == /\ reloaded = FALSE
        /\ First!Init
        /\ Second!Init
        /\ chat = [c \in Chats |-> "idle"]
        /\ stream = [r \in Runs |-> "none"]

(* The queue that requests see, the variable _run_queue of create_app. *)
AtCapacity == IF reloaded THEN Second!at_capacity ELSE First!at_capacity
Known(r) == IF reloaded THEN state2[r] # "none" ELSE state1[r] # "none"

(* POST /runs: 202 or 429. *)
SubmitRun(r) ==
    /\ \/ /\ ~reloaded
          /\ First!Submit(r)
          /\ UNCHANGED queue2
       \/ /\ reloaded
          /\ pc1[r] = "absent"
          /\ Second!Submit(r)
          /\ UNCHANGED queue1
    /\ UNCHANGED <<reloaded, chat, stream>>

BugOnlyCurrentQueueRuns(r) ==
    /\ \/ ~reloaded /\ First!Execute(r) /\ UNCHANGED queue2
       \/ reloaded /\ Second!Execute(r) /\ UNCHANGED queue1
    /\ UNCHANGED <<reloaded, chat, stream>>

(* A step of the _execute task of a run, in whichever queue accepted it.   *)
(* The tasks of a replaced queue hold a reference to it and go on.         *)
ExecuteRun(r) ==
    /\ \/ First!Execute(r) /\ UNCHANGED queue2
       \/ Second!Execute(r) /\ UNCHANGED queue1
    /\ UNCHANGED <<reloaded, chat, stream>>

(* POST /config with an execution.* key. *)
UpdateExecutionConfig ==
    /\ ~reloaded
    /\ reloaded' = TRUE
    /\ UNCHANGED <<queue1, queue2, chat, stream>>

BugChatWantsTwoSlots(c) ==
    /\ chat[c] = "idle"
    /\ chat' = [chat EXCEPT ![c] = IF AtCapacity \/ (~reloaded /\ slots1 = 1)
                                   THEN "refused" ELSE "executing"]
    /\ UNCHANGED <<reloaded, queue1, queue2, stream>>

(* POST /chat and /chat/stream: the queue is asked whether it is full, and *)
(* the run is started beside it, without taking a slot.                    *)
BeginChat(c) ==
    /\ chat[c] = "idle"
    /\ chat' = [chat EXCEPT ![c] = IF AtCapacity THEN "refused" ELSE "executing"]
    /\ UNCHANGED <<reloaded, queue1, queue2, stream>>

(* The chat's coroutine ends, is cancelled or timed out by its handler. *)
EndChat(c) ==
    /\ chat[c] = "executing"
    /\ chat' = [chat EXCEPT ![c] = "ended"]
    /\ UNCHANGED <<reloaded, queue1, queue2, stream>>

(* GET /runs/{id}/stream, when the run is found: the entry is kept. *)
OpenStream(r) ==
    /\ stream[r] = "none"
    /\ Known(r)
    /\ stream' = [stream EXCEPT ![r] = "open"]
    /\ UNCHANGED <<reloaded, queue1, queue2, chat>>

BugTrustTheEntry(r) ==
    /\ stream[r] = "open"
    /\ stream' = [stream EXCEPT ![r] = IF Known(r) THEN "final" ELSE "broken"]
    /\ UNCHANGED <<reloaded, queue1, queue2, chat>>

(* _event_stream finds the kept entry's completed event set and asks the   *)
(* current queue for the final status.  The answer is None, and dict(None) *)
(* breaks the response off, if that queue never knew the run.              *)
CloseStream(r) ==
    /\ stream[r] = "open"
    /\ r \in completed1 \cup completed2
    /\ stream' = [stream EXCEPT ![r] = IF Known(r) THEN "final" ELSE "broken"]
    /\ UNCHANGED <<reloaded, queue1, queue2, chat>>

Next == \/ \E r \in Runs : SubmitRun(r) \/ ExecuteRun(r) \/ OpenStream(r) \/ CloseStream(r)
        \/ \E c \in Chats : BeginChat(c) \/ EndChat(c)
        \/ UpdateExecutionConfig

(* The fairness of RunQueue, whichever queue a run is in, and a stream     *)
(* polls every 100 ms as long as its client listens.                       *)
Progress(r) == ExecuteRun(r) /\ ~(\/ pc1[r] = "executing" /\ pc1'[r] = "ended"
                                  \/ pc2[r] = "executing" /\ pc2'[r] = "ended")
Fairness == \A r \in Runs : WF_vars(Progress(r)) /\ WF_vars(CloseStream(r))

Spec == Init /\ [][Next]_vars /\ Fairness

-----------------------------------------------------------------------------
(* Replacing the queue starts the count anew but loses none: a run is in   *)
(* one queue only, the runs of each queue stay within the cap it was made  *)
(* with, and only runs of the replaced queue can exceed the current one.   *)
EachQueueWithinCap ==
    /\ First!Executing \cap Second!Executing = {}
    /\ Cardinality(First!Executing) <= CapBefore
    /\ Cardinality(Second!Executing) <= CapAfter
    /\ First!QueueInv /\ Second!QueueInv

(* A chat is turned away with 429 only when every slot of the queue that   *)
(* was asked is held by a run.                                             *)
ChatRefusalJustified ==
    [][\A c \in Chats :
        (chat[c] = "idle" /\ chat'[c] = "refused") =>
            \/ ~reloaded /\ Cardinality(First!Holders(pc1)) = CapBefore
            \/ reloaded /\ Cardinality(Second!Holders(pc2)) = CapAfter]_vars

(* A stream ends with the final status of a run that really ended, and is  *)
(* broken off only for a run of a queue that has been replaced.            *)
StreamsReportTheEnd ==
    \A r \in Runs :
        /\ stream[r] = "final" => state1[r] \in First!Outcomes \/ state2[r] \in First!Outcomes
        /\ stream[r] = "broken" => reloaded /\ state1[r] \in First!Outcomes

(* A run that was accepted ends even when its queue is replaced meanwhile. *)
AcceptedRunsEndAnyway ==
    \A r \in Runs : (state1[r] = "running" \/ state2[r] = "running")
                        ~> r \in completed1 \cup completed2

-----------------------------------------------------------------------------
(* What documentation says of the server and the code does not keep.       *)

(* "SSE stream that yields status events until the run reaches a terminal  *)
(* state": no stream is broken off.                                        *)
StreamsAreNotBroken == \A r \in Runs : stream[r] # "broken"
=============================================================================
