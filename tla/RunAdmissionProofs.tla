-------------------------- MODULE RunAdmissionProofs --------------------------
(***************************************************************************)
(* Proofs about RunAdmission, for any runs, chats and caps.  What is known *)
(* of one queue is taken from RunQueueProofs, once for each of the two.    *)
(***************************************************************************)
EXTENDS RunAdmission, FiniteSetTheorems, TLAPS

FirstProofs == INSTANCE RunQueueProofs WITH MaxWorkers <- CapBefore,
            pc <- pc1, state <- state1, completed <- completed1, runs <- runs1,
            ready <- ready1, slots <- slots1, granted <- granted1, waiters <- waiters1

SecondProofs == INSTANCE RunQueueProofs WITH MaxWorkers <- CapAfter,
            pc <- pc2, state <- state2, completed <- completed2, runs <- runs2,
            ready <- ready2, slots <- slots2, granted <- granted2, waiters <- waiters2

-----------------------------------------------------------------------------
(* The queues of RunAdmission and those of the proofs are the same.        *)

LEMMA FirstCounts ==
    ASSUME NEW S
    PROVE  /\ First!Cardinality(S) = Cardinality(S) /\ FirstProofs!Cardinality(S) = Cardinality(S)
           /\ First!IsFiniteSet(S) <=> IsFiniteSet(S)
           /\ FirstProofs!IsFiniteSet(S) <=> IsFiniteSet(S)
<1>1. First!Cardinality(S) = Cardinality(S)
  BY DEF First!Cardinality, Cardinality
<1>2. FirstProofs!Cardinality(S) = Cardinality(S)
  BY DEF FirstProofs!Cardinality, Cardinality
<1>3. First!IsFiniteSet(S) <=> IsFiniteSet(S)
  BY DEF First!IsFiniteSet, IsFiniteSet
<1>4. FirstProofs!IsFiniteSet(S) <=> IsFiniteSet(S)
  BY DEF FirstProofs!IsFiniteSet, IsFiniteSet
<1> QED
  BY <1>1, <1>2, <1>3, <1>4

LEMMA FirstBooks ==
    /\ First!QueueInv <=> FirstProofs!QueueInv
    /\ First!Holders(pc1) = FirstProofs!Holders(pc1)
<1>1. First!Holders(pc1) = FirstProofs!Holders(pc1)
  BY DEF First!Holders, FirstProofs!Holders
<1>2. First!SlotsAddUp <=> FirstProofs!SlotsAddUp
  BY <1>1, FirstCounts DEF First!SlotsAddUp, FirstProofs!SlotsAddUp
<1>3. First!TypeOK <=> FirstProofs!TypeOK
  BY DEF First!TypeOK, FirstProofs!TypeOK, First!Places, FirstProofs!Places, First!Outcomes,
         FirstProofs!Outcomes
<1>4. First!InLine <=> FirstProofs!InLine
  BY DEF First!InLine, FirstProofs!InLine, First!Lined, FirstProofs!Lined
<1>5. First!EntriesMatch <=> FirstProofs!EntriesMatch
  BY DEF First!EntriesMatch, FirstProofs!EntriesMatch, First!Outcomes, FirstProofs!Outcomes
<1>6. First!NoLostWakeup <=> FirstProofs!NoLostWakeup
  BY DEF First!NoLostWakeup, FirstProofs!NoLostWakeup
<1> QED
  BY <1>1, <1>2, <1>3, <1>4, <1>5, <1>6 DEF First!QueueInv, FirstProofs!QueueInv

LEMMA FirstSteps ==
    ASSUME NEW r \in Runs
    PROVE  /\ First!Submit(r) <=> FirstProofs!Submit(r)
           /\ First!Execute(r) <=> FirstProofs!Execute(r)
  BY DEF First!Submit, First!Accept, First!Refuse, First!at_capacity, First!semaphore,
         FirstProofs!Submit, FirstProofs!Accept, FirstProofs!Refuse, FirstProofs!at_capacity,
         FirstProofs!semaphore,
         First!Execute, First!Start, First!StartNow, First!Park, First!Resume, First!Expire,
         First!FinishInTime, First!FinishLate, First!Finish, First!WakeNext, First!locked,
         FirstProofs!Execute, FirstProofs!Start, FirstProofs!StartNow, FirstProofs!Park,
         FirstProofs!Resume, FirstProofs!Expire, FirstProofs!FinishInTime, FirstProofs!FinishLate,
         FirstProofs!Finish, FirstProofs!WakeNext, FirstProofs!locked

LEMMA SecondCounts ==
    ASSUME NEW S
    PROVE  /\ Second!Cardinality(S) = Cardinality(S) /\ SecondProofs!Cardinality(S) = Cardinality(S)
           /\ Second!IsFiniteSet(S) <=> IsFiniteSet(S)
           /\ SecondProofs!IsFiniteSet(S) <=> IsFiniteSet(S)
<1>1. Second!Cardinality(S) = Cardinality(S)
  BY DEF Second!Cardinality, Cardinality
<1>2. SecondProofs!Cardinality(S) = Cardinality(S)
  BY DEF SecondProofs!Cardinality, Cardinality
<1>3. Second!IsFiniteSet(S) <=> IsFiniteSet(S)
  BY DEF Second!IsFiniteSet, IsFiniteSet
<1>4. SecondProofs!IsFiniteSet(S) <=> IsFiniteSet(S)
  BY DEF SecondProofs!IsFiniteSet, IsFiniteSet
<1> QED
  BY <1>1, <1>2, <1>3, <1>4

LEMMA SecondBooks ==
    /\ Second!QueueInv <=> SecondProofs!QueueInv
    /\ Second!Holders(pc2) = SecondProofs!Holders(pc2)
<1>1. Second!Holders(pc2) = SecondProofs!Holders(pc2)
  BY DEF Second!Holders, SecondProofs!Holders
<1>2. Second!SlotsAddUp <=> SecondProofs!SlotsAddUp
  BY <1>1, SecondCounts DEF Second!SlotsAddUp, SecondProofs!SlotsAddUp
<1>3. Second!TypeOK <=> SecondProofs!TypeOK
  BY DEF Second!TypeOK, SecondProofs!TypeOK, Second!Places, SecondProofs!Places, Second!Outcomes,
         SecondProofs!Outcomes
<1>4. Second!InLine <=> SecondProofs!InLine
  BY DEF Second!InLine, SecondProofs!InLine, Second!Lined, SecondProofs!Lined
<1>5. Second!EntriesMatch <=> SecondProofs!EntriesMatch
  BY DEF Second!EntriesMatch, SecondProofs!EntriesMatch, Second!Outcomes, SecondProofs!Outcomes
<1>6. Second!NoLostWakeup <=> SecondProofs!NoLostWakeup
  BY DEF Second!NoLostWakeup, SecondProofs!NoLostWakeup
<1> QED
  BY <1>1, <1>2, <1>3, <1>4, <1>5, <1>6 DEF Second!QueueInv, SecondProofs!QueueInv

LEMMA SecondSteps ==
    ASSUME NEW r \in Runs
    PROVE  /\ Second!Submit(r) <=> SecondProofs!Submit(r)
           /\ Second!Execute(r) <=> SecondProofs!Execute(r)
  BY DEF Second!Submit, Second!Accept, Second!Refuse, Second!at_capacity, Second!semaphore,
         SecondProofs!Submit, SecondProofs!Accept, SecondProofs!Refuse, SecondProofs!at_capacity,
         SecondProofs!semaphore,
         Second!Execute, Second!Start, Second!StartNow, Second!Park, Second!Resume, Second!Expire,
         Second!FinishInTime, Second!FinishLate, Second!Finish, Second!WakeNext, Second!locked,
         SecondProofs!Execute, SecondProofs!Start, SecondProofs!StartNow, SecondProofs!Park,
         SecondProofs!Resume, SecondProofs!Expire, SecondProofs!FinishInTime, SecondProofs!FinishLate,
         SecondProofs!Finish, SecondProofs!WakeNext, SecondProofs!locked

-----------------------------------------------------------------------------
(* What a step of a queue is for the other parts of the server.            *)

LEMMA FirstStep ==
    ASSUME First!QueueInv, NEW r \in Runs, First!Submit(r) \/ First!Execute(r)
    PROVE  /\ First!QueueInv'
           /\ \A s \in Runs : state1[s] \in First!Outcomes => state1'[s] = state1[s]
           /\ First!Submit(r) => pc1[r] = "absent"
           /\ First!Execute(r) => pc1[r] # "absent"
           /\ \A s \in Runs : s # r => (pc1'[s] = "absent" <=> pc1[s] = "absent")
<1>1. FirstProofs!QueueInv /\ (FirstProofs!Submit(r) \/ FirstProofs!Execute(r))
  BY FirstBooks, FirstSteps
<1>2. FirstProofs!Next
  BY <1>1 DEF FirstProofs!Next
<1>3. FirstProofs!QueueInv'
  BY <1>1, <1>2, CapsAssumption, FirstProofs!NextKeepsBooks
<1>4. First!QueueInv'
  <2>1. (First!QueueInv <=> FirstProofs!QueueInv)'
    BY FirstBooks, PTL
  <2> QED
    BY <1>3, <2>1
<1>5. \A s \in Runs : state1[s] \in FirstProofs!Outcomes => state1'[s] = state1[s]
  BY <1>1, <1>2, CapsAssumption, FirstProofs!OutcomesStay
<1>6. /\ FirstProofs!Submit(r) => pc1[r] = "absent"
      /\ FirstProofs!Execute(r) => pc1[r] # "absent"
      /\ \A s \in Runs \ {r} : pc1'[s] = "absent" <=> pc1[s] = "absent"
  BY <1>1, CapsAssumption, FirstProofs!Entering
<1> QED
  BY <1>4, <1>5, <1>6, FirstSteps DEF First!Outcomes, FirstProofs!Outcomes

LEMMA SecondStep ==
    ASSUME Second!QueueInv, NEW r \in Runs, Second!Submit(r) \/ Second!Execute(r)
    PROVE  /\ Second!QueueInv'
           /\ \A s \in Runs : state2[s] \in Second!Outcomes => state2'[s] = state2[s]
           /\ Second!Submit(r) => pc2[r] = "absent"
           /\ Second!Execute(r) => pc2[r] # "absent"
           /\ \A s \in Runs : s # r => (pc2'[s] = "absent" <=> pc2[s] = "absent")
<1>1. SecondProofs!QueueInv /\ (SecondProofs!Submit(r) \/ SecondProofs!Execute(r))
  BY SecondBooks, SecondSteps
<1>2. SecondProofs!Next
  BY <1>1 DEF SecondProofs!Next
<1>3. SecondProofs!QueueInv'
  BY <1>1, <1>2, CapsAssumption, SecondProofs!NextKeepsBooks
<1>4. Second!QueueInv'
  <2>1. (Second!QueueInv <=> SecondProofs!QueueInv)'
    BY SecondBooks, PTL
  <2> QED
    BY <1>3, <2>1
<1>5. \A s \in Runs : state2[s] \in SecondProofs!Outcomes => state2'[s] = state2[s]
  BY <1>1, <1>2, CapsAssumption, SecondProofs!OutcomesStay
<1>6. /\ SecondProofs!Submit(r) => pc2[r] = "absent"
      /\ SecondProofs!Execute(r) => pc2[r] # "absent"
      /\ \A s \in Runs \ {r} : pc2'[s] = "absent" <=> pc2[s] = "absent"
  BY <1>1, CapsAssumption, SecondProofs!Entering
<1> QED
  BY <1>4, <1>5, <1>6, SecondSteps DEF Second!Outcomes, SecondProofs!Outcomes

(* A queue that nothing touches keeps its books. *)
LEMMA QueuesRest ==
    /\ First!QueueInv /\ UNCHANGED queue1 => First!QueueInv'
    /\ Second!QueueInv /\ UNCHANGED queue2 => Second!QueueInv'
<1>1. /\ UNCHANGED queue1 => UNCHANGED FirstProofs!vars
      /\ UNCHANGED queue2 => UNCHANGED SecondProofs!vars
  BY DEF queue1, queue2, FirstProofs!vars, SecondProofs!vars
<1>2. /\ FirstProofs!QueueInv /\ UNCHANGED queue1 => FirstProofs!QueueInv'
      /\ SecondProofs!QueueInv /\ UNCHANGED queue2 => SecondProofs!QueueInv'
  BY <1>1, CapsAssumption, FirstProofs!NextKeepsBooks, SecondProofs!NextKeepsBooks
<1>3. (First!QueueInv <=> FirstProofs!QueueInv)' /\ (Second!QueueInv <=> SecondProofs!QueueInv)'
  BY FirstBooks, SecondBooks, PTL
<1> QED
  BY <1>2, <1>3, FirstBooks, SecondBooks

LEMMA FirstCap == First!QueueInv => Cardinality(First!Executing) <= CapBefore
<1> SUFFICES ASSUME First!QueueInv PROVE Cardinality(First!Executing) <= CapBefore
  OBVIOUS
<1>1. FirstProofs!WithinCap
  BY FirstBooks, CapsAssumption, FirstProofs!CapFollows
<1>2. First!Executing = FirstProofs!Executing
  BY DEF First!Executing, FirstProofs!Executing
<1> QED
  BY <1>1, <1>2, FirstCounts DEF FirstProofs!WithinCap

LEMMA SecondCap == Second!QueueInv => Cardinality(Second!Executing) <= CapAfter
<1> SUFFICES ASSUME Second!QueueInv PROVE Cardinality(Second!Executing) <= CapAfter
  OBVIOUS
<1>1. SecondProofs!WithinCap
  BY SecondBooks, CapsAssumption, SecondProofs!CapFollows
<1>2. Second!Executing = SecondProofs!Executing
  BY DEF Second!Executing, SecondProofs!Executing
<1> QED
  BY <1>1, <1>2, SecondCounts DEF SecondProofs!WithinCap

-----------------------------------------------------------------------------
(* The invariant: besides the books of either queue, a run is submitted to *)
(* one of them only, to the second one only after the change, and a stream *)
(* that was closed was closed for an outcome.                              *)
AdmissionInv ==
    /\ First!QueueInv /\ Second!QueueInv
    /\ reloaded \in BOOLEAN
    /\ DOMAIN stream = Runs
    /\ \A r \in Runs : pc2[r] # "absent" => reloaded /\ pc1[r] = "absent"
    /\ StreamsReportTheEnd

(* One of the queues moves: what streams have reported stays true. *)
LEMMA StreamsKeep ==
    ASSUME AdmissionInv, UNCHANGED <<reloaded, stream>>,
           \A s \in Runs : state1[s] \in First!Outcomes => state1'[s] = state1[s],
           \A s \in Runs : state2[s] \in First!Outcomes => state2'[s] = state2[s]
    PROVE  StreamsReportTheEnd'
  BY DEF AdmissionInv, StreamsReportTheEnd, First!Outcomes

LEMMA InitAdmission == Init => AdmissionInv
<1> SUFFICES ASSUME Init PROVE AdmissionInv
  OBVIOUS
<1>1. First!QueueInv
  <2>1. FirstProofs!Init
    BY DEF Init, First!Init, FirstProofs!Init
  <2> QED
    BY <2>1, FirstBooks, CapsAssumption, FirstProofs!InitBooks
<1>2. Second!QueueInv
  <2>1. SecondProofs!Init
    BY DEF Init, Second!Init, SecondProofs!Init
  <2> QED
    BY <2>1, SecondBooks, CapsAssumption, SecondProofs!InitBooks
<1> QED
  BY <1>1, <1>2 DEF Init, Second!Init, AdmissionInv, StreamsReportTheEnd

(* A step of the first queue; if it is a submission, before the change. *)
LEMMA FirstKeeps ==
    ASSUME AdmissionInv, NEW r \in Runs, (First!Submit(r) /\ ~reloaded) \/ First!Execute(r),
           UNCHANGED queue2, UNCHANGED <<reloaded, stream>>
    PROVE  AdmissionInv'
<1>1. UNCHANGED <<pc2, state2>> /\ Second!QueueInv'
  BY QueuesRest DEF queue2, AdmissionInv
<1>2. /\ First!QueueInv'
      /\ \A s \in Runs : state1[s] \in First!Outcomes => state1'[s] = state1[s]
      /\ First!Execute(r) => pc1[r] # "absent"
      /\ \A s \in Runs : s # r => (pc1'[s] = "absent" <=> pc1[s] = "absent")
  BY FirstStep DEF AdmissionInv
<1>3. StreamsReportTheEnd'
  BY <1>1, <1>2, StreamsKeep
<1>4. \A s \in Runs : pc2'[s] # "absent" => reloaded' /\ pc1'[s] = "absent"
  BY <1>1, <1>2 DEF AdmissionInv
<1> QED
  BY <1>1, <1>2, <1>3, <1>4 DEF AdmissionInv

(* A step of the second queue; if it is a submission, after the change and *)
(* of a run that the first queue has not been asked for.                   *)
LEMMA SecondKeeps ==
    ASSUME AdmissionInv, NEW r \in Runs,
           (Second!Submit(r) /\ reloaded /\ pc1[r] = "absent") \/ Second!Execute(r),
           UNCHANGED queue1, UNCHANGED <<reloaded, stream>>
    PROVE  AdmissionInv'
<1>1. UNCHANGED <<pc1, state1>> /\ First!QueueInv'
  BY QueuesRest DEF queue1, AdmissionInv
<1>2. /\ Second!QueueInv'
      /\ \A s \in Runs : state2[s] \in Second!Outcomes => state2'[s] = state2[s]
      /\ Second!Execute(r) => pc2[r] # "absent"
      /\ \A s \in Runs : s # r => (pc2'[s] = "absent" <=> pc2[s] = "absent")
  BY SecondStep DEF AdmissionInv
<1>3. First!Outcomes = Second!Outcomes
  BY DEF First!Outcomes, Second!Outcomes
<1>4. StreamsReportTheEnd'
  BY <1>1, <1>2, <1>3, StreamsKeep
<1>5. \A s \in Runs : pc2'[s] # "absent" => reloaded' /\ pc1'[s] = "absent"
  BY <1>1, <1>2 DEF AdmissionInv
<1> QED
  BY <1>1, <1>2, <1>4, <1>5 DEF AdmissionInv

(* A stream is closed once one of the queues has an outcome for its run.   *)
LEMMA CloseStreamKeeps ==
    ASSUME AdmissionInv, NEW r \in Runs, CloseStream(r) PROVE AdmissionInv'
<1>1. First!QueueInv' /\ Second!QueueInv' /\ UNCHANGED <<reloaded, pc1, pc2, state1, state2>>
  BY QueuesRest DEF CloseStream, AdmissionInv, queue1, queue2
<1>2. /\ r \in completed1 => state1[r] \in First!Outcomes
      /\ r \in completed2 => state2[r] \in First!Outcomes /\ pc2[r] # "absent"
      /\ "none" \notin First!Outcomes
  BY DEF AdmissionInv, First!QueueInv, First!EntriesMatch, First!Outcomes,
         Second!QueueInv, Second!EntriesMatch, Second!Outcomes
<1>3. StreamsReportTheEnd'
  BY <1>1, <1>2 DEF CloseStream, Known, AdmissionInv, StreamsReportTheEnd, First!Outcomes
<1> QED
  BY <1>1, <1>3 DEF CloseStream, AdmissionInv

(* The other requests leave the queues alone. *)
LEMMA OthersKeep ==
    ASSUME AdmissionInv, UNCHANGED <<queue1, queue2>>, reloaded' \in BOOLEAN, reloaded => reloaded',
           \/ stream' = stream
           \/ \E r \in Runs : stream' = [stream EXCEPT ![r] = "open"]
    PROVE  AdmissionInv'
<1>1. First!QueueInv' /\ Second!QueueInv' /\ UNCHANGED <<pc1, pc2, state1, state2>>
  BY QueuesRest DEF AdmissionInv, queue1, queue2
<1>2. StreamsReportTheEnd'
  BY <1>1 DEF AdmissionInv, StreamsReportTheEnd, First!Outcomes
<1> QED
  BY <1>1, <1>2 DEF AdmissionInv

LEMMA NextAdmission == AdmissionInv /\ [Next]_vars => AdmissionInv'
<1> SUFFICES ASSUME AdmissionInv, [Next]_vars PROVE AdmissionInv'
  OBVIOUS
<1>1. ASSUME NEW r \in Runs, SubmitRun(r) \/ ExecuteRun(r) PROVE AdmissionInv'
  BY <1>1, FirstKeeps, SecondKeeps DEF SubmitRun, ExecuteRun
<1>2. ASSUME NEW r \in Runs, OpenStream(r) PROVE AdmissionInv'
  BY <1>2, OthersKeep DEF OpenStream, AdmissionInv
<1>3. ASSUME NEW r \in Runs, CloseStream(r) PROVE AdmissionInv'
  BY <1>3, CloseStreamKeeps
<1>4. ASSUME NEW c \in Chats, BeginChat(c) \/ EndChat(c) PROVE AdmissionInv'
  BY <1>4, OthersKeep DEF BeginChat, EndChat, AdmissionInv
<1>5. CASE UpdateExecutionConfig
  BY <1>5, OthersKeep DEF UpdateExecutionConfig
<1>6. CASE UNCHANGED vars
  BY <1>6, OthersKeep DEF vars, AdmissionInv
<1> QED
  BY <1>1, <1>2, <1>3, <1>4, <1>5, <1>6 DEF Next

THEOREM AdmissionInvariant == Spec => []AdmissionInv
  BY InitAdmission, NextAdmission, PTL DEF Spec

(* POST /config with an execution setting (_reload_run_queue): however     *)
(* submissions and the runs of both queues interleave with it, no run is   *)
(* executed by both, and either queue stays within the cap it was made     *)
(* with - the server as a whole within their sum.                          *)
THEOREM CapsHold == Spec => []EachQueueWithinCap
<1>1. AdmissionInv => EachQueueWithinCap
  <2> SUFFICES ASSUME AdmissionInv PROVE EachQueueWithinCap
    OBVIOUS
  <2>1. First!Executing \cap Second!Executing = {}
    BY DEF AdmissionInv, First!Executing, Second!Executing
  <2> QED
    BY <2>1, FirstCap, SecondCap DEF AdmissionInv, EachQueueWithinCap
<1> QED
  BY <1>1, AdmissionInvariant, PTL

(* GET /runs/{id}/stream: a final status is the status of a run that has   *)
(* ended, and only a run of a replaced queue breaks its stream off.        *)
THEOREM StreamsAreTrue == Spec => []StreamsReportTheEnd
<1>1. AdmissionInv => StreamsReportTheEnd
  BY DEF AdmissionInv
<1> QED
  BY <1>1, AdmissionInvariant, PTL

(* POST /chat and /chat/stream: a 429 means that each slot of the queue    *)
(* that was asked is held by a run.                                        *)
THEOREM RefusalsAreJustified == Spec => ChatRefusalJustified
<1> DEFINE Step == \A c \in Chats :
                      (chat[c] = "idle" /\ chat'[c] = "refused") =>
                          \/ ~reloaded /\ Cardinality(First!Holders(pc1)) = CapBefore
                          \/ reloaded /\ Cardinality(Second!Holders(pc2)) = CapAfter
<1>1. ASSUME AdmissionInv, DOMAIN chat = Chats, Next PROVE Step
  <2> SUFFICES ASSUME NEW c \in Chats, chat[c] = "idle", chat'[c] = "refused"
               PROVE  \/ ~reloaded /\ Cardinality(First!Holders(pc1)) = CapBefore
                      \/ reloaded /\ Cardinality(Second!Holders(pc2)) = CapAfter
    OBVIOUS
  <2>1. PICK d \in Chats : BeginChat(d) \/ EndChat(d)
    BY <1>1 DEF Next, SubmitRun, ExecuteRun, OpenStream, CloseStream, UpdateExecutionConfig
  <2>2. AtCapacity
    BY <1>1, <2>1 DEF BeginChat, EndChat
  <2>3. /\ slots1 = 0 => Cardinality(First!Holders(pc1)) = CapBefore
        /\ slots2 = 0 => Cardinality(Second!Holders(pc2)) = CapAfter
    <3>1. /\ IsFiniteSet(First!Holders(pc1)) /\ slots1 + Cardinality(First!Holders(pc1)) = CapBefore
          /\ IsFiniteSet(Second!Holders(pc2)) /\ slots2 + Cardinality(Second!Holders(pc2)) = CapAfter
      BY <1>1, FirstCounts, SecondCounts
         DEF AdmissionInv, First!QueueInv, Second!QueueInv, First!SlotsAddUp, Second!SlotsAddUp
    <3>2. Cardinality(First!Holders(pc1)) \in Nat /\ Cardinality(Second!Holders(pc2)) \in Nat
      BY <3>1, FS_CardinalityType
    <3> QED
      BY <3>1, <3>2
  <2> QED
    BY <1>1, <2>2, <2>3 DEF AtCapacity, First!at_capacity, Second!at_capacity, AdmissionInv
<1>2. Init => DOMAIN chat = Chats
  BY DEF Init
<1>3. DOMAIN chat = Chats /\ [Next]_vars => (DOMAIN chat = Chats)'
  BY DEF Next, SubmitRun, ExecuteRun, OpenStream, CloseStream, UpdateExecutionConfig, BeginChat,
         EndChat, vars
<1>4. AdmissionInv /\ DOMAIN chat = Chats /\ [Next]_vars => [Step]_vars
  BY <1>1
<1> HIDE DEF Step
<1>5. Spec => [][Step]_vars
  BY <1>2, <1>3, <1>4, AdmissionInvariant, PTL DEF Spec
<1> QED
  BY <1>5 DEF Step, ChatRefusalJustified
=============================================================================
