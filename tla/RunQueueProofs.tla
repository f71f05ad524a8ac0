--------------------------- MODULE RunQueueProofs ---------------------------
(***************************************************************************)
(* Proofs about RunQueue, for any set of runs and any number of workers.   *)
(***************************************************************************)
EXTENDS RunQueue, FiniteSetTheorems, SequenceTheorems, TLAPS

Holding == {"granted", "executing", "stopping"}

(* The number of slots held is a number. *)
LEMMA HoldersCount ==
    ASSUME NEW places \in [Runs -> Places], IsFiniteSet(Holders(places))
    PROVE  Cardinality(Holders(places)) \in Nat
  BY FS_CardinalityType

(* A run that takes a slot adds one to the slots held. *)
LEMMA HolderAdded ==
    ASSUME NEW places \in [Runs -> Places], IsFiniteSet(Holders(places)),
           NEW r \in Runs, NEW p \in Holding, places[r] \notin Holding
    PROVE  /\ IsFiniteSet(Holders([places EXCEPT ![r] = p]))
           /\ Cardinality(Holders([places EXCEPT ![r] = p])) =
                Cardinality(Holders(places)) + 1
<1>1. /\ Holders([places EXCEPT ![r] = p]) = Holders(places) \cup {r}
      /\ r \notin Holders(places)
  BY DEF Holders, Holding
<1>2. QED
  BY <1>1, FS_AddElement, Zenon

(* Nothing changes for the slots held when a run moves among the places   *)
(* that hold one, or among those that hold none.                           *)
LEMMA HolderMoved ==
    ASSUME NEW places \in [Runs -> Places],
           NEW r \in Runs, NEW p \in Places, places[r] \in Holding <=> p \in Holding
    PROVE  Holders([places EXCEPT ![r] = p]) = Holders(places)
  BY DEF Holders, Holding

(* A run that gives its slot up takes one from the slots held. *)
LEMMA HolderRemoved ==
    ASSUME NEW places \in [Runs -> Places], IsFiniteSet(Holders(places)),
           NEW r \in Runs, NEW p \in Places \ Holding, places[r] \in Holding
    PROVE  /\ IsFiniteSet(Holders([places EXCEPT ![r] = p]))
           /\ Cardinality(Holders([places EXCEPT ![r] = p])) =
                Cardinality(Holders(places)) - 1
<1>1. /\ Holders([places EXCEPT ![r] = p]) = Holders(places) \ {r}
      /\ r \in Holders(places)
  BY DEF Holders, Holding
<1>2. QED
  BY <1>1, FS_RemoveElement, Zenon

(* A line is not disturbed when a task that does not stand in it moves. *)
LEMMA LineKept ==
    ASSUME NEW places \in [Runs -> Places], NEW line \in Seq(Runs), NEW place \in Places,
           NEW r \in Runs, NEW p \in Places,
           Lined(line, places, place), places[r] # place
    PROVE  Lined(line, [places EXCEPT ![r] = p], place)
  BY DEF Lined

(* The first of a line may leave it for another place. *)
LEMMA LineLeft ==
    ASSUME NEW places \in [Runs -> Places], NEW line \in Seq(Runs), NEW place \in Places,
           NEW p \in Places,
           Lined(line, places, place), line # <<>>
    PROVE  /\ Head(line) \in Runs
           /\ places[Head(line)] = place
           /\ Tail(line) \in Seq(Runs)
           /\ Lined(Tail(line), [places EXCEPT ![Head(line)] = p], place)
  BY DEF Lined

(* A task from another place may join a line at its end. *)
LEMMA LineJoined ==
    ASSUME NEW places \in [Runs -> Places], NEW line \in Seq(Runs), NEW place \in Places,
           NEW r \in Runs,
           Lined(line, places, place), places[r] # place
    PROVE  /\ Append(line, r) \in Seq(Runs)
           /\ Lined(Append(line, r), [places EXCEPT ![r] = place], place)
  BY DEF Lined

(* The counter, the resolved prefix and the places agree with each other. *)
Balanced(free, held, places) ==
    /\ places \in [Runs -> Places]
    /\ held \in Seq(Runs)
    /\ free \in Nat
    /\ Lined(ready, places, "ready")
    /\ Lined(held, places, "granted")
    /\ Lined(waiters, places, "waiting")
    /\ IsFiniteSet(Holders(places))
    /\ free + Cardinality(Holders(places)) = MaxWorkers

(* A wake-up (Semaphore._wake_up_next) keeps the books: whatever happened  *)
(* to the counter, the resolved prefix and the tasks' places before it, if *)
(* those were consistent then they are consistent after it.                *)
LEMMA WakeNextKeepsBooks ==
    ASSUME NEW free, NEW held, NEW places,
           ready \in Seq(Runs), waiters \in Seq(Runs), UNCHANGED ready,
           Balanced(free, held, places), free > 0 \/ waiters = <<>>,
           WakeNext(free, held, places)
    PROVE  /\ pc' \in [Runs -> Places]
           /\ slots' \in 0 .. MaxWorkers
           /\ granted' \in Seq(Runs)
           /\ waiters' \in Seq(Runs)
           /\ InLine'
           /\ SlotsAddUp'
           /\ NoLostWakeup'
           /\ \A r \in Runs : (pc'[r] = places[r] \/ (pc'[r] = "granted" /\ places[r] = "waiting"))
<1> USE DEF Balanced
<1>0. Cardinality(Holders(places)) \in Nat
  BY HoldersCount
<1>1. CASE waiters = <<>>
  <2>1. pc' = places /\ slots' = free /\ granted' = held /\ waiters' = <<>> /\ ready' = ready
    BY <1>1 DEF WakeNext
  <2>2. Holders(pc)' = Holders(places)
    BY <2>1 DEF Holders
  <2>3. InLine'
    BY <2>1, <1>1 DEF InLine, Lined
  <2>4. QED
    BY <2>1, <2>2, <2>3, <1>0, <1>1, MaxWorkersAssumption DEF SlotsAddUp, NoLostWakeup
<1>2. CASE waiters # <<>>
  <2> DEFINE h == Head(waiters)
  <2>1. /\ pc' = [places EXCEPT ![h] = "granted"] /\ slots' = free - 1
        /\ granted' = Append(held, h) /\ waiters' = Tail(waiters) /\ ready' = ready
    BY <1>2 DEF WakeNext
  <2>2. "waiting" \in Places /\ "granted" \in Places /\ "ready" \in Places /\ "granted" \in Holding
    BY DEF Places, Holding
  <2>3. /\ h \in Runs /\ places[h] = "waiting"
        /\ Tail(waiters) \in Seq(Runs)
        /\ Lined(Tail(waiters), [places EXCEPT ![h] = "granted"], "waiting")
    BY <1>2, <2>2, LineLeft
  <2>4. /\ Append(held, h) \in Seq(Runs)
        /\ Lined(Append(held, h), [places EXCEPT ![h] = "granted"], "granted")
    BY <2>2, <2>3, LineJoined
  <2>5. Lined(ready, [places EXCEPT ![h] = "granted"], "ready")
    BY <2>2, <2>3, LineKept
  <2>6. places[h] \notin Holding
    BY <2>3 DEF Holding
  <2>7. /\ IsFiniteSet(Holders([places EXCEPT ![h] = "granted"]))
        /\ Cardinality(Holders([places EXCEPT ![h] = "granted"])) =
              Cardinality(Holders(places)) + 1
    BY <2>2, <2>3, <2>6, HolderAdded
  <2>8. Holders(pc)' = Holders([places EXCEPT ![h] = "granted"])
    BY <2>1 DEF Holders
  <2>9. SlotsAddUp' /\ slots' \in 0 .. MaxWorkers
    BY <2>1, <2>7, <2>8, <1>0, <1>2, MaxWorkersAssumption DEF SlotsAddUp
  <2>10. InLine'
    BY <2>1, <2>3, <2>4, <2>5 DEF InLine, Lined
  <2>11. granted' # <<>>
    BY <2>1, <2>3
  <2>12. pc' \in [Runs -> Places] /\ granted' \in Seq(Runs) /\ waiters' \in Seq(Runs)
    BY <2>1, <2>2, <2>3, <2>4
  <2>13. \A r \in Runs : pc'[r] = places[r] \/ (pc'[r] = "granted" /\ places[r] = "waiting")
    BY <2>1, <2>3
  <2>14. QED
    BY <2>9, <2>10, <2>11, <2>12, <2>13 DEF NoLostWakeup
<1>3. QED
  BY <1>1, <1>2

(* The books of an empty queue balance. *)
LEMMA InitBooks == Init => QueueInv
<1> SUFFICES ASSUME Init PROVE QueueInv
  OBVIOUS
<1> USE DEF Init
<1>1. TypeOK
  BY MaxWorkersAssumption DEF TypeOK, Places, Outcomes
<1>2. InLine
  BY DEF InLine, Lined
<1>3. SlotsAddUp
  <2>1. Holders(pc) = {}
    BY DEF Holders
  <2>2. QED
    BY <2>1, FS_EmptySet, MaxWorkersAssumption DEF SlotsAddUp
<1>4. EntriesMatch
  BY DEF EntriesMatch, Outcomes
<1>5. QED
  BY <1>1, <1>2, <1>3, <1>4 DEF QueueInv, NoLostWakeup

(* Each step of each task keeps the queue's books. *)
LEMMA NextKeepsBooks == QueueInv /\ [Next]_vars => QueueInv'
<1> SUFFICES ASSUME QueueInv, [Next]_vars PROVE QueueInv'
  OBVIOUS
<1> USE DEF QueueInv
<1>0. Cardinality(Holders(pc)) \in Nat
  BY HoldersCount DEF TypeOK, SlotsAddUp
<1>1. ASSUME NEW r \in Runs, Accept(r) PROVE QueueInv'
  <2>1. TypeOK'
    BY <1>1 DEF Accept, TypeOK, semaphore, Places
  <2>2. InLine'
    BY <1>1, LineKept, LineJoined DEF Accept, InLine, TypeOK, semaphore, Places, Lined
  <2>3. SlotsAddUp'
    <3>1. Holders(pc)' = Holders(pc)
      BY <1>1 DEF Accept, Holders, TypeOK
    <3>2. QED
      BY <3>1, <1>1 DEF Accept, SlotsAddUp, semaphore
  <2>4. EntriesMatch'
    BY <1>1 DEF Accept, EntriesMatch, TypeOK, Outcomes
  <2>5. QED
    BY <1>1, <2>1, <2>2, <2>3, <2>4 DEF Accept, NoLostWakeup, semaphore
<1>2. ASSUME NEW r \in Runs, Refuse(r) PROVE QueueInv'
  <2>1. TypeOK'
    BY <1>2 DEF Refuse, TypeOK, semaphore, Places
  <2>2. InLine'
    BY <1>2 DEF Refuse, InLine, TypeOK, semaphore, Lined
  <2>3. SlotsAddUp'
    <3>1. Holders(pc)' = Holders(pc)
      BY <1>2 DEF Refuse, Holders, TypeOK
    <3>2. QED
      BY <3>1, <1>2 DEF Refuse, SlotsAddUp, semaphore
  <2>4. EntriesMatch'
    BY <1>2 DEF Refuse, EntriesMatch, TypeOK
  <2>5. QED
    BY <1>2, <2>1, <2>2, <2>3, <2>4 DEF Refuse, NoLostWakeup, semaphore
<1>3. ASSUME NEW r \in Runs, StartNow(r) PROVE QueueInv'
  <2>0. /\ pc[r] = "ready" /\ Tail(ready) \in Seq(Runs)
        /\ Lined(Tail(ready), [pc EXCEPT ![r] = "executing"], "ready")
    BY <1>3, LineLeft DEF StartNow, InLine, TypeOK, Places
  <2>1. TypeOK'
    BY <1>3, <2>0, MaxWorkersAssumption DEF StartNow, TypeOK, Places, locked
  <2>2. InLine'
    <3>1. granted = <<>> /\ waiters = <<>>
      BY <1>3 DEF StartNow, locked
    <3>2. QED
      BY <1>3, <2>0, <3>1 DEF StartNow, InLine, Lined
  <2>3. SlotsAddUp'
    <3>1. pc[r] \notin Holding /\ "executing" \in Holding
      BY <2>0 DEF Holding
    <3>2. /\ IsFiniteSet(Holders([pc EXCEPT ![r] = "executing"]))
          /\ Cardinality(Holders([pc EXCEPT ![r] = "executing"])) = Cardinality(Holders(pc)) + 1
      BY <3>1, HolderAdded DEF TypeOK, SlotsAddUp
    <3>3. Holders(pc)' = Holders([pc EXCEPT ![r] = "executing"])
      BY <1>3 DEF StartNow, Holders
    <3>4. QED
      BY <1>0, <1>3, <3>2, <3>3, MaxWorkersAssumption DEF StartNow, SlotsAddUp, TypeOK, locked
  <2>4. EntriesMatch'
    BY <1>3, <2>0 DEF StartNow, EntriesMatch, TypeOK
  <2>5. QED
    BY <1>3, <2>1, <2>2, <2>3, <2>4 DEF StartNow, NoLostWakeup, locked
<1>4. ASSUME NEW r \in Runs, Park(r) PROVE QueueInv'
  <2>0. /\ pc[r] = "ready" /\ Tail(ready) \in Seq(Runs)
        /\ Lined(Tail(ready), [pc EXCEPT ![r] = "waiting"], "ready")
    BY <1>4, LineLeft DEF Park, InLine, TypeOK, Places
  <2>1. TypeOK'
    BY <1>4, <2>0 DEF Park, TypeOK, Places
  <2>2. InLine'
    <3>1. Lined(Append(waiters, r), [pc EXCEPT ![r] = "waiting"], "waiting")
      BY <2>0, LineJoined DEF InLine, TypeOK, Places
    <3>2. Lined(granted, [pc EXCEPT ![r] = "waiting"], "granted")
      BY <2>0, LineKept DEF InLine, TypeOK, Places
    <3>3. QED
      BY <1>4, <2>0, <3>1, <3>2 DEF Park, InLine, Lined
  <2>3. SlotsAddUp'
    <3>1. Holders(pc)' = Holders(pc)
      BY <1>4, <2>0 DEF Park, Holders, TypeOK
    <3>2. QED
      BY <3>1, <1>4 DEF Park, SlotsAddUp
  <2>4. EntriesMatch'
    BY <1>4, <2>0 DEF Park, EntriesMatch, TypeOK
  <2>5. NoLostWakeup'
    BY <1>4 DEF Park, NoLostWakeup, locked, TypeOK
  <2>6. QED
    BY <2>1, <2>2, <2>3, <2>4, <2>5
<1>5. ASSUME NEW r \in Runs, Resume(r) PROVE QueueInv'
  <2> DEFINE entered == [pc EXCEPT ![r] = "executing"]
  <2>0. /\ pc[r] = "granted" /\ Tail(granted) \in Seq(Runs)
        /\ Lined(Tail(granted), entered, "granted")
    BY <1>5, LineLeft DEF Resume, InLine, TypeOK, Places
  <2>1. Lined(waiters, entered, "waiting") /\ Lined(ready, entered, "ready")
    BY <2>0, LineKept DEF InLine, TypeOK, Places
  <2>2. Holders(entered) = Holders(pc)
    BY <2>0, HolderMoved DEF TypeOK, Holding, Places
  <2>3. entered \in [Runs -> Places]
    BY DEF TypeOK, Places
  <2>4. UNCHANGED <<state, completed, runs, ready>>
    BY <1>5 DEF Resume
  <2>5. CASE slots > 0
    <3>1. WakeNext(slots, Tail(granted), entered)
      BY <1>5, <2>5 DEF Resume
    <3>2. Balanced(slots, Tail(granted), entered)
      BY <2>0, <2>1, <2>2, <2>3 DEF Balanced, SlotsAddUp, TypeOK
    <3>3. /\ pc' \in [Runs -> Places] /\ slots' \in 0 .. MaxWorkers
          /\ granted' \in Seq(Runs) /\ waiters' \in Seq(Runs)
          /\ InLine' /\ SlotsAddUp' /\ NoLostWakeup'
          /\ \A s \in Runs : pc'[s] = entered[s] \/ (pc'[s] = "granted" /\ entered[s] = "waiting")
      BY <2>4, <2>5, <3>1, <3>2, WakeNextKeepsBooks DEF TypeOK
    <3>4. TypeOK'
      BY <2>4, <3>3 DEF TypeOK
    <3>5. EntriesMatch'
      BY <2>0, <2>4, <3>3 DEF EntriesMatch, TypeOK
    <3>6. QED
      BY <3>3, <3>4, <3>5
  <2>6. CASE ~(slots > 0)
    <3>1. pc' = entered /\ granted' = Tail(granted) /\ UNCHANGED <<slots, waiters>>
      BY <1>5, <2>6 DEF Resume
    <3>2. TypeOK'
      BY <2>0, <2>3, <2>4, <3>1 DEF TypeOK
    <3>3. InLine'
      BY <2>0, <2>1, <2>4, <3>1 DEF InLine, Lined
    <3>4. SlotsAddUp'
      BY <2>2, <3>1 DEF SlotsAddUp, Holders
    <3>5. EntriesMatch'
      BY <2>0, <2>4, <3>1 DEF EntriesMatch, TypeOK
    <3>6. QED
      BY <2>6, <3>1, <3>2, <3>3, <3>4, <3>5 DEF NoLostWakeup
  <2>7. QED
    BY <2>5, <2>6
<1>6. ASSUME NEW r \in Runs, Expire(r) PROVE QueueInv'
  <2>1. TypeOK'
    BY <1>6 DEF Expire, TypeOK, semaphore, Places
  <2>2. InLine'
    BY <1>6 DEF Expire, InLine, TypeOK, semaphore, Lined
  <2>3. SlotsAddUp'
    <3>1. Holders(pc)' = Holders(pc)
      BY <1>6 DEF Expire, Holders, TypeOK
    <3>2. QED
      BY <3>1, <1>6 DEF Expire, SlotsAddUp, semaphore
  <2>4. EntriesMatch'
    BY <1>6 DEF Expire, EntriesMatch, TypeOK
  <2>5. QED
    BY <1>6, <2>1, <2>2, <2>3, <2>4 DEF Expire, NoLostWakeup, semaphore
<1>7. ASSUME NEW r \in Runs, NEW outcome \in Outcomes, Finish(r, outcome),
             pc[r] \in {"executing", "stopping"}
      PROVE  QueueInv'
  <2> DEFINE ended == [pc EXCEPT ![r] = "ended"]
  <2>0. /\ WakeNext(slots + 1, granted, ended)
        /\ state' = [state EXCEPT ![r] = outcome]
        /\ completed' = completed \cup {r}
        /\ UNCHANGED <<runs, ready>>
    BY <1>7 DEF Finish
  <2>1. /\ Lined(waiters, ended, "waiting") /\ Lined(ready, ended, "ready")
        /\ Lined(granted, ended, "granted")
    BY <1>7, LineKept DEF InLine, TypeOK, Places
  <2>2. /\ IsFiniteSet(Holders(ended))
        /\ Cardinality(Holders(ended)) = Cardinality(Holders(pc)) - 1
    BY <1>7, HolderRemoved DEF TypeOK, SlotsAddUp, Holding, Places
  <2>3. Balanced(slots + 1, granted, ended)
    <3>1. ended \in [Runs -> Places]
      BY DEF TypeOK, Places
    <3>2. slots + 1 \in Nat /\ (slots + 1) + Cardinality(Holders(ended)) = MaxWorkers
      BY <1>0, <2>2, MaxWorkersAssumption DEF SlotsAddUp, TypeOK
    <3>3. QED
      BY <2>1, <2>2, <3>1, <3>2 DEF Balanced, TypeOK
  <2>4. /\ pc' \in [Runs -> Places] /\ slots' \in 0 .. MaxWorkers
        /\ granted' \in Seq(Runs) /\ waiters' \in Seq(Runs)
        /\ InLine' /\ SlotsAddUp' /\ NoLostWakeup'
        /\ \A s \in Runs : pc'[s] = ended[s] \/ (pc'[s] = "granted" /\ ended[s] = "waiting")
    <3>1. slots + 1 > 0
      BY DEF TypeOK
    <3>2. QED
      BY <2>0, <2>3, <3>1, WakeNextKeepsBooks DEF TypeOK
  <2>5. TypeOK'
    BY <1>7, <2>0, <2>4 DEF TypeOK
  <2>6. EntriesMatch'
    BY <1>7, <2>0, <2>4 DEF EntriesMatch, TypeOK, Outcomes
  <2>7. QED
    BY <2>4, <2>5, <2>6
<1>8. ASSUME NEW r \in Runs, FinishInTime(r) PROVE QueueInv'
  BY <1>7, <1>8 DEF FinishInTime, Outcomes
<1>9. ASSUME NEW r \in Runs, FinishLate(r) PROVE QueueInv'
  BY <1>7, <1>9 DEF FinishLate, Outcomes
<1>10. CASE UNCHANGED vars
  BY <1>10 DEF vars, TypeOK, InLine, Lined, SlotsAddUp, Holders, EntriesMatch, NoLostWakeup
<1>11. QED
  BY <1>1, <1>2, <1>3, <1>4, <1>5, <1>6, <1>8, <1>9, <1>10
  DEF Next, Submit, Execute, Start

(* The books of the queue balance in every reachable state: slots, lines   *)
(* and entries agree (queue.py:83-97 and 134-154 together with the         *)
(* semaphore), for any number of runs and workers.                         *)
THEOREM QueueBooksBalance == Spec => []QueueInv
<1>1. QED
  BY InitBooks, NextKeepsBooks, PTL DEF Spec

(* Every variable keeps its type. *)
THEOREM TypeCorrect == Spec => []TypeOK
<1>1. QueueInv => TypeOK
  BY DEF QueueInv
<1>2. QED
  BY <1>1, QueueBooksBalance, PTL

LEMMA CapFollows == QueueInv => WithinCap /\ IsFiniteSet(Executing)
<1> SUFFICES ASSUME QueueInv PROVE WithinCap /\ IsFiniteSet(Executing)
  OBVIOUS
<1>1. Executing \in SUBSET Holders(pc)
  BY DEF Executing, Holders
<1>2. /\ Cardinality(Executing) <= Cardinality(Holders(pc))
      /\ IsFiniteSet(Executing)
  BY <1>1, FS_Subset DEF QueueInv, SlotsAddUp
<1>3. Cardinality(Executing) \in Nat /\ Cardinality(Holders(pc)) \in Nat
  BY <1>2, FS_CardinalityType DEF QueueInv, SlotsAddUp
<1> QED
  BY <1>2, <1>3, MaxWorkersAssumption DEF QueueInv, SlotsAddUp, TypeOK, WithinCap

(* execution.max_concurrent_runs is never exceeded by one queue: at most   *)
(* MaxWorkers coroutines execute at once.                                  *)
THEOREM CapHolds == Spec => []WithinCap
  BY CapFollows, QueueBooksBalance, PTL

(* A free slot is never left beside a parked run.                          *)
THEOREM WakeupsAreNotLost == Spec => []NoLostWakeup
<1>1. QueueInv => NoLostWakeup
  BY DEF QueueInv
<1>2. QED
  BY <1>1, QueueBooksBalance, PTL

(* An outcome is never replaced. *)
LEMMA OutcomesStay ==
    ASSUME QueueInv, [Next]_vars, NEW r \in Runs, state[r] \in Outcomes PROVE state'[r] = state[r]
<1>1. pc[r] = "ended"
  BY DEF QueueInv, EntriesMatch
<1>2. CASE UNCHANGED vars
  BY <1>2 DEF vars
<1>3. CASE Next
  <2>1. PICK s \in Runs : Submit(s) \/ Execute(s)
    BY <1>3 DEF Next
  <2>2. CASE Accept(s)
    BY <1>1, <2>2 DEF Accept, QueueInv, TypeOK
  <2>3. CASE FinishInTime(s) \/ FinishLate(s)
    BY <1>1, <2>3 DEF FinishInTime, FinishLate, Finish, QueueInv, TypeOK
  <2>4. CASE Refuse(s) \/ Start(s) \/ Resume(s) \/ Expire(s)
    BY <2>4 DEF Refuse, Start, StartNow, Park, Resume, Expire
  <2> QED
    BY <2>1, <2>2, <2>3, <2>4 DEF Submit, Execute
<1> QED
  BY <1>2, <1>3

(* What GET /runs/{id} reports once a run has ended never changes, and the *)
(* completed event is set exactly for the runs that have an outcome.       *)
THEOREM OutcomesAreFinal == Spec => OutcomeIsFinal
<1> DEFINE Step == \A r \in Runs : /\ state[r] \in Outcomes => state'[r] = state[r]
                                   /\ r \in completed' <=> state'[r] \in Outcomes
<1>1. QueueInv /\ QueueInv' /\ [Next]_vars => [Step]_vars
  BY OutcomesStay DEF QueueInv, EntriesMatch
<1>2. QED
  BY <1>1, QueueBooksBalance, PTL DEF Spec, OutcomeIsFinal

-----------------------------------------------------------------------------
(* The order of service.                                                   *)

(* The head of a line that goes to the end of the line before it. *)
LEMMA HandedOver ==
    ASSUME NEW S, NEW g \in Seq(S), NEW w \in Seq(S), w # <<>>
    PROVE  Append(g, Head(w)) \o Tail(w) = g \o w
<1>1. /\ Append(g, Head(w)) \in Seq(S) /\ Tail(w) \in Seq(S)
      /\ Len(Tail(w)) = Len(w) - 1 /\ Head(w) = w[1]
      /\ \A i \in 1 .. Len(Tail(w)) : Tail(w)[i] = w[i + 1]
      /\ Len(w) \in Nat \ {0} /\ Len(g) \in Nat
  BY HeadTailProperties, EmptySeq
<1>2. /\ Append(g, Head(w)) \o Tail(w) \in Seq(S) /\ g \o w \in Seq(S)
      /\ Len(Append(g, Head(w)) \o Tail(w)) = Len(g \o w)
      /\ Len(g \o w) = Len(g) + Len(w)
  BY <1>1, ConcatProperties
<1>3. ASSUME NEW i \in 1 .. Len(g) + Len(w)
      PROVE  (Append(g, Head(w)) \o Tail(w))[i] = (g \o w)[i]
  BY <1>1, <1>3
<1> QED
  BY <1>2, <1>3, SeqEqual

LEMMA FirstLeaves ==
    ASSUME NEW S, NEW g \in Seq(S), NEW w \in Seq(S), g # <<>>
    PROVE  /\ g \o w # <<>> /\ Head(g \o w) = Head(g) /\ Tail(g \o w) = Tail(g) \o w
<1>1. /\ Tail(g) \in Seq(S) /\ Len(Tail(g)) = Len(g) - 1 /\ Head(g) = g[1]
      /\ \A i \in 1 .. Len(Tail(g)) : Tail(g)[i] = g[i + 1]
      /\ Len(g) \in Nat \ {0} /\ Len(w) \in Nat
  BY HeadTailProperties, EmptySeq
<1>2. /\ g \o w \in Seq(S) /\ Len(g \o w) = Len(g) + Len(w) /\ g \o w # <<>>
      /\ Head(g \o w) = (g \o w)[1] /\ (g \o w)[1] = g[1]
  BY <1>1, ConcatProperties, EmptySeq
<1>3. /\ Tail(g \o w) \in Seq(S) /\ Len(Tail(g \o w)) = Len(g) + Len(w) - 1
      /\ \A i \in 1 .. Len(g) + Len(w) - 1 : Tail(g \o w)[i] = (g \o w)[i + 1]
  BY <1>2, HeadTailProperties
<1>4. /\ Tail(g) \o w \in Seq(S) /\ Len(Tail(g) \o w) = Len(g) - 1 + Len(w)
  BY <1>1, ConcatProperties
<1>5. ASSUME NEW i \in 1 .. Len(g) + Len(w) - 1
      PROVE  Tail(g \o w)[i] = (Tail(g) \o w)[i]
  BY <1>1, <1>3, <1>5
<1> QED
  BY <1>1, <1>2, <1>3, <1>4, <1>5, SeqEqual

LEMMA LastJoins ==
    ASSUME NEW S, NEW g \in Seq(S), NEW w \in Seq(S), NEW x \in S
    PROVE  g \o Append(w, x) = Append(g \o w, x)
<1>1. /\ g \o Append(w, x) \in Seq(S) /\ Append(g \o w, x) \in Seq(S)
      /\ Len(g \o Append(w, x)) = Len(g) + Len(w) + 1 /\ Len(Append(g \o w, x)) = Len(g) + Len(w) + 1
  BY ConcatProperties
<1>2. ASSUME NEW i \in 1 .. Len(g) + Len(w) + 1
      PROVE  (g \o Append(w, x))[i] = Append(g \o w, x)[i]
  BY <1>2
<1> QED
  BY <1>1, <1>2, SeqEqual

(* The accepted runs that have not begun, in the order in which they will. *)
Backlog == granted \o waiters \o ready

LEMMA BacklogOfRuns ==
    ASSUME TypeOK PROVE Backlog \in Seq(Runs) /\ granted \o waiters \in Seq(Runs)
  BY ConcatProperties DEF TypeOK, Backlog

(* Whoever enters at the end of the scheduled tasks is last. *)
LEMMA BacklogGrows ==
    ASSUME TypeOK, NEW r \in Runs, ready' = Append(ready, r), UNCHANGED <<granted, waiters>>
    PROVE  Backlog' = Append(Backlog, r)
  BY BacklogOfRuns, LastJoins DEF TypeOK, Backlog

(* A wake-up changes nobody's turn. *)
LEMMA WakeNextKeepsTurns ==
    ASSUME TypeOK, NEW free, NEW held \in Seq(Runs), NEW places, WakeNext(free, held, places),
           ready' = ready
    PROVE  Backlog' = held \o waiters \o ready
<1>1. CASE waiters = <<>>
  BY <1>1 DEF WakeNext, Backlog
<1>2. CASE waiters # <<>>
  <2>1. granted' = Append(held, Head(waiters)) /\ waiters' = Tail(waiters)
    BY <1>2 DEF WakeNext
  <2>2. Append(held, Head(waiters)) \o Tail(waiters) = held \o waiters
    BY <1>2, HandedOver DEF TypeOK
  <2> QED
    BY <2>1, <2>2 DEF Backlog
<1> QED
  BY <1>1, <1>2

LEMMA ParkKeepsTurns ==
    ASSUME TypeOK, NEW r \in Runs, Park(r) PROVE Backlog' = Backlog
<1> DEFINE front == granted \o waiters
<1>1. /\ ready # <<>> /\ r = Head(ready) /\ ready' = Tail(ready)
      /\ waiters' = Append(waiters, r) /\ granted' = granted
  BY DEF Park
<1>2. granted \o Append(waiters, r) = Append(front, r)
  BY LastJoins DEF TypeOK
<1>3. Append(front, Head(ready)) \o Tail(ready) = front \o ready
  BY <1>1, BacklogOfRuns, HandedOver DEF TypeOK
<1> QED
  BY <1>1, <1>2, <1>3 DEF Backlog

(* Only the first of the backlog begins. *)
LEMMA FirstBegins ==
    ASSUME TypeOK, NEW r \in Runs, StartNow(r) \/ Resume(r)
    PROVE  Backlog # <<>> /\ r = Head(Backlog) /\ Backlog' = Tail(Backlog)
<1>1. CASE StartNow(r)
  <2>1. granted = <<>> /\ waiters = <<>> /\ granted' = <<>> /\ waiters' = <<>>
    BY <1>1 DEF StartNow, locked
  <2>2. Backlog = ready /\ Backlog' = ready'
    <3>1. \A q \in Seq(Runs) : <<>> \o <<>> \o q = q
      BY EmptySeq, ConcatEmptySeq
    <3>2. ready' \in Seq(Runs)
      BY <1>1, HeadTailProperties DEF StartNow, TypeOK
    <3> QED
      BY <2>1, <3>1, <3>2 DEF Backlog, TypeOK
  <2> QED
    BY <1>1, <2>2 DEF StartNow
<1>2. CASE Resume(r)
  <2>1. granted # <<>> /\ r = Head(granted) /\ ready' = ready /\ Tail(granted) \in Seq(Runs)
    BY <1>2, HeadTailProperties DEF Resume, TypeOK
  <2>2. Backlog' = Tail(granted) \o waiters \o ready
    <3>1. CASE slots > 0
      BY <1>2, <2>1, <3>1, WakeNextKeepsTurns DEF Resume
    <3>2. CASE ~(slots > 0)
      BY <1>2, <3>2 DEF Resume, Backlog
    <3> QED
      BY <3>1, <3>2
  <2>3. /\ granted \o waiters # <<>> /\ Head(granted \o waiters) = Head(granted)
        /\ Tail(granted \o waiters) = Tail(granted) \o waiters
    BY <2>1, FirstLeaves DEF TypeOK
  <2>4. /\ Backlog # <<>> /\ Head(Backlog) = Head(granted \o waiters)
        /\ Tail(Backlog) = Tail(granted \o waiters) \o ready
    BY <2>3, BacklogOfRuns, FirstLeaves DEF Backlog, TypeOK
  <2> QED
    BY <2>1, <2>2, <2>3, <2>4
<1> QED
  BY <1>1, <1>2

(* Everybody in the backlog is queued, and has begun when he leaves it. *)
Queued == {"ready", "granted", "waiting"}
Begun == {"executing", "stopping", "ended"}

(* How the places of the runs other than r can change in a step of r: a    *)
(* parked run may be woken.                                                *)
OnlyWakes(r, p) ==
    \A s \in Runs : pc'[s] = (IF s = r THEN p ELSE pc[s]) \/ (s # r /\ pc[s] = "waiting" /\ pc'[s] = "granted")

LEMMA WakeNextOnlyWakes ==
    ASSUME TypeOK, InLine, NEW free, NEW held, NEW r \in Runs, pc[r] # "waiting", NEW p \in Places,
           WakeNext(free, held, [pc EXCEPT ![r] = p])
    PROVE  OnlyWakes(r, p)
<1>1. CASE waiters = <<>>
  BY <1>1 DEF WakeNext, OnlyWakes, TypeOK
<1>2. CASE waiters # <<>>
  <2>1. Head(waiters) \in Runs /\ pc[Head(waiters)] = "waiting"
    BY <1>2, LineLeft DEF TypeOK, InLine, Places
  <2> QED
    BY <1>2, <2>1 DEF WakeNext, OnlyWakes, TypeOK
<1> QED
  BY <1>1, <1>2

(* What a step of a run's task is for the order of service. *)
Accepts(r) == /\ pc[r] = "absent" /\ OnlyWakes(r, "ready")
              /\ state' = [state EXCEPT ![r] = "running"]
              /\ runs' = Append(runs, r) /\ Backlog' = Append(Backlog, r)
Begins(r) == /\ OnlyWakes(r, "executing")
             /\ state' = state /\ runs' = runs
             /\ Backlog # <<>> /\ r = Head(Backlog) /\ Backlog' = Tail(Backlog)
Passes(r, p) == /\ <<pc[r], p>> \in {<<"absent", "refused">>, <<"ready", "waiting">>,
                                     <<"executing", "stopping">>, <<"executing", "ended">>,
                                     <<"stopping", "ended">>}
                /\ OnlyWakes(r, p)
                /\ p = "refused" => slots = 0
                /\ IF p = "ended" THEN \E o \in Outcomes : state' = [state EXCEPT ![r] = o]
                                  ELSE state' = state
                /\ runs' = runs /\ Backlog' = Backlog

LEMMA Turns ==
    ASSUME QueueInv, NEW r \in Runs, Submit(r) \/ Execute(r)
    PROVE  Accepts(r) \/ Begins(r) \/ \E p \in Places : Passes(r, p)
<1> USE DEF QueueInv
<1>1. CASE Accept(r)
  BY <1>1, BacklogGrows DEF Accept, Accepts, OnlyWakes, TypeOK, semaphore
<1>2. CASE Refuse(r)
  <2>1. Passes(r, "refused")
    BY <1>2 DEF Refuse, Passes, OnlyWakes, TypeOK, semaphore, Backlog, at_capacity
  <2> QED
    BY <2>1 DEF Places
<1>3. CASE StartNow(r)
  BY <1>3, FirstBegins DEF StartNow, Begins, OnlyWakes, TypeOK
<1>4. CASE Park(r)
  <2>1. pc[r] = "ready"
    BY <1>4, LineLeft DEF Park, InLine, TypeOK, Places
  <2>2. Passes(r, "waiting")
    BY <1>4, <2>1, ParkKeepsTurns DEF Park, Passes, OnlyWakes, TypeOK
  <2> QED
    BY <2>2 DEF Places
<1>5. CASE Resume(r)
  <2>1. pc[r] = "granted"
    BY <1>5, LineLeft DEF Resume, InLine, TypeOK, Places
  <2>2. OnlyWakes(r, "executing")
    <3>1. CASE slots > 0
      BY <1>5, <2>1, <3>1, WakeNextOnlyWakes DEF Resume, Places
    <3>2. CASE ~(slots > 0)
      BY <1>5, <3>2 DEF Resume, OnlyWakes, TypeOK
    <3> QED
      BY <3>1, <3>2
  <2> QED
    BY <1>5, <2>2, FirstBegins DEF Resume, Begins
<1>6. CASE Expire(r)
  <2>1. Passes(r, "stopping")
    BY <1>6 DEF Expire, Passes, OnlyWakes, TypeOK, semaphore, Backlog
  <2> QED
    BY <2>1 DEF Places
<1>7. CASE FinishInTime(r) \/ FinishLate(r)
  <2>1. PICK outcome \in Outcomes : Finish(r, outcome) /\ pc[r] \in {"executing", "stopping"}
    BY <1>7 DEF FinishInTime, FinishLate, Outcomes
  <2>2. OnlyWakes(r, "ended")
    BY <2>1, WakeNextOnlyWakes DEF Finish, Places
  <2>3. Backlog' = Backlog
    BY <2>1, WakeNextKeepsTurns DEF Finish, Backlog, TypeOK
  <2>4. Passes(r, "ended")
    BY <2>1, <2>2, <2>3 DEF Finish, Passes
  <2> QED
    BY <2>4 DEF Places
<1> QED
  BY <1>1, <1>2, <1>3, <1>4, <1>5, <1>6, <1>7 DEF Submit, Execute, Start

(* A run becomes known to the queue by being submitted, and only then. *)
LEMMA Entering ==
    ASSUME QueueInv, NEW r \in Runs
    PROVE  /\ Submit(r) => pc[r] = "absent" /\ pc'[r] # "absent"
           /\ Execute(r) => pc[r] # "absent" /\ pc'[r] # "absent"
           /\ Submit(r) \/ Execute(r) =>
                 \A s \in Runs \ {r} : pc'[s] = "absent" <=> pc[s] = "absent"
<1>1. Submit(r) => pc[r] = "absent"
  BY DEF Submit, Accept, Refuse
<1>2. Execute(r) => pc[r] # "absent"
  <2>1. ASSUME Start(r) PROVE pc[r] = "ready"
    <3>1. ready # <<>> /\ r = Head(ready)
      BY <2>1 DEF Start, StartNow, Park
    <3> QED
      BY <3>1, LineLeft DEF QueueInv, InLine, TypeOK, Places
  <2>2. ASSUME Resume(r) PROVE pc[r] = "granted"
    <3>1. granted # <<>> /\ r = Head(granted)
      BY <2>2 DEF Resume
    <3> QED
      BY <3>1, LineLeft DEF QueueInv, InLine, TypeOK, Places
  <2> QED
    BY <2>1, <2>2 DEF Execute, Expire, FinishInTime, FinishLate
<1>3. ASSUME Submit(r) \/ Execute(r)
      PROVE  pc'[r] # "absent" /\ \A s \in Runs \ {r} : pc'[s] = "absent" <=> pc[s] = "absent"
  BY <1>3, Turns DEF Accepts, Begins, Passes, OnlyWakes
<1> QED
  BY <1>1, <1>2, <1>3

(* _runs holds the runs in the order they were accepted: first those that  *)
(* have begun, then the backlog.                                           *)
Ordered ==
    LET n == Len(runs) - Len(Backlog)
    IN  /\ n \in Nat
        /\ \A i \in 1 .. n : pc[runs[i]] \in Begun
        /\ \A i \in 1 .. Len(Backlog) : runs[n + i] = Backlog[i] /\ pc[Backlog[i]] \in Queued
        /\ \A r \in Runs : pc[r] \in Queued => \E i \in 1 .. Len(Backlog) : Backlog[i] = r

LEMMA BacklogQueued ==
    ASSUME TypeOK, InLine, NEW i \in 1 .. Len(Backlog) PROVE pc[Backlog[i]] \in Queued
<1>1. /\ granted \o waiters \in Seq(Runs)
      /\ Len(granted) \in Nat /\ Len(waiters) \in Nat /\ Len(ready) \in Nat
      /\ Len(granted \o waiters) = Len(granted) + Len(waiters)
      /\ Len(Backlog) = Len(granted) + Len(waiters) + Len(ready)
  BY BacklogOfRuns, ConcatProperties DEF TypeOK, Backlog
<1>2. CASE i \in 1 .. Len(granted)
  <2>1. Backlog[i] = granted[i]
    BY <1>1, <1>2 DEF Backlog, TypeOK
  <2> QED
    BY <1>2, <2>1 DEF InLine, Lined, TypeOK, Queued
<1>3. CASE i - Len(granted) \in 1 .. Len(waiters)
  <2>1. Backlog[i] = waiters[i - Len(granted)]
    BY <1>1, <1>3 DEF Backlog, TypeOK
  <2> QED
    BY <1>3, <2>1 DEF InLine, Lined, TypeOK, Queued
<1>4. CASE i - Len(granted) - Len(waiters) \in 1 .. Len(ready)
  <2>1. Backlog[i] = ready[i - (Len(granted) + Len(waiters))]
    BY <1>1, <1>4, ConcatProperties DEF Backlog, TypeOK
  <2> QED
    BY <1>1, <1>4, <2>1 DEF InLine, Lined, TypeOK, Queued
<1> QED
  BY <1>1, <1>2, <1>3, <1>4

LEMMA InitOrdered == Init => Ordered
<1> SUFFICES ASSUME Init PROVE Ordered
  OBVIOUS
<1>1. Backlog = <<>>
  BY ConcatEmptySeq, EmptySeq DEF Init, Backlog
<1> QED
  BY <1>1 DEF Init, Ordered, Queued

LEMMA BacklogFacts ==
    TypeOK /\ InLine => /\ Backlog \in Seq(Runs)
                        /\ \A i \in 1 .. Len(Backlog) : pc[Backlog[i]] \in Queued
  BY BacklogOfRuns, BacklogQueued

LEMMA NextKeepsOrder ==
    ASSUME QueueInv, Ordered, QueueInv', [Next]_vars PROVE Ordered'
<1> USE DEF QueueInv
<1> DEFINE n == Len(runs) - Len(Backlog)
<1>1. /\ Backlog \in Seq(Runs) /\ Backlog' \in Seq(Runs) /\ runs \in Seq(Runs)
      /\ Len(Backlog) \in Nat /\ Len(Backlog') \in Nat /\ Len(runs) \in Nat
      /\ \A i \in 1 .. Len(Backlog') : pc'[Backlog'[i]] \in Queued
  <2>1. (TypeOK /\ InLine => /\ Backlog \in Seq(Runs)
                             /\ \A i \in 1 .. Len(Backlog) : pc[Backlog[i]] \in Queued)'
    BY BacklogFacts, PTL
  <2>2. Backlog \in Seq(Runs) /\ Backlog' \in Seq(Runs) /\ runs \in Seq(Runs)
    BY <2>1, BacklogOfRuns DEF TypeOK
  <2> QED
    BY <2>1, <2>2, LenProperties
<1>2. /\ n \in Nat /\ n + Len(Backlog) = Len(runs)
      /\ \A i \in 1 .. n : pc[runs[i]] \in Begun
      /\ \A i \in 1 .. Len(Backlog) : runs[n + i] = Backlog[i]
      /\ \A s \in Runs : pc[s] \in Queued => \E i \in 1 .. Len(Backlog) : Backlog[i] = s
  BY <1>1 DEF Ordered
<1> HIDE DEF n
<1>3. ASSUME NEW r \in Runs, Accepts(r) PROVE Ordered'
  <2>1. /\ Len(Backlog') = Len(Backlog) + 1 /\ Len(runs') = Len(runs) + 1
        /\ Backlog'[Len(Backlog) + 1] = r /\ runs'[Len(runs) + 1] = r
        /\ \A i \in 1 .. Len(Backlog) : Backlog'[i] = Backlog[i]
        /\ \A i \in 1 .. Len(runs) : runs'[i] = runs[i]
    BY <1>1, <1>3 DEF Accepts
  <2>2. \A i \in 1 .. n : pc'[runs'[i]] \in Begun
    <3>1. TAKE i \in 1 .. n
    <3>2. runs'[i] = runs[i] /\ runs[i] \in Runs /\ pc[runs[i]] \in Begun
      BY <1>1, <1>2, <2>1
    <3> QED
      BY <1>3, <3>2 DEF Accepts, OnlyWakes, Begun
  <2>3. \A i \in 1 .. Len(Backlog') : runs'[n + i] = Backlog'[i]
    <3>1. TAKE i \in 1 .. Len(Backlog')
    <3>2. CASE i = Len(Backlog) + 1
      <4>1. n + i = Len(runs) + 1
        BY <1>1, <1>2, <3>2
      <4> QED
        BY <2>1, <3>2, <4>1
    <3>3. CASE i \in 1 .. Len(Backlog)
      <4>1. n + i \in 1 .. Len(runs)
        BY <1>1, <1>2, <3>3
      <4> QED
        BY <1>2, <2>1, <3>3, <4>1
    <3> QED
      BY <1>1, <2>1, <3>2, <3>3
  <2>4. \A s \in Runs : pc'[s] \in Queued => \E i \in 1 .. Len(Backlog') : Backlog'[i] = s
    <3>1. SUFFICES ASSUME NEW s \in Runs, pc'[s] \in Queued
                   PROVE  \E i \in 1 .. Len(Backlog') : Backlog'[i] = s
      OBVIOUS
    <3>2. s = r \/ pc[s] \in Queued
      BY <1>3, <3>1 DEF Accepts, OnlyWakes, Queued
    <3> QED
      BY <1>1, <1>2, <2>1, <3>2
  <2>5. Len(runs') - Len(Backlog') = n
    BY <1>1, <1>2, <2>1
  <2> QED
    BY <1>1, <1>2, <2>1, <2>2, <2>3, <2>4, <2>5 DEF Ordered
<1>4. ASSUME NEW r \in Runs, Begins(r) PROVE Ordered'
  <2>1. /\ Len(Backlog) \in Nat \ {0} /\ Backlog[1] = r /\ Len(Backlog') = Len(Backlog) - 1
        /\ \A i \in 1 .. Len(Backlog') : Backlog'[i] = Backlog[i + 1]
        /\ runs' = runs /\ Len(runs) \in Nat
    BY <1>1, <1>4, HeadTailProperties, EmptySeq DEF Begins
  <2>2. \A i \in 1 .. n + 1 : pc'[runs[i]] \in Begun
    <3>1. TAKE i \in 1 .. n + 1
    <3>2. CASE i = n + 1
      <4>1. runs[i] = r
        BY <1>2, <2>1, <3>2
      <4> QED
        BY <1>4, <4>1 DEF Begins, OnlyWakes, Begun
    <3>3. CASE i \in 1 .. n
      <4>1. runs[i] \in Runs /\ pc[runs[i]] \in Begun
        BY <1>1, <1>2, <3>3
      <4> QED
        BY <1>4, <4>1 DEF Begins, OnlyWakes, Begun
    <3> QED
      BY <1>2, <3>2, <3>3
  <2>3. \A i \in 1 .. Len(Backlog') : runs[n + 1 + i] = Backlog'[i]
    <3>1. TAKE i \in 1 .. Len(Backlog')
    <3>2. i + 1 \in 1 .. Len(Backlog) /\ n + 1 + i = n + (i + 1)
      BY <1>2, <2>1
    <3> QED
      BY <1>2, <2>1, <3>2
  <2>4. \A s \in Runs : pc'[s] \in Queued => \E i \in 1 .. Len(Backlog') : Backlog'[i] = s
    <3>1. SUFFICES ASSUME NEW s \in Runs, pc'[s] \in Queued
                   PROVE  \E i \in 1 .. Len(Backlog') : Backlog'[i] = s
      OBVIOUS
    <3>2. s # r /\ pc[s] \in Queued
      BY <1>4, <3>1 DEF Begins, OnlyWakes, Queued
    <3>3. PICK i \in 1 .. Len(Backlog) : Backlog[i] = s
      BY <1>2, <3>2
    <3>4. i - 1 \in 1 .. Len(Backlog') /\ Backlog'[i - 1] = s
      BY <2>1, <3>2, <3>3
    <3> QED
      BY <3>4
  <2>5. Len(runs') - Len(Backlog') = n + 1
    BY <1>1, <1>2, <2>1
  <2> QED
    BY <1>1, <1>2, <2>1, <2>2, <2>3, <2>4, <2>5 DEF Ordered
<1>5. ASSUME NEW r \in Runs, NEW p \in Places, Passes(r, p) PROVE Ordered'
  <2>1. runs' = runs /\ Backlog' = Backlog
    BY <1>5 DEF Passes
  <2>2. \A i \in 1 .. n : pc'[runs[i]] \in Begun
    <3>1. TAKE i \in 1 .. n
    <3>2. runs[i] \in Runs /\ pc[runs[i]] \in Begun
      BY <1>1, <1>2
    <3> QED
      BY <1>5, <3>2 DEF Passes, OnlyWakes, Begun
  <2>3. \A s \in Runs : pc'[s] \in Queued => pc[s] \in Queued
    BY <1>5 DEF Passes, OnlyWakes, Queued
  <2>4. Len(runs') - Len(Backlog') = n
    BY <1>1, <1>2, <2>1
  <2> QED
    BY <1>1, <1>2, <2>1, <2>2, <2>3, <2>4 DEF Ordered
<1>6. CASE UNCHANGED vars
  BY <1>6 DEF vars, Ordered, Backlog
<1> QED
  BY <1>3, <1>4, <1>5, <1>6, Turns DEF Next

THEOREM OrderHolds == Spec => [](QueueInv /\ Ordered)
  BY InitBooks, NextKeepsBooks, InitOrdered, NextKeepsOrder, PTL DEF Spec

(* Runs begin in the order submit accepted them: the semaphore's hand-over *)
(* and the event loop's queue of scheduled tasks together are first come,  *)
(* first served, for any number of runs and workers.                       *)
THEOREM ServedInOrder == Spec => []NoOvertaking
<1>1. ASSUME QueueInv, Ordered PROVE NoOvertaking
  <2> DEFINE n == Len(runs) - Len(Backlog)
  <2>1. SUFFICES ASSUME NEW i \in DOMAIN runs, NEW j \in DOMAIN runs, i < j, pc[runs[j]] \in Begun
                 PROVE  pc[runs[i]] \in Begun
    BY DEF NoOvertaking, Begun
  <2>2. /\ DOMAIN runs = 1 .. Len(runs) /\ Len(runs) \in Nat /\ Len(Backlog) \in Nat
    BY <1>1, BacklogOfRuns DEF QueueInv, TypeOK
  <2>3. j \notin n + 1 .. Len(runs)
    <3>1. SUFFICES ASSUME j \in n + 1 .. Len(runs) PROVE FALSE
      OBVIOUS
    <3>2. j - n \in 1 .. Len(Backlog) /\ n + (j - n) = j
      BY <2>2, <3>1
    <3>3. pc[runs[j]] \in Queued
      BY <1>1, <2>2, <3>2 DEF Ordered
    <3> QED
      BY <2>1, <3>3 DEF Queued, Begun
  <2>4. i \in 1 .. n
    BY <2>1, <2>2, <2>3
  <2> QED
    BY <1>1, <2>4 DEF Ordered
<1> QED
  BY <1>1, OrderHolds, PTL

-----------------------------------------------------------------------------
(* The refinement of WorkerPool, step by step.                             *)

LEMMA PoolCounts == ASSUME NEW S PROVE Pool!Cardinality(S) = Cardinality(S)
  BY DEF Pool!Cardinality, Cardinality

LEMMA StatusOf ==
    ASSUME NEW r \in Runs
    PROVE  /\ pc[r] = "absent" => PoolStatus[r] = "unknown"
           /\ pc[r] = "refused" => PoolStatus[r] = "refused"
           /\ pc[r] \in Queued => PoolStatus[r] = "queued"
           /\ pc[r] \in {"executing", "stopping"} => PoolStatus[r] = "active"
           /\ pc[r] = "ended" => PoolStatus[r] = state[r]
  BY DEF PoolStatus, Queued

(* A step of one run's task is a step of its status alone. *)
LEMMA StatusMoves ==
    ASSUME TypeOK, TypeOK', NEW r \in Runs, NEW p \in Places, OnlyWakes(r, p),
           \A s \in Runs \ {r} : state'[s] = state[s]
    PROVE  /\ p = "absent" => PoolStatus' = [PoolStatus EXCEPT ![r] = "unknown"]
           /\ p = "refused" => PoolStatus' = [PoolStatus EXCEPT ![r] = "refused"]
           /\ p \in Queued => PoolStatus' = [PoolStatus EXCEPT ![r] = "queued"]
           /\ p \in {"executing", "stopping"} => PoolStatus' = [PoolStatus EXCEPT ![r] = "active"]
           /\ p = "ended" => PoolStatus' = [PoolStatus EXCEPT ![r] = state'[r]]
<1>1. PoolStatus' = [PoolStatus EXCEPT ![r] = PoolStatus'[r]]
  <2>1. ASSUME NEW s \in Runs, s # r PROVE PoolStatus'[s] = PoolStatus[s]
    <3>1. pc'[s] = pc[s] \/ (pc[s] = "waiting" /\ pc'[s] = "granted")
      BY <2>1 DEF OnlyWakes
    <3>2. CASE pc'[s] = pc[s]
      BY <2>1, <3>2 DEF PoolStatus, TypeOK, Places
    <3>3. CASE pc[s] = "waiting" /\ pc'[s] = "granted"
      BY <2>1, <3>3 DEF PoolStatus
    <3> QED
      BY <3>1, <3>2, <3>3
  <2> DEFINE S == {"unknown", "refused", "queued", "active", "none", "running"} \cup Outcomes
  <2>2. PoolStatus \in [Runs -> S]
    BY DEF PoolStatus, TypeOK, Places
  <2>3. PoolStatus' \in [Runs -> S]
    BY DEF PoolStatus, TypeOK, Places
  <2> HIDE DEF S
  <2> QED
    BY <2>1, <2>2, <2>3
<1>2. pc'[r] = p
  BY DEF OnlyWakes
<1>3. /\ p = "absent" => PoolStatus'[r] = "unknown"
      /\ p = "refused" => PoolStatus'[r] = "refused"
      /\ p \in Queued => PoolStatus'[r] = "queued"
      /\ p \in {"executing", "stopping"} => PoolStatus'[r] = "active"
      /\ p = "ended" => PoolStatus'[r] = state'[r]
  BY <1>2 DEF PoolStatus, Queued
<1> QED
  BY <1>1, <1>3

LEMMA ActiveRuns == TypeOK => Pool!Active = Executing
<1> SUFFICES ASSUME TypeOK PROVE Pool!Active = Executing
  OBVIOUS
<1>1. ASSUME NEW r \in Runs PROVE PoolStatus[r] = "active" <=> pc[r] \in {"executing", "stopping"}
  <2>1. pc[r] \in Places /\ state[r] # "active"
    BY DEF TypeOK, Outcomes
  <2> QED
    BY <2>1, StatusOf DEF Places, Queued
<1> QED
  BY <1>1 DEF Pool!Active, Executing

(* Accepted runs that have not begun are at least as many as granted slots.*)
LEMMA GrantedQueue ==
    ASSUME QueueInv, Ordered, slots = 0
    PROVE  Cardinality(Executing) + Len(Backlog) >= MaxWorkers
<1> DEFINE n == Len(Backlog)
           Line == {Backlog[i] : i \in 1 .. n}
           Woken == {r \in Runs : pc[r] = "granted"}
<1>1. n \in Nat /\ DOMAIN Backlog = 1 .. n
  BY BacklogOfRuns DEF QueueInv
<1>2. IsFiniteSet(Line) /\ Cardinality(Line) <= n
  <2>1. \A m \in Nat : IsFiniteSet(1 .. m) /\ Cardinality(1 .. m) = m
    BY FS_Interval
  <2>2. [i \in 1 .. n |-> Backlog[i]] \in Surjection(1 .. n, Line)
    BY DEF Surjection
  <2> HIDE DEF n, Line
  <2> QED
    BY <1>1, <2>1, <2>2, FS_Surjection
<1>3. Woken \in SUBSET Line
  BY DEF Ordered, Queued
<1>4. /\ IsFiniteSet(Woken) /\ Cardinality(Woken) <= Cardinality(Line)
  BY <1>2, <1>3, FS_Subset
<1>5. Holders(pc) = Executing \cup Woken /\ Executing \cap Woken = {}
  BY DEF Holders, Executing
<1>6. IsFiniteSet(Executing)
  BY CapFollows
<1>7. Cardinality(Holders(pc)) = Cardinality(Executing) + Cardinality(Woken)
  <2> HIDE DEF Woken
  <2>1. /\ Cardinality(Executing \cup Woken)
             = Cardinality(Executing) + Cardinality(Woken) - Cardinality(Executing \cap Woken)
        /\ Cardinality(Executing \cap Woken) = 0
    BY <1>4, <1>5, <1>6, FS_Union, FS_EmptySet
  <2>2. Cardinality(Executing) \in Nat /\ Cardinality(Woken) \in Nat
    BY <1>4, <1>6, FS_CardinalityType
  <2> QED
    BY <1>5, <2>1, <2>2
<1>8. Cardinality(Holders(pc)) = MaxWorkers
  <2>1. IsFiniteSet(Holders(pc)) /\ 0 + Cardinality(Holders(pc)) = MaxWorkers
    BY DEF QueueInv, SlotsAddUp
  <2> QED
    BY <2>1, FS_CardinalityType
<1>9. Cardinality(Executing) \in Nat /\ Cardinality(Woken) \in Nat /\ Cardinality(Line) \in Nat
  BY <1>2, <1>4, <1>6, FS_CardinalityType
<1> HIDE DEF n, Line, Woken
<1>10. Cardinality(Executing) + n >= MaxWorkers
  BY <1>1, <1>2, <1>4, <1>7, <1>8, <1>9, MaxWorkersAssumption
<1> QED
  BY <1>10 DEF n

(* When a run begins, the runs that execute were fewer than the workers. *)
LEMMA RoomToBegin ==
    ASSUME QueueInv, QueueInv', NEW r \in Runs, Begins(r), pc[r] \in Queued
    PROVE  Cardinality(Executing) < MaxWorkers
<1>1. Executing' = Executing \cup {r} /\ r \notin Executing
  BY DEF Begins, OnlyWakes, Executing, Queued
<1>2. (QueueInv => WithinCap /\ IsFiniteSet(Executing))'
  BY CapFollows, PTL
<1>3. IsFiniteSet(Executing)
  BY CapFollows
<1>4. Cardinality(Executing') = Cardinality(Executing) + 1
  BY <1>1, <1>3, FS_AddElement
<1>5. Cardinality(Executing) \in Nat /\ Cardinality(Executing') <= MaxWorkers
  BY <1>2, <1>3, FS_CardinalityType DEF WithinCap
<1> QED
  BY <1>4, <1>5, MaxWorkersAssumption

LEMMA PoolStep == QueueInv /\ Ordered /\ QueueInv' /\ [Next]_vars => [Pool!Next]_Pool!vars
<1> SUFFICES ASSUME QueueInv, Ordered, QueueInv', [Next]_vars PROVE [Pool!Next]_Pool!vars
  OBVIOUS
<1>1. TypeOK /\ TypeOK' /\ Backlog \in Seq(Runs)
  BY BacklogOfRuns DEF QueueInv
<1>2. Pool!Active = Executing /\ Pool!Cardinality(Executing) = Cardinality(Executing)
  BY <1>1, ActiveRuns, PoolCounts
<1>3. ASSUME NEW r \in Runs, Accepts(r) PROVE Pool!Accept(r)
  <2>1. PoolStatus[r] = "unknown"
    BY <1>3, StatusOf DEF Accepts
  <2>2. \A s \in Runs \ {r} : state'[s] = state[s]
    BY <1>1, <1>3 DEF Accepts, TypeOK
  <2>3. PoolStatus' = [PoolStatus EXCEPT ![r] = "queued"]
    BY <1>1, <1>3, <2>2, StatusMoves DEF Accepts, Places, Queued
  <2> QED
    BY <1>3, <2>1, <2>3 DEF Pool!Accept, Accepts, Backlog
<1>4. ASSUME NEW r \in Runs, Begins(r) PROVE Pool!Begin
  <2>1. pc[r] \in Queued
    <3>1. Len(Backlog) \in Nat \ {0} /\ r = Backlog[1]
      BY <1>1, <1>4, EmptySeq DEF Begins
    <3> QED
      BY <3>1 DEF Ordered
  <2>2. Cardinality(Executing) < MaxWorkers
    BY <1>4, <2>1, RoomToBegin
  <2>3. PoolStatus' = [PoolStatus EXCEPT ![r] = "active"]
    BY <1>1, <1>4, StatusMoves DEF Begins, Places
  <2> QED
    BY <1>2, <1>4, <2>2, <2>3 DEF Pool!Begin, Begins, Backlog
<1>5. ASSUME NEW r \in Runs, NEW p \in Places, Passes(r, p) PROVE [Pool!Next]_Pool!vars
  <2>1. Backlog' = Backlog
    BY <1>5 DEF Passes
  <2>2. \A s \in Runs \ {r} : state'[s] = state[s]
    BY <1>1, <1>5 DEF Passes, TypeOK
  <2>3. OnlyWakes(r, p)
    BY <1>5 DEF Passes
  <2>4. CASE pc[r] = "absent" /\ p = "refused"
    <3>1. PoolStatus[r] = "unknown" /\ PoolStatus' = [PoolStatus EXCEPT ![r] = "refused"]
      BY <1>1, <2>2, <2>3, <2>4, StatusOf, StatusMoves
    <3>2. Cardinality(Executing) + Len(Backlog) >= MaxWorkers
      BY <1>5, <2>4, GrantedQueue DEF Passes
    <3>3. Pool!Refuse(r)
      BY <1>2, <2>1, <3>1, <3>2 DEF Pool!Refuse, Backlog
    <3> QED
      BY <3>3 DEF Pool!Next
  <2>5. CASE (pc[r] = "ready" /\ p = "waiting") \/ (pc[r] = "executing" /\ p = "stopping")
    <3>1. PoolStatus' = [PoolStatus EXCEPT ![r] = PoolStatus[r]]
      BY <1>1, <2>2, <2>3, <2>5, StatusOf, StatusMoves DEF Queued
    <3>2. PoolStatus' = PoolStatus
      BY <3>1 DEF PoolStatus
    <3> QED
      BY <2>1, <3>2 DEF Pool!vars, Backlog
  <2>6. CASE pc[r] \in {"executing", "stopping"} /\ p = "ended"
    <3>1. PICK o \in Outcomes : state' = [state EXCEPT ![r] = o]
      BY <1>5, <2>6 DEF Passes
    <3>2. state'[r] = o
      BY <1>1, <3>1 DEF TypeOK
    <3>3. PoolStatus[r] = "active" /\ PoolStatus' = [PoolStatus EXCEPT ![r] = o]
      BY <1>1, <2>2, <2>3, <2>6, <3>2, StatusOf, StatusMoves
    <3>4. Pool!End(r)
      BY <2>1, <3>3 DEF Pool!End, Backlog
    <3> QED
      BY <3>4 DEF Pool!Next
  <2>7. \/ pc[r] = "absent" /\ p = "refused"
        \/ (pc[r] = "ready" /\ p = "waiting") \/ (pc[r] = "executing" /\ p = "stopping")
        \/ pc[r] \in {"executing", "stopping"} /\ p = "ended"
    BY <1>5 DEF Passes
  <2> QED
    BY <2>4, <2>5, <2>6, <2>7
<1>6. CASE UNCHANGED vars
  BY <1>6 DEF vars, Pool!vars, PoolStatus
<1>7. QED
  BY <1>3, <1>4, <1>5, <1>6, Turns DEF Next, Pool!Next

(* What callers are promised, and nothing of how: for any runs and any     *)
(* number of workers the queue starts as the worker pool and each of its   *)
(* steps is a step of the pool or none - runs begin in turn while a worker *)
(* is free, a refusal finds enough accepted runs for every worker, and a   *)
(* run ends with one outcome.  (PoolSpec without its fairness.)            *)
THEOREM ImplementsPool == Spec => Pool!Init /\ [][Pool!Next]_Pool!vars
<1>1. Init => Pool!Init
  <2>1. <<>> \o <<>> \o <<>> = <<>>
    BY ConcatEmptySeq, EmptySeq
  <2> QED
    BY <2>1 DEF Init, Pool!Init, PoolStatus
<1> QED
  BY <1>1, PoolStep, OrderHolds, PTL DEF Spec
=============================================================================
