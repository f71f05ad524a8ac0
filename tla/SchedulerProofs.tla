--------------------------- MODULE SchedulerProofs ---------------------------
(***************************************************************************)
(* Theorems about Scheduler, for any jobs, schedules and tickers.          *)
(***************************************************************************)
EXTENDS Scheduler, FiniteSetTheorems, WellFoundedInduction, TLAPS

(* A set of natural numbers that is not empty has its minimum in it: of    *)
(* the intervals up to its members one contains no other.                  *)
LEMMA MinIsMember == ASSUME NEW S \in SUBSET Nat, S # {} PROVE Min(S) \in S
<1> DEFINE Upto == {0 .. x : x \in S}
<1>1. Upto \subseteq FiniteSubsetsOf(Nat) /\ Upto # {}
  <2>1. \A x \in S : 0 .. x \subseteq Nat /\ IsFiniteSet(0 .. x)
    BY FS_Interval
  <2> QED
    BY <2>1 DEF FiniteSubsetsOf
<1>2. PICK least \in Upto : \A u \in Upto : <<u, least>> \notin StrictSubsetOrdering(Nat)
  <2> HIDE DEF Upto
  <2> QED
    BY <1>1, WFMin, FS_StrictSubsetOrderingWellFounded, Zenon
<1>3. PICK x \in S : least = 0 .. x
  BY <1>2
<1>4. \A y \in S : x <= y
  <2> SUFFICES ASSUME NEW y \in S, y < x PROVE FALSE
    OBVIOUS
  <2>1. 0 .. y \subseteq 0 .. x /\ x \in 0 .. x /\ x \notin 0 .. y
    OBVIOUS
  <2>2. <<0 .. y, least>> \in StrictSubsetOrdering(Nat)
    BY <2>1, <1>3 DEF StrictSubsetOrdering
  <2> QED
    BY <2>2, <1>2
<1> QED
  BY <1>4 DEF Min

-----------------------------------------------------------------------------
(* The loop of tick goes on to a job that is registered, and marks it as   *)
(* running, or it is over.                                                 *)
LEMMA ContinueEffect ==
    ASSUME NEW k \in Tickers, NEW at, NEW size, NEW pos, NEW left, NEW flags,
           entries \in Seq(registered \cup {Nobody}),
           Continue(k, at, size, pos, left, flags)
    PROVE  \E t : /\ t.job \in registered \cup {Nobody}
                  /\ tick' = [tick EXCEPT ![k] = t]
                  /\ running' = IF t.job = Nobody THEN flags ELSE [flags EXCEPT ![t.job] = TRUE]
<1> DEFINE ahead == Ahead(at, pos, left)
           i == Min(ahead)
           awaited == AwaitJob(at, size, pos, left, i)
<1>1. CASE Size # size \/ ahead = {}
  <2>1. Idle.job = Nobody
    BY DEF Idle
  <2>2. tick' = [tick EXCEPT ![k] = Idle] /\ running' = flags
    BY <1>1 DEF Continue
  <2> QED
    BY <2>1, <2>2
<1>2. CASE ~(Size # size \/ ahead = {})
  <2>1. ahead \in SUBSET Nat /\ ahead # {}
    BY <1>2 DEF Ahead
  <2>2. i \in ahead
    BY <2>1, MinIsMember
  <2>3. entries[i] \in registered \cup {Nobody} /\ entries[i] # Nobody
    BY <2>2 DEF Ahead
  <2>4. awaited.job = entries[i]
    BY DEF AwaitJob
  <2>5. tick' = [tick EXCEPT ![k] = awaited] /\ running' = [flags EXCEPT ![entries[i]] = TRUE]
    BY <1>2 DEF Continue
  <2> HIDE DEF awaited, i
  <2> QED
    BY <2>3, <2>4, <2>5
<1> QED
  BY <1>1, <1>2

-----------------------------------------------------------------------------
Typed == /\ registered \subseteq Jobs
         /\ entries \in Seq(registered \cup {Nobody})
         /\ enabled \in [Jobs -> BOOLEAN] /\ running \in [Jobs -> BOOLEAN]
         /\ failures \in [Jobs -> Nat]
         /\ DOMAIN tick = Tickers
         /\ \A k \in Tickers : tick[k].job \in registered \cup {Nobody}

(* An object that has yet to be registered has not failed. *)
NewJobsUnfailed == \A j \in Jobs \ registered : failures[j] = 0

(* The inductive invariant. *)
SchedulerInv == Typed /\ NewJobsUnfailed /\ GuardrailHolds /\ RunningIsNotStuck

LEMMA InitScheduler == Init => SchedulerInv
<1> SUFFICES ASSUME Init PROVE SchedulerInv
  OBVIOUS
<1>1. Idle.job = Nobody
  BY DEF Idle
<1>2. Typed
  BY <1>1 DEF Init, Typed
<1>3. NewJobsUnfailed /\ GuardrailHolds /\ RunningIsNotStuck
  BY SchedulerAssumption DEF Init, NewJobsUnfailed, GuardrailHolds, RunningIsNotStuck
<1> QED
  BY <1>2, <1>3 DEF SchedulerInv

(* A ticker that has reset the flag of the job it was at, and goes on to   *)
(* another one, leaves no flag of a job that nobody executes.              *)
LEMMA FlagsFollowTickers ==
    ASSUME NEW k \in Tickers, Typed, RunningIsNotStuck,
           NEW flags \in [Jobs -> BOOLEAN],
           \A j \in Jobs : flags[j] => running[j] /\ j # tick[k].job,
           NEW t, t.job \in registered \cup {Nobody},
           tick' = [tick EXCEPT ![k] = t],
           running' = IF t.job = Nobody THEN flags ELSE [flags EXCEPT ![t.job] = TRUE]
    PROVE  /\ RunningIsNotStuck'
           /\ running' \in [Jobs -> BOOLEAN]
           /\ DOMAIN tick' = Tickers
           /\ \A h \in Tickers : tick'[h].job \in registered \cup {Nobody}
<1>1. /\ DOMAIN tick' = Tickers /\ tick'[k] = t
      /\ \A h \in Tickers \ {k} : tick'[h] = tick[h]
  BY DEF Typed
<1>2. running' \in [Jobs -> BOOLEAN] /\ \A j \in Jobs : running'[j] => flags[j] \/ j = t.job
  <2>1. CASE t.job = Nobody
    BY <2>1
  <2>2. CASE t.job # Nobody
    BY <2>2
  <2> QED
    BY <2>1, <2>2
<1>3. ASSUME NEW j \in Jobs, running'[j] PROVE \E h \in Tickers : tick'[h].job = j
  <2>1. CASE j = t.job
    BY <2>1, <1>1
  <2>2. CASE flags[j]
    <3>1. PICK h \in Tickers : tick[h].job = j
      BY <2>2 DEF RunningIsNotStuck, Executes
    <3>2. h # k
      BY <2>2, <3>1
    <3> QED
      BY <3>1, <3>2, <1>1
  <2> QED
    BY <1>2, <1>3, <2>1, <2>2
<1>4. RunningIsNotStuck'
  BY <1>3 DEF RunningIsNotStuck, Executes
<1>5. ASSUME NEW h \in Tickers PROVE tick'[h].job \in registered \cup {Nobody}
  BY <1>1 DEF Typed
<1> QED
  BY <1>1, <1>2, <1>4, <1>5

LEMMA BeginTickKeepsInv ==
    ASSUME SchedulerInv, NEW k \in Tickers, BeginTick(k) PROVE SchedulerInv'
<1>1. Continue(k, now, Size, 0, Size, running) /\ tick[k] = Idle
      /\ UNCHANGED <<entries, registered, enabled, failures, overruled>>
  BY DEF BeginTick, settings, results
<1>2. PICK t : /\ t.job \in registered \cup {Nobody}
               /\ tick' = [tick EXCEPT ![k] = t]
               /\ running' = IF t.job = Nobody THEN running ELSE [running EXCEPT ![t.job] = TRUE]
  <2>1. entries \in Seq(registered \cup {Nobody})
    BY DEF SchedulerInv, Typed
  <2> QED
    BY <1>1, <2>1, ContinueEffect
<1>3. \A j \in Jobs : j # tick[k].job
  BY <1>1, SchedulerAssumption DEF Idle
<1>4. running \in [Jobs -> BOOLEAN]
  BY DEF SchedulerInv, Typed
<1>5. /\ RunningIsNotStuck' /\ running' \in [Jobs -> BOOLEAN] /\ DOMAIN tick' = Tickers
      /\ \A h \in Tickers : tick'[h].job \in registered \cup {Nobody}
  BY <1>2, <1>3, <1>4, FlagsFollowTickers DEF SchedulerInv
<1>6. Typed'
  BY <1>1, <1>5 DEF SchedulerInv, Typed
<1>7. NewJobsUnfailed' /\ GuardrailHolds'
  BY <1>1 DEF SchedulerInv, NewJobsUnfailed, GuardrailHolds
<1> QED
  BY <1>5, <1>6, <1>7 DEF SchedulerInv

(* What JobSucceeds and JobFails have in common. *)
LEMMA GoOnKeepsTickers ==
    ASSUME SchedulerInv, NEW k \in Tickers, tick[k].job # Nobody,
           GoOn(k, [running EXCEPT ![tick[k].job] = FALSE])
    PROVE  /\ RunningIsNotStuck' /\ running' \in [Jobs -> BOOLEAN] /\ DOMAIN tick' = Tickers
           /\ \A h \in Tickers : tick'[h].job \in registered \cup {Nobody}
<1> DEFINE flags == [running EXCEPT ![tick[k].job] = FALSE]
<1>1. entries \in Seq(registered \cup {Nobody})
  BY DEF SchedulerInv, Typed
<1>2. Continue(k, tick[k].at, tick[k].size, tick[k].pos, tick[k].left, flags)
  BY DEF GoOn
<1>3. flags \in [Jobs -> BOOLEAN] /\ \A j \in Jobs : flags[j] => running[j] /\ j # tick[k].job
  BY DEF SchedulerInv, Typed
<1> HIDE DEF flags
<1>4. PICK t : /\ t.job \in registered \cup {Nobody}
               /\ tick' = [tick EXCEPT ![k] = t]
               /\ running' = IF t.job = Nobody THEN flags ELSE [flags EXCEPT ![t.job] = TRUE]
  BY <1>1, <1>2, ContinueEffect
<1> QED
  BY <1>3, <1>4, FlagsFollowTickers DEF SchedulerInv

LEMMA EndJobKeepsInv ==
    ASSUME SchedulerInv, NEW k \in Tickers, EndJob(k) PROVE SchedulerInv'
<1> DEFINE j == tick[k].job
<1>1. j \in registered /\ j \in Jobs /\ j # Nobody
  BY DEF EndJob, JobSucceeds, JobFails, SchedulerInv, Typed
<1>2. UNCHANGED <<entries, registered>> /\ GoOn(k, [running EXCEPT ![j] = FALSE])
  BY DEF EndJob, JobSucceeds, JobFails, settings
<1>3. /\ RunningIsNotStuck' /\ running' \in [Jobs -> BOOLEAN] /\ DOMAIN tick' = Tickers
      /\ \A h \in Tickers : tick'[h].job \in registered \cup {Nobody}
  BY <1>1, <1>2, GoOnKeepsTickers
<1>4. /\ enabled' \in [Jobs -> BOOLEAN] /\ failures' \in [Jobs -> Nat]
      /\ \A h \in Jobs \ {j} : failures'[h] = failures[h]
      /\ GuardrailHolds'
  <2>1. enabled \in [Jobs -> BOOLEAN] /\ failures \in [Jobs -> Nat] /\ GuardrailHolds
    BY DEF SchedulerInv, Typed
  <2>2. CASE JobSucceeds(k)
    <3>1. /\ failures' = [failures EXCEPT ![j] = 0] /\ enabled' = enabled
          /\ overruled' = overruled \ {j}
      BY <2>2 DEF JobSucceeds
    <3> HIDE DEF j
    <3> QED
      BY <1>1, <2>1, <3>1, SchedulerAssumption DEF GuardrailHolds
  <2>3. CASE JobFails(k)
    <3> DEFINE count == Min({failures[j] + 1, MaxFailures})
    <3>1. failures' = [failures EXCEPT ![j] = count] /\ overruled' = overruled
          /\ enabled' = IF failures[j] + 1 >= MaxFailures THEN [enabled EXCEPT ![j] = FALSE]
                        ELSE enabled
      BY <2>3 DEF JobFails
    <3>2. failures[j] + 1 \in Nat /\ MaxFailures \in Nat
      BY <1>1, <2>1, SchedulerAssumption
    <3>3. count \in {failures[j] + 1, MaxFailures}
      BY <3>2, MinIsMember
    <3> HIDE DEF j, count
    <3>4. failures' \in [Jobs -> Nat] /\ enabled' \in [Jobs -> BOOLEAN]
          /\ \A h \in Jobs \ {j} : failures'[h] = failures[h]
      BY <1>1, <2>1, <3>1, <3>2, <3>3
    <3>5. ASSUME NEW h \in Jobs, failures'[h] >= MaxFailures, enabled'[h] PROVE h \in overruled'
      <4>1. CASE h # j
        BY <4>1, <3>1, <3>5, <2>1 DEF GuardrailHolds
      <4>2. CASE h = j /\ failures[j] + 1 >= MaxFailures
        BY <4>2, <3>1, <3>5, <2>1
      <4>3. CASE h = j /\ ~(failures[j] + 1 >= MaxFailures)
        <5>1. failures'[h] = count /\ enabled'[h] = enabled[h]
          BY <4>3, <3>1, <2>1
        <5>2. Min({failures[j] + 1, MaxFailures}) = failures[j] + 1
          BY <4>3, <3>2 DEF Min
        <5> QED
          BY <5>1, <5>2, <4>3, <3>2, <3>5 DEF count
      <4> QED
        BY <4>1, <4>2, <4>3
    <3> QED
      BY <3>4, <3>5 DEF GuardrailHolds
  <2> QED
    BY <2>2, <2>3 DEF EndJob
<1>5. Typed' /\ NewJobsUnfailed'
  <2> HIDE DEF j
  <2> QED
    BY <1>1, <1>2, <1>3, <1>4 DEF SchedulerInv, Typed, NewJobsUnfailed
<1> QED
  BY <1>3, <1>4, <1>5 DEF SchedulerInv

LEMMA RegisterJobKeepsInv ==
    ASSUME SchedulerInv, NEW j \in Jobs, RegisterJob(j) PROVE SchedulerInv'
<1>1. /\ j \notin registered /\ registered' = registered \cup {j}
      /\ UNCHANGED <<failures, running, tick, overruled>>
  BY DEF RegisterJob, results
<1>2. PICK flag \in BOOLEAN : enabled' = [enabled EXCEPT ![j] = flag]
  BY DEF RegisterJob
<1>3. entries' \in Seq(registered' \cup {Nobody})
  <2>1. entries \in Seq(registered' \cup {Nobody}) /\ j \in registered' \cup {Nobody}
    BY <1>1 DEF SchedulerInv, Typed
  <2>2. CASE entries' = Append(entries, j)
    BY <2>1, <2>2
  <2>3. CASE entries' = [i \in DOMAIN entries |->
                           IF entries[i] # Nobody /\ Id[entries[i]] = Id[j] THEN j ELSE entries[i]]
    <3>1. entries' \in [1 .. Len(entries) -> registered' \cup {Nobody}]
      BY <2>1, <2>3
    <3> QED
      BY <2>1, <3>1
  <2> QED
    BY <2>2, <2>3 DEF RegisterJob
<1>4. Typed'
  BY <1>1, <1>2, <1>3 DEF SchedulerInv, Typed
<1>5. NewJobsUnfailed'
  BY <1>1 DEF SchedulerInv, NewJobsUnfailed
<1>6. GuardrailHolds'
  <2>1. failures[j] = 0
    BY <1>1 DEF SchedulerInv, NewJobsUnfailed
  <2> QED
    BY <1>1, <1>2, <2>1, SchedulerAssumption DEF SchedulerInv, Typed, GuardrailHolds
<1>7. RunningIsNotStuck'
  BY <1>1 DEF SchedulerInv, RunningIsNotStuck, Executes
<1> QED
  BY <1>4, <1>5, <1>6, <1>7 DEF SchedulerInv

LEMMA RemoveJobKeepsInv ==
    ASSUME SchedulerInv, NEW j \in Jobs, RemoveJob(j) PROVE SchedulerInv'
<1>1. UNCHANGED <<registered, enabled, failures, running, tick, overruled>>
  BY DEF RemoveJob, results
<1>2. entries' \in Seq(registered \cup {Nobody})
  <2>1. entries \in Seq(registered \cup {Nobody})
    BY DEF SchedulerInv, Typed
  <2>2. entries' \in [1 .. Len(entries) -> registered \cup {Nobody}]
    BY <2>1 DEF RemoveJob
  <2> QED
    BY <2>1, <2>2
<1>3. Typed'
  BY <1>1, <1>2 DEF SchedulerInv, Typed
<1>4. NewJobsUnfailed' /\ GuardrailHolds' /\ RunningIsNotStuck'
  BY <1>1 DEF SchedulerInv, NewJobsUnfailed, GuardrailHolds, RunningIsNotStuck, Executes
<1> QED
  BY <1>3, <1>4 DEF SchedulerInv

LEMMA SetEnabledKeepsInv ==
    ASSUME SchedulerInv, NEW j \in Jobs, NEW flag \in BOOLEAN, SetEnabled(j, flag)
    PROVE  SchedulerInv'
<1>1. /\ enabled' = [enabled EXCEPT ![j] = flag]
      /\ overruled' = IF flag /\ failures[j] >= MaxFailures THEN overruled \cup {j} ELSE overruled
      /\ UNCHANGED <<entries, registered, failures, running, tick>>
  BY DEF SetEnabled, settings, results
<1>2. Typed' /\ NewJobsUnfailed'
  BY <1>1 DEF SchedulerInv, Typed, NewJobsUnfailed
<1>3. GuardrailHolds'
  BY <1>1 DEF SchedulerInv, Typed, GuardrailHolds
<1>4. RunningIsNotStuck'
  BY <1>1 DEF SchedulerInv, RunningIsNotStuck, Executes
<1> QED
  BY <1>2, <1>3, <1>4 DEF SchedulerInv

LEMMA StepKeepsInv == SchedulerInv /\ [Next]_vars => SchedulerInv'
<1> SUFFICES ASSUME SchedulerInv, [Next]_vars PROVE SchedulerInv'
  OBVIOUS
<1>1. CASE \E k \in Tickers : BeginTick(k) \/ EndJob(k)
  BY <1>1, BeginTickKeepsInv, EndJobKeepsInv
<1>2. CASE \E j \in Jobs : \/ RegisterJob(j) \/ RemoveJob(j)
                           \/ \E flag \in BOOLEAN : SetEnabled(j, flag)
  BY <1>2, RegisterJobKeepsInv, RemoveJobKeepsInv, SetEnabledKeepsInv
<1>3. CASE Advance \/ UNCHANGED vars
  <2>1. UNCHANGED <<entries, registered, enabled, failures, running, tick, overruled>>
    BY <1>3 DEF Advance, vars, settings, results
  <2> QED
    BY <2>1 DEF SchedulerInv, Typed, NewJobsUnfailed, GuardrailHolds, RunningIsNotStuck, Executes
<1> QED
  BY <1>1, <1>2, <1>3 DEF Next

(* For any jobs and any number of tickers that overlap, a job that has     *)
(* failed max_failures times in a row is enabled only if an operator has   *)
(* said so since (the guardrail of Scheduler.tick).                        *)
THEOREM GuardrailStands == Spec => []GuardrailHolds
<1>1. SchedulerInv => GuardrailHolds
  BY DEF SchedulerInv
<1> QED
  BY InitScheduler, StepKeepsInv, <1>1, PTL DEF Spec

(* Whatever ends a callback, and whatever happens to its job meanwhile, no *)
(* job is left marked as running (the finally block of Scheduler.tick).    *)
THEOREM FlagsAreReset == Spec => []RunningIsNotStuck
<1>1. SchedulerInv => RunningIsNotStuck
  BY DEF SchedulerInv
<1> QED
  BY InitScheduler, StepKeepsInv, <1>1, PTL DEF Spec
=============================================================================
