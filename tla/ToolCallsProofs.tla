---------------------------- MODULE ToolCallsProofs ----------------------------
(***************************************************************************)
(* Proofs about ToolCalls, for any finite set of calls, any rules, tasks,  *)
(* paths and directories, any numbers of slots and any number of restarts, *)
(* edits of the rules and moves of the workspace: slots, approvals, files  *)
(* and snapshots, then types.                                              *)
(***************************************************************************)
EXTENDS ToolCalls, FiniteSetTheorems, SequenceTheorems, WellFoundedInduction, TLAPS

-----------------------------------------------------------------------------
(* Slots.                                                                  *)

Places == {"idle", "hooks", "announcing", "waiting", "expired", "queued", "running", "reporting",
           "over", "lost"}

Holders(tools) == {c \in Calls : pc[c] = "running" /\ work[c].tool \in tools}

(* The inductive invariant of the slots. *)
SlotsInv == /\ pc \in [Calls -> Places] /\ DOMAIN work = Calls /\ \A c \in Calls : "tool" \in DOMAIN work[c]
            /\ slots \in [shell : Int, browser : Int]
            /\ SlotsAddUp

LEMMA KindsDiffer == /\ ShellTools \cap BrowserTools = {} /\ "none" \notin ShellTools \cup BrowserTools
                     /\ \A tool : /\ Category(tool) = "shell" <=> tool \in ShellTools
                                  /\ Category(tool) = "browser" <=> tool \in BrowserTools
                                  /\ Category(tool) \in {"shell", "browser", "none"}
  BY DEF ShellTools, BrowserTools, Category

LEMMA HoldersFinite == IsFiniteSet(Holders(ShellTools)) /\ IsFiniteSet(Holders(BrowserTools))
  BY CallsAssumption, FS_Subset DEF Holders

LEMMA SlotArithmetic ==
    ASSUME NEW a \in Int, NEW b \in Int, slots = [shell |-> a, browser |-> b]
    PROVE  /\ Take("shell") = [shell |-> a - 1, browser |-> b]
           /\ Take("browser") = [shell |-> a, browser |-> b - 1]
           /\ Release("shell") = [shell |-> a + 1, browser |-> b]
           /\ Release("browser") = [shell |-> a, browser |-> b + 1]
           /\ Take("none") = slots /\ Release("none") = slots
  BY DEF Take, Release

(* A call that holds no slot before a step and none after it. *)
LEMMA NoHolder ==
    ASSUME SlotsInv, NEW c \in Calls, NEW where \in Places, pc' = [pc EXCEPT ![c] = where],
           DOMAIN work' = Calls, "tool" \in DOMAIN work'[c], \A d \in Calls \ {c} : work'[d] = work[d],
           pc[c] # "running", where # "running", slots' = slots
    PROVE  SlotsInv'
<1>1. \A d \in Calls : pc'[d] = "running" <=> pc[d] = "running" /\ d # c
  BY DEF SlotsInv
<1>2. Holders(ShellTools)' = Holders(ShellTools) /\ Holders(BrowserTools)' = Holders(BrowserTools)
  BY <1>1 DEF Holders
<1>3. SlotsAddUp'
  BY <1>2 DEF SlotsInv, SlotsAddUp, Holders
<1>4. QED
  BY <1>3 DEF SlotsInv

(* A call that enters its handler takes the slot of its tool. *)
LEMMA Entering ==
    ASSUME SlotsInv, NEW c \in Calls, NEW tool, pc' = [pc EXCEPT ![c] = "running"],
           DOMAIN work' = Calls, "tool" \in DOMAIN work'[c], work'[c].tool = tool,
           \A d \in Calls \ {c} : work'[d] = work[d],
           pc[c] # "running", slots' = Take(Category(tool))
    PROVE  SlotsInv'
<1>1. /\ \A d \in Calls \ {c} : pc'[d] = pc[d]
      /\ pc'[c] = "running" /\ pc' \in [Calls -> Places]
  BY DEF SlotsInv, Places
<1>2. ASSUME NEW tools
      PROVE  /\ c \notin Holders(tools)
             /\ Holders(tools)' = IF tool \in tools THEN Holders(tools) \cup {c} ELSE Holders(tools)
  BY <1>1 DEF Holders
<1>3. ASSUME NEW tools, IsFiniteSet(Holders(tools))
      PROVE  /\ Cardinality(Holders(tools)) \in Nat
             /\ Cardinality(Holders(tools)') = Cardinality(Holders(tools)) + IF tool \in tools THEN 1 ELSE 0
  BY <1>2, <1>3, FS_AddElement, FS_CardinalityType
<1>4. slots' = [shell |-> slots.shell - (IF tool \in ShellTools THEN 1 ELSE 0),
                browser |-> slots.browser - (IF tool \in BrowserTools THEN 1 ELSE 0)]
  <2>1. PICK a \in Int, b \in Int : slots = [shell |-> a, browser |-> b]
    BY DEF SlotsInv
  <2>2. CASE tool \in ShellTools
    BY <2>1, <2>2, KindsDiffer, SlotArithmetic
  <2>3. CASE tool \in BrowserTools
    BY <2>1, <2>3, KindsDiffer, SlotArithmetic
  <2>4. CASE tool \notin ShellTools \cup BrowserTools
    BY <2>1, <2>4, KindsDiffer, SlotArithmetic
  <2>5. QED
    BY <2>2, <2>3, <2>4
<1>5. SlotsAddUp'
  <2>1. /\ slots.shell + Cardinality(Holders(ShellTools)) = MaxShell
        /\ slots.browser + Cardinality(Holders(BrowserTools)) = MaxBrowser
    BY DEF SlotsInv, SlotsAddUp, Holders
  <2>2. /\ slots'.shell + Cardinality(Holders(ShellTools)') = MaxShell
        /\ slots'.browser + Cardinality(Holders(BrowserTools)') = MaxBrowser
    BY <1>3, <1>4, <2>1, HoldersFinite, CallsAssumption DEF SlotsInv
  <2>3. QED
    BY <2>2 DEF SlotsAddUp, Holders
<1>6. QED
  BY <1>1, <1>4, <1>5 DEF SlotsInv

(* A call that leaves its handler gives that slot back. *)
LEMMA Leaving ==
    ASSUME SlotsInv, NEW c \in Calls, NEW where \in Places, pc' = [pc EXCEPT ![c] = where],
           DOMAIN work' = Calls, "tool" \in DOMAIN work'[c], \A d \in Calls \ {c} : work'[d] = work[d],
           pc[c] = "running", where # "running", slots' = Release(Category(work[c].tool))
    PROVE  SlotsInv'
<1> DEFINE tool == work[c].tool
<1>1. /\ \A d \in Calls \ {c} : pc'[d] = pc[d]
      /\ pc'[c] # "running" /\ pc' \in [Calls -> Places]
  BY DEF SlotsInv
<1>2. ASSUME NEW tools
      PROVE  /\ c \in Holders(tools) <=> tool \in tools
             /\ Holders(tools)' = Holders(tools) \ {c}
  BY <1>1 DEF Holders
<1>3. ASSUME NEW tools, IsFiniteSet(Holders(tools))
      PROVE  /\ Cardinality(Holders(tools)) \in Nat
             /\ Cardinality(Holders(tools)') = Cardinality(Holders(tools)) - IF tool \in tools THEN 1 ELSE 0
  <2>1. CASE tool \in tools
    BY <1>2, <1>3, <2>1, FS_RemoveElement, FS_CardinalityType
  <2>2. CASE tool \notin tools
    BY <1>2, <1>3, <2>2, FS_CardinalityType
  <2>3. QED
    BY <2>1, <2>2
<1>4. slots' = [shell |-> slots.shell + (IF tool \in ShellTools THEN 1 ELSE 0),
                browser |-> slots.browser + (IF tool \in BrowserTools THEN 1 ELSE 0)]
  <2>1. PICK a \in Int, b \in Int : slots = [shell |-> a, browser |-> b]
    BY DEF SlotsInv
  <2>2. CASE tool \in ShellTools
    BY <2>1, <2>2, KindsDiffer, SlotArithmetic
  <2>3. CASE tool \in BrowserTools
    BY <2>1, <2>3, KindsDiffer, SlotArithmetic
  <2>4. CASE tool \notin ShellTools \cup BrowserTools
    BY <2>1, <2>4, KindsDiffer, SlotArithmetic
  <2>5. QED
    BY <2>2, <2>3, <2>4
<1>5. SlotsAddUp'
  <2>1. /\ slots.shell + Cardinality(Holders(ShellTools)) = MaxShell
        /\ slots.browser + Cardinality(Holders(BrowserTools)) = MaxBrowser
    BY DEF SlotsInv, SlotsAddUp, Holders
  <2>2. /\ slots'.shell + Cardinality(Holders(ShellTools)') = MaxShell
        /\ slots'.browser + Cardinality(Holders(BrowserTools)') = MaxBrowser
    BY <1>3, <1>4, <2>1, HoldersFinite, CallsAssumption DEF SlotsInv
  <2>3. QED
    BY <2>2 DEF SlotsAddUp, Holders
<1>6. QED
  BY <1>1, <1>4, <1>5 DEF SlotsInv
(* A call that goes on in its handler, or another step that moves no slot. *)
LEMMA SameHolders ==
    ASSUME SlotsInv, pc' = pc, slots' = slots, DOMAIN work' = Calls,
           \A d \in Calls : "tool" \in DOMAIN work'[d] /\ work'[d].tool = work[d].tool
    PROVE  SlotsInv'
<1>1. Holders(ShellTools)' = Holders(ShellTools) /\ Holders(BrowserTools)' = Holders(BrowserTools)
  BY DEF Holders
<1>2. QED
  BY <1>1 DEF SlotsInv, SlotsAddUp, Holders

(* What a call does to pc, work and slots between its hooks and its end. *)
LEMMA LeaveEffect ==
    ASSUME SlotsInv, NEW c \in Calls, LeaveHandler(c)
    PROVE  /\ pc' = [pc EXCEPT ![c] = "reporting"] /\ DOMAIN work' = Calls
           /\ "tool" \in DOMAIN work'[c] /\ \A d \in Calls \ {c} : work'[d] = work[d]
  BY DEF SlotsInv, LeaveHandler, NoWork

LEMMA HandleKeepsSlots ==
    ASSUME SlotsInv, NEW c \in Calls, pc[c] # "running", NEW tool, Handle(c, tool)
    PROVE  SlotsInv'
<1>1. CASE RunThrough(c, tool) \/ Refuse(c, tool)
  <2>1. LeaveHandler(c) /\ slots' = slots
    BY <1>1 DEF RunThrough, Refuse
  <2>2. QED
    BY <2>1, LeaveEffect, NoHolder DEF Places
<1>2. CASE RunUntilAwait(c, tool)
  <2>1. /\ pc' = [pc EXCEPT ![c] = "running"] /\ slots' = Take(Category(tool))
        /\ \E left, undo : work' = [work EXCEPT ![c] = [tool |-> tool, left |-> left, undo |-> undo]]
    BY <1>2 DEF RunUntilAwait
  <2>2. /\ DOMAIN work' = Calls /\ "tool" \in DOMAIN work'[c] /\ work'[c].tool = tool
        /\ \A d \in Calls \ {c} : work'[d] = work[d]
    BY <2>1 DEF SlotsInv
  <2>3. QED
    BY <2>1, <2>2, Entering
<1>3. QED
  BY <1>1, <1>2 DEF Handle

LEMMA DispatchKeepsSlots ==
    ASSUME SlotsInv, NEW c \in Calls, pc[c] # "running", Dispatch(c)
    PROVE  SlotsInv'
<1>1. PICK tool \in Tools :
         \/ /\ pc' = [pc EXCEPT ![c] = "queued"] /\ slots' = slots
            /\ work' = [work EXCEPT ![c] = [NoWork EXCEPT !.tool = tool]]
         \/ Handle(c, tool)
  BY DEF Dispatch
<1>2. CASE /\ pc' = [pc EXCEPT ![c] = "queued"] /\ slots' = slots
           /\ work' = [work EXCEPT ![c] = [NoWork EXCEPT !.tool = tool]]
  <2>1. /\ DOMAIN work' = Calls /\ "tool" \in DOMAIN work'[c]
        /\ \A d \in Calls \ {c} : work'[d] = work[d]
    BY <1>2 DEF SlotsInv, NoWork
  <2>2. QED
    BY <1>2, <2>1, NoHolder DEF Places
<1>3. QED
  BY <1>1, <1>2, HandleKeepsSlots

LEMMA GoToKeepsSlots ==
    ASSUME SlotsInv, NEW c \in Calls, pc[c] # "running", NEW where \in Places, where # "running",
           GoTo(c, where)
    PROVE  SlotsInv'
  BY NoHolder DEF GoTo, SlotsInv

(* Evaluate ends the call, lets it go on to its handler, or asks. *)
LEMMA EvaluateEffect ==
    ASSUME NEW c \in Calls, Evaluate(c)
    PROVE  /\ pc[c] = "hooks" /\ UNCHANGED <<pending, decision, session>>
           /\ \/ GoTo(c, "over") /\ label' = label
              \/ \E l : /\ label' = [label EXCEPT ![c] = l]
                        /\ \/ l \in {ByPolicy, Bypassed} \cup session /\ Dispatch(c)
                           \/ /\ LastMatch(args[c]).action = "ask" /\ l = LastMatch(args[c]).label
                              /\ GoTo(c, "announcing")
<1> DEFINE m == LastMatch(args[c])
<1>1. pc[c] = "hooks" /\ UNCHANGED <<pending, decision, session>>
  BY DEF Evaluate, asking
<1>2. \/ GoTo(c, "over") /\ label' = label
      \/ label' = [label EXCEPT ![c] = Bypassed] /\ Dispatch(c)
      \/ label' = [label EXCEPT ![c] = ByPolicy] /\ Dispatch(c)
      \/ /\ label' = [label EXCEPT ![c] = m.label]
         /\ (m.label \in session /\ Dispatch(c)) \/ (m.action = "ask" /\ GoTo(c, "announcing"))
  BY DEF Evaluate, Verdicts, Verdict
<1> HIDE DEF m
<1> QED
  BY <1>1, <1>2 DEF m

-----------------------------------------------------------------------------
(* Every step keeps the slots in order. *)
LEMMA InitSlots == Init => SlotsInv
<1> SUFFICES ASSUME Init PROVE SlotsInv
  OBVIOUS
<1>1. Holders(ShellTools) = {} /\ Holders(BrowserTools) = {}
  BY DEF Init, Holders
<1>2. SlotsAddUp
  <2>1. Cardinality(Holders(ShellTools)) = 0 /\ Cardinality(Holders(BrowserTools)) = 0
    BY <1>1, FS_EmptySet
  <2>2. slots.shell = MaxShell /\ slots.browser = MaxBrowser
    BY DEF Init
  <2>3. QED
    BY <2>1, <2>2, CallsAssumption DEF SlotsAddUp, Holders
<1>3. QED
  BY <1>2, CallsAssumption DEF Init, SlotsInv, Places, NoWork

LEMMA StartAnewKeepsSlots == ASSUME SlotsInv, StartAnew PROVE SlotsInv'
<1>1. Holders(ShellTools)' = {} /\ Holders(BrowserTools)' = {}
  BY DEF StartAnew, Holders
<1>2. SlotsAddUp'
  <2>1. Cardinality(Holders(ShellTools)') = 0 /\ Cardinality(Holders(BrowserTools)') = 0
    BY <1>1, FS_EmptySet
  <2>2. slots'.shell = MaxShell /\ slots'.browser = MaxBrowser
    BY DEF StartAnew
  <2>3. QED
    BY <2>1, <2>2, CallsAssumption DEF SlotsAddUp, Holders
<1>3. QED
  BY <1>2, CallsAssumption DEF StartAnew, SlotsInv, Places, NoWork

LEMMA NextSlots == SlotsInv /\ [Next]_vars => SlotsInv'
<1> SUFFICES ASSUME SlotsInv, [Next]_vars PROVE SlotsInv'
  OBVIOUS
<1>1. ASSUME NEW c \in Calls, Begin(c) \/ RegisterApproval(c) PROVE SlotsInv'
  BY <1>1, NoHolder DEF Begin, RegisterApproval, SlotsInv, Places
<1>2. ASSUME NEW c \in Calls, Evaluate(c) PROVE SlotsInv'
  BY <1>2, EvaluateEffect, GoToKeepsSlots, DispatchKeepsSlots DEF Places
<1>3. ASSUME NEW c \in Calls, Resume(c) PROVE SlotsInv'
  BY <1>3, GoToKeepsSlots, DispatchKeepsSlots DEF Resume, Places
<1>4. ASSUME NEW c \in Calls, Expire(c) \/ DenyExpired(c) \/ Report(c) PROVE SlotsInv'
  BY <1>4, GoToKeepsSlots DEF Expire, DenyExpired, Report, Places
<1>5. ASSUME NEW c \in Calls, Enter(c) PROVE SlotsInv'
  BY <1>5, HandleKeepsSlots DEF Enter
<1>6. ASSUME NEW c \in Calls, pc[c] = "running", StopAwaiting(c) PROVE SlotsInv'
  BY <1>6, LeaveEffect, Leaving DEF StopAwaiting, Places
<1>7. ASSUME NEW c \in Calls, TimeOut(c) PROVE SlotsInv'
  BY <1>6, <1>7 DEF TimeOut
<1>8. ASSUME NEW c \in Calls, Finish(c) PROVE SlotsInv'
  <2>1. CASE /\ work' = [work EXCEPT ![c].left = @ - 1]
             /\ UNCHANGED <<pc, slots>>
    BY <2>1, SameHolders DEF SlotsInv
  <2>2. CASE StopAwaiting(c)
    BY <1>6, <1>8, <2>2 DEF Finish
  <2>3. QED
    BY <1>8, <2>1, <2>2 DEF Finish
<1>9. ASSUME NEW c \in Calls, Cancel(c) PROVE SlotsInv'
  <2>1. /\ pc' = [pc EXCEPT ![c] = "over"] /\ DOMAIN work' = Calls
        /\ "tool" \in DOMAIN work'[c] /\ \A d \in Calls \ {c} : work'[d] = work[d]
    BY <1>9 DEF Cancel, SlotsInv, NoWork
  <2>2. CASE pc[c] = "running"
    BY <1>9, <2>1, <2>2, Leaving DEF Cancel, Places
  <2>3. CASE pc[c] # "running"
    BY <1>9, <2>1, <2>3, NoHolder DEF Cancel, Places
  <2>4. QED
    BY <2>2, <2>3
<1>10. ASSUME UNCHANGED <<pc, work, slots>> PROVE SlotsInv'
  BY <1>10, SameHolders DEF SlotsInv
<1>11. ASSUME NEW c \in Calls, Reply(c) \/ ProcessEnds(c) PROVE SlotsInv'
  BY <1>10, <1>11 DEF Reply, ProcessEnds
<1>12. CASE AddRule \/ DeleteRule \/ SetRoot \/ (\E t \in Tasks : Close(t) \/ Rollback(t)) \/ UNCHANGED vars
  BY <1>10, <1>12 DEF AddRule, DeleteRule, SetRoot, Close, Rollback, vars
<1>13. CASE Restart \/ \E c \in Calls : CrashInSnapshot(c)
  BY <1>13, StartAnewKeepsSlots DEF Restart, CrashInSnapshot
<1>14. QED
  BY <1>1, <1>2, <1>3, <1>4, <1>5, <1>7, <1>8, <1>9, <1>11, <1>12, <1>13 DEF Next, Advance

(* registry.py: whatever ends a tool's handler, be it a timeout, an error, *)
(* a cancellation or its own end, the caps on shell and browser tools stay *)
(* what they were configured to be.                                        *)
THEOREM NoSlotIsLost == Spec => []SlotsAddUp
<1>1. SlotsInv => SlotsAddUp
  BY DEF SlotsInv
<1>2. QED
  BY <1>1, InitSlots, NextSlots, PTL DEF Spec

-----------------------------------------------------------------------------
(* Approvals.                                                              *)

Approved(c) == \/ label[c] \in {ByPolicy, Bypassed}
               \/ decision[c] = "once"
               \/ \E d \in Calls : label[d] = label[c] /\ decision[d] = "always"

(* A call has no decision before its request, and has not run until it is  *)
(* allowed to; what waits for a slot has been approved; grants of a session*)
(* come from a call with that label.                                       *)
Undecided == \A c \in Calls :
    /\ pc[c] \in {"idle", "hooks", "announcing"} =>
          decision[c] = "none" /\ c \notin ran /\ c \notin pending
    /\ pc[c] \in {"idle", "hooks"} => label[c] = NoLabel
    /\ pc[c] \in {"waiting", "expired"} => c \notin ran
    /\ c \in pending => /\ decision[c] = "none" /\ c \notin ran
                        /\ pc[c] \in {"waiting", "expired", "over"}
QueuedApproved == \A c \in Calls :
    pc[c] = "queued" => c \notin ran /\ decision[c] # "reject" /\ Approved(c)
GrantsFounded == \A l \in session : \E d \in Calls : label[d] = l /\ decision[d] = "always"

(* The inductive invariant of the approvals. *)
ApprovalsInv == /\ DOMAIN pc = Calls /\ DOMAIN decision = Calls /\ DOMAIN label = Calls
                /\ \A c \in Calls : decision[c] \in {"none", "once", "always", "reject"}
                /\ Undecided /\ QueuedApproved /\ GrantsFounded /\ OnlyApprovedCallsRun

LEMMA InitApprovals == Init => ApprovalsInv
  BY DEF Init, ApprovalsInv, Undecided, QueuedApproved, GrantsFounded, OnlyApprovedCallsRun

LEMMA StartAnewKeepsApprovals == ASSUME ApprovalsInv, StartAnew PROVE ApprovalsInv'
  BY DEF StartAnew, ApprovalsInv, Undecided, QueuedApproved, GrantsFounded, OnlyApprovedCallsRun

(* Dispatch lets the call run, or queues it for a slot. *)
LEMMA DispatchEffect ==
    ASSUME NEW c \in Calls, Dispatch(c)
    PROVE  \/ ran' = ran /\ pc' = [pc EXCEPT ![c] = "queued"]
           \/ ran' = ran \cup {c} /\ \E where \in {"running", "reporting"} : pc' = [pc EXCEPT ![c] = where]
  BY DEF Dispatch, Handle, RunThrough, RunUntilAwait, Refuse, LeaveHandler

(* An approved call may run or be queued. *)
LEMMA DispatchKeepsApprovals ==
    ASSUME ApprovalsInv, NEW c \in Calls, Dispatch(c), pc[c] \in {"hooks", "waiting"}, c \notin pending,
           decision' = decision, pending' = pending, decision[c] # "reject",
           DOMAIN label' = Calls, \A d \in Calls \ {c} : label'[d] = label[d],
           decision[c] # "none" => label'[c] = label[c],
           Approved(c)', GrantsFounded'
    PROVE  ApprovalsInv'
<1>1. c \notin ran
  BY DEF ApprovalsInv, Undecided
<1>2. /\ ran' \in {ran, ran \cup {c}} /\ DOMAIN pc' = Calls
      /\ \A d \in Calls \ {c} : pc'[d] = pc[d]
      /\ pc'[c] \in {"queued", "running", "reporting"}
      /\ pc'[c] = "queued" => ran' = ran
  BY DispatchEffect DEF ApprovalsInv
<1>3. Undecided'
  BY <1>2 DEF ApprovalsInv, Undecided
<1>4. \A d \in Calls \ {c} : Approved(d) => Approved(d)'
  BY DEF Approved, ApprovalsInv
<1>5. QueuedApproved'
  BY <1>1, <1>2, <1>4 DEF ApprovalsInv, QueuedApproved
<1>6. OnlyApprovedCallsRun'
  <2>1. ASSUME NEW d \in Calls, d \in ran' PROVE Approved(d)'
    BY <1>2, <1>4, <2>1 DEF ApprovalsInv, OnlyApprovedCallsRun, Approved
  <2>2. ASSUME NEW d \in Calls, decision'[d] = "reject" PROVE d \notin ran'
    BY <1>2, <2>2 DEF ApprovalsInv, OnlyApprovedCallsRun
  <2>3. QED
    BY <2>1, <2>2 DEF OnlyApprovedCallsRun, Approved
<1>7. QED
  BY <1>2, <1>3, <1>5, <1>6 DEF ApprovalsInv

(* A step that decides nothing and lets nothing run. *)
LEMMA MovingKeepsApprovals ==
    ASSUME ApprovalsInv, NEW c \in Calls, NEW where, pc' = [pc EXCEPT ![c] = where],
           where \in {"running", "reporting", "over"} \/ (where = "expired" /\ pc[c] = "waiting")
              \/ (where = "hooks" /\ pc[c] = "idle"),
           where = "over" \/ c \notin pending \/ where = "expired",
           pending' \subseteq pending, UNCHANGED <<decision, session, label, ran>>
    PROVE  ApprovalsInv'
  BY DEF ApprovalsInv, Undecided, QueuedApproved, GrantsFounded, OnlyApprovedCallsRun, Approved

LEMMA NextApprovals == ApprovalsInv /\ [Next]_vars => ApprovalsInv'
<1> SUFFICES ASSUME ApprovalsInv, [Next]_vars PROVE ApprovalsInv'
  OBVIOUS
<1>1. ASSUME NEW c \in Calls, Begin(c) \/ Expire(c) \/ DenyExpired(c) \/ Report(c) \/ Cancel(c)
      PROVE  ApprovalsInv'
  <2>1. UNCHANGED <<decision, session, label, ran>> /\ pending' \subseteq pending
    BY <1>1 DEF Begin, Expire, DenyExpired, Report, Cancel, GoTo, asking
  <2>2. CASE Begin(c)
    <3>1. pc[c] = "idle" /\ c \notin pending /\ pc' = [pc EXCEPT ![c] = "hooks"]
      BY <2>2 DEF Begin, ApprovalsInv, Undecided
    <3>2. QED
      BY <2>1, <3>1, MovingKeepsApprovals
  <2>3. CASE Expire(c)
    BY <2>1, <2>3, MovingKeepsApprovals DEF Expire, GoTo
  <2>4. CASE DenyExpired(c) \/ Report(c) \/ Cancel(c)
    <3>1. pc' = [pc EXCEPT ![c] = "over"]
      BY <2>4 DEF DenyExpired, Report, Cancel, GoTo
    <3>2. QED
      BY <2>1, <3>1, MovingKeepsApprovals
  <2>5. QED
    BY <1>1, <2>2, <2>3, <2>4
<1>2. ASSUME NEW c \in Calls, Evaluate(c) PROVE ApprovalsInv'
  <2>1. /\ pc[c] = "hooks" /\ UNCHANGED <<pending, decision, session>>
        /\ c \notin ran /\ c \notin pending /\ decision[c] = "none" /\ label[c] = NoLabel
    BY <1>2, EvaluateEffect DEF ApprovalsInv, Undecided
  <2>2. CASE GoTo(c, "over") /\ label' = label
    BY <2>1, <2>2, MovingKeepsApprovals DEF GoTo
  <2>3. ASSUME NEW l, label' = [label EXCEPT ![c] = l] PROVE GrantsFounded'
    BY <2>1, <2>3 DEF ApprovalsInv, GrantsFounded
  <2>4. ASSUME NEW l, label' = [label EXCEPT ![c] = l], l \in {ByPolicy, Bypassed} \cup session, Dispatch(c)
        PROVE  ApprovalsInv'
    <3>1. GrantsFounded'
      BY <2>3, <2>4
    <3>2. Approved(c)'
      BY <2>1, <2>4, <3>1 DEF Approved, GrantsFounded, ApprovalsInv
    <3>3. DOMAIN label' = Calls /\ \A d \in Calls \ {c} : label'[d] = label[d]
      BY <2>4 DEF ApprovalsInv
    <3>4. QED
      BY <2>1, <2>4, <3>1, <3>2, <3>3, DispatchKeepsApprovals
  <2>5. ASSUME NEW l, label' = [label EXCEPT ![c] = l], GoTo(c, "announcing") PROVE ApprovalsInv'
    <3>1. GrantsFounded'
      BY <2>3, <2>5
    <3>2. /\ DOMAIN label' = Calls /\ \A d \in Calls \ {c} : label'[d] = label[d]
          /\ DOMAIN pc' = Calls /\ \A d \in Calls \ {c} : pc'[d] = pc[d]
          /\ pc'[c] = "announcing" /\ ran' = ran
      BY <2>5 DEF ApprovalsInv, GoTo
    <3>3. \A d \in Calls \ {c} : Approved(d) => Approved(d)'
      BY <2>1, <3>2 DEF Approved
    <3>4. Undecided' /\ QueuedApproved'
      BY <2>1, <3>2, <3>3 DEF ApprovalsInv, Undecided, QueuedApproved
    <3>5. OnlyApprovedCallsRun'
      BY <2>1, <3>2, <3>3 DEF ApprovalsInv, OnlyApprovedCallsRun, Approved
    <3>6. QED
      BY <2>1, <3>1, <3>2, <3>4, <3>5 DEF ApprovalsInv
  <2>6. QED
    BY <1>2, <2>2, <2>4, <2>5, EvaluateEffect
<1>3. ASSUME NEW c \in Calls, RegisterApproval(c) PROVE ApprovalsInv'
  BY <1>3 DEF RegisterApproval, ApprovalsInv, Undecided, QueuedApproved, GrantsFounded, OnlyApprovedCallsRun,
              Approved
<1>4. ASSUME NEW c \in Calls, Reply(c) PROVE ApprovalsInv'
  <2>1. PICK d \in {"once", "always", "reject"} : decision' = [decision EXCEPT ![c] = d]
    BY <1>4 DEF Reply
  <2>2. /\ c \in pending /\ decision[c] = "none" /\ c \notin ran /\ pending' = pending \ {c}
        /\ pc[c] \in {"waiting", "expired", "over"}
        /\ pc' = pc /\ session' = session /\ label' = label /\ ran' = ran
    BY <1>4 DEF Reply, ApprovalsInv, Undecided
  <2>3. /\ DOMAIN decision' = Calls /\ decision'[c] = d
        /\ \A e \in Calls \ {c} : decision'[e] = decision[e]
    BY <2>1 DEF ApprovalsInv
  <2>4. \A e \in Calls : Approved(e) => Approved(e)'
    BY <2>2, <2>3 DEF Approved
  <2>5. Undecided' /\ QueuedApproved'
    BY <2>2, <2>3, <2>4 DEF ApprovalsInv, Undecided, QueuedApproved
  <2>6. GrantsFounded' /\ OnlyApprovedCallsRun'
    <3>1. GrantsFounded'
      BY <2>2, <2>3 DEF ApprovalsInv, GrantsFounded
    <3>2. \A e \in Calls : e \in ran => Approved(e)'
      BY <2>4 DEF ApprovalsInv, OnlyApprovedCallsRun, Approved
    <3>3. QED
      BY <2>2, <2>3, <3>1, <3>2 DEF ApprovalsInv, OnlyApprovedCallsRun, Approved
  <2>7. QED
    BY <2>2, <2>3, <2>5, <2>6 DEF ApprovalsInv
<1>5. ASSUME NEW c \in Calls, Resume(c) PROVE ApprovalsInv'
  <2>1. /\ pc[c] = "waiting" /\ decision[c] # "none" /\ UNCHANGED <<pending, decision, label>>
        /\ c \notin pending /\ c \notin ran
        /\ session' = IF decision[c] = "always" THEN session \cup {label[c]} ELSE session
    BY <1>5 DEF Resume, ApprovalsInv, Undecided
  <2>2. GrantsFounded'
    BY <2>1 DEF ApprovalsInv, GrantsFounded
  <2>3. CASE decision[c] = "reject"
    BY <1>5, <2>1, <2>3, MovingKeepsApprovals DEF Resume, GoTo
  <2>4. CASE decision[c] # "reject"
    <3>1. Approved(c)'
      BY <2>1, <2>4 DEF Approved, ApprovalsInv
    <3>2. QED
      BY <1>5, <2>1, <2>2, <2>4, <3>1, DispatchKeepsApprovals DEF Resume, ApprovalsInv
  <2>5. QED
    BY <2>3, <2>4
<1>6. ASSUME NEW c \in Calls, Enter(c) PROVE ApprovalsInv'
  <2>1. /\ pc[c] = "queued" /\ ran' = ran \cup {c} /\ UNCHANGED <<pending, decision, session, label>>
        /\ \E where \in {"running", "reporting"} : pc' = [pc EXCEPT ![c] = where]
    BY <1>6 DEF Enter, Handle, RunThrough, RunUntilAwait, Refuse, LeaveHandler, asking
  <2>2. decision[c] # "reject" /\ c \notin pending /\ Approved(c)
    BY <2>1 DEF ApprovalsInv, QueuedApproved, Undecided
  <2>3. OnlyApprovedCallsRun'
    BY <2>1, <2>2 DEF ApprovalsInv, OnlyApprovedCallsRun, Approved
  <2>4. Undecided' /\ QueuedApproved' /\ GrantsFounded'
    BY <2>1, <2>2 DEF ApprovalsInv, Undecided, QueuedApproved, GrantsFounded, Approved
  <2>5. QED
    BY <2>1, <2>3, <2>4 DEF ApprovalsInv
<1>7. ASSUME NEW c \in Calls, TimeOut(c) \/ Finish(c) PROVE ApprovalsInv'
  <2>1. /\ pc[c] = "running" /\ UNCHANGED <<pending, decision, session, label, ran>>
        /\ pc' = pc \/ pc' = [pc EXCEPT ![c] = "reporting"]
    BY <1>7 DEF TimeOut, Finish, StopAwaiting, LeaveHandler, asking
  <2>2. c \notin pending
    BY <2>1 DEF ApprovalsInv, Undecided
  <2>3. CASE pc' = [pc EXCEPT ![c] = "reporting"]
    BY <2>1, <2>2, <2>3, MovingKeepsApprovals
  <2>4. CASE pc' = pc
    BY <2>1, <2>4 DEF ApprovalsInv, Undecided, QueuedApproved, GrantsFounded, OnlyApprovedCallsRun, Approved
  <2>5. QED
    BY <2>1, <2>3, <2>4
<1>8. ASSUME UNCHANGED <<pc, pending, decision, session, label, ran>> PROVE ApprovalsInv'
  BY <1>8 DEF ApprovalsInv, Undecided, QueuedApproved, GrantsFounded, OnlyApprovedCallsRun, Approved
<1>9. ASSUME NEW c \in Calls, ProcessEnds(c) PROVE ApprovalsInv'
  BY <1>8, <1>9 DEF ProcessEnds, asking
<1>10. CASE AddRule \/ DeleteRule \/ SetRoot \/ (\E t \in Tasks : Close(t) \/ Rollback(t)) \/ UNCHANGED vars
  BY <1>8, <1>10 DEF AddRule, DeleteRule, SetRoot, Close, Rollback, vars, asking
<1>11. CASE Restart \/ \E c \in Calls : CrashInSnapshot(c)
  BY <1>11, StartAnewKeepsApprovals DEF Restart, CrashInSnapshot
<1>12. QED
  BY <1>1, <1>2, <1>3, <1>4, <1>5, <1>6, <1>7, <1>9, <1>10, <1>11 DEF Next, Advance

(* tool_approval_reply: a call runs because the policy allows it, because  *)
(* it is made past the policy, or on a reply that allows it; and never     *)
(* after a rejection.                                                      *)
THEOREM NothingRunsUnapproved == Spec => []OnlyApprovedCallsRun
<1>1. ApprovalsInv => OnlyApprovedCallsRun
  BY DEF ApprovalsInv
<1>2. QED
  BY <1>1, InitApprovals, NextApprovals, PTL DEF Spec

-----------------------------------------------------------------------------
(* Files and snapshots.                                                    *)

Kinds == {"none", "dir", "file"}

(* Nothing but missing paths, directories and texts of tasks, and none of  *)
(* the marks that snapshots have.                                          *)
Sound(g) == g \in FileSystems

SoundOutcomes(S) == \A r \in S : Sound(r.fs)

-----------------------------------------------------------------------------
(* The tools leave files of this kind behind.                              *)

LEMMA Answers == ASSUME NEW g, Sound(g) PROVE SoundOutcomes(Done(g)) /\ SoundOutcomes(Refused(g))
  BY DEF Done, Refused, SoundOutcomes

LEMMA Entries == /\ Nothing \in Contents /\ Directory \in Contents
                 /\ \A t \in Tasks \cup {Initially, Altered} : File(t) \in Contents
                 /\ \A x \in Contents : x.kind \in Kinds /\ (x.kind = "none" => x = Nothing)
<1>1. Nothing \in Contents /\ Directory \in Contents
  BY DEF Contents
<1>2. \A t \in Tasks \cup {Initially, Altered} : File(t) \in Contents
  BY DEF Contents
<1>3. \A x \in Contents : x.kind \in Kinds /\ (x.kind = "none" => x = Nothing)
  BY DEF Nothing, Directory, File, Contents, Kinds
<1> QED
  BY <1>1, <1>2, <1>3

LEMMA Writes == ASSUME NEW g, Sound(g), NEW me \in Tasks, NEW p, NEW S
                PROVE  Sound(Put(g, me, p)) /\ Sound(PutAll(g, me, S))
  BY Entries DEF Put, PutAll, Sound, FileSystems

LEMMA Removals == ASSUME NEW g, Sound(g), NEW p
                  PROVE  Sound([g EXCEPT ![p] = Nothing]) /\ Sound([g EXCEPT ![p] = Directory])
  BY Entries DEF Sound, FileSystems

LEMMA Edits ==
    ASSUME NEW g, Sound(g), NEW me \in Tasks, NEW p \in Paths, NEW q \in Paths,
           NEW a \in BOOLEAN, NEW b \in BOOLEAN
    PROVE  /\ SoundOutcomes(WriteFile(g, me, p, a)) /\ SoundOutcomes(AppendFile(g, me, p))
           /\ SoundOutcomes(ReplaceInFile(g, me, p, a)) /\ SoundOutcomes(EditFile(g, me, p, a))
           /\ SoundOutcomes(JsonEdit(g, me, p, a)) /\ SoundOutcomes(YamlEdit(g, me, p, a))
           /\ SoundOutcomes(InsertAtLine(g, me, p)) /\ SoundOutcomes(DeleteRange(g, me, p, a))
           /\ SoundOutcomes(PatchFile(g, me, p, a, b))
           /\ SoundOutcomes(DeleteFile(g, p, a)) /\ SoundOutcomes(CreateDirectory(g, p))
           /\ SoundOutcomes(RenameOrMove(g, p, q))
<1>1. Sound(Put(g, me, p)) /\ Sound([g EXCEPT ![p] = Nothing]) /\ Sound([g EXCEPT ![p] = Directory])
  BY Writes, Removals
<1>2. Sound([r \in Paths |-> IF r = q THEN g[p] ELSE IF r = p THEN Nothing ELSE g[r]])
  BY Entries DEF Sound, FileSystems
<1>3. /\ SoundOutcomes(WriteFile(g, me, p, a)) /\ SoundOutcomes(AppendFile(g, me, p))
      /\ SoundOutcomes(ReplaceInFile(g, me, p, a)) /\ SoundOutcomes(EditFile(g, me, p, a))
      /\ SoundOutcomes(JsonEdit(g, me, p, a)) /\ SoundOutcomes(YamlEdit(g, me, p, a))
  BY <1>1, Answers DEF WriteFile, AppendFile, ReplaceInFile, EditFile, JsonEdit, YamlEdit
<1>4. /\ SoundOutcomes(InsertAtLine(g, me, p)) /\ SoundOutcomes(DeleteRange(g, me, p, a))
      /\ SoundOutcomes(PatchFile(g, me, p, a, b))
      /\ SoundOutcomes(DeleteFile(g, p, a)) /\ SoundOutcomes(CreateDirectory(g, p))
  BY <1>1, Answers DEF InsertAtLine, DeleteRange, PatchFile, DeleteFile, CreateDirectory
<1>5. SoundOutcomes(RenameOrMove(g, p, q))
  BY <1>2, Answers DEF RenameOrMove
<1> QED
  BY <1>3, <1>4, <1>5

LEMMA Reads ==
    ASSUME NEW g, Sound(g), NEW me \in Tasks, NEW p \in Paths, NEW a \in BOOLEAN
    PROVE  /\ SoundOutcomes(ReadFile(g, p)) /\ SoundOutcomes(ListDirectory(g, p))
           /\ SoundOutcomes(SearchWorkspace(g, a)) /\ SoundOutcomes(ProposeWiring(g, a))
           /\ SoundOutcomes(ReadContext(g)) /\ \A i : SoundOutcomes(IndexProject(g, me, i))
  BY Answers, Writes DEF ReadFile, ListDirectory, SearchWorkspace, ProposeWiring, ReadContext, IndexProject

LEMMA Renders ==
    ASSUME NEW g, Sound(g), NEW me \in Tasks, NEW p \in Paths, NEW q \in Paths,
           NEW a \in BOOLEAN, NEW b \in BOOLEAN
    PROVE  /\ SoundOutcomes(RenderDocument(g, me, p, a, b)) /\ SoundOutcomes(RenderChart(g, me, p, a, b))
           /\ SoundOutcomes(RenderVector(g, me, p, a, b))
           /\ SoundOutcomes(RenderHyperframes(g, me, p, q, a, b))
           /\ SoundOutcomes(RenderRemotion(g, me, p, a))
<1>1. SoundOutcomes(RenderArtifact(g, me, p, a, b))
  BY Answers, Writes DEF RenderArtifact
<1>2. SoundOutcomes(RenderHyperframes(g, me, p, q, a, b))
  BY Answers, Writes DEF RenderHyperframes
<1>3. SoundOutcomes(RenderRemotion(g, me, p, a))
  BY Answers, Writes DEF RenderRemotion, SoundOutcomes
<1> QED
  BY <1>1, <1>2, <1>3 DEF RenderDocument, RenderChart, RenderVector

(* A scaffold that is taken back. *)
LEMMA Undone ==
    ASSUME NEW g, Sound(g), NEW b, Sound(b), NEW files, NEW u \in UndoScaffold(g, files, b)
    PROVE  Sound(u)
<1>1. PICK x : u = [p \in Paths |-> IF p \notin x[1] THEN g[p]
                                   ELSE IF p \in x[2] /\ IsFile(b, p) THEN File(Altered) ELSE b[p]]
  BY DEF UndoScaffold
<1>2. \A p \in Paths : g[p] \in Contents /\ b[p] \in Contents
  BY DEF Sound, FileSystems
<1> QED
  BY <1>1, <1>2, Entries DEF Sound, FileSystems

LEMMA Scaffolds ==
    ASSUME NEW g, Sound(g), NEW me \in Tasks, NEW p \in Paths, NEW q \in Paths,
           NEW a \in BOOLEAN, NEW b \in BOOLEAN
    PROVE  /\ SoundOutcomes(InitProject(g, me, p, q, a))
           /\ SoundOutcomes(GenerateComponent(g, me, p, a, b))
           /\ SoundOutcomes(GenerateRoute(g, me, p, q, a, b))
           /\ SoundOutcomes(ApplyWiring(g, me, {p, q}, a))
           /\ SoundOutcomes(VersionBump(g, me, p, q, a, b))
           /\ SoundOutcomes(ReleaseNotes(g, me, p, a))
<1>1. ASSUME NEW files, NEW o \in BOOLEAN PROVE SoundOutcomes(WriteScaffold(g, me, files, o))
  <2>1. SoundOutcomes(Refused(g)) /\ SoundOutcomes(Done(PutAll(g, me, files)))
    BY Answers, Writes
  <2>2. ASSUME NEW r \in files, NEW u \in UndoScaffold(g, files \ {r}, g)
        PROVE  SoundOutcomes(Refused(u)) /\ SoundOutcomes(Refused(Put(u, me, r)))
    BY Undone, Answers, Writes
  <2>3. ASSUME NEW x \in WriteScaffold(g, me, files, o)
        PROVE  \/ x \in Refused(g) \cup Done(PutAll(g, me, files))
               \/ \E r \in files : \E u \in UndoScaffold(g, files \ {r}, g) :
                     x \in Refused(u) \cup Refused(Put(u, me, r))
    BY DEF WriteScaffold
  <2> QED
    BY <2>1, <2>2, <2>3 DEF SoundOutcomes
<1>2. SoundOutcomes(ApplyWiring(g, me, {p, q}, a))
  <2>1. SoundOutcomes(Done(g)) /\ \A S : SoundOutcomes(Done(PutAll(g, me, S)))
    BY Answers, Writes
  <2> QED
    BY <2>1 DEF ApplyWiring, SoundOutcomes
<1>3. SoundOutcomes(VersionBump(g, me, p, q, a, b))
  <2>1. SoundOutcomes(Done(g)) /\ SoundOutcomes(Refused(g))
        /\ \A S : SoundOutcomes(Done(PutAll(g, me, S))) /\ SoundOutcomes(Refused(PutAll(g, me, S)))
    BY Answers, Writes
  <2> QED
    BY <2>1 DEF VersionBump, SoundOutcomes
<1>4. SoundOutcomes(ReleaseNotes(g, me, p, a))
  BY Answers, Writes DEF ReleaseNotes
<1> QED
  BY <1>1, <1>2, <1>3, <1>4, Answers DEF InitProject, GenerateComponent, GenerateRoute

(* Every tool that awaits nothing. *)
LEMMA OutcomesSound ==
    ASSUME NEW g, Sound(g), NEW me \in Tasks, NEW p \in Paths, NEW q \in Paths,
           NEW tool \in Tools \ (ProcessTools \cup NetworkTools)
    PROVE  SoundOutcomes(Outcomes(tool, g, me, p, q))
<1> SUFFICES ASSUME NEW r \in Outcomes(tool, g, me, p, q) PROVE Sound(r.fs)
  BY DEF SoundOutcomes
<1>1. CASE tool = "write_file"
  <2>1. PICK a \in BOOLEAN, b \in BOOLEAN : r \in WriteFile(g, me, p, a)
    BY <1>1 DEF Outcomes
  <2> QED
    BY <2>1, Edits DEF SoundOutcomes
<1>2. CASE tool = "append_file"
  BY <1>2, Edits DEF Outcomes, SoundOutcomes
<1>3. CASE tool = "replace_in_file"
  <2>1. PICK a \in BOOLEAN, b \in BOOLEAN : r \in ReplaceInFile(g, me, p, a)
    BY <1>3 DEF Outcomes
  <2> QED
    BY <2>1, Edits DEF SoundOutcomes
<1>4. CASE tool = "edit_file"
  <2>1. PICK a \in BOOLEAN, b \in BOOLEAN : r \in EditFile(g, me, p, a)
    BY <1>4 DEF Outcomes
  <2> QED
    BY <2>1, Edits DEF SoundOutcomes
<1>5. CASE tool \in {"insert_at_line", "delete_file", "create_directory", "rename_or_move"}
  BY <1>5, Edits DEF Outcomes, SoundOutcomes
<1>6. CASE tool = "json_edit"
  <2>1. PICK a \in BOOLEAN, b \in BOOLEAN : r \in JsonEdit(g, me, p, a)
    BY <1>6 DEF Outcomes
  <2> QED
    BY <2>1, Edits DEF SoundOutcomes
<1>7. CASE tool = "yaml_edit"
  <2>1. PICK a \in BOOLEAN, b \in BOOLEAN : r \in YamlEdit(g, me, p, a)
    BY <1>7 DEF Outcomes
  <2> QED
    BY <2>1, Edits DEF SoundOutcomes
<1>8. CASE tool = "delete_range"
  <2>1. PICK a \in BOOLEAN, b \in BOOLEAN : r \in DeleteRange(g, me, p, a)
    BY <1>8 DEF Outcomes
  <2> QED
    BY <2>1, Edits DEF SoundOutcomes
<1>9. CASE tool = "patch_file"
  <2>1. PICK a \in BOOLEAN, b \in BOOLEAN : r \in PatchFile(g, me, p, a, b)
    BY <1>9 DEF Outcomes
  <2> QED
    BY <2>1, Edits DEF SoundOutcomes
<1>10. CASE tool = "generate_component"
  <2>1. PICK a \in BOOLEAN, b \in BOOLEAN : r \in GenerateComponent(g, me, p, a, b)
    BY <1>10 DEF Outcomes
  <2> QED
    BY <2>1, Scaffolds DEF SoundOutcomes
<1>11. CASE tool = "generate_route"
  <2>1. PICK a \in BOOLEAN, b \in BOOLEAN : r \in GenerateRoute(g, me, p, q, a, b)
    BY <1>11 DEF Outcomes
  <2> QED
    BY <2>1, Scaffolds DEF SoundOutcomes
<1>12. CASE tool = "apply_wiring"
  <2>1. PICK a \in BOOLEAN, b \in BOOLEAN : r \in ApplyWiring(g, me, {p, q}, a)
    BY <1>12 DEF Outcomes
  <2> QED
    BY <2>1, Scaffolds DEF SoundOutcomes
<1>13. CASE tool = "version_bump"
  <2>1. PICK a \in BOOLEAN, b \in BOOLEAN : r \in VersionBump(g, me, p, q, a, b)
    BY <1>13 DEF Outcomes
  <2> QED
    BY <2>1, Scaffolds DEF SoundOutcomes
<1>14. CASE tool \in ReadTools
  BY <1>14, Reads DEF ReadTools, Outcomes, SoundOutcomes
<1>15. CASE tool \in {"generate_report", "generate_chart", "generate_svg_asset", "generate_hyperframes_scene"}
  BY <1>15, Renders DEF Outcomes, SoundOutcomes
<1> QED
  BY <1>1, <1>2, <1>3, <1>4, <1>5, <1>6, <1>7, <1>8, <1>9, <1>10, <1>11, <1>12, <1>13, <1>14, <1>15
     DEF Tools, EditTools, MUTATING_TOOLS, Generators, ShellTools, ProcessTools, NetworkTools

-----------------------------------------------------------------------------
(* The inductive invariant: the files are sound, calls under way have      *)
(* sound arguments and a project under installation remembers sound files, *)
(* and each snapshot is of what the file was before the task's first call  *)
(* on it, unless torn, unread or astray.                                   *)

UnderWay == {"hooks", "announcing", "waiting", "expired", "queued", "running", "reporting"}
Handed   == UnderWay \ {"reporting"}

CallsInv ==
    /\ DOMAIN pc = Calls /\ DOMAIN args = Calls /\ DOMAIN work = Calls
    /\ \A c \in Calls :
          /\ pc[c] \in Handed => args[c] \in Requests
          /\ {"tool", "left", "undo"} \subseteq DOMAIN work[c]
          /\ pc[c] = "queued" => work[c].tool \in Tools
          /\ pc[c] = "running" /\ work[c].tool = "init_project" => Sound(work[c].undo)

Records == [Tasks -> [Paths -> Contents \cup {NoSnapshot, Astray}]]

OnRecord(s, b) == \/ s = NoSnapshot /\ b = NoSnapshot
                  \/ b = Astray
                  \/ s \in {b, Torn, Unread} /\ b \in Contents
                  \/ s = File(Altered) /\ b \in Contents /\ b.kind = "file"

RecordInv ==
    /\ snaps \in Snapshots /\ before \in Records
    /\ \A t \in Tasks, p \in Paths : OnRecord(snaps[t][p], before[t][p])

RollbackInv == Sound(fs) /\ CallsInv /\ RecordInv

(* What no step but a rollback does: to forget the snapshots of a task. *)
SnapshotsStay == \A t \in Tasks : HasSnapshots(snaps, t) => HasSnapshots(snaps', t)

Marks == {NoSnapshot, Torn, Unread, Astray}

LEMMA MarksDiffer == /\ NoSnapshot \notin {Torn, Unread, Astray} /\ Astray \notin {Torn, Unread}
                     /\ \A x \in Marks : x \notin Contents
                     /\ File(Altered) \in Contents
  BY Entries DEF Marks, NoSnapshot, Torn, Unread, Astray, Kinds

(* The workspace is one of the directories. *)
LEMMA NextRoot == root \in Roots /\ [Next]_vars => root' \in Roots
  BY CallsAssumption
     DEF Next, Advance, Begin, Evaluate, RegisterApproval, Reply, Resume, Expire, DenyExpired, Enter,
         ProcessEnds, TimeOut, Finish, Report, Cancel, AddRule, DeleteRule, SetRoot, Close, Rollback,
         StartAnew, Restart, CrashInSnapshot, admin, vars

(* In each of them a name is that of a path. *)
LEMMA Resolves == \A dir \in Roots, n \in Names : Resolve(dir, n) \in Paths
  BY CallsAssumption DEF Names, Resolve

(* A step that leaves the snapshots alone. *)
LEMMA Untouched == ASSUME RecordInv, snaps' = snaps, before' = before PROVE RecordInv' /\ SnapshotsStay
  BY DEF RecordInv, SnapshotsStay

(* What a snapshot can hold. *)
LEMMA ReadingsTyped ==
    ASSUME Sound(fs), NEW p \in Paths, NEW x \in Readings(fs, p)
    PROVE  x \in Contents \cup {Unread} /\ OnRecord(x, fs[p])
<1>1. fs[p] \in Contents /\ fs[p].kind \in Kinds /\ (fs[p].kind = "none" => fs[p] = Nothing)
  BY Entries DEF Sound, FileSystems
<1> QED
  BY <1>1, MarksDiffer DEF Readings, OnRecord, Exists, IsDir, Kinds

(* A step that takes some, of t, where there are none. *)
LEMMA Recorded ==
    ASSUME RecordInv, NEW t \in Tasks, NEW S, NEW W,
           snaps' \in Snapshots, before' \in Records, Sound(fs),
           \A u \in Tasks, p \in Paths :
              \/ snaps'[u][p] = snaps[u][p]
              \/ /\ u = t /\ p \in S /\ snaps[u][p] = NoSnapshot
                 /\ snaps'[u][p] \in Readings(fs, p) \cup {Torn},
           \A u \in Tasks \ {t} : before'[u] = before[u],
           \A p \in Paths : before'[t][p] = IF before[t][p] # NoSnapshot \/ p \notin S \cup W THEN before[t][p]
                                          ELSE IF p \in S \cap W /\ snaps'[t][p] # NoSnapshot THEN fs[p]
                                          ELSE Astray
    PROVE  RecordInv' /\ SnapshotsStay
<1>1. SnapshotsStay
  BY DEF SnapshotsStay, HasSnapshots
<1>2. ASSUME NEW u \in Tasks, NEW p \in Paths PROVE OnRecord(snaps'[u][p], before'[u][p])
  <2>1. OnRecord(snaps[u][p], before[u][p]) /\ fs[p] \in Contents
    BY DEF RecordInv, Sound, FileSystems
  <2>2. CASE u # t \/ p \notin S \cup W
    BY <2>1, <2>2
  <2>3. CASE u = t /\ before[t][p] # NoSnapshot
    BY <2>1, <2>3, MarksDiffer DEF OnRecord, Marks
  <2>4. CASE u = t /\ before[t][p] = NoSnapshot /\ p \in S \cap W /\ snaps'[t][p] # NoSnapshot
    <3>1. snaps[t][p] = NoSnapshot
      BY <2>1, <2>4, MarksDiffer DEF OnRecord, Marks
    <3>2. snaps'[t][p] \in Readings(fs, p) \cup {Torn} /\ before'[t][p] = fs[p]
      BY <2>4, <3>1
    <3> QED
      BY <2>1, <2>4, <3>2, ReadingsTyped DEF OnRecord
  <2>5. CASE u = t /\ before'[t][p] = Astray
    BY <2>5 DEF OnRecord
  <2> QED
    BY <2>2, <2>3, <2>4, <2>5
<1> QED
  BY <1>1, <1>2 DEF RecordInv

(* A step of one call. *)
LEMMA OneCall ==
    ASSUME CallsInv, NEW c \in Calls, DOMAIN pc' = Calls, DOMAIN args' = Calls, DOMAIN work' = Calls,
           \A d \in Calls \ {c} : pc'[d] = pc[d] /\ args'[d] = args[d] /\ work'[d] = work[d],
           pc'[c] \in Handed => args'[c] \in Requests,
           {"tool", "left", "undo"} \subseteq DOMAIN work'[c],
           pc'[c] = "queued" => work'[c].tool \in Tools,
           pc'[c] = "running" /\ work'[c].tool = "init_project" => Sound(work'[c].undo)
    PROVE  CallsInv'
  BY DEF CallsInv

LEMMA Cleared == /\ {"tool", "left", "undo"} \subseteq DOMAIN NoWork
                 /\ NoWork.tool = "none"
                 /\ \A t : {"tool", "left", "undo"} \subseteq DOMAIN [NoWork EXCEPT !.tool = t]
  BY DEF NoWork

LEMMA Left == ASSUME CallsInv, NEW c \in Calls, pc[c] \in UnderWay, LeaveHandler(c) PROVE CallsInv'
  BY Cleared, OneCall DEF LeaveHandler, CallsInv, UnderWay, Handed

LEMMA Moved == ASSUME CallsInv, NEW c \in Calls, NEW where, where \notin {"queued", "running"},
                      pc[c] \in Handed \/ where = "over", GoTo(c, where)
               PROVE  CallsInv'
  BY Cleared, OneCall DEF GoTo, CallsInv, UnderWay, Handed

(* What a call in its handler works on. *)
LEMMA InHand ==
    ASSUME CallsInv, root \in Roots, NEW c \in Calls, pc[c] \in Handed
    PROVE  /\ args[c] \in Requests /\ args[c].task \in Tasks
           /\ Resolve(root, args[c].path) \in Paths /\ Resolve(root, args[c].dest) \in Paths
  BY Resolves DEF CallsInv, Requests

LEMMA NotesSound ==
    ASSUME Sound(fs), CallsInv, root \in Roots, NEW c \in Calls, pc[c] \in Handed, NEW g \in NotesWritten(c)
    PROVE  Sound(g)
<1>1. PICK dryRun \in BOOLEAN :
         \E r \in ReleaseNotes(fs, args[c].task, Resolve(root, args[c].path), dryRun) : g = r.fs
  BY DEF NotesWritten
<1> QED
  BY <1>1, InHand, Scaffolds DEF SoundOutcomes

(* The handler of a call, from its first step on. *)
LEMMA Handled ==
    ASSUME Sound(fs), CallsInv, root \in Roots, NEW c \in Calls, pc[c] \in Handed,
           NEW tool \in Tools, Handle(c, tool)
    PROVE  Sound(fs') /\ CallsInv'
<1> DEFINE me == args[c].task
           p == Resolve(root, args[c].path)
           q == Resolve(root, args[c].dest)
<1>0. me \in Tasks /\ p \in Paths /\ q \in Paths /\ args[c] \in Requests /\ pc[c] \in UnderWay
  BY InHand DEF Handed
<1>1. \A b \in BOOLEAN : SoundOutcomes(Project(c, b))
  BY <1>0, Scaffolds DEF Project
<1>2. CASE tool \notin ProcessTools \cup NetworkTools /\ RunThrough(c, tool)
  <2>1. Sound(fs')
    BY <1>0, <1>2, OutcomesSound DEF RunThrough, SoundOutcomes
  <2> QED
    BY <1>0, <1>2, <2>1, Left DEF RunThrough
<1>3. CASE Refuse(c, tool)
  <2>1. ASSUME tool = "init_project" PROVE Sound(fs')
    <3>1. fs' \in ProjectRefused(c)
      BY <1>3, <2>1 DEF Refuse
    <3>2. PICK b \in BOOLEAN : \E r \in Project(c, b) :
                fs' = r.fs \/ fs' \in UndoScaffold(r.fs, ProjectScaffold(p, q), fs)
      BY <3>1 DEF ProjectRefused
    <3>3. PICK r \in Project(c, b) : fs' = r.fs \/ fs' \in UndoScaffold(r.fs, ProjectScaffold(p, q), fs)
      BY <3>2
    <3>4. Sound(r.fs)
      BY <1>1, <3>3 DEF SoundOutcomes
    <3> HIDE DEF p, q
    <3> QED
      BY <3>3, <3>4, Undone
  <2>2. ASSUME tool = "generate_release_notes" PROVE Sound(fs')
    <3>1. fs' \in {fs} \cup NotesWritten(c)
      BY <1>3, <2>2 DEF Refuse
    <3> QED
      BY <3>1, NotesSound
  <2>3. ASSUME tool \notin {"init_project", "generate_release_notes"} PROVE Sound(fs')
    <3>1. fs' \in {fs}
      BY <1>3, <2>3 DEF Refuse
    <3> QED
      BY <3>1
  <2>4. Sound(fs')
    BY <2>1, <2>2, <2>3
  <2> QED
    BY <1>0, <1>3, <2>4, Left DEF Refuse
<1>4. CASE RunUntilAwait(c, tool)
  <2>1. Sound(fs')
    BY <1>1, <1>4 DEF RunUntilAwait, SoundOutcomes
  <2>2. PICK left : /\ pc' = [pc EXCEPT ![c] = "running"]
                    /\ args' = IF tool = "generate_release_notes" THEN args
                               ELSE [args EXCEPT ![c].path = Resolve(root, @), ![c].dest = Resolve(root, @)]
                    /\ work' = [work EXCEPT ![c] = [tool |-> tool, left |-> left,
                                    undo |-> IF tool = "init_project" THEN fs ELSE <<>>]]
    BY <1>4 DEF RunUntilAwait
  <2>3. DOMAIN args' = Calls /\ args'[c] \in Requests /\ \A d \in Calls \ {c} : args'[d] = args[d]
    BY <1>0, <2>2 DEF CallsInv, Requests, Names
  <2>4. CallsInv'
    BY <2>2, <2>3, OneCall DEF CallsInv
  <2> QED
    BY <2>1, <2>4
<1> QED
  BY <1>2, <1>3, <1>4 DEF Handle

LEMMA Snapshotted ==
    ASSUME Sound(fs), CallsInv, RecordInv, root \in Roots, NEW c \in Calls, pc[c] \in Handed,
           NEW tool, TakeSnapshots(c, tool)
    PROVE  RecordInv' /\ SnapshotsStay
<1> DEFINE t == args[c].task
           W == WrittenPaths(tool, args[c])
<1>0. \A dir \in Roots : Resolve(dir, args[c].path) \in Paths
  BY InHand, Resolves DEF Requests
<1>1. t \in Tasks
  BY InHand
<1>2. PICK S \in SnapshotPaths(tool, args[c]) :
         /\ snaps' \in {snaps} \cup UNION {Snapshot(snaps, fs, t, s) \cup {SnapshotTorn(snaps, t, s)} : s \in S}
         /\ before' = [before EXCEPT ![t] =
               [p \in Paths |-> IF @[p] # NoSnapshot \/ p \notin S \cup W THEN @[p]
                                ELSE IF p \in S \cap W /\ snaps'[t][p] # NoSnapshot THEN fs[p]
                                ELSE Astray]]
  BY DEF TakeSnapshots
<1>3. S \subseteq Paths
  BY <1>0, CallsAssumption DEF SnapshotPaths
<1> HIDE DEF W, t
<1>4. \/ snaps' = snaps
      \/ \E s \in S : /\ snaps[t][s] = NoSnapshot
                      /\ \E x \in Readings(fs, s) \cup {Torn} : snaps' = [snaps EXCEPT ![t][s] = x]
  BY <1>2 DEF Snapshot, SnapshotTorn
<1>5. /\ snaps' \in Snapshots
      /\ \A u \in Tasks, p \in Paths :
            \/ snaps'[u][p] = snaps[u][p]
            \/ /\ u = t /\ p \in S /\ snaps[u][p] = NoSnapshot
               /\ snaps'[u][p] \in Readings(fs, p) \cup {Torn}
  <2>1. CASE snaps' = snaps
    BY <2>1 DEF RecordInv
  <2>2. ASSUME NEW s \in S, snaps[t][s] = NoSnapshot, NEW x \in Readings(fs, s) \cup {Torn},
               snaps' = [snaps EXCEPT ![t][s] = x]
        PROVE  /\ snaps' \in Snapshots
               /\ \A u \in Tasks, p \in Paths :
                     \/ snaps'[u][p] = snaps[u][p]
                     \/ /\ u = t /\ p \in S /\ snaps[u][p] = NoSnapshot
                        /\ snaps'[u][p] \in Readings(fs, p) \cup {Torn}
    <3> DEFINE Held == Contents \cup {NoSnapshot, Torn, Unread}
    <3>1. x \in Held /\ s \in Paths /\ t \in Tasks
      BY <1>1, <1>3, <2>2, ReadingsTyped DEF t
    <3>2. snaps \in [Tasks -> [Paths -> Held]]
      BY DEF RecordInv, Snapshots
    <3> HIDE DEF Held
    <3>3. snaps' \in [Tasks -> [Paths -> Held]]
      BY <2>2, <3>1, <3>2
    <3>4. snaps' \in Snapshots
      BY <3>3 DEF Held, Snapshots
    <3>5. \A u \in Tasks, p \in Paths : snaps'[u][p] = IF u = t /\ p = s THEN x ELSE snaps[u][p]
      BY <2>2, <3>1, <3>2
    <3> QED
      BY <2>2, <3>4, <3>5
  <2> QED
    BY <1>4, <2>1, <2>2
<1>6. /\ before' \in Records /\ \A u \in Tasks \ {t} : before'[u] = before[u]
      /\ \A p \in Paths : before'[t][p] = IF before[t][p] # NoSnapshot \/ p \notin S \cup W THEN before[t][p]
                                         ELSE IF p \in S \cap W /\ snaps'[t][p] # NoSnapshot THEN fs[p]
                                         ELSE Astray
  <2> DEFINE held == [p \in Paths |->
                        IF before[t][p] # NoSnapshot \/ p \notin S \cup W THEN before[t][p]
                        ELSE IF p \in S \cap W /\ snaps'[t][p] # NoSnapshot THEN fs[p] ELSE Astray]
             Kept == Contents \cup {NoSnapshot, Astray}
  <2>1. before' = [before EXCEPT ![t] = held] /\ t \in Tasks
    BY <1>1, <1>2 DEF t
  <2>2. before \in [Tasks -> [Paths -> Kept]]
    BY DEF RecordInv, Records
  <2>3. held \in [Paths -> Kept]
    <3>1. \A p \in Paths : fs[p] \in Kept
      BY DEF Sound, FileSystems
    <3>2. Astray \in Kept
      OBVIOUS
    <3> HIDE DEF Kept
    <3> QED
      BY <2>1, <2>2, <3>1, <3>2
  <2>4. /\ before' \in [Tasks -> [Paths -> Kept]] /\ before'[t] = held
        /\ \A u \in Tasks \ {t} : before'[u] = before[u]
    <3> HIDE DEF held, Kept
    <3> QED
      BY <2>1, <2>2, <2>3
  <2> QED
    BY <2>4 DEF Records
<1> QED
  BY <1>1, <1>5, <1>6, Recorded

LEMMA Dispatched ==
    ASSUME RollbackInv, root \in Roots, NEW c \in Calls, pc[c] \in Handed, Dispatch(c)
    PROVE  RollbackInv' /\ SnapshotsStay
<1>1. PICK tool \in Tools :
         /\ TakeSnapshots(c, tool)
         /\ \/ /\ pc' = [pc EXCEPT ![c] = "queued"]
               /\ work' = [work EXCEPT ![c] = [NoWork EXCEPT !.tool = tool]]
               /\ fs' = fs /\ args' = args
            \/ Handle(c, tool)
  BY DEF Dispatch
<1>2. RecordInv' /\ SnapshotsStay
  BY <1>1, Snapshotted DEF RollbackInv
<1>3. CASE Handle(c, tool)
  BY <1>2, <1>3, Handled DEF RollbackInv
<1>4. CASE /\ pc' = [pc EXCEPT ![c] = "queued"]
           /\ work' = [work EXCEPT ![c] = [NoWork EXCEPT !.tool = tool]]
           /\ fs' = fs /\ args' = args
  <2>1. CallsInv'
    BY <1>4, Cleared, OneCall DEF RollbackInv, CallsInv
  <2> QED
    BY <1>2, <1>4, <2>1 DEF RollbackInv
<1> QED
  BY <1>1, <1>3, <1>4

-----------------------------------------------------------------------------
(* Every step of a call and of the server.                                 *)

LEMMA Finished ==
    ASSUME RollbackInv, root \in Roots, NEW c \in Calls, Finish(c) PROVE RollbackInv' /\ SnapshotsStay
<1> DEFINE p == Resolve(root, args[c].path)
           q == Resolve(root, args[c].dest)
<1>0. /\ pc[c] = "running" /\ pc[c] \in UnderWay /\ pc[c] \in Handed /\ snaps' = snaps /\ before' = before
      /\ args[c].task \in Tasks /\ p \in Paths
  BY InHand DEF Finish, RollbackInv, UnderWay, Handed
<1>1. RecordInv' /\ SnapshotsStay
  BY <1>0, Untouched DEF RollbackInv
<1>2. CASE /\ work' = [work EXCEPT ![c].left = @ - 1]
           /\ fs' = fs /\ pc' = pc /\ args' = args
  <2>1. CallsInv'
    BY <1>2 DEF RollbackInv, CallsInv
  <2> QED
    BY <1>1, <1>2, <2>1 DEF RollbackInv
<1>3. ASSUME NEW good \in BOOLEAN, fs' \in AfterAwait(c, good), LeaveHandler(c)
      PROVE  RollbackInv' /\ SnapshotsStay
  <2>1. ASSUME work[c].tool = "init_project" PROVE Sound(fs')
    <3>1. fs' = fs \/ fs' \in UndoScaffold(fs, ProjectScaffold(p, q), work[c].undo)
      BY <1>3, <2>1 DEF AfterAwait
    <3>2. Sound(fs) /\ Sound(work[c].undo)
      BY <1>0, <2>1 DEF RollbackInv, CallsInv
    <3> QED
      BY <3>1, <3>2, Undone
  <2>2. ASSUME work[c].tool = "generate_remotion_video" PROVE Sound(fs')
    <3>1. SoundOutcomes(RenderRemotion(fs, args[c].task, p, good))
      BY <1>0, Renders DEF RollbackInv
    <3> QED
      BY <1>3, <2>2, <3>1 DEF AfterAwait, SoundOutcomes
  <2>3. ASSUME work[c].tool = "generate_release_notes" PROVE Sound(fs')
    BY <1>0, <1>3, <2>3, NotesSound DEF AfterAwait, RollbackInv
  <2>4. ASSUME work[c].tool \notin {"init_project", "generate_remotion_video", "generate_release_notes"}
        PROVE  Sound(fs')
    BY <1>3, <2>4 DEF AfterAwait, RollbackInv
  <2>5. Sound(fs')
    BY <2>1, <2>2, <2>3, <2>4
  <2> QED
    BY <1>0, <1>1, <1>3, <2>5, Left DEF RollbackInv
<1> QED
  BY <1>2, <1>3 DEF Finish, StopAwaiting

LEMMA Advanced ==
    ASSUME RollbackInv, root \in Roots, NEW c \in Calls, Advance(c) PROVE RollbackInv' /\ SnapshotsStay
<1>1. ASSUME NEW where, where \notin {"queued", "running"}, pc[c] \in Handed \/ where = "over", GoTo(c, where)
      PROVE  RollbackInv' /\ SnapshotsStay
  BY <1>1, Moved, Untouched DEF GoTo, RollbackInv
<1>2. CASE Evaluate(c)
  BY <1>1, <1>2, EvaluateEffect, Dispatched DEF UnderWay, Handed
<1>3. CASE RegisterApproval(c)
  <2>1. CallsInv'
    BY <1>3, OneCall DEF RegisterApproval, RollbackInv, CallsInv, UnderWay, Handed
  <2> QED
    BY <1>3, <2>1, Untouched DEF RegisterApproval, store, RollbackInv
<1>4. CASE Resume(c)
  BY <1>1, <1>4, Dispatched DEF Resume, UnderWay, Handed
<1>5. CASE Expire(c) \/ DenyExpired(c) \/ Report(c)
  BY <1>1, <1>5 DEF Expire, DenyExpired, Report, UnderWay, Handed
<1>6. CASE Enter(c)
  <2>1. work[c].tool \in Tools /\ pc[c] \in Handed
    BY <1>6 DEF Enter, RollbackInv, CallsInv, UnderWay, Handed
  <2> QED
    BY <1>6, <2>1, Handled, Untouched DEF Enter, RollbackInv
<1>7. CASE TimeOut(c)
  <2>1. pc[c] \in Handed /\ pc[c] \in UnderWay
    BY <1>7 DEF TimeOut, UnderWay, Handed
  <2>2. Sound(fs')
    BY <1>7, <2>1, NotesSound DEF TimeOut, RollbackInv
  <2> QED
    BY <1>7, <2>1, <2>2, Left, Untouched DEF TimeOut, StopAwaiting, RollbackInv
<1>8. CASE Finish(c)
  BY <1>8, Finished
<1> QED
  BY <1>2, <1>3, <1>4, <1>5, <1>6, <1>7, <1>8 DEF Advance

LEMMA Anew == ASSUME RollbackInv, StartAnew PROVE Sound(fs') /\ CallsInv'
  BY Cleared DEF StartAnew, RollbackInv, CallsInv, UnderWay, Handed

LEMMA Crashed ==
    ASSUME RollbackInv, NEW c \in Calls, CrashInSnapshot(c) PROVE RollbackInv' /\ SnapshotsStay
<1> DEFINE t == args[c].task
           p == Resolve(Cwd, args[c].path)
<1>1. /\ t \in Tasks /\ p \in Paths
      /\ snaps' = SnapshotTorn(snaps, t, p)
      /\ before' = IF before[t][p] # NoSnapshot THEN before ELSE [before EXCEPT ![t][p] = Astray]
      /\ StartAnew
  BY Resolves, CallsAssumption
     DEF CrashInSnapshot, MayBeAllowed, RollbackInv, CallsInv, Requests, UnderWay, Handed
<1> HIDE DEF t, p
<1>2. snaps' \in Snapshots /\ before' \in Records
  <2> DEFINE Held == Contents \cup {NoSnapshot, Torn, Unread}
             Kept == Contents \cup {NoSnapshot, Astray}
  <2>1. /\ snaps \in [Tasks -> [Paths -> Held]] /\ Torn \in Held
        /\ before \in [Tasks -> [Paths -> Kept]] /\ Astray \in Kept
    BY DEF RollbackInv, RecordInv, Snapshots, Records
  <2> HIDE DEF Held, Kept
  <2>2. snaps' \in [Tasks -> [Paths -> Held]] /\ before' \in [Tasks -> [Paths -> Kept]]
    BY <1>1, <2>1 DEF SnapshotTorn
  <2> QED
    BY <2>2 DEF Held, Kept, Snapshots, Records
<1>3. \A u \in Tasks, r \in Paths :
         \/ snaps'[u][r] = snaps[u][r]
         \/ u = t /\ r \in {p} /\ snaps[u][r] = NoSnapshot /\ snaps'[u][r] \in Readings(fs, r) \cup {Torn}
  BY <1>1 DEF SnapshotTorn, RollbackInv, RecordInv, Snapshots
<1>4. /\ \A u \in Tasks \ {t} : before'[u] = before[u]
      /\ \A r \in Paths : before'[t][r] = IF before[t][r] # NoSnapshot \/ r \notin {p} \cup {} THEN before[t][r]
                                         ELSE IF r \in {p} \cap {} /\ snaps'[t][r] # NoSnapshot THEN fs[r]
                                         ELSE Astray
  BY <1>1 DEF RollbackInv, RecordInv, Records
<1>5. RecordInv' /\ SnapshotsStay
  <2> DEFINE S == {p}
             W == {}
  <2>1. \A r \in Paths : before'[t][r] = IF before[t][r] # NoSnapshot \/ r \notin S \cup W THEN before[t][r]
                                         ELSE IF r \in S \cap W /\ snaps'[t][r] # NoSnapshot THEN fs[r]
                                         ELSE Astray
    BY <1>4
  <2>2. \A u \in Tasks, r \in Paths :
           \/ snaps'[u][r] = snaps[u][r]
           \/ u = t /\ r \in S /\ snaps[u][r] = NoSnapshot /\ snaps'[u][r] \in Readings(fs, r) \cup {Torn}
    BY <1>3
  <2>3. RecordInv /\ Sound(fs) /\ t \in Tasks
    BY <1>1 DEF RollbackInv
  <2>4. \A u \in Tasks \ {t} : before'[u] = before[u]
    BY <1>4
  <2> HIDE DEF S, W
  <2> QED
    BY <1>2, <2>1, <2>2, <2>3, <2>4, Recorded
<1> QED
  BY <1>1, <1>5, Anew DEF RollbackInv

(* What the property says of a file of the task. *)
PutBack(t, p) ==
    IF snaps[t][p] \in {NoSnapshot, Torn, Unread} \/ IsDir(fs, p)
    THEN fs'[p] = fs[p]
    ELSE \/ before[t][p] = Astray
         \/ fs'[p] = before[t][p]
         \/ IsFile(before[t], p) /\ fs'[p] = File(Altered)

(* A rollback of u keeps the invariant, restores what the property says,   *)
(* and leaves the snapshots of other tasks alone.                          *)
LEMMA RolledBack ==
    ASSUME RollbackInv, NEW u \in Tasks, Rollback(u)
    PROVE  /\ RollbackInv'
           /\ \A t \in Tasks \ {u} : HasSnapshots(snaps, t) => HasSnapshots(snaps', t)
           /\ \A p \in Paths : PutBack(u, p)
<1>1. /\ fs' = Restore(snaps, fs, u) /\ snaps' = [snaps EXCEPT ![u] = NoSnapshots]
      /\ before' = [before EXCEPT ![u] = NoSnapshots]
      /\ pc' = pc /\ args' = args /\ work' = work
  BY DEF Rollback, Discard
<1>2. ASSUME NEW p \in Paths
      PROVE  fs'[p] = IF snaps[u][p] \in {NoSnapshot, Torn, Unread} \/ IsDir(fs, p) THEN fs[p] ELSE snaps[u][p]
  BY <1>1 DEF Restore, Restored
<1>3. ASSUME NEW p \in Paths PROVE PutBack(u, p)
  <2>1. OnRecord(snaps[u][p], before[u][p])
    BY DEF RollbackInv, RecordInv
  <2> QED
    BY <1>2, <2>1 DEF PutBack, OnRecord, IsFile
<1>4. Sound(fs')
  <2>1. fs' = [p \in Paths |-> fs'[p]]
    BY <1>1 DEF Restore
  <2>2. ASSUME NEW p \in Paths PROVE fs'[p] \in Contents
    <3>1. fs[p] \in Contents /\ snaps[u][p] \in Contents \cup {NoSnapshot, Torn, Unread}
      BY DEF RollbackInv, Sound, FileSystems, RecordInv, Snapshots
    <3> QED
      BY <1>2, <3>1
  <2> QED
    BY <2>1, <2>2 DEF Sound, FileSystems
<1>5. CallsInv'
  BY <1>1 DEF RollbackInv, CallsInv
<1>6. RecordInv'
  <2>1. /\ NoSnapshots \in [Paths -> Contents \cup {NoSnapshot, Torn, Unread}]
        /\ NoSnapshots \in [Paths -> Contents \cup {NoSnapshot, Astray}]
    BY DEF NoSnapshots
  <2>2. snaps' \in Snapshots /\ before' \in Records
    BY <1>1, <2>1 DEF RollbackInv, RecordInv, Snapshots, Records
  <2>3. ASSUME NEW t \in Tasks, NEW p \in Paths PROVE OnRecord(snaps'[t][p], before'[t][p])
    <3>1. CASE t = u
      BY <1>1, <3>1 DEF RollbackInv, RecordInv, Snapshots, Records, OnRecord, NoSnapshots
    <3>2. CASE t # u
      <4>1. snaps'[t] = snaps[t] /\ before'[t] = before[t]
        BY <1>1, <3>2 DEF RollbackInv, RecordInv, Snapshots, Records
      <4> QED
        BY <4>1 DEF RollbackInv, RecordInv
    <3> QED
      BY <3>1, <3>2
  <2> QED
    BY <2>2, <2>3 DEF RecordInv
<1>7. \A t \in Tasks \ {u} : snaps'[t] = snaps[t]
  BY <1>1 DEF RollbackInv, RecordInv, Snapshots
<1> QED
  BY <1>3, <1>4, <1>5, <1>6, <1>7 DEF RollbackInv, HasSnapshots

RollbackStep ==
    \A t \in Tasks : HasSnapshots(snaps, t) /\ ~HasSnapshots(snaps', t) => \A p \in Paths : PutBack(t, p)

LEMMA StepRollsBack ==
    ASSUME RollbackInv, root \in Roots, [Next]_vars PROVE RollbackInv' /\ RollbackStep
<1>1. ASSUME RollbackInv' /\ SnapshotsStay PROVE RollbackInv' /\ RollbackStep
  BY <1>1 DEF SnapshotsStay, RollbackStep
<1>2. ASSUME NEW c \in Calls, Begin(c) PROVE RollbackInv' /\ SnapshotsStay
  <2>1. PICK x \in Arguments : args' = [args EXCEPT ![c] = x] /\ pc' = [pc EXCEPT ![c] = "hooks"]
    BY <1>2 DEF Begin
  <2>2. x \in Requests
    BY CallsAssumption
  <2>3. CallsInv'
    BY <1>2, <2>1, <2>2, OneCall DEF Begin, RollbackInv, CallsInv
  <2> QED
    BY <1>2, <2>3, Untouched DEF Begin, store, RollbackInv
<1>3. ASSUME NEW c \in Calls, Cancel(c) PROVE RollbackInv' /\ SnapshotsStay
  <2>1. CallsInv'
    BY <1>3, Cleared, OneCall DEF Cancel, RollbackInv, CallsInv, UnderWay, Handed
  <2> QED
    BY <1>3, <2>1, Untouched DEF Cancel, store, RollbackInv
<1>4. ASSUME fs' = fs, snaps' = snaps, before' = before, pc' = pc, args' = args, work' = work
      PROVE  RollbackInv' /\ SnapshotsStay
  <2>1. CallsInv'
    BY <1>4 DEF RollbackInv, CallsInv
  <2> QED
    BY <1>4, <2>1, Untouched DEF RollbackInv
<1>5. ASSUME NEW c \in Calls, Reply(c) \/ ProcessEnds(c) PROVE RollbackInv' /\ SnapshotsStay
  BY <1>4, <1>5 DEF Reply, ProcessEnds, store
<1>6. ASSUME NEW t \in Tasks, Close(t) PROVE RollbackInv' /\ SnapshotsStay
  BY <1>4, <1>6 DEF Close, store
<1>7. ASSUME AddRule \/ DeleteRule \/ SetRoot PROVE RollbackInv' /\ SnapshotsStay
  BY <1>4, <1>7 DEF AddRule, DeleteRule, SetRoot, store
<1>8. ASSUME UNCHANGED vars PROVE RollbackInv' /\ SnapshotsStay
  BY <1>4, <1>8 DEF vars
<1>9. ASSUME Restart PROVE RollbackInv' /\ SnapshotsStay
  BY <1>9, Anew, Untouched DEF Restart, RollbackInv
<1>10. ASSUME NEW u \in Tasks, Rollback(u) PROVE RollbackInv' /\ RollbackStep
  BY <1>10, RolledBack DEF RollbackStep
<1> QED
  BY <1>1, <1>2, <1>3, <1>5, <1>6, <1>7, <1>8, <1>9, <1>10, Advanced, Crashed DEF Next

LEMMA InitRollback == Init => RollbackInv
<1>1. Init => Sound(fs)
  BY Entries DEF Init, Sound, FileSystems
<1>2. Init => CallsInv
  BY Cleared DEF Init, CallsInv, UnderWay, Handed
<1>3. Init => RecordInv
  <2>1. /\ NoSnapshots \in [Paths -> Contents \cup {NoSnapshot, Torn, Unread}]
        /\ NoSnapshots \in [Paths -> Contents \cup {NoSnapshot, Astray}]
    BY DEF NoSnapshots
  <2> QED
    BY <2>1 DEF Init, RecordInv, Snapshots, Records, OnRecord, NoSnapshots
<1> QED
  BY <1>1, <1>2, <1>3 DEF RollbackInv

(* Rolling a task back puts back what was snapshotted where it was going   *)
(* to be written, and nothing else, whatever the tools, the rules, moves   *)
(* of the workspace, failed snapshots, the other tasks and crashes have    *)
(* done before (RollbackStore.restore and discard).                        *)
THEOREM RollbacksUndo == Spec => RollbackUndoes
<1>1. Init => RollbackInv /\ root \in Roots
  BY InitRollback, CallsAssumption DEF Init
<1>2. RollbackInv /\ root \in Roots /\ [Next]_vars => (RollbackInv /\ root \in Roots)' /\ [RollbackStep]_vars
  BY StepRollsBack, NextRoot
<1> QED
  BY <1>1, <1>2, PTL DEF Spec, RollbackUndoes, RollbackStep, PutBack

-----------------------------------------------------------------------------
(* Types.                                                                  *)

(* Some rule is the last of those that match. *)
LEMMA LastExists ==
    ASSUME NEW n \in Nat, NEW S \in SUBSET (1 .. n), S # {} PROVE \E i \in S : \A j \in S : j <= i
<1> DEFINE From == {i .. n : i \in S}
<1>1. From \subseteq FiniteSubsetsOf(Nat) /\ From # {}
  <2>1. \A i \in S : i .. n \subseteq Nat /\ IsFiniteSet(i .. n)
    BY FS_Interval
  <2> QED
    BY <2>1 DEF FiniteSubsetsOf
<1>2. PICK least \in From : \A u \in From : <<u, least>> \notin StrictSubsetOrdering(Nat)
  <2> HIDE DEF From
  <2> QED
    BY <1>1, WFMin, FS_StrictSubsetOrderingWellFounded, Zenon
<1>3. PICK i \in S : least = i .. n
  BY <1>2
<1>4. ASSUME NEW j \in S, i < j PROVE FALSE
  <2>1. j .. n \subseteq i .. n /\ i \in i .. n /\ i \notin j .. n /\ i .. n \subseteq Nat
    BY <1>4
  <2>2. <<j .. n, least>> \in StrictSubsetOrdering(Nat)
    BY <2>1, <1>3 DEF StrictSubsetOrdering
  <2> QED
    BY <2>2, <1>2
<1> QED
  BY <1>4

(* The label of a call that has to be approved: its domain, and the        *)
(* pattern of a rule.                                                      *)
LEMMA LabelTyped ==
    ASSUME rules \in Seq(PermissionRules), NEW a, a.domain \in Domains,
           LastMatch(a).action # "none"
    PROVE  LastMatch(a).label \in Labels
<1> DEFINE matching == {i \in DOMAIN rules : Matches(rules[i], a)}
           last == CHOOSE i \in matching : \A j \in matching : j <= i
<1>1. matching # {}
  BY DEF LastMatch
<1>2. last \in matching
  <2>1. Len(rules) \in Nat /\ matching \in SUBSET (1 .. Len(rules))
    OBVIOUS
  <2>2. \E i \in matching : \A j \in matching : j <= i
    <3> HIDE DEF matching
    <3> QED
      BY <1>1, <2>1, LastExists
  <2> QED
    BY <2>2
<1>3. LastMatch(a).label = <<a.domain, rules[last].pattern>>
  BY <1>1 DEF LastMatch
<1>4. rules[last] \in PermissionRules
  BY <1>2
<1> QED
  BY <1>3, <1>4 DEF PermissionRules, Labels

AnyArguments == Requests \cup {Unused} \cup {[Unused EXCEPT !.task = t] : t \in Tasks}

(* Where calls are and what they have in their hands. *)
HandsTyped ==
    /\ pc \in [Calls -> Places] /\ args \in [Calls -> AnyArguments]
    /\ slots \in [shell : Nat, browser : Nat]
    /\ alive \subseteq Calls /\ ran \subseteq Calls
    /\ \A c \in Calls : work[c].tool \in Tools \cup {"none"} /\ work[c].left \in 0 .. 3

(* What they have asked for. *)
AskingTyped ==
    /\ label \in [Calls -> Labels \cup {NoLabel, ByPolicy, Bypassed}]
    /\ \A c \in Calls : pc[c] \in {"announcing", "waiting"} => label[c] \in Labels
    /\ pending \subseteq Calls
    /\ decision \in [Calls -> {"none", "once", "always", "reject"}]
    /\ session \subseteq Labels

AdminTyped == /\ rules \in Seq(PermissionRules) /\ root \in Roots
              /\ closed \subseteq Tasks /\ events \in 0 .. MaxEvents

(* The inductive invariant: that there are never more free slots than the  *)
(* caps allow takes SlotsInv, and what is in files and snapshots takes     *)
(* RollbackInv.                                                            *)
TypesInv == SlotsInv /\ RollbackInv /\ HandsTyped /\ AskingTyped /\ AdminTyped

LEMMA AwaitsTyped ==
    ASSUME NEW tool \in ProcessTools \cup NetworkTools PROVE Awaits(tool) \subseteq 0 .. 3
  BY DEF ProcessTools, NetworkTools, Awaits, ShellCommand, RunProjectCheck, RunTests, LintAndFix,
         InstallDependencies, ProjectInstall, GitLog, NpmRender, GetLocation, WebFetch, WebBrowse,
         TagAndPublishRelease

LEMMA SlotsTyped ==
    ASSUME slots \in [shell : Nat, browser : Nat], NEW tool
    PROVE  /\ Release(Category(tool)) \in [shell : Nat, browser : Nat]
           /\ (Category(tool) # "none" => slots[Category(tool)] # 0)
                 => Take(Category(tool)) \in [shell : Nat, browser : Nat]
<1>1. Category(tool) \in {"shell", "browser", "none"}
  BY DEF Category
<1> QED
  BY <1>1 DEF Release, Take

(* A call that leaves its handler. *)
LEMMA LeftTyped ==
    ASSUME TypesInv, NEW c \in Calls, pc[c] \in Handed, LeaveHandler(c),
           slots' \in [shell : Nat, browser : Nat], alive' = alive, ran' \subseteq Calls
    PROVE  HandsTyped'
<1>1. [Unused EXCEPT !.task = args[c].task] \in AnyArguments
  BY DEF TypesInv, RollbackInv, CallsInv, Requests, AnyArguments
<1>2. pc' \in [Calls -> Places] /\ args' \in [Calls -> AnyArguments]
  BY <1>1 DEF TypesInv, HandsTyped, LeaveHandler, Places
<1>3. ASSUME NEW d \in Calls PROVE work'[d].tool \in Tools \cup {"none"} /\ work'[d].left \in 0 .. 3
  BY DEF TypesInv, HandsTyped, LeaveHandler, RollbackInv, CallsInv, NoWork
<1> QED
  BY <1>2, <1>3 DEF TypesInv, HandsTyped

(* One that goes on to another await. *)
LEMMA MovedTyped ==
    ASSUME TypesInv, NEW c \in Calls, NEW where \in Places, GoTo(c, where)
    PROVE  HandsTyped'
<1>1. Unused \in AnyArguments
  BY DEF AnyArguments
<1>2. pc' \in [Calls -> Places] /\ args' \in [Calls -> AnyArguments]
  BY <1>1 DEF TypesInv, HandsTyped, GoTo
<1> QED
  BY <1>2 DEF TypesInv, HandsTyped, GoTo

(* And one that enters its handler. *)
LEMMA HandledTyped ==
    ASSUME TypesInv, NEW c \in Calls, pc[c] \in Handed, NEW tool \in Tools, Handle(c, tool),
           Category(tool) # "none" => slots[Category(tool)] # 0
    PROVE  HandsTyped'
<1>1. ran' \subseteq Calls
  BY DEF Handle, TypesInv, HandsTyped
<1>2. CASE RunThrough(c, tool) \/ Refuse(c, tool)
  BY <1>1, <1>2, LeftTyped DEF RunThrough, Refuse, TypesInv, HandsTyped
<1>3. CASE tool \in ProcessTools \cup NetworkTools /\ RunUntilAwait(c, tool)
  <2>1. PICK left \in Awaits(tool) \ {0} :
           /\ pc' = [pc EXCEPT ![c] = "running"]
           /\ args' = IF tool = "generate_release_notes" THEN args
                      ELSE [args EXCEPT ![c].path = Resolve(root, @), ![c].dest = Resolve(root, @)]
           /\ work' = [work EXCEPT ![c] = [tool |-> tool, left |-> left,
                                             undo |-> IF tool = "init_project" THEN fs ELSE <<>>]]
           /\ slots' = Take(Category(tool))
           /\ alive' = IF tool \in ProcessTools THEN alive \cup {c} ELSE alive
    BY <1>3 DEF RunUntilAwait
  <2>2. left \in 0 .. 3
    BY <1>3, <2>1, AwaitsTyped
  <2>3. slots' \in [shell : Nat, browser : Nat]
    BY <2>1, SlotsTyped DEF TypesInv, HandsTyped
  <2>4. pc' \in [Calls -> Places] /\ alive' \subseteq Calls
    BY <2>1 DEF TypesInv, HandsTyped, Places
  <2>5. ASSUME NEW d \in Calls PROVE work'[d].tool \in Tools \cup {"none"} /\ work'[d].left \in 0 .. 3
    BY <2>1, <2>2 DEF TypesInv, HandsTyped, RollbackInv, CallsInv
  <2>6. args' \in [Calls -> AnyArguments]
    <3>1. /\ args[c] \in Requests /\ Resolve(root, args[c].path) \in Names
          /\ Resolve(root, args[c].dest) \in Names
      BY InHand DEF TypesInv, RollbackInv, AdminTyped, Names
    <3>2. [args[c] EXCEPT !.path = Resolve(root, @), !.dest = Resolve(root, @)] \in AnyArguments
      BY <3>1 DEF Requests, AnyArguments
    <3> QED
      BY <2>1, <3>2 DEF TypesInv, HandsTyped
  <2> QED
    BY <1>1, <2>3, <2>4, <2>5, <2>6 DEF TypesInv, HandsTyped
<1> QED
  BY <1>2, <1>3 DEF Handle

LEMMA DispatchedTyped ==
    ASSUME TypesInv, NEW c \in Calls, pc[c] \in Handed, Dispatch(c)
    PROVE  HandsTyped'
<1>1. PICK tool \in Tools :
         \/ /\ pc' = [pc EXCEPT ![c] = "queued"]
            /\ work' = [work EXCEPT ![c] = [NoWork EXCEPT !.tool = tool]]
            /\ UNCHANGED <<args, slots, alive, ran>>
         \/ /\ Category(tool) # "none" => slots[Category(tool)] # 0
            /\ Handle(c, tool)
  BY DEF Dispatch
<1>2. CASE /\ pc' = [pc EXCEPT ![c] = "queued"]
           /\ work' = [work EXCEPT ![c] = [NoWork EXCEPT !.tool = tool]]
           /\ UNCHANGED <<args, slots, alive, ran>>
  <2>1. [NoWork EXCEPT !.tool = tool].tool = tool /\ [NoWork EXCEPT !.tool = tool].left = 0
    BY DEF NoWork
  <2>2. ASSUME NEW d \in Calls PROVE work'[d].tool \in Tools \cup {"none"} /\ work'[d].left \in 0 .. 3
    BY <1>2, <2>1 DEF TypesInv, HandsTyped, RollbackInv, CallsInv
  <2> QED
    BY <1>2, <2>2 DEF TypesInv, HandsTyped, Places
<1> QED
  BY <1>1, <1>2, HandledTyped

(* Nobody is let go on to ask without a label. *)
LEMMA EvaluatedTyped ==
    ASSUME TypesInv, NEW c \in Calls, Evaluate(c) PROVE HandsTyped' /\ AskingTyped'
<1> DEFINE m == LastMatch(args[c])
<1>1. pc[c] \in Handed /\ UNCHANGED <<pending, decision, session>>
  BY EvaluateEffect DEF UnderWay, Handed
<1>2. ASSUME NEW l \in Labels \cup {NoLabel, ByPolicy, Bypassed},
             label' \in {label, [label EXCEPT ![c] = l]},
             pc' = [pc EXCEPT ![c] = pc'[c]],
             pc'[c] \notin {"announcing", "waiting"} \/ label'[c] \in Labels
      PROVE  AskingTyped'
  BY <1>1, <1>2 DEF TypesInv, HandsTyped, AskingTyped
<1>3. CASE GoTo(c, "over") /\ label' = label
  <2>1. HandsTyped'
    BY <1>3, MovedTyped DEF Places
  <2>2. pc' = [pc EXCEPT ![c] = pc'[c]] /\ pc'[c] \notin {"announcing", "waiting"}
    BY <1>3 DEF GoTo, TypesInv, HandsTyped
  <2> QED
    BY <1>2, <1>3, <2>1, <2>2
<1>4. ASSUME NEW l \in {ByPolicy, Bypassed} \cup session, label' = [label EXCEPT ![c] = l], Dispatch(c)
      PROVE  HandsTyped' /\ AskingTyped'
  <2>1. HandsTyped'
    BY <1>1, <1>4, DispatchedTyped
  <2>2. pc' = [pc EXCEPT ![c] = pc'[c]] /\ pc'[c] \notin {"announcing", "waiting"}
    BY <1>4, DispatchEffect DEF TypesInv, HandsTyped
  <2>3. l \in Labels \cup {NoLabel, ByPolicy, Bypassed}
    BY DEF TypesInv, AskingTyped
  <2> QED
    BY <1>2, <1>4, <2>1, <2>2, <2>3
<1>5. ASSUME m.action = "ask", label' = [label EXCEPT ![c] = m.label], GoTo(c, "announcing")
      PROVE  HandsTyped' /\ AskingTyped'
  <2>1. m.label \in Labels
    <3>1. rules \in Seq(PermissionRules) /\ args[c].domain \in Domains
      BY <1>1 DEF TypesInv, AdminTyped, RollbackInv, CallsInv, Requests
    <3> QED
      BY <1>5, <3>1, LabelTyped
  <2> HIDE DEF m
  <2>2. HandsTyped'
    BY <1>5, MovedTyped DEF Places
  <2>3. pc' = [pc EXCEPT ![c] = pc'[c]]
    BY <1>5 DEF GoTo, TypesInv, HandsTyped
  <2>4. label'[c] = m.label
    BY <1>5 DEF TypesInv, AskingTyped
  <2> QED
    BY <1>2, <1>5, <2>1, <2>2, <2>3, <2>4
<1> HIDE DEF m
<1> QED
  BY <1>3, <1>4, <1>5, EvaluateEffect DEF m

(* A call that moves on without asking for anything. *)
LEMMA QuietlyTyped ==
    ASSUME TypesInv, NEW c \in Calls, pc' = [pc EXCEPT ![c] = pc'[c]] \/ pc' = pc,
           pc'[c] \notin {"announcing", "waiting"} \/ pc'[c] = pc[c],
           UNCHANGED <<decision, session, label>>, pending' \subseteq pending
    PROVE  AskingTyped'
  BY DEF TypesInv, HandsTyped, AskingTyped

LEMMA FinishedTyped == ASSUME TypesInv, NEW c \in Calls, Finish(c) PROVE HandsTyped' /\ AskingTyped'
<1>1. pc[c] = "running" /\ pc[c] \in Handed /\ ran' = ran /\ UNCHANGED <<pending, decision, session, label>>
  BY DEF Finish, asking, UnderWay, Handed
<1>2. CASE /\ work[c].left > 1
           /\ work' = [work EXCEPT ![c].left = @ - 1]
           /\ alive' = IF work[c].tool \in ProcessTools THEN alive \cup {c} ELSE alive
           /\ UNCHANGED <<fs, pc, args, slots>>
  <2>1. ASSUME NEW d \in Calls
        PROVE  work'[d].tool = work[d].tool /\ work'[d].left \in 0 .. 3
    <3>1. DOMAIN work = Calls /\ {"tool", "left", "undo"} \subseteq DOMAIN work[d] /\ work[d].left \in 0 .. 3
      BY DEF TypesInv, RollbackInv, CallsInv, HandsTyped
    <3> QED
      BY <1>2, <3>1
  <2> QED
    BY <1>1, <1>2, <2>1, QuietlyTyped DEF TypesInv, HandsTyped
<1>3. CASE StopAwaiting(c) /\ alive' = alive
  <2>1. slots' \in [shell : Nat, browser : Nat]
    BY <1>3, SlotsTyped DEF StopAwaiting, TypesInv, HandsTyped
  <2>2. HandsTyped'
    BY <1>1, <1>3, <2>1, LeftTyped DEF StopAwaiting, TypesInv, HandsTyped
  <2>3. pc' = [pc EXCEPT ![c] = "reporting"]
    BY <1>3 DEF StopAwaiting, LeaveHandler
  <2> QED
    BY <1>1, <2>2, <2>3, QuietlyTyped DEF TypesInv, HandsTyped
<1> QED
  BY <1>2, <1>3 DEF Finish

LEMMA AdvancedTyped == ASSUME TypesInv, NEW c \in Calls, Advance(c) PROVE HandsTyped' /\ AskingTyped'
<1>0. pc \in [Calls -> Places]
  BY DEF TypesInv, HandsTyped
<1>1. ASSUME NEW where \in {"over", "expired"}, GoTo(c, where), UNCHANGED <<decision, session, label>>,
             pending' \subseteq pending
      PROVE  HandsTyped' /\ AskingTyped'
  BY <1>0, <1>1, MovedTyped, QuietlyTyped DEF GoTo, Places
<1>2. CASE RegisterApproval(c)
  <2>1. HandsTyped'
    BY <1>2 DEF RegisterApproval, TypesInv, HandsTyped, Places
  <2>2. AskingTyped'
    BY <1>2 DEF RegisterApproval, TypesInv, HandsTyped, AskingTyped
  <2> QED
    BY <2>1, <2>2
<1>3. CASE Resume(c)
  <2>1. label[c] \in Labels /\ pc[c] \in Handed
    BY <1>3 DEF Resume, TypesInv, AskingTyped, UnderWay, Handed
  <2>2. session' \subseteq Labels /\ UNCHANGED <<pending, decision, label>>
    BY <1>3, <2>1 DEF Resume, TypesInv, AskingTyped
  <2>3. GoTo(c, "over") \/ Dispatch(c)
    BY <1>3 DEF Resume
  <2>4. HandsTyped'
    BY <2>1, <2>3, MovedTyped, DispatchedTyped DEF Places
  <2>5. pc' = [pc EXCEPT ![c] = pc'[c]] /\ pc'[c] \notin {"announcing", "waiting"}
    BY <1>0, <2>3, DispatchEffect DEF GoTo
  <2> QED
    BY <2>2, <2>4, <2>5 DEF TypesInv, HandsTyped, AskingTyped
<1>4. CASE Expire(c) \/ DenyExpired(c) \/ Report(c)
  BY <1>1, <1>4 DEF Expire, DenyExpired, Report, asking
<1>5. CASE Enter(c)
  <2>1. /\ pc[c] = "queued" /\ pc[c] \in Handed /\ work[c].tool \in Tools /\ Handle(c, work[c].tool)
        /\ slots[Category(work[c].tool)] > 0 /\ UNCHANGED <<pending, decision, session, label>>
    BY <1>5 DEF Enter, asking, UnderWay, Handed, TypesInv, RollbackInv, CallsInv
  <2>2. HandsTyped'
    BY <2>1, HandledTyped
  <2>3. pc' = [pc EXCEPT ![c] = pc'[c]] /\ pc'[c] \notin {"announcing", "waiting"}
    BY <1>0, <2>1 DEF Handle, RunThrough, RunUntilAwait, Refuse, LeaveHandler
  <2> QED
    BY <2>1, <2>2, <2>3, QuietlyTyped
<1>6. CASE TimeOut(c)
  <2>1. /\ pc[c] \in Handed /\ StopAwaiting(c) /\ alive' = alive /\ ran' = ran
        /\ UNCHANGED <<pending, decision, session, label>>
    BY <1>6 DEF TimeOut, UnderWay, Handed, asking
  <2>2. slots' \in [shell : Nat, browser : Nat]
    BY <2>1, SlotsTyped DEF StopAwaiting, TypesInv, HandsTyped
  <2>3. HandsTyped'
    BY <2>1, <2>2, LeftTyped DEF StopAwaiting, TypesInv, HandsTyped
  <2> QED
    BY <1>0, <2>1, <2>3, QuietlyTyped DEF StopAwaiting, LeaveHandler
<1>7. CASE Finish(c)
  BY <1>7, FinishedTyped
<1>8. CASE Evaluate(c)
  BY <1>8, EvaluatedTyped
<1> QED
  BY <1>2, <1>3, <1>4, <1>5, <1>6, <1>7, <1>8 DEF Advance

LEMMA AnewTyped == ASSUME TypesInv, StartAnew PROVE HandsTyped' /\ AskingTyped' /\ AdminTyped'
<1>1. Unused \in AnyArguments /\ NoWork.tool = "none" /\ NoWork.left = 0
  BY DEF AnyArguments, NoWork
<1>2. HandsTyped'
  BY <1>1, CallsAssumption DEF StartAnew, TypesInv, HandsTyped, Places
<1>3. AskingTyped'
  BY DEF StartAnew, AskingTyped
<1>4. AdminTyped'
  BY CallsAssumption DEF StartAnew, TypesInv, AdminTyped
<1> QED
  BY <1>2, <1>3, <1>4

(* A rule is taken out of the list. *)
LEMMA RuleDeleted ==
    ASSUME rules \in Seq(PermissionRules), NEW i \in DOMAIN rules
    PROVE  SubSeq(rules, 1, i - 1) \o SubSeq(rules, i + 1, Len(rules)) \in Seq(PermissionRules)
<1>1. SubSeq(rules, 1, i - 1) \in Seq(PermissionRules)
  BY SubSeqProperties
<1>2. SubSeq(rules, i + 1, Len(rules)) \in Seq(PermissionRules)
  BY SubSeqProperties
<1> QED
  BY <1>1, <1>2, ConcatProperties

LEMMA NextTypes == ASSUME TypesInv, [Next]_vars PROVE TypesInv'
<1>0. SlotsInv' /\ RollbackInv'
  BY NextSlots, StepRollsBack DEF TypesInv, AdminTyped
<1> SUFFICES HandsTyped' /\ AskingTyped' /\ AdminTyped'
  BY <1>0 DEF TypesInv
<1>1. ASSUME UNCHANGED <<rules, root, closed, events>> PROVE AdminTyped'
  BY <1>1 DEF TypesInv, AdminTyped
<1>2. ASSUME UNCHANGED <<pc, args, label, work, slots, alive, ran, pending, decision, session>>
      PROVE  HandsTyped' /\ AskingTyped'
  BY <1>2 DEF TypesInv, HandsTyped, AskingTyped
<1>3. ASSUME NEW c \in Calls, Begin(c) PROVE HandsTyped' /\ AskingTyped' /\ AdminTyped'
  <2>1. PICK a \in Arguments : args' = [args EXCEPT ![c] = a]
    BY <1>3 DEF Begin
  <2>2. a \in AnyArguments
    BY CallsAssumption DEF AnyArguments
  <2>3. HandsTyped'
    BY <1>3, <2>1, <2>2 DEF Begin, TypesInv, HandsTyped, Places
  <2>4. AskingTyped'
    BY <1>3, QuietlyTyped DEF Begin, TypesInv, HandsTyped, asking
  <2> QED
    BY <1>1, <1>3, <2>3, <2>4 DEF Begin, admin
<1>4. ASSUME NEW c \in Calls, Advance(c) PROVE HandsTyped' /\ AskingTyped' /\ AdminTyped'
  <2>1. UNCHANGED <<rules, root, closed, events>>
    BY <1>4 DEF Advance, Evaluate, RegisterApproval, Resume, Expire, DenyExpired, Enter, TimeOut, Finish,
                Report, admin
  <2> QED
    BY <1>1, <1>4, <2>1, AdvancedTyped
<1>5. ASSUME NEW c \in Calls, Reply(c) PROVE HandsTyped' /\ AskingTyped' /\ AdminTyped'
  <2>1. HandsTyped'
    BY <1>5 DEF Reply, TypesInv, HandsTyped
  <2>2. AskingTyped'
    BY <1>5 DEF Reply, TypesInv, AskingTyped
  <2> QED
    BY <1>1, <1>5, <2>1, <2>2 DEF Reply, admin
<1>6. ASSUME NEW c \in Calls, ProcessEnds(c) PROVE HandsTyped' /\ AskingTyped' /\ AdminTyped'
  <2>1. HandsTyped'
    BY <1>6 DEF ProcessEnds, TypesInv, HandsTyped
  <2>2. AskingTyped'
    BY <1>6 DEF ProcessEnds, TypesInv, AskingTyped, asking
  <2> QED
    BY <1>1, <1>6, <2>1, <2>2 DEF ProcessEnds, admin
<1>7. ASSUME NEW c \in Calls, Cancel(c) PROVE HandsTyped' /\ AskingTyped' /\ AdminTyped'
  <2>1. Unused \in AnyArguments /\ NoWork.tool = "none" /\ NoWork.left = 0
    BY DEF AnyArguments, NoWork
  <2>2. slots' \in [shell : Nat, browser : Nat]
    BY <1>7, SlotsTyped DEF Cancel, TypesInv, HandsTyped
  <2>3. pc' \in [Calls -> Places] /\ args' \in [Calls -> AnyArguments]
    BY <1>7, <2>1 DEF Cancel, TypesInv, HandsTyped, Places
  <2>4. ASSUME NEW d \in Calls PROVE work'[d].tool \in Tools \cup {"none"} /\ work'[d].left \in 0 .. 3
    BY <1>7, <2>1 DEF Cancel, TypesInv, HandsTyped, RollbackInv, CallsInv
  <2>5. HandsTyped'
    BY <1>7, <2>2, <2>3, <2>4 DEF Cancel, TypesInv, HandsTyped
  <2>6. AskingTyped'
    BY <1>7, QuietlyTyped DEF Cancel, TypesInv, HandsTyped, asking
  <2> QED
    BY <1>1, <1>7, <2>5, <2>6 DEF Cancel, admin
<1>8. ASSUME NEW t \in Tasks, Rollback(t) PROVE HandsTyped' /\ AskingTyped' /\ AdminTyped'
  BY <1>1, <1>2, <1>8 DEF Rollback, asking, admin
<1>9. ASSUME NEW t \in Tasks, Close(t) PROVE HandsTyped' /\ AskingTyped' /\ AdminTyped'
  BY <1>2, <1>9 DEF Close, asking, TypesInv, AdminTyped
<1>10. CASE AddRule
  <2>1. rules' \in Seq(PermissionRules)
    BY <1>10, CallsAssumption DEF AddRule, TypesInv, AdminTyped
  <2>2. events' \in 0 .. MaxEvents /\ closed' = closed
    BY <1>10, CallsAssumption DEF AddRule, TypesInv, AdminTyped
  <2> QED
    BY <1>2, <1>10, <2>1, <2>2 DEF AddRule, asking, TypesInv, AdminTyped
<1>11. CASE DeleteRule
  <2>1. rules' \in Seq(PermissionRules)
    BY <1>11, RuleDeleted DEF DeleteRule, TypesInv, AdminTyped
  <2>2. events' \in 0 .. MaxEvents /\ closed' = closed
    BY <1>11, CallsAssumption DEF DeleteRule, TypesInv, AdminTyped
  <2> QED
    BY <1>2, <1>11, <2>1, <2>2 DEF DeleteRule, asking, TypesInv, AdminTyped
<1>12. CASE SetRoot
  <2>1. root' \in Roots /\ events' \in 0 .. MaxEvents /\ UNCHANGED <<rules, closed>>
    BY <1>12, CallsAssumption DEF SetRoot, TypesInv, AdminTyped
  <2> QED
    BY <1>2, <1>12, <2>1 DEF SetRoot, asking, TypesInv, AdminTyped
<1>13. CASE Restart \/ \E c \in Calls : CrashInSnapshot(c)
  BY <1>13, AnewTyped DEF Restart, CrashInSnapshot
<1>14. CASE UNCHANGED vars
  BY <1>1, <1>2, <1>14 DEF vars
<1> QED
  BY <1>3, <1>4, <1>5, <1>6, <1>7, <1>8, <1>9, <1>10, <1>11, <1>12, <1>13, <1>14 DEF Next

(* The variables keep their types; in particular no cap is ever exceeded,  *)
(* a handler that is cut off gives back at most what it has taken, and     *)
(* every file is one that some task has written or that was there before.  *)
THEOREM TypesAreKept == Spec => []TypeOK
<1>1. Init => TypesInv
  <2> SUFFICES ASSUME Init PROVE TypesInv
    OBVIOUS
  <2>1. SlotsInv /\ RollbackInv
    BY InitSlots, InitRollback
  <2>2. Unused \in AnyArguments /\ NoWork.tool = "none" /\ NoWork.left = 0
    BY DEF AnyArguments, NoWork
  <2>3. HandsTyped
    BY <2>2, CallsAssumption DEF Init, HandsTyped, Places
  <2>4. AskingTyped
    BY DEF Init, AskingTyped
  <2>5. AdminTyped
    BY CallsAssumption DEF Init, AdminTyped
  <2> QED
    BY <2>1, <2>3, <2>4, <2>5 DEF TypesInv
<1>2. TypesInv /\ [Next]_vars => TypesInv'
  BY NextTypes
<1>3. TypesInv => TypeOK
  <2> SUFFICES ASSUME TypesInv PROVE TypeOK
    OBVIOUS
  <2>1. /\ Cardinality(Holders(ShellTools)) \in Nat /\ slots.shell + Cardinality(Holders(ShellTools)) = MaxShell
        /\ Cardinality(Holders(BrowserTools)) \in Nat
        /\ slots.browser + Cardinality(Holders(BrowserTools)) = MaxBrowser
    BY HoldersFinite, FS_CardinalityType DEF TypesInv, SlotsInv, SlotsAddUp, Holders
  <2>2. slots \in [shell : 0 .. MaxShell, browser : 0 .. MaxBrowser]
    BY <2>1, CallsAssumption DEF TypesInv, HandsTyped
  <2>3. /\ fs \in FileSystems /\ snaps \in Snapshots
        /\ before \in [Tasks -> [Paths -> Contents \cup {NoSnapshot, Astray}]]
    BY DEF TypesInv, RollbackInv, Sound, RecordInv, Records
  <2> QED
    BY <2>2, <2>3 DEF TypesInv, HandsTyped, AskingTyped, AdminTyped, TypeOK, Places, AnyArguments
<1> QED
  BY <1>1, <1>2, <1>3, PTL DEF Spec
=============================================================================
