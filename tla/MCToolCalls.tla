----------------------------- MODULE MCToolCalls -----------------------------
(* Calls of a chat and of a queued task, a rule that asks about one file,  *)
(* and a name that is this file in one directory and another in the other. *)
EXTENDS ToolCalls

CONSTANTS chat, queued, file, index, name, here, there

Call == [task |-> queued, domain |-> "edit", path |-> file, dest |-> index, bypass |-> FALSE]

MCArguments == {[Call EXCEPT !.domain = d] : d \in Domains}
               \cup {[Call EXCEPT !.task = chat, !.path = name, !.bypass = TRUE]}

(* Nothing but edits, none of them past the policy. *)
MCEdits == {Call, [Call EXCEPT !.path = name]}

MCLocate == [d \in Roots |-> [n \in Relative |-> IF d = here THEN file ELSE index]]

Ask == [permission |-> "edit", pattern |-> file, action |-> "ask"]
MCInitialRules == <<Ask>>
MCNewRules == {[Ask EXCEPT !.pattern = "*"]}
=============================================================================
