------------------------------ MODULE ChatStreams ------------------------------
(***************************************************************************)
(* POST /chat/stream on top of the hooks (harness/api/hooks.py).  A stream *)
(* registers itself for the events of its run, puts what it hears into a   *)
(* queue of its own and sends it to the client until the run has ended.    *)
(*                                                                         *)
(* Streams register for five events at once, before tenant_tool_filter.    *)
(* Of the callbacks only the filter makes an emission wait; so only the    *)
(* hooks of PreToolUse can change while they are being called, and only    *)
(* their list is modelled.  Registering inserts into the list in place,    *)
(* where emissions under way see it; unregistering replaces it.            *)
(*                                                                         *)
(* Whether a stream is admitted is in RunAdmission, what a run does in     *)
(* Workflow, and the stream of the external state machine is left out.     *)
(***************************************************************************)
EXTENDS Naturals, Sequences, FiniteSets

CONSTANTS Streams,
          Other,      (* a caller of tools whose events name no task        *)
          Filter,     (* tenant_tool_filter                                 *)
          MaxEvents   (* bound: the events of all runs                      *)

VARIABLES
    pc,        (* the event generator of each stream                        *)
    run,       (* its run                                                   *)
    hooks,     (* the hooks of PreToolUse in the order they are called      *)
    emission,  (* per caller: the place in the list its PreToolUse event is *)
               (* at, 0 for none, and the list, if that has been replaced   *)
    emitted,   (* per caller: how many events there have been               *)
    queue,     (* stream_queue                                              *)
    sent       (* what the stream has yielded                               *)

vars == <<pc, run, hooks, emission, emitted, queue, sent>>

Callers == Streams \cup {Other}
NoEmission == [at |-> 0, list |-> <<>>]

Message(what) == [what |-> what, of |-> Other, n |-> 0]
Event(c, n)   == [what |-> "event", of |-> c, n |-> n]

Init == /\ pc = [s \in Streams |-> "closed"]
        /\ run = [s \in Streams |-> "none"]
        /\ hooks = <<Filter>>
        /\ emission = [c \in Callers |-> NoEmission]
        /\ emitted = [c \in Callers |-> 0]
        /\ queue = [s \in Streams |-> <<>>]
        /\ sent = [s \in Streams |-> <<>>]

Registered == {hooks[i] : i \in DOMAIN hooks} \ {Filter}
Active == {Other} \cup {s \in Streams : run[s] = "going"}

(* _belongs_to_task, and _enqueue *)
Hears(s, c) == c = s \/ c = Other
Deliver(S, c, n) == [s \in Streams |-> IF s \in S /\ Hears(s, c)
                                       THEN Append(queue[s], Event(c, n)) ELSE queue[s]]

-----------------------------------------------------------------------------
(* Emissions.                                                              *)

MayEmit == Cardinality(UNION {{c} \X (1 .. emitted[c]) : c \in Callers}) < MaxEvents

BugEveryHookSuspends(hook) == TRUE

(* A callback that is a coroutine is awaited under its timeout. *)
Suspends(hook) == hook = Filter

(* The loop over the list, from place i to where it next waits. *)
CallFrom(c, list, i, n) ==
    LET stops == {j \in i .. Len(list) : Suspends(list[j])}
        stop  == IF stops = {} THEN 0 ELSE CHOOSE j \in stops : \A k \in stops : j <= k
        upTo  == IF stop = 0 THEN Len(list) ELSE stop
    IN  /\ queue' = Deliver({list[j] : j \in i .. upTo}, c, n)
        /\ emission' = [emission EXCEPT ![c] = IF stop = 0 THEN NoEmission ELSE [@ EXCEPT !.at = stop]]

(* StreamEvent or PostToolUse: nothing waits. *)
Emit(c) ==
    /\ c \in Active /\ emission[c].at = 0 /\ MayEmit
    /\ emitted' = [emitted EXCEPT ![c] = @ + 1]
    /\ queue' = Deliver(Registered, c, emitted'[c])
    /\ UNCHANGED <<pc, run, hooks, emission, sent>>

(* PreToolUse *)
EmitPreToolUse(c) ==
    /\ c \in Active /\ emission[c].at = 0 /\ MayEmit
    /\ emitted' = [emitted EXCEPT ![c] = @ + 1]
    /\ CallFrom(c, hooks, 1, emitted'[c])
    /\ UNCHANGED <<pc, run, hooks, sent>>

(* The hook has answered, and the loop goes on behind it.  When hooks have *)
(* been inserted before it, what is called next is one of those, or the    *)
(* hook itself once more.                                                  *)
GoOn(c) ==
    /\ emission[c].at # 0
    /\ CallFrom(c, IF emission[c].list = <<>> THEN hooks ELSE emission[c].list,
                emission[c].at + 1, emitted[c])
    /\ UNCHANGED <<pc, run, hooks, emitted, sent>>

EndRun(s) ==
    /\ run[s] = "going" /\ emission[s].at = 0
    /\ \E how \in {"returned", "raised"} : run' = [run EXCEPT ![s] = how]
    /\ UNCHANGED <<pc, hooks, emission, emitted, queue, sent>>

-----------------------------------------------------------------------------
(* The event generator.                                                    *)

Yield(s, message) == sent' = [sent EXCEPT ![s] = Append(@, message)]

Open(s) ==
    /\ pc[s] = "closed"
    /\ pc' = [pc EXCEPT ![s] = "open"]
    /\ Yield(s, Message("start"))
    /\ UNCHANGED <<run, hooks, emission, emitted, queue>>

(* The client has read the first message.  Labels of the same priority are *)
(* sorted by the task's random id.                                         *)
Register(s) ==
    /\ pc[s] = "open"
    /\ pc' = [pc EXCEPT ![s] = "streaming"]
    /\ \E i \in 1 .. Len(hooks) : hooks' = SubSeq(hooks, 1, i - 1) \o <<s>> \o SubSeq(hooks, i, Len(hooks))
    /\ run' = [run EXCEPT ![s] = "going"]
    /\ UNCHANGED <<emission, emitted, queue, sent>>

Send(s) ==
    /\ pc[s] = "streaming" /\ queue[s] # <<>>
    /\ Yield(s, Head(queue[s]))
    /\ queue' = [queue EXCEPT ![s] = Tail(@)]
    /\ UNCHANGED <<pc, run, hooks, emission, emitted>>

Unregister(s) ==
    /\ \E i \in DOMAIN hooks : /\ hooks[i] = s
                               /\ hooks' = SubSeq(hooks, 1, i - 1) \o SubSeq(hooks, i + 1, Len(hooks))
    /\ emission' = [c \in Callers |-> IF emission[c].at # 0 /\ emission[c].list = <<>>
                                      THEN [emission[c] EXCEPT !.list = hooks] ELSE emission[c]]

(* The run has ended and everything has been sent. *)
Conclude(s) ==
    /\ pc[s] = "streaming" /\ run[s] # "going" /\ queue[s] = <<>>
    /\ Unregister(s)
    /\ pc' = [pc EXCEPT ![s] = "concluding"]
    /\ Yield(s, Message(IF run[s] = "returned" THEN "done" ELSE "error"))
    /\ UNCHANGED <<run, emitted, queue>>

SendEof(s) ==
    /\ pc[s] = "concluding"
    /\ pc' = [pc EXCEPT ![s] = "ended"]
    /\ Yield(s, Message("eof"))
    /\ UNCHANGED <<run, hooks, emission, emitted, queue>>

(* The client goes away: the generator is closed where it is, the run goes *)
(* on, and the hooks stay.                                                 *)
Disconnect(s) ==
    /\ pc[s] \in {"open", "streaming", "concluding"}
    /\ pc' = [pc EXCEPT ![s] = "gone"]
    /\ UNCHANGED <<run, hooks, emission, emitted, queue, sent>>

Next == \/ \E c \in Callers : Emit(c) \/ EmitPreToolUse(c) \/ GoOn(c)
        \/ \E s \in Streams : \/ EndRun(s) \/ Open(s) \/ Register(s) \/ Send(s)
                              \/ Conclude(s) \/ SendEof(s) \/ Disconnect(s)

Spec == Init /\ [][Next]_vars

-----------------------------------------------------------------------------
(* A stream tells its client every event of its run, in order, though      *)
(* other streams come, go and disconnect while their events are being      *)
(* emitted; the run's end after all of them; and nothing of another        *)
(* stream's run.  One that has told the end listens no longer.  It tells   *)
(* each event once, unless two other streams have come: when both register *)
(* while the filter is asked about a tool call, they push this stream's    *)
(* hook behind the place the emission is at, and it is called once more.   *)
StreamsTellAll ==
    \A s \in Streams :
        LET told == sent[s] \o queue[s]
            Own  == {i \in DOMAIN told : told[i].what = "event" /\ told[i].of = s}
            Ends == {i \in DOMAIN sent[s] : sent[s][i].what \in {"done", "error"}}
        IN  /\ {told[i].n : i \in Own} = 1 .. emitted[s]
            /\ \A i, j \in Own : i < j =>
                  \/ told[i].n < told[j].n
                  \/ told[i].n = told[j].n
                     /\ \E t, u \in Streams \ {s} : t # u /\ run[t] # "none" /\ run[u] # "none"
            /\ \A i \in DOMAIN told : told[i].what = "event" => Hears(s, told[i].of)
            /\ \A i \in Ends : /\ \A j \in DOMAIN queue[s] : queue[s][j].of # s
                               /\ \A j \in i + 1 .. Len(sent[s]) : sent[s][j].what = "eof"
                               /\ s \notin Registered
=============================================================================
