---------------------------- MODULE MCControlPlane ----------------------------
(***************************************************************************)
(* The parts of the server around its runs: API keys, the streams of chats,*)
(* templates with their jobs, settings, the knowledge graph, the           *)
(* scheduler's heartbeat, and schema migrations.  They share no state, so  *)
(* what can happen to one is what can happen to it while the others stand  *)
(* still: in each behaviour here one of them, chosen at the start, moves.  *)
(***************************************************************************)
EXTENDS KeyStore, Sequences

CONSTANTS Streams, Other, Filter, MaxEvents
VARIABLES pc, run, hooks, emission, emitted, queue, sent
chatVars == <<pc, run, hooks, emission, emitted, queue, sent>>
Chat == INSTANCE ChatStreams

CONSTANTS Templates, JobIds, Maintenance, Roots, Launch, NoJob, Torn
VARIABLES root, mem, files, jobs, running, made, moved, crossed
jobsVars == <<root, mem, files, jobs, running, made, moved, crossed>>
Jobs == INSTANCE Schedules

CONSTANTS Settings, LocalSettings, Values, Unset
VARIABLES overrides, base, fileConfig, baseFile, localFile, latest, lost, edited
configVars == <<overrides, base, fileConfig, baseFile, localFile, latest, lost, edited>>
Config == INSTANCE ConfigStore

CONSTANTS Concepts, Texts, MinPercent, Tasks, Paths, MaxParallel, Absent
VARIABLES graph, file, copy, todo, reading, ingested, merged
graphVars == <<graph, file, copy, todo, reading, ingested, merged>>
Graph == INSTANCE KnowledgeGraph

CONSTANTS Timeout, MaxClock
VARIABLES clock, beat, alert, reports, carried
beatVars == <<clock, beat, alert, reports, carried>>
Beat == INSTANCE Heartbeat

CONSTANTS Latest, ScriptLength, Once
VARIABLES exists, schema, recorded, proc
schemaVars == <<exists, schema, recorded, proc>>
Schema == INSTANCE Migrations

VARIABLE focus

(* Different things have different names. *)
ASSUME StreamsAssumption == Other \notin Streams /\ Filter \notin Streams /\ MaxEvents \in Nat
ASSUME JobsAssumption ==
    /\ Maintenance \in JobIds /\ Launch \in Roots
    /\ NoJob \notin Templates /\ NoJob # "stack" /\ {"stack", "maintenance"} \cap Templates = {}
ASSUME SettingsAssumption ==
    LocalSettings \subseteq Settings /\ Unset \notin Values /\ Torn \notin Config!Configs
ASSUME GraphAssumption ==
    /\ Concepts \cap (Tasks \cup Paths) = {} /\ IsFiniteSet(Paths)
    /\ Absent \notin Texts /\ \A text \in Texts : IsFiniteSet(DOMAIN text)
    /\ {Absent, Torn} \cap [nodes : SUBSET Graph!Nodes, edges : [Graph!Pairs -> Nat]] = {}
ASSUME HeartbeatAssumption == Timeout \in Nat
ASSUME SchemaAssumption == Latest \in Nat /\ ScriptLength \in Nat

MCInit == /\ focus \in {"keys", "chat", "jobs", "config", "graph", "beat", "schema"}
          /\ Init /\ Chat!Init /\ Jobs!Init /\ Config!Init /\ Graph!Init /\ Beat!Init
          /\ Schema!Init
          /\ focus # "config" => fileConfig = Config!Nothing

MCNext == \/ /\ focus = "keys" /\ Next
             /\ UNCHANGED <<chatVars, jobsVars, configVars, graphVars, beatVars, schemaVars>>
          \/ /\ focus = "chat" /\ Chat!Next
             /\ UNCHANGED <<vars, jobsVars, configVars, graphVars, beatVars, schemaVars>>
          \/ /\ focus = "jobs" /\ Jobs!Next
             /\ UNCHANGED <<vars, chatVars, configVars, graphVars, beatVars, schemaVars>>
          \/ /\ focus = "config" /\ Config!Next
             /\ UNCHANGED <<vars, chatVars, jobsVars, graphVars, beatVars, schemaVars>>
          \/ /\ focus = "graph" /\ Graph!Next
             /\ UNCHANGED <<vars, chatVars, jobsVars, configVars, beatVars, schemaVars>>
          \/ /\ focus = "beat" /\ Beat!Next
             /\ UNCHANGED <<vars, chatVars, jobsVars, configVars, graphVars, schemaVars>>
          \/ /\ focus = "schema" /\ Schema!Next
             /\ UNCHANGED <<vars, chatVars, jobsVars, configVars, graphVars, beatVars>>

allVars == <<vars, chatVars, jobsVars, configVars, graphVars, beatVars, schemaVars>>
MCSpec == MCInit /\ [][MCNext /\ UNCHANGED focus]_<<allVars, focus>>

-----------------------------------------------------------------------------
(* The properties of the parts, stated where the parts are: what a stream  *)
(* tells its client (hooks.py and chat_stream), what the files of templates*)
(* and jobs hold, which jobs the scheduler has, what stays deleted, what   *)
(* settings are after a restart (config.py), what the knowledge graph keeps*)
(* (networkx_backend.py), which outages are reported (module.py), and that *)
(* recorded migrations are in the schema (runner.py).                      *)
StreamsTellAll == Chat!StreamsTellAll
AcknowledgedIsStored == Jobs!AcknowledgedIsStored
RecordsAreScheduled == Jobs!RecordsAreScheduled
DeletedStaysDeleted == Jobs!DeletedStaysDeleted
SettingsSurvive == Config!SettingsSurvive
KnowledgeIsKept == Graph!KnowledgeIsKept
ConceptsAreLinkedOnce == Graph!ConceptsAreLinkedOnce
OutagesAreReportedOnce == Beat!OutagesAreReportedOnce
SchemaIsThere == Schema!SchemaIsThere

-----------------------------------------------------------------------------
(* For TLC: two texts, one of them with a word that is left out. *)
CONSTANTS Word1, Word2, StopWord
SmallTexts == {<<Word1, Word1, Word1, StopWord, Word2>>, <<Word2, Word1, Word2>>}
=============================================================================
