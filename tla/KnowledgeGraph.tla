---------------------------- MODULE KnowledgeGraph ----------------------------
(***************************************************************************)
(* The knowledge graph (memory/graph/networkx_backend.py): ingestion of    *)
(* texts, what finished runs add, export and import, the file behind it.   *)
(*                                                                         *)
(* A handler does not pause, but each node and each edge is written out as *)
(* it is added, and the server may go down between any two: so a handler   *)
(* is a list of additions, carried out one at a time.  Types and texts of  *)
(* nodes and edges are left out: only additions of what is there already   *)
(* could change them.                                                      *)
(***************************************************************************)
EXTENDS Naturals, Sequences, SequencesExt, FiniteSetsExt

CONSTANTS Concepts,       (* words that ingestion takes for concepts        *)
          Texts,          (* texts: sequences of words                      *)
          MinPercent,     (* ingestion.confidence_min, in percent           *)
          Tasks, Paths,   (* runs, and files that they create or update     *)
          MaxParallel,    (* bound: edges between two nodes                 *)
          Absent, Torn    (* a file that is not there, that does not parse  *)

VARIABLES
    graph,      (* the graph in memory                                      *)
    file,       (* graph.json                                               *)
    copy,       (* an exported snapshot                                     *)
    todo,       (* what the handler under way has yet to add                *)
    reading,    (* the text that is being ingested, or Absent               *)
    ingested,   (* texts that INGESTION_COMPLETE has been logged of, and    *)
                (* whose graph has not been replaced or removed: history    *)
    merged      (* whether an import has added to a graph: history          *)

vars == <<graph, file, copy, todo, reading, ingested, merged>>

Nodes == Concepts \cup Tasks \cup Paths
Pairs == Nodes \X Nodes
Empty == [nodes |-> {}, edges |-> [p \in Pairs |-> 0]]

Init == /\ graph = Empty /\ file = Absent
        /\ copy = [graph |-> Absent, ingested |-> {}]
        /\ todo = <<>> /\ reading = Absent
        /\ ingested = {} /\ merged = FALSE

HasEdge(p) == graph.edges[p] > 0

-----------------------------------------------------------------------------
(* Ingestion.                                                              *)

(* Where the text has concepts, and between which of them it has no other. *)
Places(text)     == {i \in DOMAIN text : text[i] \in Concepts}
Neighbours(text) == {n \in Places(text) \X Places(text) :
                        n[1] < n[2] /\ \A k \in Places(text) : k <= n[1] \/ n[2] <= k}

(* The share of its occurrences among the concepts of the text. *)
Confident(c, text) ==
    Cardinality({i \in Places(text) : text[i] = c}) * 100 >= MinPercent * Cardinality(Places(text))

Entities(text)  == {text[i] : i \in Places(text)}
Adjacent(text)  == {<<text[n[1]], text[n[2]]>> : n \in Neighbours(text)}
Relations(text) == {p \in Adjacent(text) : p[1] # p[2]}

Add(kind, what) == [kind |-> kind, what |-> what]

Idle == todo = <<>> /\ reading = Absent

(* POST /ingestion/graphify: nodes first, edges after all of them.  In     *)
(* which order either come makes no difference but to a crash.             *)
Graphify(text) ==
    /\ Idle
    /\ \E nodes \in SetToSeqs({c \in Entities(text) : Confident(c, text)}),
          edges \in SetToSeqs(Relations(text)) :
          todo' = [i \in 1 .. Len(nodes) |-> Add("concept", nodes[i])]
                  \o [i \in 1 .. Len(edges) |-> Add("link", edges[i])]
    /\ reading' = text
    /\ UNCHANGED <<graph, file, copy, ingested, merged>>

(* _persist_run_to_memory.  A task that is resumed is recorded again. *)
PersistRun(t, paths) ==
    /\ Idle
    /\ \A p \in paths : graph.edges[<<t, p>>] < MaxParallel
    /\ \E order \in SetToSeqs(paths) :
          todo' = [i \in 1 .. 2 * Len(order) + 1 |->
                      IF i = 1 THEN Add("node", t)
                      ELSE LET path == order[i \div 2]
                           IN  IF i % 2 = 0 THEN Add("node", path) ELSE Add("edge", <<t, path>>)]
    /\ UNCHANGED <<graph, file, copy, reading, ingested, merged>>

WithNode(n) == [graph EXCEPT !.nodes = @ \cup {n}]
WithEdge(p) == [nodes |-> graph.nodes \cup {p[1], p[2]}, edges |-> [graph.edges EXCEPT ![p] = @ + 1]]

BugLinkAnyway(item) ==
    CASE item.kind \in {"concept", "node"} -> WithNode(item.what)
      [] item.kind = "edge" -> WithEdge(item.what)
      [] item.kind = "link" -> IF ToSet(item.what) \subseteq graph.nodes THEN WithEdge(item.what) ELSE graph

(* A link is made only if there is none yet, in whatever way that came     *)
(* about, and between nodes that are there.                                *)
Added(item) ==
    CASE item.kind \in {"concept", "node"} -> WithNode(item.what)
      [] item.kind = "edge" -> WithEdge(item.what)
      [] item.kind = "link" -> IF ~HasEdge(item.what) /\ ToSet(item.what) \subseteq graph.nodes
                               THEN WithEdge(item.what) ELSE graph

BugPersistNodes == file' = [Empty EXCEPT !.nodes = graph'.nodes]

Persist == file' = graph'

(* add_node and add_edge write the file; an addition that is skipped does not. *)
Step ==
    /\ todo # <<>>
    /\ graph' = Added(Head(todo))
    /\ IF graph' = graph /\ Head(todo).kind \in {"concept", "link"} THEN UNCHANGED file ELSE Persist
    /\ todo' = Tail(todo)
    /\ UNCHANGED <<copy, reading, ingested, merged>>

(* INGESTION_COMPLETE *)
Complete ==
    /\ todo = <<>> /\ reading # Absent
    /\ ingested' = ingested \cup {reading}
    /\ reading' = Absent
    /\ UNCHANGED <<graph, file, copy, todo, merged>>

-----------------------------------------------------------------------------
(* Export, import, and what happens to the files.                          *)

(* POST /memory/graph/migration/export, in place *)
Export ==
    /\ Idle
    /\ copy' = [graph |-> graph, ingested |-> ingested]
    /\ UNCHANGED <<graph, file, todo, reading, ingested, merged>>

(* POST /memory/graph/migration/import: every edge of the copy is added,   *)
(* also when there is one like it already.                                 *)
Import(clear) ==
    /\ Idle
    /\ copy.graph \notin {Absent, Torn}
    /\ LET old == IF clear THEN Empty ELSE graph
       IN  /\ \A p \in Pairs : old.edges[p] + copy.graph.edges[p] <= MaxParallel
           /\ graph' = [nodes |-> old.nodes \cup copy.graph.nodes,
                        edges |-> [p \in Pairs |-> old.edges[p] + copy.graph.edges[p]]]
    /\ Persist
    /\ ingested' = IF clear THEN copy.ingested ELSE ingested \cup copy.ingested
    /\ merged' = (merged \/ ~clear)
    /\ UNCHANGED <<copy, todo, reading>>

(* POST /artifacts/cleanup removes JSON files of the storage directory     *)
(* that have not been written for some days: this one, too.                *)
Cleanup ==
    /\ Idle
    /\ \/ file' = Absent /\ UNCHANGED copy
       \/ copy' = [graph |-> Absent, ingested |-> {}] /\ UNCHANGED file
    /\ UNCHANGED <<graph, todo, reading, ingested, merged>>

Load == IF file = Absent THEN Empty ELSE file

(* The file is written aside and renamed, so it is never torn. *)
Restart ==
    /\ graph' = Load
    /\ todo' = <<>> /\ reading' = Absent
    /\ ingested' = IF file = Absent THEN {} ELSE ingested
    /\ UNCHANGED <<file, copy, merged>>

CrashInExport ==
    /\ Idle
    /\ copy' = [graph |-> Torn, ingested |-> {}]
    /\ graph' = Load
    /\ ingested' = IF file = Absent THEN {} ELSE ingested
    /\ UNCHANGED <<file, todo, reading, merged>>

Next == \/ \E text \in Texts : Graphify(text)
        \/ \E t \in Tasks, paths \in SUBSET Paths : PersistRun(t, paths)
        \/ \E clear \in BOOLEAN : Import(clear)
        \/ Step \/ Complete \/ Export \/ Cleanup \/ Restart \/ CrashInExport

Spec == Init /\ [][Next]_vars

-----------------------------------------------------------------------------
(* What an ingestion has reported stays in the graph, wherever the server  *)
(* goes down, until an import replaces the graph or a cleanup removes its  *)
(* file: each concept that is frequent enough, and its relations to others *)
(* that are (test_ingested_graph_data_persists_across_runtime_restart).    *)
KnowledgeIsKept ==
    \A text \in ingested :
        LET known == {c \in Entities(text) : Confident(c, text)}
        IN  /\ known \subseteq graph.nodes
            /\ \A p \in Relations(text) : ToSet(p) \subseteq known => HasEdge(p)

(* However often texts are ingested, with a crash and a repetition in      *)
(* between, two concepts are related at most once, and only concepts of    *)
(* the graph are; only an import into a graph that is not cleared makes    *)
(* parallel edges.                                                         *)
ConceptsAreLinkedOnce ==
    \A p \in Concepts \X Concepts :
        /\ ~merged => graph.edges[p] <= 1
        /\ HasEdge(p) => ToSet(p) \subseteq graph.nodes /\ p[1] # p[2]
=============================================================================
