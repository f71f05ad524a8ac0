------------------------------ MODULE Migrations ------------------------------
(***************************************************************************)
(* harness/migrations/runner.py on one of the SQLite databases: the server *)
(* brings the schema up to its version when it starts, and so does         *)
(* "harness migrate", perhaps of another version of the package and at the *)
(* same time.  executescript commits statement by statement, and the       *)
(* version is recorded in a transaction of its own.                        *)
(*                                                                         *)
(* A statement is what it puts into the schema: <<version, number>>.  A    *)
(* lock of SQLite that is not obtained in time raises, as a crash does.    *)
(***************************************************************************)
EXTENDS Naturals

CONSTANTS Latest,       (* the versions are 1 .. Latest                     *)
          ScriptLength, (* the number of statements of a script             *)
          Once          (* versions whose statements fail when repeated     *)
                        (* (ALTER TABLE ADD COLUMN, not IF NOT EXISTS)      *)

VARIABLES
    exists,     (* the database file                                        *)
    schema,     (* statements whose effect is in the database               *)
    recorded,   (* _schema_migrations                                       *)
    proc        (* of each process: the version of its package, and, while  *)
                (* it migrates, the versions it found missing and the next  *)
                (* statement                                                *)

vars == <<exists, schema, recorded, proc>>

Processes == {"server", "migrate"}
Versions == 1 .. Latest
Script(v) == {v} \X (1 .. ScriptLength)
Off == [up |-> FALSE, binary |-> 0, todo |-> {}, next |-> 1]

Init == /\ exists = FALSE /\ schema = {} /\ recorded = {}
        /\ proc = [p \in Processes |-> Off]

(* available migrations that are not in applied_versions *)
Missing(binary) == (1 .. binary) \ recorded

(* check_version, and the first part of apply_migrations.  A schema that   *)
(* is newer than the package refuses the start.                            *)
Start(p, binary) ==
    /\ proc[p] = Off
    /\ p = "migrate" => exists
    /\ \A v \in recorded : v <= binary
    /\ exists' = TRUE
    /\ proc' = [proc EXCEPT ![p] = [up |-> Missing(binary) = {}, binary |-> binary,
                                    todo |-> Missing(binary), next |-> 1]]
    /\ UNCHANGED <<schema, recorded>>

(* The scripts are run in the order of their versions. *)
Current(p, v) == v \in proc[p].todo /\ \A u \in proc[p].todo : v <= u

(* A statement that fails ends the process. *)
RunStatement(p) ==
    /\ proc[p].next <= ScriptLength
    /\ \E v \in Versions :
          LET statement == <<v, proc[p].next>>
          IN  /\ Current(p, v)
              /\ \/ /\ v \in Once /\ statement \in schema
                    /\ proc' = [proc EXCEPT ![p] = Off]
                    /\ UNCHANGED schema
                 \/ /\ v \notin Once \/ statement \notin schema
                    /\ schema' = schema \cup {statement}
                    /\ proc' = [proc EXCEPT ![p].next = @ + 1]
    /\ UNCHANGED <<exists, recorded>>

BugScriptBegun(p) == proc[p].next > 1
ScriptDone(p) == proc[p].next > ScriptLength

(* The version is the primary key: the second INSERT of it raises. *)
RecordVersion(p) ==
    /\ ScriptDone(p)
    /\ \E v \in Versions :
          /\ Current(p, v)
          /\ recorded' = recorded \cup {v}
          /\ \/ /\ v \in recorded
                /\ proc' = [proc EXCEPT ![p] = Off]
             \/ /\ v \notin recorded
                /\ LET rest == proc[p].todo \ {v}
                   IN  proc' = [proc EXCEPT ![p] = [@ EXCEPT !.todo = rest, !.next = 1, !.up = rest = {}]]
    /\ UNCHANGED <<exists, schema>>

(* A process goes down, by itself or in a crash. *)
Stop(p) ==
    /\ proc[p] # Off
    /\ proc' = [proc EXCEPT ![p] = Off]
    /\ UNCHANGED <<exists, schema, recorded>>

Next == \E p \in Processes : \/ \E binary \in Versions : Start(p, binary)
                             \/ RunStatement(p) \/ RecordVersion(p) \/ Stop(p)

Spec == Init /\ [][Next]_vars

-----------------------------------------------------------------------------
(* Nothing works on a schema it does not know to be there: the effect of   *)
(* every recorded version is in the database, whoever crashed while        *)
(* migrating, and a process that is up finds all versions of its package   *)
(* recorded.                                                               *)
SchemaIsThere ==
    /\ \A v \in recorded : Script(v) \subseteq schema
    /\ \A p \in Processes : proc[p].up => 1 .. proc[p].binary \subseteq recorded
=============================================================================
