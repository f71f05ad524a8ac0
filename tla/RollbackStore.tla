---------------------------- MODULE RollbackStore ----------------------------
(***************************************************************************)
(* The snapshots of harness/runtime/rollback.py as operators: snaps maps   *)
(* each task and path to what the task's directory holds for the path: the *)
(* content the path had (Nothing or a file), Unread when something is      *)
(* there that could not be read (a directory, or a file at an OSError),    *)
(* NoSnapshot, or Torn when the snapshot was not written to its end.       *)
(***************************************************************************)
EXTENDS FileTools

NoSnapshot == [kind |-> "unset",  by |-> Initially]
Torn       == [kind |-> "torn",   by |-> Initially]
Unread     == [kind |-> "unread", by |-> Initially]

Snapshots == [Tasks -> [Paths -> Contents \cup {NoSnapshot, Torn, Unread}]]
NoSnapshots == [p \in Paths |-> NoSnapshot]

(* existed and content: read_text may alter a text that is not plain       *)
(* UTF-8, and an OSError leaves no content.                                *)
Readings(fs, p) == IF ~Exists(fs, p) THEN {Nothing}
                   ELSE IF IsDir(fs, p) THEN {Unread}
                   ELSE {fs[p], File(Altered), Unread}

BugSnapshot(snaps, fs, t, p) == {[snaps EXCEPT ![t][p] = x] : x \in Readings(fs, p)}

(* A file that exists is the snapshot, whatever is in it. *)
Snapshot(snaps, fs, t, p) ==
    IF snaps[t][p] # NoSnapshot THEN {snaps}
    ELSE {[snaps EXCEPT ![t][p] = x] : x \in Readings(fs, p)}

SnapshotTorn(snaps, t, p) ==
    IF snaps[t][p] # NoSnapshot THEN snaps ELSE [snaps EXCEPT ![t][p] = Torn]

HasSnapshots(snaps, t) == \E p \in Paths : snaps[t][p] # NoSnapshot

(* The paths restore reports: those whose snapshot can be read, less those *)
(* where a file cannot be written or removed because a directory is there. *)
Restored(snaps, fs, t) ==
    {p \in Paths : /\ snaps[t][p] \notin {NoSnapshot, Torn}
                   /\ snaps[t][p] # Unread => ~IsDir(fs, p)}

(* A snapshot without content says only that something was there, and is   *)
(* reported as restored without anything being done.                       *)
Restore(snaps, fs, t) ==
    [p \in Paths |-> IF p \in Restored(snaps, fs, t) /\ snaps[t][p] # Unread
                     THEN snaps[t][p] ELSE fs[p]]

Discard(snaps, t) == [snaps EXCEPT ![t] = NoSnapshots]
=============================================================================
