------------------------------- MODULE KeyStore -------------------------------
(***************************************************************************)
(* The API keys of harness/api/key_store.py and the endpoints that manage  *)
(* them.  Each operation is one transaction, but for rotate_key, which     *)
(* takes three; nothing else runs between these, as the handlers do not    *)
(* pause, but the server may go down.                                      *)
(*                                                                         *)
(* Keys are fresh random identifiers, and the hash of a key is the key.    *)
(* Only what is about a key's life is in its event log here.               *)
(***************************************************************************)
EXTENDS Naturals, FiniteSets

CONSTANTS Keys, Scopes, Nobody,
          MaxTime   (* bound: the time; what expires later never does       *)

ASSUME KeyStoreAssumption == Nobody \notin Keys /\ MaxTime \in Nat

VARIABLES
    keys,       (* api_keys                                                 *)
    log,        (* api_key_events                                           *)
    rotation,   (* what rotate_key is at: the key and its replacement, once *)
                (* that has been created                                    *)
    now

vars == <<keys, log, rotation, now>>

Records == [scope : Scopes, tenant : Keys, expires_at : 0 .. MaxTime + 1, revoked : BOOLEAN]
Entry(k, type, other) == [key |-> k, type |-> type, other |-> other]
NoRotation == [old |-> Nobody, new |-> Nobody]

Init == /\ keys = [k \in {} |-> Nobody]
        /\ log = {}
        /\ rotation = NoRotation
        /\ now = 0

Stored == DOMAIN keys
IsActive(k) == k \in Stored /\ ~keys[k].revoked /\ keys[k].expires_at > now

Insert(k, record) == keys' = [j \in Stored \cup {k} |-> IF j = k THEN record ELSE keys[j]]

CreateKey(k, record) ==
    /\ k \notin Stored
    /\ Insert(k, record)
    /\ log' = log \cup {Entry(k, "created", Nobody)}

(* POST /api-keys: the tenant defaults to the key itself. *)
Create(k) ==
    /\ rotation = NoRotation
    /\ \E scope \in Scopes, expires_at \in 0 .. MaxTime + 1 :
          CreateKey(k, [scope |-> scope, tenant |-> k, expires_at |-> expires_at, revoked |-> FALSE])
    /\ UNCHANGED <<rotation, now>>

BugRevokeUnlogged(k) ==
    /\ rotation = NoRotation
    /\ k \in Stored /\ ~keys[k].revoked
    /\ keys' = [keys EXCEPT ![k].revoked = TRUE]
    /\ UNCHANGED <<log, rotation, now>>

(* DELETE /api-keys/{id} *)
Revoke(k) ==
    /\ rotation = NoRotation
    /\ k \in Stored /\ ~keys[k].revoked
    /\ keys' = [keys EXCEPT ![k].revoked = TRUE]
    /\ log' = log \cup {Entry(k, "revoked", Nobody)}
    /\ UNCHANGED <<rotation, now>>

(* POST /api-keys/{id}/rotate.  A key that is not active is replaced, too. *)
BeginRotation(k) ==
    /\ rotation = NoRotation
    /\ k \in Stored
    /\ rotation' = [old |-> k, new |-> Nobody]
    /\ UNCHANGED <<keys, log, now>>

BugCreateWithDefaults(k) ==
    /\ rotation.old # Nobody /\ rotation.new = Nobody
    /\ CreateKey(k, [keys[rotation.old] EXCEPT !.revoked = FALSE, !.tenant = k])
    /\ rotation' = [rotation EXCEPT !.new = k]
    /\ UNCHANGED now

(* The replacement has everything of the old key. *)
CreateReplacement(k) ==
    /\ rotation.old # Nobody /\ rotation.new = Nobody
    /\ CreateKey(k, [keys[rotation.old] EXCEPT !.revoked = FALSE])
    /\ rotation' = [rotation EXCEPT !.new = k]
    /\ UNCHANGED now

(* One transaction: the old key is revoked, and both logs tell. *)
FinishRotation ==
    /\ rotation.new # Nobody
    /\ keys' = [keys EXCEPT ![rotation.old].revoked = TRUE]
    /\ log' = log \cup {Entry(rotation.old, "rotated_out", rotation.new),
                        Entry(rotation.new, "rotated_in", rotation.old)}
    /\ rotation' = NoRotation
    /\ UNCHANGED now

Tick ==
    /\ now < MaxTime
    /\ now' = now + 1
    /\ UNCHANGED <<keys, log, rotation>>

Crash ==
    /\ rotation # NoRotation
    /\ rotation' = NoRotation
    /\ UNCHANGED <<keys, log, now>>

(* What a request gets that presents the key: the scope and the tenant it  *)
(* acts with, or nothing.                                                  *)
Authenticate(k) == IF IsActive(k) THEN {[scope |-> keys[k].scope, tenant |-> keys[k].tenant]} ELSE {}

Next == \/ \E k \in Keys : \/ Create(k) \/ Revoke(k) \/ BeginRotation(k)
                           \/ CreateReplacement(k)
        \/ FinishRotation \/ Tick \/ Crash

Spec == Init /\ [][Next]_vars

-----------------------------------------------------------------------------
TypeOK ==
    /\ Stored \subseteq Keys /\ \A k \in Stored : keys[k] \in Records
    /\ log \subseteq [key : Keys, type : {"created", "revoked", "rotated_out", "rotated_in"},
                      other : Keys \cup {Nobody}]
    /\ rotation \in [old : Keys \cup {Nobody}, new : Keys \cup {Nobody}]
    /\ now \in 0 .. MaxTime

(* "Create replacement first so we never have a window with no valid key"  *)
(* (rotate_key): whatever a key could do, it or another key can do until   *)
(* one of them is revoked by an administrator or expires, and a crash in   *)
(* the middle of a rotation changes nothing about that.                    *)
RotationLeavesNoGap ==
    [][\A k \in Keys :
          Authenticate(k) # {} /\ Authenticate(k)' = {} =>
             \/ keys[k].expires_at <= now'
             \/ Entry(k, "revoked", Nobody) \in log' \ log
             \/ \E j \in Keys \ {k} : Authenticate(j)' = Authenticate(k)]_vars

(* The log tells what became of a key: a key is revoked exactly when an    *)
(* event says that it was revoked or replaced, and a replacement is        *)
(* mentioned on both sides, whenever the server goes down.                 *)
LogTellsAll ==
    /\ \A k \in Stored :
          keys[k].revoked <=> \E e \in log : e.key = k /\ e.type \in {"revoked", "rotated_out"}
    /\ \A e \in log : e.type = "rotated_out" =>
          /\ Entry(e.other, "rotated_in", e.key) \in log
          /\ keys[e.other].tenant = keys[e.key].tenant
=============================================================================
