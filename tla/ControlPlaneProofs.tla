-------------------------- MODULE ControlPlaneProofs --------------------------
(***************************************************************************)
(* Proofs about parts of MCControlPlane, each for any values of its        *)
(* constants: API keys, templates and jobs, migrations, the heartbeat,     *)
(* settings, and the knowledge graph.  For KeyStore the module is the      *)
(* component's own, the others are its instances Jobs, Schema, Beat,       *)
(* Config and Graph.                                                       *)
(***************************************************************************)
EXTENDS MCControlPlane, SequenceTheorems, FiniteSetTheorems, TLAPS
-----------------------------------------------------------------------------
(* API keys.                                                               *)

(* Events are about keys that are there. *)
EventsOfStored ==
    \A e \in log : e.key \in Stored /\ (e.type = "rotated_out" => e.other \in Stored)

(* While a key is being replaced, its replacement can do what it could do. *)
ReplacementMatches ==
    /\ rotation.old \in Stored \cup {Nobody} /\ rotation.new \in Stored \cup {Nobody}
    /\ rotation.new # Nobody =>
          /\ rotation.old \in Stored /\ rotation.new # rotation.old
          /\ ~keys[rotation.new].revoked
          /\ keys[rotation.new].scope = keys[rotation.old].scope
          /\ keys[rotation.new].tenant = keys[rotation.old].tenant
          /\ keys[rotation.new].expires_at = keys[rotation.old].expires_at

(* The inductive invariant. *)
KeysInv == TypeOK /\ LogTellsAll /\ EventsOfStored /\ ReplacementMatches

-----------------------------------------------------------------------------
(* No keys, no events, no rotation. *)
LEMMA InitKeys == Init => KeysInv
  BY KeyStoreAssumption
  DEF Init, KeysInv, TypeOK, LogTellsAll, EventsOfStored, ReplacementMatches, Stored, NoRotation, Records

(* A fresh key comes with an event of its own, which contradicts no other: *)
(* the events of the others are about other keys.                          *)
LEMMA CreationKeeps ==
    ASSUME KeysInv, NEW k \in Keys, NEW record \in Records, ~record.revoked, CreateKey(k, record)
    PROVE  /\ Stored' = Stored \cup {k} /\ k \notin Stored
           /\ keys'[k] = record /\ \A j \in Stored : keys'[j] = keys[j]
           /\ (\A j \in Stored : keys[j] \in Records)'
           /\ LogTellsAll' /\ EventsOfStored'
<1> DEFINE created == Entry(k, "created", Nobody)
<1>1. /\ Stored' = Stored \cup {k} /\ k \notin Stored
      /\ keys'[k] = record /\ \A j \in Stored : keys'[j] = keys[j]
  BY DEF CreateKey, Insert, Stored
<1>2. (\A j \in Stored : keys[j] \in Records)'
  BY <1>1 DEF KeysInv, TypeOK
<1>3. log' = log \cup {created} /\ created.key = k /\ created.type = "created"
  BY DEF CreateKey, Entry
<1>4. EventsOfStored'
  BY <1>1, <1>3 DEF KeysInv, EventsOfStored
<1>5. ASSUME NEW j \in Stored'
      PROVE  keys'[j].revoked <=> \E e \in log' : e.key = j /\ e.type \in {"revoked", "rotated_out"}
  <2>1. CASE j = k
    BY <1>1, <1>3, <2>1 DEF KeysInv, EventsOfStored
  <2>2. CASE j # k
    BY <1>1, <1>3, <1>5, <2>2 DEF KeysInv, LogTellsAll
  <2>3. QED
    BY <2>1, <2>2
<1>6. ASSUME NEW e \in log', e.type = "rotated_out"
      PROVE  /\ Entry(e.other, "rotated_in", e.key) \in log'
             /\ keys'[e.other].tenant = keys'[e.key].tenant
  <2>1. e \in log /\ e.key \in Stored /\ e.other \in Stored
    BY <1>3, <1>6 DEF KeysInv, EventsOfStored
  <2>2. QED
    BY <1>1, <1>3, <1>6, <2>1 DEF KeysInv, LogTellsAll
<1>7. QED
  BY <1>1, <1>2, <1>4, <1>5, <1>6 DEF LogTellsAll

(* Marking a key as revoked changes nothing else about any key. *)
LEMMA RevocationKeeps ==
    ASSUME KeysInv, NEW k \in Stored, keys' = [keys EXCEPT ![k].revoked = TRUE]
    PROVE  /\ Stored' = Stored /\ keys'[k].revoked
           /\ \A j \in Stored :
                 /\ keys'[j] \in Records /\ keys'[j].tenant = keys[j].tenant
                 /\ j # k => keys'[j] = keys[j]
<1>1. Stored' = Stored /\ keys'[k] = [keys[k] EXCEPT !.revoked = TRUE]
  BY DEF Stored
<1>2. \A j \in Stored : keys[j] \in Records /\ (j # k => keys'[j] = keys[j])
  BY DEF KeysInv, TypeOK, Stored
<1>3. keys'[k].revoked /\ keys'[k] \in Records /\ keys'[k].tenant = keys[k].tenant
  <2>1. ASSUME NEW r \in Records
        PROVE  LET marked == [r EXCEPT !.revoked = TRUE]
               IN  marked \in Records /\ marked.revoked /\ marked.tenant = r.tenant
    BY DEF Records
  <2>2. keys[k] \in Records
    BY <1>2
  <2>3. QED
    BY <1>1, <2>1, <2>2
<1>4. QED
  BY <1>1, <1>2, <1>3

(* Every step keeps the invariant. *)
LEMMA NextKeys == KeysInv /\ [Next]_vars => KeysInv'
<1> SUFFICES ASSUME KeysInv, [Next]_vars PROVE KeysInv'
  OBVIOUS
<1> USE KeyStoreAssumption
<1>1. ASSUME NEW k \in Keys, Create(k) PROVE KeysInv'
  <2>1. PICK scope \in Scopes, expires_at \in 0 .. MaxTime + 1 :
           CreateKey(k, [scope |-> scope, tenant |-> k, expires_at |-> expires_at, revoked |-> FALSE])
    BY <1>1 DEF Create
  <2> DEFINE record == [scope |-> scope, tenant |-> k, expires_at |-> expires_at, revoked |-> FALSE]
  <2>2. record \in Records /\ ~record.revoked
    BY DEF Records
  <2>3. CreateKey(k, record)
    BY <2>1
  <2> HIDE DEF record
  <2>4. /\ Stored' = Stored \cup {k} /\ (\A j \in Stored : keys[j] \in Records)'
        /\ LogTellsAll' /\ EventsOfStored'
    BY <2>2, <2>3, CreationKeeps
  <2>5. TypeOK'
    BY <1>1, <2>3, <2>4 DEF KeysInv, TypeOK, Create, CreateKey, Entry
  <2>6. ReplacementMatches'
    BY <1>1, <2>4 DEF KeysInv, ReplacementMatches, Create, NoRotation
  <2>7. QED
    BY <2>4, <2>5, <2>6 DEF KeysInv
<1>2. ASSUME NEW k \in Keys, Revoke(k) PROVE KeysInv'
  <2>1. /\ Stored' = Stored /\ keys'[k].revoked
        /\ \A j \in Stored : /\ keys'[j] \in Records /\ keys'[j].tenant = keys[j].tenant
                             /\ j # k => keys'[j] = keys[j]
    BY <1>2, RevocationKeeps DEF Revoke
  <2> DEFINE revoked == Entry(k, "revoked", Nobody)
  <2>2. /\ log' = log \cup {revoked} /\ k \in Stored
        /\ rotation = NoRotation /\ rotation' = rotation /\ now' = now
        /\ revoked.key = k /\ revoked.type = "revoked"
    BY <1>2 DEF Revoke, Entry
  <2>3. TypeOK'
    <3>1. revoked \in [key : Keys, type : {"created", "revoked", "rotated_out", "rotated_in"},
                       other : Keys \cup {Nobody}]
      BY DEF Entry
    <3>2. QED
      BY <2>1, <2>2, <3>1 DEF KeysInv, TypeOK
  <2> HIDE DEF revoked
  <2>4. EventsOfStored'
    BY <2>1, <2>2 DEF KeysInv, EventsOfStored
  <2>5. LogTellsAll'
    <3>1. ASSUME NEW j \in Stored'
          PROVE  keys'[j].revoked <=> \E e \in log' : e.key = j /\ e.type \in {"revoked", "rotated_out"}
      <4>1. CASE j = k
        BY <2>1, <2>2, <4>1
      <4>2. CASE j # k
        BY <2>1, <2>2, <3>1, <4>2 DEF KeysInv, LogTellsAll
      <4>3. QED
        BY <4>1, <4>2
    <3>2. ASSUME NEW e \in log', e.type = "rotated_out"
          PROVE  /\ Entry(e.other, "rotated_in", e.key) \in log'
                 /\ keys'[e.other].tenant = keys'[e.key].tenant
      <4>1. e \in log
        BY <2>2, <3>2
      <4>2. QED
        BY <2>1, <2>2, <3>2, <4>1 DEF KeysInv, LogTellsAll, EventsOfStored
    <3>3. QED
      BY <3>1, <3>2 DEF LogTellsAll
  <2>6. ReplacementMatches'
    BY <2>1, <2>2 DEF ReplacementMatches, NoRotation
  <2>7. QED
    BY <2>3, <2>4, <2>5, <2>6 DEF KeysInv
<1>3. ASSUME NEW k \in Keys, BeginRotation(k) PROVE KeysInv'
  BY <1>3 DEF KeysInv, TypeOK, LogTellsAll, EventsOfStored, ReplacementMatches, BeginRotation, Stored
<1>4. ASSUME NEW k \in Keys, CreateReplacement(k) PROVE KeysInv'
  <2> DEFINE record == [keys[rotation.old] EXCEPT !.revoked = FALSE]
  <2>1. rotation.old \in Stored /\ keys[rotation.old] \in Records
    BY <1>4 DEF KeysInv, TypeOK, ReplacementMatches, CreateReplacement
  <2>2. /\ record \in Records /\ ~record.revoked
        /\ record.scope = keys[rotation.old].scope /\ record.tenant = keys[rotation.old].tenant
        /\ record.expires_at = keys[rotation.old].expires_at
    BY <2>1 DEF Records
  <2>3. CreateKey(k, record) /\ rotation' = [rotation EXCEPT !.new = k] /\ now' = now
    BY <1>4 DEF CreateReplacement
  <2> HIDE DEF record
  <2>4. /\ Stored' = Stored \cup {k} /\ k \notin Stored
        /\ keys'[k] = record /\ \A j \in Stored : keys'[j] = keys[j]
        /\ (\A j \in Stored : keys[j] \in Records)'
        /\ LogTellsAll' /\ EventsOfStored'
    BY <2>2, <2>3, CreationKeeps
  <2>5. TypeOK'
    BY <2>3, <2>4 DEF KeysInv, TypeOK, CreateKey, Entry
  <2>6. rotation'.old = rotation.old /\ rotation'.new = k
    BY <2>3 DEF KeysInv, TypeOK
  <2>7. ReplacementMatches'
    BY <2>1, <2>2, <2>4, <2>6 DEF ReplacementMatches
  <2>8. QED
    BY <2>4, <2>5, <2>7 DEF KeysInv
<1>5. CASE FinishRotation
  <2> DEFINE old == rotation.old
             new == rotation.new
             out == Entry(old, "rotated_out", new)
             in == Entry(new, "rotated_in", old)
  <2>1. /\ old \in Stored /\ new \in Stored /\ new # old /\ keys[new].tenant = keys[old].tenant
        /\ old \in Keys /\ new \in Keys
    BY <1>5 DEF KeysInv, TypeOK, ReplacementMatches, FinishRotation
  <2>2. /\ log' = log \cup {out, in} /\ rotation' = NoRotation /\ now' = now
        /\ out.key = old /\ out.type = "rotated_out" /\ out.other = new
        /\ in.key = new /\ in.type = "rotated_in"
    BY <1>5 DEF FinishRotation, Entry
  <2>3. /\ Stored' = Stored /\ keys'[old].revoked
        /\ \A j \in Stored : /\ keys'[j] \in Records /\ keys'[j].tenant = keys[j].tenant
                             /\ j # old => keys'[j] = keys[j]
    BY <1>5, <2>1, RevocationKeeps DEF FinishRotation
  <2>4. TypeOK'
    <3>1. {out, in} \subseteq [key : Keys, type : {"created", "revoked", "rotated_out", "rotated_in"},
                              other : Keys \cup {Nobody}]
      BY <2>1 DEF Entry
    <3>2. QED
      BY <2>2, <2>3, <3>1 DEF KeysInv, TypeOK, NoRotation
  <2>5. in = Entry(new, "rotated_in", old)
    OBVIOUS
  <2> HIDE DEF old, new, out, in
  <2>6. EventsOfStored'
    BY <2>1, <2>2, <2>3 DEF KeysInv, EventsOfStored
  <2>7. LogTellsAll'
    <3>1. ASSUME NEW j \in Stored'
          PROVE  keys'[j].revoked <=> \E e \in log' : e.key = j /\ e.type \in {"revoked", "rotated_out"}
      <4>1. CASE j = old
        BY <2>2, <2>3, <4>1
      <4>2. CASE j # old
        BY <2>2, <2>3, <3>1, <4>2 DEF KeysInv, LogTellsAll
      <4>3. QED
        BY <4>1, <4>2
    <3>2. ASSUME NEW e \in log', e.type = "rotated_out"
          PROVE  /\ Entry(e.other, "rotated_in", e.key) \in log'
                 /\ keys'[e.other].tenant = keys'[e.key].tenant
      <4>1. CASE e \in log
        BY <2>2, <2>3, <3>2, <4>1 DEF KeysInv, LogTellsAll, EventsOfStored
      <4>2. CASE e = out
        BY <2>1, <2>2, <2>3, <2>5, <4>2
      <4>3. QED
        BY <2>2, <3>2, <4>1, <4>2
    <3>3. QED
      BY <3>1, <3>2 DEF LogTellsAll
  <2>8. ReplacementMatches'
    BY <2>2 DEF ReplacementMatches, NoRotation
  <2>9. QED
    BY <2>4, <2>6, <2>7, <2>8 DEF KeysInv
<1>6. CASE Tick
  BY <1>6 DEF KeysInv, TypeOK, LogTellsAll, EventsOfStored, ReplacementMatches, Tick, Stored
<1>7. CASE Crash
  BY <1>7 DEF KeysInv, TypeOK, LogTellsAll, EventsOfStored, ReplacementMatches, Crash, Stored, NoRotation
<1>8. CASE UNCHANGED vars
  BY <1>8 DEF KeysInv, TypeOK, LogTellsAll, EventsOfStored, ReplacementMatches, vars, Stored
<1>9. QED
  BY <1>1, <1>2, <1>3, <1>4, <1>5, <1>6, <1>7, <1>8 DEF Next

LEMMA KeysInvariant == Spec => []KeysInv
  BY InitKeys, NextKeys, PTL DEF Spec

-----------------------------------------------------------------------------
(* The store and its log keep their types. *)
THEOREM KeysTyped == Spec => []TypeOK
<1>1. KeysInv => TypeOK
  BY DEF KeysInv
<1>2. QED
  BY <1>1, KeysInvariant, PTL

(* key_store.py: whenever the server goes down, the log says of every key  *)
(* whether it was revoked or replaced, and by which one.                   *)
THEOREM LogIsComplete == Spec => []LogTellsAll
<1>1. KeysInv => LogTellsAll
  BY DEF KeysInv
<1>2. QED
  BY <1>1, KeysInvariant, PTL

(* A key stops working because it expires, is revoked, or has a            *)
(* replacement that works.                                                 *)
LEMMA StepLeavesNoGap ==
    ASSUME KeysInv, [Next]_vars, NEW k \in Keys, Authenticate(k) # {}, Authenticate(k)' = {}
    PROVE  \/ keys[k].expires_at <= now'
           \/ Entry(k, "revoked", Nobody) \in log' \ log
           \/ \E j \in Keys \ {k} : Authenticate(j)' = Authenticate(k)
<1> USE KeyStoreAssumption
<1>1. k \in Stored /\ ~keys[k].revoked /\ keys[k].expires_at > now
  BY DEF Authenticate, IsActive
<1>2. ~(k \in Stored' /\ ~keys'[k].revoked /\ keys'[k].expires_at > now')
  BY DEF Authenticate, IsActive
<1>3. keys[k] \in Records /\ now \in Nat
  BY <1>1 DEF KeysInv, TypeOK
<1>4. ASSUME NEW j \in Keys, Create(j) \/ CreateReplacement(j) PROVE FALSE
  <2>1. j \notin Stored /\ now' = now /\ k \in Stored' /\ keys'[k] = keys[k]
    BY <1>1, <1>4 DEF Create, CreateReplacement, CreateKey, Insert, Stored
  <2>2. QED
    BY <1>1, <1>2, <2>1
<1>5. ASSUME NEW j \in Keys, Revoke(j) PROVE Entry(k, "revoked", Nobody) \in log' \ log
  <2>1. k = j
    BY <1>1, <1>2, <1>5 DEF Revoke, Stored
  <2>2. Entry(k, "revoked", Nobody) \notin log
    BY <1>1 DEF KeysInv, LogTellsAll, Entry
  <2>3. QED
    BY <1>5, <2>1, <2>2 DEF Revoke
<1>6. ASSUME FinishRotation PROVE \E j \in Keys \ {k} : Authenticate(j)' = Authenticate(k)
  <2>1. k = rotation.old
    BY <1>1, <1>2, <1>6 DEF FinishRotation, Stored
  <2>2. PICK j \in Keys \ {k} : j = rotation.new
    BY <1>6, <2>1 DEF KeysInv, TypeOK, ReplacementMatches, FinishRotation
  <2>3. /\ j \in Stored /\ ~keys[j].revoked
        /\ keys[j].scope = keys[k].scope /\ keys[j].tenant = keys[k].tenant
        /\ keys[j].expires_at = keys[k].expires_at
    BY <1>6, <2>1, <2>2 DEF KeysInv, ReplacementMatches, FinishRotation
  <2>4. j \in Stored' /\ keys'[j] = keys[j] /\ now' = now
    BY <1>6, <2>1, <2>2, <2>3 DEF FinishRotation, Stored
  <2>5. Authenticate(j)' = Authenticate(k)
    BY <1>1, <2>3, <2>4 DEF Authenticate, IsActive
  <2>6. QED
    BY <2>5
<1>7. ASSUME Tick PROVE keys[k].expires_at <= now'
  BY <1>1, <1>2, <1>3, <1>7 DEF Tick, Stored, Records
<1>8. ASSUME (\E j \in Keys : BeginRotation(j)) \/ Crash \/ UNCHANGED vars PROVE FALSE
  BY <1>1, <1>2, <1>8 DEF BeginRotation, Crash, vars, Stored
<1>9. QED
  BY <1>4, <1>5, <1>6, <1>7, <1>8 DEF Next

(* rotate_key: "Create replacement first so we never have a window with no *)
(* valid key", with a crash between its transactions, too.                 *)
THEOREM NoWindowWithoutKey == Spec => RotationLeavesNoGap
<1>1. KeysInv /\ [Next]_vars =>
         [\A k \in Keys :
            Authenticate(k) # {} /\ Authenticate(k)' = {} =>
               \/ keys[k].expires_at <= now'
               \/ Entry(k, "revoked", Nobody) \in log' \ log
               \/ \E j \in Keys \ {k} : Authenticate(j)' = Authenticate(k)]_vars
  BY StepLeavesNoGap
<1>2. QED
  BY <1>1, KeysInvariant, PTL DEF Spec, RotationLeavesNoGap

-----------------------------------------------------------------------------
(* Templates and jobs.                                                     *)

StoredContents == [templates : SUBSET Templates, jobs : [JobIds -> Templates \cup {NoJob}],
             stacks : SUBSET JobIds]
OnDisk == [templates : (SUBSET Templates) \cup {Torn}, jobs : [JobIds -> Templates \cup {NoJob}] \cup {Torn},
           stacks : (SUBSET JobIds) \cup {Torn}]

JobsTyped == /\ root \in Roots /\ (~moved => root = Launch)
             /\ mem \in StoredContents /\ files \in [Roots -> OnDisk]
             /\ jobs \in [JobIds -> Templates \cup {"stack", "maintenance", NoJob}]

(* A file of the workspace the server starts in is torn or up to date, as  *)
(* long as that workspace is the active one, and for every store some      *)
(* workspace has a torn file or one that is up to date.                    *)
FilesUpToDate ==
    \A s \in Jobs!Stores :
        /\ ~moved /\ files[Launch][s] # Torn => files[Launch][s] = mem[s]
        /\ (\A r \in Roots : files[r][s] # Torn) => \E r \in Roots : files[r][s] = mem[s]

(* The inductive invariant. *)
SchedulesInv == JobsTyped /\ FilesUpToDate /\ Jobs!RecordsAreScheduled

-----------------------------------------------------------------------------
(* Reading. *)
LEMMA LoadTyped == ASSUME NEW content \in OnDisk
                   PROVE  /\ Jobs!Load(content) \in StoredContents
                          /\ \A s \in Jobs!Stores : /\ Jobs!Load(content)[s] = Jobs!Read(content, s)
                                                    /\ content[s] # Torn => Jobs!Load(content)[s] = content[s]
<1>1. Jobs!Empty \in StoredContents
  BY DEF Jobs!Empty, StoredContents, Jobs!NoJobs
<1>2. \A s \in Jobs!Stores : Jobs!Read(content, s) = IF content[s] = Torn THEN Jobs!Empty[s] ELSE content[s]
  BY DEF Jobs!Read
<1>3. \A s \in Jobs!Stores : Jobs!Load(content)[s] = Jobs!Read(content, s)
  BY DEF Jobs!Load, Jobs!Stores
<1>4. Jobs!Load(content) \in StoredContents
  BY <1>1 DEF Jobs!Load, Jobs!Read, StoredContents, OnDisk
<1>5. QED
  BY <1>2, <1>3, <1>4

(* The start of the server. *)
LEMMA InitSchedules == Jobs!Init => SchedulesInv
  BY JobsAssumption DEF Jobs!Init, SchedulesInv, JobsTyped, FilesUpToDate, Jobs!RecordsAreScheduled,
     Jobs!Empty, Jobs!NoJobs, StoredContents, OnDisk, Jobs!Stores

(* A handler changes one store in memory and saves it. *)
LEMMA SavingKeeps ==
    ASSUME SchedulesInv, NEW store \in Jobs!Stores, mem' \in StoredContents, Jobs!Save(store),
           \A s \in Jobs!Stores \ {store} : mem'[s] = mem[s], root' = root, moved' = moved
    PROVE  /\ root' \in Roots /\ (~moved' => root' = Launch) /\ files' \in [Roots -> OnDisk]
           /\ FilesUpToDate'
<1>1. mem'[store] = files'[root][store] /\ \A s \in Jobs!Stores \ {store} : files'[root][s] = files[root][s]
  BY DEF Jobs!Save, SchedulesInv, JobsTyped, OnDisk, Jobs!Stores
<1>2. \A r \in Roots \ {root} : files'[r] = files[r]
  BY DEF Jobs!Save, SchedulesInv, JobsTyped
<1>3. files' \in [Roots -> OnDisk]
  BY DEF Jobs!Save, SchedulesInv, JobsTyped, OnDisk, StoredContents, Jobs!Stores
<1>4. FilesUpToDate'
  BY <1>1, <1>2, JobsAssumption DEF FilesUpToDate, SchedulesInv, JobsTyped
<1>5. QED
  BY <1>3, <1>4 DEF SchedulesInv, JobsTyped

(* A store is torn. *)
LEMMA TearingKeeps ==
    ASSUME SchedulesInv, NEW store \in Jobs!Stores, files' = [files EXCEPT ![root][store] = Torn]
    PROVE  /\ files' \in [Roots -> OnDisk] /\ files'[root][store] = Torn
           /\ \A r \in Roots, s \in Jobs!Stores : r # root \/ s # store => files'[r][s] = files[r][s]
<1>1. files'[root] = [files[root] EXCEPT ![store] = Torn]
  BY DEF SchedulesInv, JobsTyped
<1>2. \A r \in Roots \ {root} : files'[r] = files[r]
  BY DEF SchedulesInv, JobsTyped
<1>3. files[root] \in OnDisk
  BY DEF SchedulesInv, JobsTyped
<1>4. files'[root] \in OnDisk /\ files'[root][store] = Torn
      /\ \A s \in Jobs!Stores \ {store} : files'[root][s] = files[root][s]
  BY <1>1, <1>3 DEF OnDisk, Jobs!Stores
<1>5. files' \in [Roots -> OnDisk]
  BY <1>2, <1>4 DEF SchedulesInv, JobsTyped
<1>6. QED
  BY <1>2, <1>4, <1>5

(* After a start, jobs and records agree. *)
LEMMA StartingKeeps ==
    ASSUME files' \in [Roots -> OnDisk], Jobs!StartWith(Jobs!Load(files'[Launch]))
    PROVE  SchedulesInv'
<1>1. files'[Launch] \in OnDisk
  BY JobsAssumption
<1>2. /\ mem' \in StoredContents /\ mem' = Jobs!Load(files'[Launch])
      /\ \A s \in Jobs!Stores : files'[Launch][s] # Torn => files'[Launch][s] = mem'[s]
  <2>1. mem' = Jobs!Load(files'[Launch])
    BY DEF Jobs!StartWith
  <2>2. /\ Jobs!Load(files'[Launch]) \in StoredContents
        /\ \A s \in Jobs!Stores : files'[Launch][s] # Torn => Jobs!Load(files'[Launch])[s] = files'[Launch][s]
    BY <1>1, LoadTyped
  <2>3. QED
    BY <2>1, <2>2
<1>3. PICK maintenance \in BOOLEAN : jobs' = Jobs!Rehydrate(mem', maintenance)
  BY <1>2 DEF Jobs!StartWith
<1>4. crossed' = {j \in mem'.stacks : mem'.jobs[j] # NoJob} /\ root' = Launch
  BY <1>2 DEF Jobs!StartWith
<1>5. JobsTyped'
  BY <1>2, <1>3, <1>4, JobsAssumption DEF JobsTyped, Jobs!Rehydrate, StoredContents
<1>6. FilesUpToDate'
  BY <1>2, JobsAssumption DEF FilesUpToDate
<1>7. Jobs!RecordsAreScheduled'
  BY <1>2, <1>3, <1>4, JobsAssumption DEF Jobs!RecordsAreScheduled, Jobs!Rehydrate, StoredContents
<1>8. QED
  BY <1>5, <1>6, <1>7 DEF SchedulesInv
(* Every step keeps the invariant. *)
LEMMA NextSchedules == ASSUME SchedulesInv, [Jobs!Next]_(Jobs!vars) PROVE SchedulesInv'
<1> USE DEF SchedulesInv
<1>1. ASSUME NEW t \in Templates, Jobs!CreateTemplate(t) \/ Jobs!DeleteTemplate(t) \/ Jobs!EndRun(t)
      PROVE  SchedulesInv'
  <2>1. /\ mem' \in StoredContents /\ Jobs!Save("templates") /\ root' = root /\ moved' = moved
        /\ mem'.jobs = mem.jobs /\ mem'.stacks = mem.stacks
        /\ jobs' = jobs /\ crossed' = crossed
    BY <1>1 DEF JobsTyped, StoredContents, Jobs!CreateTemplate, Jobs!DeleteTemplate, Jobs!EndRun
  <2>2. \A s \in Jobs!Stores \ {"templates"} : mem'[s] = mem[s]
    BY <2>1 DEF Jobs!Stores
  <2>3. JobsTyped' /\ FilesUpToDate'
    BY <2>1, <2>2, SavingKeeps DEF JobsTyped, Jobs!Stores
  <2>4. Jobs!RecordsAreScheduled'
    BY <2>1 DEF Jobs!RecordsAreScheduled
  <2>5. QED
    BY <2>3, <2>4
<1>2. ASSUME NEW t \in Templates, Jobs!BeginRun(t) PROVE SchedulesInv'
  BY <1>2 DEF Jobs!BeginRun, JobsTyped, FilesUpToDate, Jobs!RecordsAreScheduled
<1>3. ASSUME NEW j \in JobIds, NEW t \in Templates, Jobs!CreateTemplateJob(j, t) PROVE SchedulesInv'
  <2>1. /\ mem' \in StoredContents /\ Jobs!Save("jobs") /\ root' = root /\ moved' = moved
        /\ mem'.jobs = [mem.jobs EXCEPT ![j] = t]
        /\ mem'.stacks = mem.stacks /\ mem'.templates = mem.templates
        /\ jobs' = [jobs EXCEPT ![j] = t] /\ crossed' = crossed \cup ({j} \cap mem.stacks)
    BY <1>3 DEF JobsTyped, StoredContents, Jobs!CreateTemplateJob
  <2>2. JobsTyped' /\ FilesUpToDate'
    BY <2>1, SavingKeeps DEF JobsTyped, Jobs!Stores
  <2>3. Jobs!RecordsAreScheduled'
    BY <2>1, JobsAssumption DEF JobsTyped, StoredContents, Jobs!RecordsAreScheduled
  <2>4. QED
    BY <2>2, <2>3
<1>4. ASSUME NEW j \in JobIds, Jobs!DeleteTemplateJob(j) PROVE SchedulesInv'
  <2>1. /\ mem' \in StoredContents /\ Jobs!Save("jobs") /\ root' = root /\ moved' = moved
        /\ mem'.jobs = [mem.jobs EXCEPT ![j] = NoJob]
        /\ mem'.stacks = mem.stacks /\ mem'.templates = mem.templates
        /\ jobs' = [jobs EXCEPT ![j] = NoJob] /\ crossed' = crossed \cup ({j} \cap mem.stacks)
    BY <1>4 DEF JobsTyped, StoredContents, Jobs!DeleteTemplateJob
  <2>2. JobsTyped' /\ FilesUpToDate'
    BY <2>1, SavingKeeps DEF JobsTyped, Jobs!Stores
  <2>3. Jobs!RecordsAreScheduled'
    BY <2>1, JobsAssumption DEF JobsTyped, StoredContents, Jobs!RecordsAreScheduled
  <2>4. QED
    BY <2>2, <2>3
<1>5. ASSUME NEW j \in JobIds, Jobs!CreateTaskStack(j) \/ Jobs!DeleteTaskStack(j) PROVE SchedulesInv'
  <2>1. /\ mem' \in StoredContents /\ Jobs!Save("stacks") /\ root' = root /\ moved' = moved
        /\ mem'.jobs = mem.jobs /\ mem'.templates = mem.templates
        /\ \/ mem'.stacks = mem.stacks \cup {j} /\ jobs' = [jobs EXCEPT ![j] = "stack"]
           \/ mem'.stacks = mem.stacks \ {j} /\ jobs' = [jobs EXCEPT ![j] = NoJob]
        /\ crossed' = crossed \cup Jobs!InJobs(j)
    BY <1>5 DEF JobsTyped, StoredContents, Jobs!CreateTaskStack, Jobs!DeleteTaskStack
  <2>2. JobsTyped' /\ FilesUpToDate'
    BY <2>1, SavingKeeps DEF JobsTyped, Jobs!Stores
  <2>3. Jobs!RecordsAreScheduled'
    BY <2>1, JobsAssumption DEF JobsTyped, StoredContents, Jobs!RecordsAreScheduled, Jobs!InJobs
  <2>4. QED
    BY <2>2, <2>3
<1>6. CASE Jobs!RegisterMaintenance
  BY <1>6, JobsAssumption DEF Jobs!RegisterMaintenance, JobsTyped, FilesUpToDate, Jobs!RecordsAreScheduled
<1>7. ASSUME NEW store \in Jobs!Stores, Jobs!Cleanup(store) PROVE SchedulesInv'
  <2>1. /\ files' \in [Roots -> OnDisk] /\ files'[root][store] = Torn
        /\ \A r \in Roots, s \in Jobs!Stores : r # root \/ s # store => files'[r][s] = files[r][s]
    BY <1>7, TearingKeeps DEF Jobs!Cleanup
  <2>2. UNCHANGED <<root, mem, jobs, running, made, moved, crossed>>
    BY <1>7 DEF Jobs!Cleanup
  <2>3. FilesUpToDate'
    BY <2>1, <2>2, JobsAssumption DEF JobsTyped, FilesUpToDate
  <2>4. QED
    BY <2>1, <2>2, <2>3 DEF JobsTyped, Jobs!RecordsAreScheduled
<1>8. ASSUME NEW r \in Roots, Jobs!SetRoot(r) PROVE SchedulesInv'
  BY <1>8 DEF Jobs!SetRoot, JobsTyped, FilesUpToDate, Jobs!RecordsAreScheduled
<1>9. CASE Jobs!Restart
  BY <1>9, StartingKeeps DEF Jobs!Restart, JobsTyped
<1>10. ASSUME NEW store \in Jobs!Stores, Jobs!CrashInSave(store) PROVE SchedulesInv'
  BY <1>10, TearingKeeps, StartingKeeps DEF Jobs!CrashInSave
<1>11. CASE UNCHANGED Jobs!vars
  BY <1>11 DEF Jobs!vars, JobsTyped, FilesUpToDate, Jobs!RecordsAreScheduled
<1>12. QED
  BY <1>1, <1>2, <1>3, <1>4, <1>5, <1>6, <1>7, <1>8, <1>9, <1>10, <1>11
  DEF Jobs!Next, Jobs!RunTemplate, Jobs!RunJob

-----------------------------------------------------------------------------
(* What a store read from its file is, is what is in memory, if no file of *)
(* the store is torn.                                                      *)
LEMMA InvGivesStored == ASSUME SchedulesInv PROVE Jobs!AcknowledgedIsStored
<1>1. ASSUME NEW s \in Jobs!Stores, \A r \in Roots : files[r][s] # Torn
      PROVE  /\ \E r \in Roots : Jobs!Load(files[r])[s] = mem[s]
             /\ ~moved => Jobs!Load(files[Launch])[s] = mem[s]
  <2>1. \A r \in Roots : Jobs!Load(files[r])[s] = files[r][s]
    <3>1. \A r \in Roots : files[r] \in OnDisk
      BY DEF SchedulesInv, JobsTyped
    <3>2. QED
      BY <1>1, <3>1, LoadTyped
  <2>2. QED
    BY <1>1, <2>1, JobsAssumption DEF SchedulesInv, FilesUpToDate
<1>2. QED
  BY <1>1 DEF Jobs!AcknowledgedIsStored

(* server.py: what has been acknowledged is in a file, and a restart gives *)
(* back all of it that is in an intact one.                                *)
THEOREM AcknowledgedSurvives == Jobs!Spec => []AcknowledgedIsStored
<1>1. Jobs!Init => SchedulesInv
  BY InitSchedules
<1>2. SchedulesInv /\ [Jobs!Next]_(Jobs!vars) => SchedulesInv'
  BY NextSchedules
<1>3. SchedulesInv => AcknowledgedIsStored
  BY InvGivesStored DEF AcknowledgedIsStored
<1>4. QED
  BY <1>1, <1>2, <1>3, PTL DEF Jobs!Spec

(* The scheduler has the jobs of the records and no others, however ids of *)
(* template jobs, task stacks and maintenance meet.                        *)
THEOREM JobsFollowRecords == Jobs!Spec => []RecordsAreScheduled
<1>1. Jobs!Init => SchedulesInv
  BY InitSchedules
<1>2. SchedulesInv /\ [Jobs!Next]_(Jobs!vars) => SchedulesInv'
  BY NextSchedules
<1>3. SchedulesInv => RecordsAreScheduled
  BY DEF SchedulesInv, RecordsAreScheduled
<1>4. QED
  BY <1>1, <1>2, <1>3, PTL DEF Jobs!Spec

(* A start brings back what is in the file, which is what was in memory,   *)
(* or, from a torn file, nothing.                                          *)
LEMMA StartingRevivesNothing ==
    ASSUME SchedulesInv, ~moved, NEW t \in Templates, t \in mem'.templates,
           mem' = Jobs!Load(files'[Launch]), files'[Launch] \in OnDisk,
           files'[Launch]["templates"] \in {Torn, files[Launch]["templates"]}
    PROVE  t \in mem.templates
<1>1. files'[Launch]["templates"] # Torn
  BY DEF Jobs!Load, Jobs!Read, Jobs!Empty
<1>2. mem'.templates = files'[Launch]["templates"]
  BY <1>1 DEF Jobs!Load, Jobs!Read
<1>3. files[Launch]["templates"] = mem["templates"]
  BY <1>1 DEF SchedulesInv, FilesUpToDate, Jobs!Stores
<1>4. QED
  BY <1>1, <1>2, <1>3

(* _run_template: only the end of a run brings a deleted template back, as *)
(* long as the server stays with the workspace it was started in.          *)
THEOREM DeletionsLast == Jobs!Spec => DeletedStaysDeleted
<1>1. ASSUME SchedulesInv, [Jobs!Next]_(Jobs!vars), NEW t \in made \ mem.templates, t \in mem'.templates,
             t \notin running, ~moved
      PROVE  FALSE
  <2>1. t \in Templates
    BY <1>1, NextSchedules DEF SchedulesInv, JobsTyped, StoredContents
  <2>2. CASE Jobs!Restart \/ \E store \in Jobs!Stores : Jobs!CrashInSave(store)
    <3>1. /\ mem' = Jobs!Load(files'[Launch]) /\ files'[Launch] \in OnDisk
          /\ files'[Launch]["templates"] \in {Torn, files[Launch]["templates"]}
      <4>1. CASE Jobs!Restart
        BY <1>1, <4>1, JobsAssumption DEF Jobs!Restart, Jobs!StartWith, SchedulesInv, JobsTyped
      <4>2. ASSUME NEW store \in Jobs!Stores, Jobs!CrashInSave(store)
            PROVE  /\ mem' = Jobs!Load(files'[Launch]) /\ files'[Launch] \in OnDisk
                   /\ files'[Launch]["templates"] \in {Torn, files[Launch]["templates"]}
        BY <1>1, <4>2, TearingKeeps, JobsAssumption DEF Jobs!CrashInSave, Jobs!StartWith, Jobs!Stores
      <4>3. QED
        BY <2>2, <4>1, <4>2
    <3>2. QED
      BY <1>1, <2>1, <3>1, StartingRevivesNothing
  <2>3. CASE \/ \E u \in Templates : Jobs!CreateTemplate(u) \/ Jobs!DeleteTemplate(u) \/ Jobs!EndRun(u)
             \/ \E u \in Templates : Jobs!BeginRun(u)
             \/ \E j \in JobIds : \/ \E u \in Templates : Jobs!CreateTemplateJob(j, u)
                                  \/ Jobs!DeleteTemplateJob(j) \/ Jobs!CreateTaskStack(j) \/ Jobs!DeleteTaskStack(j)
             \/ Jobs!RegisterMaintenance \/ (\E store \in Jobs!Stores : Jobs!Cleanup(store))
             \/ (\E r \in Roots : Jobs!SetRoot(r)) \/ UNCHANGED Jobs!vars
    BY <1>1, <2>3 DEF SchedulesInv, JobsTyped, StoredContents, Jobs!CreateTemplate, Jobs!DeleteTemplate,
       Jobs!EndRun, Jobs!BeginRun, Jobs!CreateTemplateJob, Jobs!DeleteTemplateJob, Jobs!CreateTaskStack,
       Jobs!DeleteTaskStack, Jobs!RegisterMaintenance, Jobs!Cleanup, Jobs!SetRoot, Jobs!vars
  <2>4. QED
    BY <1>1, <2>2, <2>3 DEF Jobs!Next, Jobs!RunTemplate, Jobs!RunJob
<1>2. SchedulesInv /\ [Jobs!Next]_(Jobs!vars) =>
         [\A t \in made \ mem.templates : t \in mem'.templates => t \in running \/ moved]_(Jobs!vars)
  BY <1>1
<1>3. Jobs!Init => SchedulesInv
  BY InitSchedules
<1>4. SchedulesInv /\ [Jobs!Next]_(Jobs!vars) => SchedulesInv'
  BY NextSchedules
<1>5. QED
  BY <1>2, <1>3, <1>4, PTL DEF Jobs!Spec, Jobs!DeletedStaysDeleted, DeletedStaysDeleted

-----------------------------------------------------------------------------
(* Migrations.                                                             *)

ProcTyped == proc \in [Schema!Processes -> [up : BOOLEAN, binary : 0 .. Latest,
                                     todo : SUBSET Schema!Versions, next : Nat \ {0}]]

(* What a process found missing and has not recorded is on its list. *)
NothingForgotten ==
    \A p \in Schema!Processes : /\ proc[p].up => proc[p].todo = {}
                                /\ 1 .. proc[p].binary \subseteq recorded \cup proc[p].todo

(* The statements a process has run of a script are in the schema. *)
ScriptBegun ==
    \A p \in Schema!Processes : \A v \in Schema!Versions :
       Schema!Current(p, v) => \A i \in 1 .. proc[p].next - 1 : <<v, i>> \in schema

(* The inductive invariant. *)
MigrationInv == ProcTyped /\ NothingForgotten /\ ScriptBegun /\ Schema!SchemaIsThere

-----------------------------------------------------------------------------
(* No version is recorded, and no process is up. *)
LEMMA InitMigration == Schema!Init => MigrationInv
<1> SUFFICES ASSUME Schema!Init PROVE MigrationInv
  OBVIOUS
<1> USE SchemaAssumption
<1>1. Schema!Off \in [up : BOOLEAN, binary : 0 .. Latest, todo : SUBSET Schema!Versions, next : Nat \ {0}]
  BY DEF Schema!Off
<1>2. ProcTyped /\ \A p \in Schema!Processes : proc[p] = Schema!Off
  BY <1>1 DEF Schema!Init, ProcTyped
<1>3. NothingForgotten /\ ScriptBegun /\ Schema!SchemaIsThere
  BY <1>2 DEF Schema!Init, NothingForgotten, ScriptBegun, Schema!SchemaIsThere, Schema!Current, Schema!Off
<1>4. QED
  BY <1>2, <1>3 DEF MigrationInv

(* A process that goes down leaves behind what it has committed. *)
LEMMA GoingDown ==
    ASSUME MigrationInv, NEW p \in Schema!Processes, proc' = [proc EXCEPT ![p] = Schema!Off],
           recorded' = recorded, schema' = schema
    PROVE  MigrationInv'
  BY SchemaAssumption DEF MigrationInv, ProcTyped, NothingForgotten, ScriptBegun, Schema!SchemaIsThere,
     Schema!Current, Schema!Versions, Schema!Off, Schema!Script

(* Every step keeps the invariant. *)
LEMMA NextMigration ==
    ASSUME MigrationInv, [Schema!Next]_(Schema!vars)
    PROVE  MigrationInv'
<1> USE SchemaAssumption
<1>1. ASSUME NEW p \in Schema!Processes, NEW binary \in Schema!Versions, Schema!Start(p, binary)
      PROVE  MigrationInv'
  BY <1>1 DEF Schema!Start, Schema!Missing, MigrationInv, ProcTyped, NothingForgotten, ScriptBegun,
     Schema!SchemaIsThere, Schema!Current, Schema!Versions, Schema!Off, Schema!Script
<1>2. ASSUME NEW p \in Schema!Processes, Schema!RunStatement(p) PROVE MigrationInv'
  <2>1. PICK v \in Schema!Versions :
           /\ Schema!Current(p, v)
           /\ \/ /\ proc' = [proc EXCEPT ![p] = Schema!Off]
                 /\ schema' = schema
              \/ /\ schema' = schema \cup {<<v, proc[p].next>>}
                 /\ proc' = [proc EXCEPT ![p].next = @ + 1]
    BY <1>2 DEF Schema!RunStatement
  <2>2. CASE proc' = [proc EXCEPT ![p] = Schema!Off] /\ schema' = schema
    BY <1>2, <2>2, GoingDown DEF Schema!RunStatement
  <2>3. CASE /\ schema' = schema \cup {<<v, proc[p].next>>}
             /\ proc' = [proc EXCEPT ![p].next = @ + 1]
    <3>1. /\ proc'[p] = [proc[p] EXCEPT !.next = @ + 1]
          /\ \A q \in Schema!Processes : q # p => proc'[q] = proc[q]
          /\ schema \subseteq schema' /\ recorded' = recorded
      BY <1>2, <2>3 DEF MigrationInv, ProcTyped, Schema!RunStatement
    <3>2. ProcTyped' /\ NothingForgotten'
      BY <2>3, <3>1 DEF MigrationInv, ProcTyped, NothingForgotten, Schema!Versions
    <3>3. Schema!SchemaIsThere'
      BY <3>1 DEF MigrationInv, ProcTyped, Schema!SchemaIsThere, Schema!Script
    <3>4. ASSUME NEW q \in Schema!Processes, NEW u \in Schema!Versions, Schema!Current(q, u)',
                 NEW i \in 1 .. proc'[q].next - 1
          PROVE  <<u, i>> \in schema'
      <4>1. Schema!Current(q, u)
        BY <3>1, <3>4 DEF Schema!Current, MigrationInv, ProcTyped
      <4>2. CASE q = p
        <5>1. u = v
          BY <2>1, <4>1, <4>2 DEF Schema!Current, MigrationInv, ProcTyped, Schema!Versions
        <5>2. i \in 1 .. proc[p].next
          BY <3>1, <3>4, <4>2 DEF MigrationInv, ProcTyped
        <5>3. QED
          <6>1. CASE i = proc[p].next
            BY <2>3, <5>1, <6>1
          <6>2. CASE i \in 1 .. proc[p].next - 1
            BY <2>1, <3>1, <5>1, <6>2 DEF MigrationInv, ScriptBegun
          <6>3. QED
            BY <5>2, <6>1, <6>2 DEF MigrationInv, ProcTyped
      <4>3. CASE q # p
        BY <3>1, <3>4, <4>1, <4>3 DEF MigrationInv, ScriptBegun
      <4>4. QED
        BY <4>2, <4>3
    <3>5. QED
      BY <3>2, <3>3, <3>4 DEF MigrationInv, ScriptBegun
  <2>4. QED
    BY <2>1, <2>2, <2>3
<1>3. ASSUME NEW p \in Schema!Processes, Schema!RecordVersion(p) PROVE MigrationInv'
  <2>1. PICK v \in Schema!Versions :
           /\ Schema!Current(p, v) /\ recorded' = recorded \cup {v}
           /\ \/ /\ v \in recorded
                 /\ proc' = [proc EXCEPT ![p] = Schema!Off]
              \/ /\ v \notin recorded
                 /\ proc' = [proc EXCEPT ![p] = [@ EXCEPT !.todo = proc[p].todo \ {v}, !.next = 1,
                                                         !.up = (proc[p].todo \ {v}) = {}]]
    BY <1>3 DEF Schema!RecordVersion
  <2>2. schema' = schema
    BY <1>3 DEF Schema!RecordVersion
  <2>3. CASE v \in recorded /\ proc' = [proc EXCEPT ![p] = Schema!Off]
    BY <2>1, <2>2, <2>3, GoingDown
  <2>4. CASE proc' = [proc EXCEPT ![p] = [@ EXCEPT !.todo = proc[p].todo \ {v}, !.next = 1,
                                                  !.up = (proc[p].todo \ {v}) = {}]]
    <3> DEFINE rest == proc[p].todo \ {v}
    <3>1. /\ proc'[p] = [up |-> rest = {}, binary |-> proc[p].binary, todo |-> rest, next |-> 1]
          /\ \A q \in Schema!Processes : q # p => proc'[q] = proc[q]
      BY <2>4 DEF MigrationInv, ProcTyped
    <3>2. ProcTyped'
      <4>1. proc' \in [Schema!Processes -> {proc[q] : q \in Schema!Processes} \cup {proc'[p]}]
        BY <2>4, <3>1 DEF MigrationInv, ProcTyped
      <4>2. proc'[p] \in [up : BOOLEAN, binary : 0 .. Latest, todo : SUBSET Schema!Versions, next : Nat \ {0}]
        <5>1. proc[p].binary \in 0 .. Latest /\ rest \in SUBSET Schema!Versions /\ (rest = {}) \in BOOLEAN
          BY DEF MigrationInv, ProcTyped
        <5>2. QED
          BY <3>1, <5>1
      <4>3. QED
        BY <4>1, <4>2 DEF MigrationInv, ProcTyped
    <3>3. NothingForgotten'
      BY <2>1, <3>1 DEF MigrationInv, ProcTyped, NothingForgotten
    <3>4. ScriptBegun'
      BY <2>2, <3>1 DEF MigrationInv, ProcTyped, ScriptBegun, Schema!Current
    <3>5. Schema!Script(v) \subseteq schema
      BY <1>3, <2>1 DEF Schema!RecordVersion, Schema!ScriptDone, Schema!Script, MigrationInv, ProcTyped,
         ScriptBegun
    <3>6. \A q \in Schema!Processes : proc'[q].up => 1 .. proc'[q].binary \subseteq recorded'
      BY <3>1, <3>2, <3>3 DEF ProcTyped, NothingForgotten
    <3>7. Schema!SchemaIsThere'
      BY <2>1, <2>2, <3>5, <3>6 DEF MigrationInv, Schema!SchemaIsThere, Schema!Script
    <3>8. QED
      BY <3>2, <3>3, <3>4, <3>7 DEF MigrationInv
  <2>5. QED
    BY <2>1, <2>3, <2>4
<1>4. ASSUME NEW p \in Schema!Processes, Schema!Stop(p) PROVE MigrationInv'
  BY <1>4, GoingDown DEF Schema!Stop
<1>5. CASE UNCHANGED Schema!vars
  BY <1>5 DEF Schema!vars, MigrationInv, ProcTyped, NothingForgotten, ScriptBegun, Schema!SchemaIsThere,
     Schema!Current, Schema!Script
<1>6. QED
  BY <1>1, <1>2, <1>3, <1>4, <1>5 DEF Schema!Next

(* runner.py: whatever crashes between the statements of a script and the  *)
(* recording of its version, a recorded version is in the schema, and a    *)
(* process that is up has all of its versions.                             *)
THEOREM RecordedIsApplied == Schema!Spec => []SchemaIsThere
<1>1. Schema!Init => MigrationInv
  BY InitMigration
<1>2. MigrationInv /\ [Schema!Next]_(Schema!vars) => MigrationInv'
  BY NextMigration
<1>3. MigrationInv => SchemaIsThere
  BY DEF MigrationInv, SchemaIsThere
<1>4. QED
  BY <1>1, <1>2, <1>3, PTL DEF Schema!Spec

-----------------------------------------------------------------------------
(* The heartbeat.                                                          *)

BeatTyped == /\ clock \in Nat \ {0} /\ beat \in 0 .. clock /\ alert \in BOOLEAN /\ carried \in BOOLEAN
             /\ \A r \in reports : r = [beat |-> r.beat, at |-> r.at] /\ r.beat \in Nat /\ r.at \in Nat

(* Reports are of beats that are over, or of the last one, while the alert *)
(* is on.                                                                  *)
ReportsAreOfOutages ==
    \A r \in reports : /\ r.at <= clock /\ r.beat <= beat
                       /\ r.beat = beat => alert /\ Beat!Missed

(* The inductive invariant. *)
BeatInv == BeatTyped /\ ReportsAreOfOutages /\ Beat!OutagesAreReportedOnce

LEMMA InitBeat == Beat!Init => BeatInv
<1> SUFFICES ASSUME Beat!Init PROVE BeatInv
  OBVIOUS
<1>1. BeatTyped
  <2>1. alert \in BOOLEAN /\ carried \in BOOLEAN
    BY DEF Beat!Init
  <2>2. clock \in Nat \ {0} /\ beat \in 0 .. clock /\ reports = {}
    BY DEF Beat!Init
  <2>3. QED
    BY <2>1, <2>2 DEF BeatTyped
<1>2. ReportsAreOfOutages
  BY DEF Beat!Init, ReportsAreOfOutages
<1>3. Beat!OutagesAreReportedOnce
  BY DEF Beat!Init, Beat!OutagesAreReportedOnce
<1>4. QED
  BY <1>1, <1>2, <1>3 DEF BeatInv

(* A beat is later than the last beat of every outage that was reported. *)
LEMMA BeatingKeeps ==
    ASSUME BeatInv, beat' = clock, UNCHANGED <<clock, reports>>,
           alert' \in BOOLEAN, carried' \in BOOLEAN, alert' => carried'
    PROVE  BeatInv'
<1> USE HeartbeatAssumption
<1>1. \A r \in reports : r.beat < clock
  BY DEF BeatInv, BeatTyped, ReportsAreOfOutages, Beat!OutagesAreReportedOnce
<1>2. BeatTyped' /\ ReportsAreOfOutages'
  BY <1>1 DEF BeatInv, BeatTyped, ReportsAreOfOutages
<1>3. Beat!OutagesAreReportedOnce'
  BY DEF BeatInv, Beat!OutagesAreReportedOnce
<1>4. QED
  BY <1>2, <1>3 DEF BeatInv

(* Every step keeps the invariant. *)
LEMMA NextBeat == ASSUME BeatInv, [Beat!Next]_(Beat!vars) PROVE BeatInv'
<1> USE HeartbeatAssumption
<1>1. CASE Beat!LoopTick
  BY <1>1, BeatingKeeps DEF Beat!LoopTick
<1>2. CASE Beat!ApiHeartbeat
  BY <1>2, BeatingKeeps DEF Beat!ApiHeartbeat, BeatInv, BeatTyped
<1>3. CASE Beat!ApiTick
  <2>1. UNCHANGED <<clock, beat>> /\ carried' = (carried /\ alert')
    BY <1>3 DEF Beat!ApiTick
  <2>2. CASE Beat!NewlyMissed
    <3> DEFINE new == [beat |-> beat, at |-> clock]
    <3>1. reports' = reports \cup {new} /\ alert' = TRUE /\ ~alert /\ Beat!Missed'
      BY <1>3, <2>2 DEF Beat!ApiTick, Beat!HeartbeatState, Beat!NewlyMissed, Beat!Missed
    <3>2. /\ new.beat = beat /\ new.at = clock /\ beat \in Nat /\ clock \in Nat /\ clock - beat > Timeout
          /\ new = [beat |-> new.beat, at |-> new.at]
      BY <2>2 DEF BeatInv, BeatTyped, Beat!NewlyMissed, Beat!Missed
    <3>3. \A r \in reports : r.beat # beat
      BY <3>1 DEF BeatInv, ReportsAreOfOutages
    <3> HIDE DEF new
    <3>4. BeatTyped'
      BY <2>1, <3>1, <3>2 DEF BeatInv, BeatTyped
    <3>5. ReportsAreOfOutages'
      BY <2>1, <3>1, <3>2, <3>3 DEF BeatInv, BeatTyped, ReportsAreOfOutages
    <3>6. Beat!OutagesAreReportedOnce'
      BY <2>1, <3>1, <3>2, <3>3 DEF BeatInv, BeatTyped, Beat!OutagesAreReportedOnce
    <3>7. QED
      BY <3>4, <3>5, <3>6 DEF BeatInv
  <2>3. CASE ~Beat!NewlyMissed
    <3>1. reports' = reports /\ alert' = (IF beat = 0 THEN alert ELSE Beat!Missed) /\ (alert' => alert)
          /\ (Beat!Missed => Beat!Missed')
      BY <1>3, <2>3 DEF Beat!ApiTick, Beat!HeartbeatState, Beat!NewlyMissed, Beat!Missed
    <3>2. alert' \in BOOLEAN /\ (alert /\ Beat!Missed => alert')
      BY <3>1 DEF BeatInv, BeatTyped, Beat!Missed
    <3>3. BeatTyped'
      BY <2>1, <3>1, <3>2 DEF BeatInv, BeatTyped
    <3>4. ReportsAreOfOutages'
      BY <2>1, <3>1, <3>2 DEF BeatInv, ReportsAreOfOutages
    <3>5. Beat!OutagesAreReportedOnce'
      BY <2>1, <3>1, <3>2 DEF BeatInv, Beat!OutagesAreReportedOnce
    <3>6. QED
      BY <3>3, <3>4, <3>5 DEF BeatInv
  <2>4. QED
    BY <2>2, <2>3
<1>4. CASE Beat!Advance
  BY <1>4 DEF Beat!Advance, BeatInv, BeatTyped, ReportsAreOfOutages, Beat!OutagesAreReportedOnce, Beat!Missed
<1>5. CASE UNCHANGED Beat!vars
  BY <1>5 DEF Beat!vars, BeatInv, BeatTyped, ReportsAreOfOutages, Beat!OutagesAreReportedOnce, Beat!Missed
<1>6. QED
  BY <1>1, <1>2, <1>3, <1>4, <1>5 DEF Beat!Next

(* module.py: every outage that a tick notices is reported once, and none  *)
(* that was none, whether the loop or a request beats and ticks.           *)
THEOREM EachOutageOnce == Beat!Spec => []OutagesAreReportedOnce
<1>1. Beat!Init => BeatInv
  BY InitBeat
<1>2. BeatInv /\ [Beat!Next]_(Beat!vars) => BeatInv'
  BY NextBeat
<1>3. BeatInv => OutagesAreReportedOnce
  BY DEF BeatInv, OutagesAreReportedOnce
<1>4. QED
  BY <1>1, <1>2, <1>3, PTL DEF Beat!Spec

-----------------------------------------------------------------------------
(* Settings.                                                               *)

ConfigTyped == /\ overrides \in Config!Configs /\ base \in Config!Configs /\ fileConfig \in Config!Configs
               /\ baseFile \in Config!Configs \cup {Torn} /\ localFile \in Config!Configs \cup {Torn}
               /\ latest \in Config!Configs

(* What is in memory agrees with the files, but for edits by hand since    *)
(* the start.                                                              *)
MemoryFollowsFiles ==
    /\ base = Config!Load(baseFile)
    /\ \A k \in Settings \ edited :
          /\ fileConfig[k] = Config!AfterRestart(k)
          /\ overrides[k] # Unset => overrides[k] = latest[k]

(* The inductive invariant. *)
ConfigInv == ConfigTyped /\ MemoryFollowsFiles /\ Config!SettingsSurvive

(* Of two values the one of the local file is taken. *)
LEMMA MergeIsLocalFirst ==
    ASSUME NEW b \in Config!Configs, NEW l \in Config!Configs
    PROVE  /\ Config!Merge(b, l) \in Config!Configs
           /\ \A k \in Settings : Config!Merge(b, l)[k] = IF l[k] # Unset THEN l[k] ELSE b[k]
  BY DEF Config!Merge, Config!Configs

(* What is loaded is a configuration. *)
LEMMA LoadIsConfig ==
    ASSUME NEW f \in Config!Configs \cup {Torn}
    PROVE  Config!Load(f) \in Config!Configs /\ (f \in Config!Configs => Config!Load(f) = f)
  BY SettingsAssumption DEF Config!Load, Config!Configs, Config!Nothing

LEMMA InitConfig == Config!Init => ConfigInv
<1> SUFFICES ASSUME Config!Init PROVE ConfigInv
  OBVIOUS
<1>1. Config!Nothing \in Config!Configs /\ \A k \in Settings : Config!Nothing[k] = Unset
  BY DEF Config!Nothing, Config!Configs
<1>2. /\ Config!Load(baseFile) = baseFile /\ Config!Load(localFile) = localFile
      /\ Config!Merge(baseFile, localFile) \in Config!Configs
  BY LoadIsConfig, MergeIsLocalFirst DEF Config!Init
<1>3. \A k \in Settings : fileConfig[k] = Config!AfterRestart(k) /\ Config!Get(k) = fileConfig[k]
  BY <1>1, <1>2 DEF Config!Init, Config!AfterRestart, Config!Get
<1>4. ConfigTyped
  BY <1>1, <1>2 DEF Config!Init, ConfigTyped
<1>5. MemoryFollowsFiles
  BY <1>1, <1>2, <1>3 DEF Config!Init, MemoryFollowsFiles
<1>6. Config!SettingsSurvive
  BY <1>3 DEF Config!Init, Config!SettingsSurvive
<1>7. QED
  BY <1>4, <1>5, <1>6 DEF ConfigInv

(* A start reads the files. *)
LEMMA StartingReads ==
    ASSUME baseFile' \in Config!Configs \cup {Torn}, localFile' \in Config!Configs \cup {Torn},
           Config!Start
    PROVE  /\ overrides' \in Config!Configs /\ base' \in Config!Configs /\ fileConfig' \in Config!Configs
           /\ MemoryFollowsFiles'
           /\ \A k \in Settings : Config!Get(k)' = Config!AfterRestart(k)'
<1>1. Config!Nothing \in Config!Configs /\ \A k \in Settings : Config!Nothing[k] = Unset
  BY DEF Config!Nothing, Config!Configs
<1>2. /\ base' = Config!Load(baseFile)' /\ overrides' = Config!Nothing
      /\ fileConfig' = Config!Merge(Config!Load(baseFile'), Config!Load(localFile'))
      /\ Config!Load(baseFile') \in Config!Configs /\ Config!Load(localFile') \in Config!Configs
  BY LoadIsConfig DEF Config!Start
<1>3. \A k \in Settings : fileConfig'[k] = Config!AfterRestart(k)' /\ Config!Get(k)' = fileConfig'[k]
  BY <1>1, <1>2 DEF Config!AfterRestart, Config!Get
<1>4. fileConfig' \in Config!Configs
  BY <1>2, MergeIsLocalFirst
<1>5. MemoryFollowsFiles'
  BY <1>1, <1>2, <1>3 DEF MemoryFollowsFiles
<1>6. QED
  BY <1>1, <1>2, <1>3, <1>4, <1>5

(* So what is in the files after a crash is all that matters. *)
LEMMA StartingKeepsSettings ==
    ASSUME baseFile' \in Config!Configs \cup {Torn}, localFile' \in Config!Configs \cup {Torn},
           latest' \in Config!Configs, Config!Start,
           \A k \in Settings : \/ Config!AfterRestart(k)' = latest'[k]
                               \/ k \notin LocalSettings /\ Config!Load(localFile')[k] # Unset
                               \/ k \in lost'
    PROVE  ConfigInv'
<1>1. /\ overrides' \in Config!Configs /\ base' \in Config!Configs /\ fileConfig' \in Config!Configs
      /\ MemoryFollowsFiles'
      /\ \A k \in Settings : Config!Get(k)' = Config!AfterRestart(k)'
  BY StartingReads
<1>2. ConfigTyped'
  BY <1>1 DEF ConfigTyped
<1>3. Config!SettingsSurvive'
  BY <1>1 DEF Config!SettingsSurvive
<1>4. QED
  BY <1>1, <1>2, <1>3 DEF ConfigInv

(* What a restart gives, setting by setting. *)
LEMMA RestartGives ==
    ASSUME baseFile \in Config!Configs \cup {Torn}, localFile \in Config!Configs \cup {Torn}, NEW k \in Settings
    PROVE  Config!AfterRestart(k) = IF Config!Load(localFile)[k] # Unset THEN Config!Load(localFile)[k]
                                    ELSE Config!Load(baseFile)[k]
  BY LoadIsConfig, MergeIsLocalFirst DEF Config!AfterRestart



(* Every step keeps the invariant. *)
LEMMA NextConfig == ASSUME ConfigInv, [Config!Next]_(Config!vars) PROVE ConfigInv'
<1> USE SettingsAssumption
<1> DEFINE b == Config!Load(baseFile)
           l == Config!Load(localFile)
<1>1. b \in Config!Configs /\ l \in Config!Configs /\ base = b
  BY LoadIsConfig DEF ConfigInv, ConfigTyped, MemoryFollowsFiles
<1>2. \A k \in Settings : Config!AfterRestart(k) = IF l[k] # Unset THEN l[k] ELSE b[k]
  BY RestartGives DEF ConfigInv, ConfigTyped
<1>3. ASSUME NEW k \in Settings, NEW v \in Values
      PROVE  /\ Config!NewBase(k, v) \in Config!Configs /\ Config!NewLocal(k, v) \in Config!Configs
             /\ \A j \in Settings : Config!NewBase(k, v)[j] = IF j # k THEN b[j]
                                                             ELSE IF k \in LocalSettings THEN Unset ELSE v
             /\ \A j \in Settings : Config!NewLocal(k, v)[j] = IF j = k /\ k \in LocalSettings THEN v ELSE l[j]
             /\ v # Unset /\ Config!NewLocal(k, v) # Torn /\ Config!NewBase(k, v) # Torn
             /\ k \notin LocalSettings => Config!NewLocal(k, v) = l
  BY <1>1 DEF Config!NewBase, Config!NewLocal, Config!Configs
<1> HIDE DEF b, l
<1>4. ASSUME NEW k \in Settings, NEW v \in Values, Config!Set(k, v) PROVE ConfigInv'
  <2> DEFINE nb == Config!NewBase(k, v)
             nl == Config!NewLocal(k, v)
  <2>1. /\ overrides' = [overrides EXCEPT ![k] = v] /\ base' = nb /\ fileConfig' = Config!Merge(nb, nl)
        /\ localFile' = (IF k \in LocalSettings THEN nl ELSE localFile) /\ baseFile' = nb
        /\ latest' = [latest EXCEPT ![k] = v] /\ lost' = lost \ {k} /\ edited' = edited \ {k}
    BY <1>4 DEF Config!Set
  <2>2. /\ nb \in Config!Configs /\ nl \in Config!Configs /\ nb # Torn /\ nl # Torn
        /\ \A j \in Settings : nb[j] = IF j # k THEN b[j] ELSE IF k \in LocalSettings THEN Unset ELSE v
        /\ \A j \in Settings : nl[j] = IF j = k /\ k \in LocalSettings THEN v ELSE l[j]
        /\ k \notin LocalSettings => nl = l
    BY <1>3
  <2> HIDE DEF nb, nl
  <2>3. /\ Config!Load(baseFile)' = nb /\ Config!Load(localFile)' = nl
        /\ localFile' \in Config!Configs \cup {Torn}
    BY <2>1, <2>2, LoadIsConfig DEF l, ConfigInv, ConfigTyped
  <2>4. \A j \in Settings : /\ Config!AfterRestart(j)' = IF nl[j] # Unset THEN nl[j] ELSE nb[j]
                            /\ fileConfig'[j] = Config!AfterRestart(j)'
    BY <2>1, <2>2, <2>3, MergeIsLocalFirst DEF Config!AfterRestart
  <2>5. ConfigTyped'
    <3>1. overrides' \in Config!Configs /\ latest' \in Config!Configs
      BY <2>1 DEF ConfigInv, ConfigTyped, Config!Configs
    <3>2. fileConfig' \in Config!Configs
      BY <2>1, <2>2, MergeIsLocalFirst
    <3>3. QED
      BY <2>1, <2>2, <2>3, <3>1, <3>2 DEF ConfigTyped
  <2>6. \A j \in Settings : /\ latest'[j] = IF j = k THEN v ELSE latest[j]
                            /\ overrides'[j] = IF j = k THEN v ELSE overrides[j]
    BY <2>1 DEF ConfigInv, ConfigTyped, Config!Configs
  <2>7. MemoryFollowsFiles'
    BY <2>1, <2>3, <2>4, <2>6 DEF ConfigInv, MemoryFollowsFiles
  <2>8. ASSUME NEW j \in Settings
        PROVE  \/ /\ Config!AfterRestart(j)' = latest'[j]
                  /\ Config!Get(j)' = latest'[j] \/ j \in edited'
               \/ j \notin LocalSettings /\ Config!Load(localFile)'[j] # Unset
               \/ j \in lost'
    <3>1. Config!AfterRestart(j)' = latest'[j] => (Config!Get(j)' = latest'[j] \/ j \in edited')
      BY <2>4, <2>7 DEF MemoryFollowsFiles, Config!Get
    <3>2. CASE j = k
      BY <1>3, <2>2, <2>3, <2>4, <2>6, <3>1, <3>2
    <3>3. CASE j # k
      <4>1. Config!AfterRestart(j)' = Config!AfterRestart(j) /\ nl[j] = l[j]
        BY <1>2, <2>2, <2>4, <3>3
      <4>2. QED
        BY <2>1, <2>3, <2>6, <3>1, <3>3, <4>1 DEF ConfigInv, Config!SettingsSurvive, l
    <3>4. QED
      BY <3>2, <3>3
  <2>9. QED
    BY <2>5, <2>7, <2>8 DEF ConfigInv, Config!SettingsSurvive
<1>5. ASSUME NEW k \in Settings, Config!CrashInLocal(k) PROVE ConfigInv'
  <2>1. /\ k \in LocalSettings /\ localFile' = Torn /\ baseFile' = baseFile /\ latest' = latest
        /\ lost' = lost \cup {j \in Settings : Config!NewLocal(k, Unset)[j] # Unset} \cup {k}
        /\ Config!Start
    BY <1>5 DEF Config!CrashInLocal
  <2>2. \A j \in Settings : j # k => Config!NewLocal(k, Unset)[j] = l[j]
    BY <1>1, <2>1 DEF Config!NewLocal, Config!Configs, l
  <2>3. \A j \in Settings : Config!AfterRestart(j)' = b[j]
    <3>1. Config!Load(Torn) = Config!Nothing /\ \A j \in Settings : Config!Nothing[j] = Unset
      BY DEF Config!Load, Config!Nothing
    <3>2. Config!Nothing \in Config!Configs
      BY DEF Config!Nothing, Config!Configs
    <3>3. \A j \in Settings : Config!AfterRestart(j)' = Config!Merge(b, Config!Nothing)[j]
      BY <2>1, <3>1 DEF Config!AfterRestart, b
    <3>4. QED
      BY <1>1, <3>1, <3>2, <3>3, MergeIsLocalFirst
  <2>4. ASSUME NEW j \in Settings PROVE Config!AfterRestart(j)' = latest'[j] \/ j \in lost'
    <3>1. CASE j = k \/ l[j] # Unset
      BY <2>1, <2>2, <3>1
    <3>2. CASE j # k /\ l[j] = Unset
      BY <1>2, <2>1, <2>3, <3>2 DEF ConfigInv, Config!SettingsSurvive, l
    <3>3. QED
      BY <3>1, <3>2
  <2>5. QED
    BY <2>1, <2>4, StartingKeepsSettings DEF ConfigInv, ConfigTyped
<1>6. ASSUME NEW k \in Settings, NEW v \in Values, Config!CrashInBase(k, v) PROVE ConfigInv'
  <2> DEFINE nb == Config!NewBase(k, v)
             nl == Config!NewLocal(k, v)
  <2>1. /\ localFile' = (IF k \in LocalSettings THEN nl ELSE localFile) /\ baseFile' = Torn
        /\ latest' = [latest EXCEPT ![k] = v]
        /\ lost' = lost \cup {j \in Settings : nb[j] # Unset}
        /\ Config!Start
    BY <1>6 DEF Config!CrashInBase
  <2>2. /\ nl \in Config!Configs /\ nl # Torn /\ v # Unset
        /\ \A j \in Settings : nb[j] = IF j # k THEN b[j] ELSE IF k \in LocalSettings THEN Unset ELSE v
        /\ \A j \in Settings : nl[j] = IF j = k /\ k \in LocalSettings THEN v ELSE l[j]
        /\ k \notin LocalSettings => nl = l
    BY <1>3
  <2> HIDE DEF nb, nl
  <2>3. localFile' \in Config!Configs \cup {Torn} /\ Config!Load(localFile') = nl
    BY <2>1, <2>2, LoadIsConfig DEF l, ConfigInv, ConfigTyped
  <2>4. \A j \in Settings : Config!AfterRestart(j)' = nl[j]
    <3>1. Config!Load(Torn) = Config!Nothing /\ \A j \in Settings : Config!Nothing[j] = Unset
      BY DEF Config!Load, Config!Nothing
    <3>2. Config!Nothing \in Config!Configs
      BY DEF Config!Nothing, Config!Configs
    <3>3. \A j \in Settings : Config!AfterRestart(j)' = Config!Merge(Config!Nothing, nl)[j]
      BY <2>1, <2>3, <3>1 DEF Config!AfterRestart
    <3>4. QED
      BY <2>2, <3>1, <3>2, <3>3, MergeIsLocalFirst
  <2>5. /\ latest' \in Config!Configs
        /\ \A j \in Settings : latest'[j] = IF j = k THEN v ELSE latest[j]
    <3>1. v \in Values \cup {Unset}
      OBVIOUS
    <3>2. QED
      BY <2>1, <3>1 DEF ConfigInv, ConfigTyped, Config!Configs
  <2>6. ASSUME NEW j \in Settings
        PROVE  \/ Config!AfterRestart(j)' = latest'[j]
               \/ j \notin LocalSettings /\ Config!Load(localFile')[j] # Unset
               \/ j \in lost'
    <3>1. CASE nb[j] # Unset
      BY <2>1, <3>1
    <3>2. CASE nb[j] = Unset /\ j = k
      BY <2>2, <2>4, <2>5, <3>2
    <3>3. CASE nb[j] = Unset /\ j # k
      <4>1. nl[j] = l[j] /\ Config!AfterRestart(j) = l[j]
        BY <1>2, <2>2, <3>3
      <4>2. QED
        BY <2>1, <2>3, <2>4, <2>5, <3>3, <4>1 DEF ConfigInv, Config!SettingsSurvive, l
    <3>4. QED
      BY <3>1, <3>2, <3>3
  <2>7. QED
    BY <2>1, <2>3, <2>5, <2>6, StartingKeepsSettings
<1>7. ASSUME NEW k \in Settings, NEW v \in Values, Config!CrashBetween(k, v) PROVE ConfigInv'
  <2> DEFINE nl == Config!NewLocal(k, v)
  <2>1. /\ k \in LocalSettings /\ localFile' = nl /\ baseFile' = baseFile /\ lost' = lost
        /\ latest' = [latest EXCEPT ![k] = v] /\ Config!Start
    BY <1>7 DEF Config!CrashBetween
  <2>2. /\ nl \in Config!Configs /\ nl # Torn /\ v # Unset
        /\ \A j \in Settings : nl[j] = IF j = k THEN v ELSE l[j]
    BY <1>3, <2>1
  <2> HIDE DEF nl
  <2>3. Config!Load(localFile') = nl /\ Config!Load(baseFile') = b
    BY <2>1, <2>2, LoadIsConfig DEF b
  <2>4. \A j \in Settings : Config!AfterRestart(j)' = IF nl[j] # Unset THEN nl[j] ELSE b[j]
    BY <1>1, <2>2, <2>3, MergeIsLocalFirst DEF Config!AfterRestart
  <2>5. /\ latest' \in Config!Configs
        /\ \A j \in Settings : latest'[j] = IF j = k THEN v ELSE latest[j]
    <3>1. v \in Values \cup {Unset}
      OBVIOUS
    <3>2. QED
      BY <2>1, <3>1 DEF ConfigInv, ConfigTyped, Config!Configs
  <2>6. \A j \in Settings : \/ Config!AfterRestart(j)' = latest'[j]
                            \/ j \notin LocalSettings /\ Config!Load(localFile')[j] # Unset
                            \/ j \in lost'
    BY <1>2, <2>1, <2>2, <2>3, <2>4, <2>5 DEF ConfigInv, Config!SettingsSurvive, l
  <2>7. baseFile' \in Config!Configs \cup {Torn} /\ localFile' \in Config!Configs \cup {Torn}
    BY <2>1, <2>2 DEF ConfigInv, ConfigTyped
  <2>8. QED
    BY <2>1, <2>5, <2>6, <2>7, StartingKeepsSettings
<1>8. CASE Config!Restart
  <2>1. UNCHANGED <<baseFile, localFile, latest, lost>> /\ Config!Start
    BY <1>8 DEF Config!Restart
  <2>2. \A j \in Settings : Config!AfterRestart(j)' = Config!AfterRestart(j)
    BY <2>1 DEF Config!AfterRestart
  <2>3. QED
    BY <2>1, <2>2, StartingKeepsSettings DEF ConfigInv, ConfigTyped, Config!SettingsSurvive
<1>9. ASSUME NEW k \in Settings, NEW v \in Values \cup {Unset}, Config!EditLocal(k, v) PROVE ConfigInv'
  <2> DEFINE nl == [l EXCEPT ![k] = v]
  <2>1. /\ localFile' = nl /\ UNCHANGED <<overrides, base, fileConfig, baseFile, lost>>
        /\ edited' = edited \cup {k}
        /\ latest' = [latest EXCEPT ![k] = Config!AfterRestart(k)']
    BY <1>9 DEF Config!EditLocal, Config!AfterRestart, l
  <2>2. nl \in Config!Configs /\ nl # Torn /\ \A j \in Settings : nl[j] = IF j = k THEN v ELSE l[j]
    BY <1>1 DEF Config!Configs
  <2> HIDE DEF nl
  <2>3. Config!Load(localFile') = nl /\ Config!Load(baseFile') = b
    BY <2>1, <2>2, LoadIsConfig DEF b
  <2>4. \A j \in Settings : Config!AfterRestart(j)' = IF nl[j] # Unset THEN nl[j] ELSE b[j]
    BY <1>1, <2>2, <2>3, MergeIsLocalFirst DEF Config!AfterRestart
  <2>5. /\ latest' \in Config!Configs
        /\ \A j \in Settings : latest'[j] = IF j = k THEN Config!AfterRestart(k)' ELSE latest[j]
    <3>1. Config!AfterRestart(k)' \in Values \cup {Unset}
      BY <1>1, <2>2, <2>4 DEF Config!Configs
    <3>2. QED
      BY <2>1, <3>1 DEF ConfigInv, ConfigTyped, Config!Configs
  <2>6. \A j \in Settings \ {k} : Config!AfterRestart(j)' = Config!AfterRestart(j)
    BY <1>2, <2>2, <2>4
  <2>7. ConfigTyped'
    BY <2>1, <2>2, <2>5 DEF ConfigInv, ConfigTyped
  <2>8. MemoryFollowsFiles'
    BY <2>1, <2>3, <2>5, <2>6, <1>1 DEF ConfigInv, MemoryFollowsFiles
  <2>9. \A j \in Settings : Config!Get(j)' = Config!Get(j)
    BY <2>1 DEF Config!Get
  <2>10. Config!SettingsSurvive'
    BY <2>1, <2>2, <2>3, <2>5, <2>6, <2>9 DEF ConfigInv, Config!SettingsSurvive, l
  <2>11. QED
    BY <2>7, <2>8, <2>10 DEF ConfigInv
<1>10. CASE UNCHANGED Config!vars
  BY <1>10 DEF Config!vars, ConfigInv, ConfigTyped, MemoryFollowsFiles, Config!SettingsSurvive, Config!Get,
     Config!AfterRestart
<1>11. QED
  BY <1>4, <1>5, <1>6, <1>7, <1>8, <1>9, <1>10 DEF Config!Next

(* config.py: settings are after a restart what they were set to last,     *)
(* except for those of torn files, and reading one gives that value unless *)
(* it has been edited by hand.                                             *)
THEOREM SettingsLast == Config!Spec => []SettingsSurvive
<1>1. Config!Init => ConfigInv
  BY InitConfig
<1>2. ConfigInv /\ [Config!Next]_(Config!vars) => ConfigInv'
  BY NextConfig
<1>3. ConfigInv => SettingsSurvive
  BY DEF ConfigInv, SettingsSurvive
<1>4. QED
  BY <1>1, <1>2, <1>3, PTL DEF Config!Spec

-----------------------------------------------------------------------------
(* The knowledge graph.                                                    *)

GraphSet == [nodes : SUBSET Graph!Nodes, edges : [Graph!Pairs -> Nat]]
Additions ==
    [kind : {"concept"}, what : Concepts] \cup [kind : {"node"}, what : Tasks \cup Paths]
    \cup [kind : {"edge"}, what : Tasks \X Paths]
    \cup [kind : {"link"}, what : {p \in Concepts \X Concepts : p[1] # p[2]}]

(* What an ingestion is to put into a graph, and that it is there.         *)
Known(text) == {c \in Graph!Entities(text) : Graph!Confident(c, text)}
Related(text) == {p \in Graph!Relations(text) : Graph!ToSet(p) \subseteq Known(text)}
Holds(g, text) == Known(text) \subseteq g.nodes /\ \A p \in Related(text) : g.edges[p] > 0

Linked(g) == \A p \in Concepts \X Concepts :
                g.edges[p] > 0 => p[1] \in g.nodes /\ p[2] \in g.nodes /\ p[1] # p[2]
Single(g) == \A p \in Concepts \X Concepts : g.edges[p] <= 1

GraphTyped ==
    /\ graph \in GraphSet /\ (file = Absent \/ file = graph)
    /\ copy \in [graph : GraphSet \cup {Absent, Torn}, ingested : SUBSET Texts]
    /\ todo \in Seq(Additions) /\ reading \in Texts \cup {Absent}
    /\ ingested \in SUBSET Texts /\ merged \in BOOLEAN

(* What a text that is being read still lacks is on the list of what is to *)
(* be added, and a link comes after all the concepts.                      *)
ReadingInv ==
    reading # Absent =>
        /\ \A c \in Known(reading) :
              c \in graph.nodes \/ \E i \in DOMAIN todo : todo[i] = Graph!Add("concept", c)
        /\ \A p \in Related(reading) :
              graph.edges[p] > 0 \/ \E i \in DOMAIN todo : todo[i] = Graph!Add("link", p)
        /\ \A i, j \in DOMAIN todo : todo[i].kind = "link" /\ todo[j].kind = "concept" => j < i

CopyInv ==
    copy.graph \in GraphSet =>
        /\ Linked(copy.graph) /\ (~merged => Single(copy.graph))
        /\ \A text \in copy.ingested : Holds(copy.graph, text)

GraphInv ==
    /\ GraphTyped /\ ReadingInv /\ CopyInv
    /\ Linked(graph) /\ (~merged => Single(graph))
    /\ \A text \in ingested : Holds(graph, text)

-----------------------------------------------------------------------------
(* A pair as the set of its two. *)
LEMMA TwoOfPair == ASSUME NEW S, NEW T, NEW p \in S \X T PROVE Graph!ToSet(p) = {p[1], p[2]}
<1>1. p = <<p[1], p[2]>> /\ DOMAIN p = {1, 2}
  OBVIOUS
<1>2. QED
  BY <1>1 DEF Graph!ToSet

LEMMA EmptyGraph ==
    /\ Graph!Empty \in GraphSet /\ Linked(Graph!Empty) /\ Single(Graph!Empty)
    /\ Absent \notin GraphSet /\ Torn \notin GraphSet
<1>1. Graph!Empty \in GraphSet /\ \A p \in Graph!Pairs : Graph!Empty.edges[p] = 0
  BY DEF Graph!Empty, GraphSet
<1>2. Concepts \X Concepts \subseteq Graph!Pairs
  BY DEF Graph!Pairs, Graph!Nodes
<1>3. Absent \notin GraphSet /\ Torn \notin GraphSet
  BY GraphAssumption DEF GraphSet
<1>4. QED
  BY <1>1, <1>2, <1>3 DEF Linked, Single

(* An order of a finite set lists all of it.                               *)
LEMMA AllAreListed ==
    ASSUME NEW S, IsFiniteSet(S), NEW order \in Graph!SetToSeqs(S)
    PROVE  order \in Seq(S) /\ \A x \in S : \E i \in DOMAIN order : order[i] = x
<1> DEFINE n == Cardinality(S)
<1>1. Graph!Cardinality(S) = n
  BY DEF Graph!Cardinality, Cardinality
<1>2. n \in Nat
  BY FS_CardinalityType
<1> HIDE DEF n
<1>3. order \in [1 .. n -> S] /\ \A i, j \in 1 .. n : i # j => order[i] # order[j]
  BY <1>1 DEF Graph!SetToSeqs
<1>4. order \in Seq(S) /\ DOMAIN order = 1 .. n
  BY <1>2, <1>3
<1>5. order \in Injection(1 .. n, S)
  BY <1>3 DEF Injection, IsInjective
<1>6. Cardinality(1 .. n) = n /\ n = Cardinality(S)
  <2>1. Cardinality(1 .. n) = IF 1 > n THEN 0 ELSE n - 1 + 1
    BY <1>2, FS_Interval
  <2>2. QED
    BY <1>2, <2>1 DEF n
<1>7. order \in Surjection(1 .. n, S)
  BY <1>5, <1>6, FS_Injection
<1>8. \A x \in S : \E i \in 1 .. n : order[i] = x
  BY <1>7 DEF Surjection
<1>9. QED
  BY <1>4, <1>8

(* A text has finitely many concepts, and relations between them.          *)
LEMMA TextsAreFinite ==
    ASSUME NEW text \in Texts
    PROVE  /\ IsFiniteSet(Known(text)) /\ IsFiniteSet(Graph!Relations(text))
           /\ Known(text) \subseteq Concepts
           /\ Graph!Relations(text) \subseteq {p \in Concepts \X Concepts : p[1] # p[2]}
<1> DEFINE places == Graph!Places(text)
           nexts  == Graph!Neighbours(text)
<1>1. IsFiniteSet(places) /\ (\A i \in places : text[i] \in Concepts)
  <2>1. IsFiniteSet(DOMAIN text) /\ places \in SUBSET (DOMAIN text)
    BY GraphAssumption DEF Graph!Places
  <2>2. QED
    BY <2>1, FS_Subset DEF Graph!Places
<1>2. IsFiniteSet(nexts) /\ nexts \subseteq places \X places
  <2>1. IsFiniteSet(places \X places) /\ nexts \in SUBSET (places \X places)
    BY <1>1, FS_Product DEF Graph!Neighbours
  <2>2. QED
    BY <2>1, FS_Subset
<1> HIDE DEF places, nexts
<1>3. IsFiniteSet(Graph!Entities(text)) /\ Graph!Entities(text) \subseteq Concepts
  <2> DEFINE f == [i \in places |-> text[i]]
             T == Graph!Entities(text)
  <2>1. T = {text[i] : i \in places}
    BY DEF Graph!Entities, places
  <2>2. f \in Surjection(places, T)
    <3>1. f \in [places -> T]
      BY <2>1
    <3>2. \A t \in T : \E i \in places : f[i] = t
      BY <2>1
    <3>3. QED
      BY <3>1, <3>2 DEF Surjection
  <2> HIDE DEF f, T
  <2>3. IsFiniteSet(T)
    BY <1>1, <2>2, FS_Surjection
  <2>4. T \subseteq Concepts
    BY <1>1, <2>1
  <2>5. QED
    BY <2>3, <2>4 DEF T
<1>4. IsFiniteSet(Graph!Adjacent(text)) /\ Graph!Adjacent(text) \subseteq Concepts \X Concepts
  <2> DEFINE f == [n \in nexts |-> <<text[n[1]], text[n[2]]>>]
             T == Graph!Adjacent(text)
  <2>1. T = {<<text[n[1]], text[n[2]]>> : n \in nexts}
    BY DEF Graph!Adjacent, nexts
  <2>2. f \in Surjection(nexts, T)
    <3>1. f \in [nexts -> T]
      BY <2>1
    <3>2. \A t \in T : \E n \in nexts : f[n] = t
      BY <2>1
    <3>3. QED
      BY <3>1, <3>2 DEF Surjection
  <2> HIDE DEF f, T
  <2>3. IsFiniteSet(T)
    BY <1>2, <2>2, FS_Surjection
  <2>4. \A n \in nexts : n[1] \in places /\ n[2] \in places
    BY <1>2
  <2>5. T \subseteq Concepts \X Concepts
    BY <1>1, <2>1, <2>4
  <2>6. QED
    BY <2>3, <2>5 DEF T
<1>5. Known(text) \in SUBSET Graph!Entities(text) /\ Graph!Relations(text) \in SUBSET Graph!Adjacent(text)
  BY DEF Known, Graph!Relations
<1>6. IsFiniteSet(Known(text)) /\ IsFiniteSet(Graph!Relations(text))
  BY <1>3, <1>4, <1>5, FS_Subset
<1>7. \A p \in Graph!Relations(text) : p[1] # p[2]
  BY DEF Graph!Relations
<1>8. QED
  BY <1>3, <1>4, <1>5, <1>6, <1>7

(* A graph that has more holds what it held. *)
LEMMA MoreHolds ==
    ASSUME NEW g \in GraphSet, NEW h \in GraphSet, NEW text \in Texts, Holds(g, text),
           g.nodes \subseteq h.nodes, \A p \in Graph!Pairs : g.edges[p] <= h.edges[p]
    PROVE  Holds(h, text)
<1>1. Related(text) \subseteq Graph!Pairs
  BY TextsAreFinite DEF Related, Graph!Pairs, Graph!Nodes
<1>2. ASSUME NEW p \in Related(text) PROVE h.edges[p] > 0
  <2>1. p \in Graph!Pairs /\ g.edges[p] > 0 /\ g.edges[p] <= h.edges[p]
    BY <1>1 DEF Holds
  <2>2. g.edges[p] \in Nat /\ h.edges[p] \in Nat
    BY <2>1 DEF GraphSet
  <2>3. QED
    BY <2>1, <2>2
<1>3. QED
  BY <1>2 DEF Holds

(* What adding a node, an edge and a link does to the graph. *)
LEMMA NodeAdded ==
    ASSUME graph \in GraphSet, Linked(graph), NEW n \in Graph!Nodes, NEW g, g = Graph!WithNode(n)
    PROVE  /\ g \in GraphSet /\ Linked(g) /\ g.nodes = graph.nodes \cup {n} /\ g.edges = graph.edges
<1>1. g \in GraphSet /\ g.nodes = graph.nodes \cup {n} /\ g.edges = graph.edges
  BY DEF GraphSet, Graph!WithNode
<1>2. Linked(g)
  BY <1>1 DEF Linked
<1>3. QED
  BY <1>1, <1>2

LEMMA EdgeAdded ==
    ASSUME graph \in GraphSet, Linked(graph), NEW e \in Graph!Pairs,
           e \in Concepts \X Concepts => e[1] # e[2], NEW g, g = Graph!WithEdge(e)
    PROVE  /\ g \in GraphSet /\ Linked(g) /\ graph.nodes \subseteq g.nodes
           /\ g.edges[e] = graph.edges[e] + 1 /\ \A p \in Graph!Pairs \ {e} : g.edges[p] = graph.edges[p]
<1>1. g.nodes = graph.nodes \cup {e[1], e[2]} /\ g.edges = [graph.edges EXCEPT ![e] = graph.edges[e] + 1]
  BY DEF Graph!WithEdge
<1>2. g = [nodes |-> g.nodes, edges |-> g.edges]
  BY DEF Graph!WithEdge
<1>3. /\ graph.nodes \subseteq Graph!Nodes /\ graph.edges \in [Graph!Pairs -> Nat]
      /\ {e[1], e[2]} \subseteq Graph!Nodes
  BY DEF GraphSet, Graph!Pairs
<1>4. g.edges \in [Graph!Pairs -> Nat] /\ g.edges[e] = graph.edges[e] + 1
      /\ \A p \in Graph!Pairs \ {e} : g.edges[p] = graph.edges[p]
  BY <1>1, <1>3
<1>5. g \in GraphSet
  BY <1>1, <1>2, <1>3, <1>4 DEF GraphSet
<1>6. ASSUME NEW p \in Concepts \X Concepts, g.edges[p] > 0
      PROVE  p[1] \in g.nodes /\ p[2] \in g.nodes /\ p[1] # p[2]
  <2>1. p \in Graph!Pairs
    BY DEF Graph!Pairs, Graph!Nodes
  <2>2. CASE p = e
    BY <1>1, <2>2
  <2>3. CASE p # e
    BY <1>1, <1>4, <1>6, <2>1, <2>3 DEF Linked
  <2>4. QED
    BY <2>2, <2>3
<1>7. QED
  BY <1>1, <1>4, <1>5, <1>6 DEF Linked

LEMMA Adding ==
    ASSUME graph \in GraphSet, Linked(graph), NEW item \in Additions, NEW g, g = Graph!Added(item)
    PROVE  /\ g \in GraphSet /\ Linked(g) /\ (Single(graph) => Single(g)) /\ graph.nodes \subseteq g.nodes
           /\ \A p \in Graph!Pairs : graph.edges[p] <= g.edges[p]
           /\ item.kind = "concept" => item.what \in g.nodes
           /\ item.kind = "link" /\ item.what[1] \in graph.nodes /\ item.what[2] \in graph.nodes
                 => g.edges[item.what] > 0
<1>1. \A p \in Graph!Pairs : graph.edges[p] \in Nat
  BY DEF GraphSet
<1>2. Concepts \X Concepts \subseteq Graph!Pairs /\ Tasks \X Paths \subseteq Graph!Pairs
  BY DEF Graph!Pairs, Graph!Nodes
<1>3. CASE item.kind \in {"concept", "node"}
  <2>1. g = Graph!WithNode(item.what) /\ item.what \in Graph!Nodes
    BY <1>3 DEF Graph!Added, Additions, Graph!Nodes
  <2>2. g \in GraphSet /\ Linked(g) /\ g.nodes = graph.nodes \cup {item.what} /\ g.edges = graph.edges
    BY <2>1, NodeAdded
  <2>3. Single(graph) => Single(g)
    BY <2>2 DEF Single
  <2>4. QED
    BY <1>1, <1>3, <2>2, <2>3
<1>4. CASE item.kind = "edge"
  <2> DEFINE e == item.what
  <2>1. g = Graph!WithEdge(e) /\ e \in Tasks \X Paths
    BY <1>4 DEF Graph!Added, Additions
  <2> HIDE DEF e
  <2>2. e \in Graph!Pairs /\ e \notin Concepts \X Concepts
    BY <1>2, <2>1, GraphAssumption
  <2>3. /\ g \in GraphSet /\ Linked(g) /\ graph.nodes \subseteq g.nodes
        /\ g.edges[e] = graph.edges[e] + 1 /\ \A p \in Graph!Pairs \ {e} : g.edges[p] = graph.edges[p]
    BY <2>1, <2>2, EdgeAdded
  <2>4. Single(graph) => Single(g)
    BY <1>2, <2>2, <2>3 DEF Single
  <2>5. \A p \in Graph!Pairs : graph.edges[p] <= g.edges[p]
    BY <1>1, <2>2, <2>3
  <2>6. QED
    BY <1>4, <2>3, <2>4, <2>5
<1>5. CASE item.kind = "link"
  <2> DEFINE e == item.what
  <2>1. /\ e \in Concepts \X Concepts /\ e[1] # e[2] /\ e \in Graph!Pairs
        /\ g = IF ~Graph!HasEdge(e) /\ Graph!ToSet(e) \subseteq graph.nodes THEN Graph!WithEdge(e) ELSE graph
    BY <1>2, <1>5 DEF Graph!Added, Additions
  <2> HIDE DEF e
  <2>2. Graph!ToSet(e) \subseteq graph.nodes <=> e[1] \in graph.nodes /\ e[2] \in graph.nodes
    BY <2>1, TwoOfPair
  <2>3. CASE ~Graph!HasEdge(e) /\ Graph!ToSet(e) \subseteq graph.nodes
    <3>1. /\ g \in GraphSet /\ Linked(g) /\ graph.nodes \subseteq g.nodes
          /\ g.edges[e] = graph.edges[e] + 1 /\ \A p \in Graph!Pairs \ {e} : g.edges[p] = graph.edges[p]
      BY <2>1, <2>3, EdgeAdded
    <3>2. graph.edges[e] = 0 /\ g.edges[e] = 1
      BY <1>1, <2>1, <2>3, <3>1 DEF Graph!HasEdge
    <3>3. Single(graph) => Single(g)
      BY <1>2, <3>1, <3>2 DEF Single
    <3>4. \A p \in Graph!Pairs : graph.edges[p] <= g.edges[p]
      BY <1>1, <2>1, <3>1, <3>2
    <3>5. QED
      BY <1>5, <3>1, <3>2, <3>3, <3>4 DEF e
  <2>4. CASE ~(~Graph!HasEdge(e) /\ Graph!ToSet(e) \subseteq graph.nodes)
    <3>1. g = graph
      BY <2>1, <2>4
    <3>2. e[1] \in graph.nodes /\ e[2] \in graph.nodes => graph.edges[e] > 0
      BY <2>2, <2>4 DEF Graph!HasEdge
    <3>3. \A p \in Graph!Pairs : graph.edges[p] <= g.edges[p]
      BY <1>1, <3>1
    <3>4. QED
      BY <1>5, <3>1, <3>2, <3>3 DEF e
  <2>5. QED
    BY <2>3, <2>4
<1>6. item.kind \in {"concept", "node", "edge", "link"}
  BY DEF Additions
<1>7. QED
  BY <1>3, <1>4, <1>5, <1>6

(* The next addition is made. *)
LEMMA StepKeeps == ASSUME GraphInv, Graph!Step PROVE GraphInv'
<1> DEFINE item == Head(todo)
<1>1. /\ todo # <<>> /\ graph' = Graph!Added(item) /\ todo' = Tail(todo)
      /\ UNCHANGED <<copy, reading, ingested, merged>>
      /\ file' = graph' \/ (graph' = graph /\ file' = file)
  BY DEF Graph!Step, Graph!Persist
<1>2. /\ graph \in GraphSet /\ Linked(graph) /\ todo \in Seq(Additions)
  BY DEF GraphInv, GraphTyped
<1>3. /\ item \in Additions /\ item = todo[1] /\ 1 \in DOMAIN todo /\ todo' \in Seq(Additions)
      /\ \A i \in DOMAIN todo' : i \in Nat \ {0} /\ i + 1 \in DOMAIN todo /\ todo'[i] = todo[i + 1]
      /\ \A i \in DOMAIN todo : i # 1 => i - 1 \in DOMAIN todo' /\ todo'[i - 1] = todo[i]
      /\ DOMAIN todo \subseteq Nat \ {0}
  BY <1>1, <1>2
<1> HIDE DEF item
<1>4. /\ graph' \in GraphSet /\ Linked(graph') /\ (Single(graph) => Single(graph'))
      /\ graph.nodes \subseteq graph'.nodes
      /\ \A p \in Graph!Pairs : graph.edges[p] <= graph'.edges[p]
      /\ item.kind = "concept" => item.what \in graph'.nodes
      /\ item.kind = "link" /\ item.what[1] \in graph.nodes /\ item.what[2] \in graph.nodes
            => graph'.edges[item.what] > 0
  BY <1>1, <1>2, <1>3, Adding
<1>5. GraphTyped'
  BY <1>1, <1>3, <1>4 DEF GraphInv, GraphTyped
<1>6. \A text \in ingested : Holds(graph', text)
  <2>1. \A text \in ingested : text \in Texts /\ Holds(graph, text)
    BY DEF GraphInv, GraphTyped
  <2>2. QED
    BY <1>2, <1>4, <2>1, MoreHolds
<1>7. CopyInv'
  BY <1>1 DEF GraphInv, CopyInv
<1>8. ReadingInv'
  <2> SUFFICES ASSUME reading # Absent PROVE ReadingInv'
    BY <1>1 DEF ReadingInv
  <2>0. reading \in Texts /\ reading' = reading
    BY <1>1 DEF GraphInv, GraphTyped
  <2>1. /\ \A c \in Known(reading) :
              c \in graph.nodes \/ \E i \in DOMAIN todo : todo[i] = Graph!Add("concept", c)
        /\ \A p \in Related(reading) :
              graph.edges[p] > 0 \/ \E i \in DOMAIN todo : todo[i] = Graph!Add("link", p)
        /\ \A i, j \in DOMAIN todo : todo[i].kind = "link" /\ todo[j].kind = "concept" => j < i
    BY DEF GraphInv, ReadingInv
  <2>2. ASSUME NEW c \in Known(reading)
        PROVE  c \in graph'.nodes \/ \E i \in DOMAIN todo' : todo'[i] = Graph!Add("concept", c)
    <3>1. CASE c \in graph.nodes
      BY <1>4, <3>1
    <3>2. ASSUME NEW i \in DOMAIN todo, todo[i] = Graph!Add("concept", c)
          PROVE  c \in graph'.nodes \/ \E j \in DOMAIN todo' : todo'[j] = Graph!Add("concept", c)
      <4>1. CASE i = 1
        BY <1>3, <1>4, <3>2, <4>1 DEF Graph!Add
      <4>2. CASE i # 1
        BY <1>3, <3>2, <4>2
      <4>3. QED
        BY <4>1, <4>2
    <3>3. QED
      BY <2>1, <3>1, <3>2
  <2>3. ASSUME NEW p \in Related(reading)
        PROVE  graph'.edges[p] > 0 \/ \E i \in DOMAIN todo' : todo'[i] = Graph!Add("link", p)
    <3>0. p \in Graph!Pairs /\ p \in Concepts \X Concepts /\ Graph!ToSet(p) \subseteq Known(reading)
      BY <2>0, TextsAreFinite DEF Related, Graph!Pairs, Graph!Nodes
    <3>1. CASE graph.edges[p] > 0
      <4>1. graph.edges[p] \in Nat /\ graph'.edges[p] \in Nat /\ graph.edges[p] <= graph'.edges[p]
        BY <1>2, <1>4, <3>0 DEF GraphSet
      <4>2. QED
        BY <3>1, <4>1
    <3>2. ASSUME NEW i \in DOMAIN todo, todo[i] = Graph!Add("link", p)
          PROVE  graph'.edges[p] > 0 \/ \E j \in DOMAIN todo' : todo'[j] = Graph!Add("link", p)
      <4>1. CASE i = 1
        <5>1. item.kind = "link" /\ item.what = p
          BY <1>3, <3>2, <4>1 DEF Graph!Add
        <5>2. ASSUME NEW j \in DOMAIN todo PROVE todo[j].kind # "concept"
          <6>1. todo[j].kind = "concept" => j < 1
            BY <1>3, <2>1, <5>1
          <6>2. QED
            BY <1>3, <6>1
        <5>3. Known(reading) \subseteq graph.nodes
          BY <2>1, <5>2 DEF Graph!Add
        <5>4. p[1] \in graph.nodes /\ p[2] \in graph.nodes
          BY <3>0, <5>3, TwoOfPair
        <5>5. QED
          BY <1>4, <5>1, <5>4
      <4>2. CASE i # 1
        BY <1>3, <3>2, <4>2
      <4>3. QED
        BY <4>1, <4>2
    <3>3. QED
      BY <2>1, <3>1, <3>2
  <2>4. ASSUME NEW i \in DOMAIN todo', NEW j \in DOMAIN todo', todo'[i].kind = "link", todo'[j].kind = "concept"
        PROVE  j < i
    <3>1. j + 1 < i + 1
      BY <1>3, <2>1, <2>4
    <3>2. QED
      BY <1>3, <3>1
  <2>5. QED
    BY <2>0, <2>2, <2>3, <2>4 DEF ReadingInv
<1>9. QED
  BY <1>1, <1>4, <1>5, <1>6, <1>7, <1>8 DEF GraphInv

(* A text is read. *)
LEMMA GraphifyKeeps == ASSUME GraphInv, NEW text \in Texts, Graph!Graphify(text) PROVE GraphInv'
<1>1. PICK nodes \in Graph!SetToSeqs(Known(text)), edges \in Graph!SetToSeqs(Graph!Relations(text)) :
          todo' = [i \in 1 .. Len(nodes) |-> Graph!Add("concept", nodes[i])]
                  \o [i \in 1 .. Len(edges) |-> Graph!Add("link", edges[i])]
  BY DEF Graph!Graphify, Known
<1>2. reading' = text /\ UNCHANGED <<graph, file, copy, ingested, merged>>
  BY DEF Graph!Graphify
<1>3. /\ nodes \in Seq(Known(text)) /\ \A x \in Known(text) : \E i \in DOMAIN nodes : nodes[i] = x
      /\ Known(text) \subseteq Concepts
  BY TextsAreFinite, AllAreListed
<1>4. /\ edges \in Seq(Graph!Relations(text))
      /\ \A x \in Graph!Relations(text) : \E i \in DOMAIN edges : edges[i] = x
      /\ Graph!Relations(text) \subseteq {p \in Concepts \X Concepts : p[1] # p[2]}
  BY TextsAreFinite, AllAreListed
<1> DEFINE a == [i \in 1 .. Len(nodes) |-> Graph!Add("concept", nodes[i])]
           b == [i \in 1 .. Len(edges) |-> Graph!Add("link", edges[i])]
<1>5. /\ Len(nodes) \in Nat /\ a \in Seq(Additions) /\ Len(a) = Len(nodes)
      /\ \A i \in 1 .. Len(nodes) : nodes[i] \in Concepts /\ a[i] = Graph!Add("concept", nodes[i])
  <2>1. Len(nodes) \in Nat /\ \A i \in 1 .. Len(nodes) : nodes[i] \in Concepts
    BY <1>3
  <2>2. \A i \in 1 .. Len(nodes) : Graph!Add("concept", nodes[i]) \in Additions
    BY <2>1 DEF Graph!Add, Additions
  <2>3. QED
    BY <2>1, <2>2
<1>6. /\ Len(edges) \in Nat /\ b \in Seq(Additions) /\ Len(b) = Len(edges)
      /\ \A i \in 1 .. Len(edges) : b[i] = Graph!Add("link", edges[i])
  <2>1. Len(edges) \in Nat /\ \A i \in 1 .. Len(edges) :
                                 edges[i] \in {p \in Concepts \X Concepts : p[1] # p[2]}
    BY <1>4
  <2>2. \A i \in 1 .. Len(edges) : Graph!Add("link", edges[i]) \in Additions
    BY <2>1 DEF Graph!Add, Additions
  <2>3. QED
    BY <2>1, <2>2
<1>7. DOMAIN nodes = 1 .. Len(nodes) /\ DOMAIN edges = 1 .. Len(edges)
  BY <1>3, <1>4
<1>8. todo' = a \o b
  BY <1>1
<1> HIDE DEF a, b
<1>9. /\ todo' \in Seq(Additions) /\ Len(todo') = Len(nodes) + Len(edges)
      /\ \A i \in 1 .. Len(nodes) + Len(edges) : todo'[i] = IF i <= Len(nodes) THEN a[i] ELSE b[i - Len(nodes)]
  <2>1. a \in Seq(Additions) /\ b \in Seq(Additions)
    BY <1>5, <1>6
  <2>2. /\ a \o b \in Seq(Additions) /\ Len(a \o b) = Len(a) + Len(b)
        /\ \A i \in 1 .. Len(a) + Len(b) : (a \o b)[i] = IF i <= Len(a) THEN a[i] ELSE b[i - Len(a)]
    BY <2>1, ConcatProperties
  <2>3. QED
    BY <1>5, <1>6, <1>8, <2>2
<1>10. /\ DOMAIN todo' = 1 .. Len(nodes) + Len(edges)
       /\ \A i \in 1 .. Len(nodes) : i \in DOMAIN todo' /\ todo'[i] = Graph!Add("concept", nodes[i])
       /\ \A i \in 1 .. Len(edges) : i + Len(nodes) \in DOMAIN todo'
                                     /\ todo'[i + Len(nodes)] = Graph!Add("link", edges[i])
  <2>1. DOMAIN todo' = 1 .. Len(nodes) + Len(edges)
    BY <1>9
  <2>2. ASSUME NEW i \in 1 .. Len(nodes) PROVE i \in DOMAIN todo' /\ todo'[i] = Graph!Add("concept", nodes[i])
    <3>1. i \in 1 .. Len(nodes) + Len(edges) /\ i <= Len(nodes)
      BY <1>5, <1>6
    <3>2. QED
      BY <1>5, <1>9, <2>1, <3>1
  <2>3. ASSUME NEW i \in 1 .. Len(edges)
        PROVE  i + Len(nodes) \in DOMAIN todo' /\ todo'[i + Len(nodes)] = Graph!Add("link", edges[i])
    <3>1. /\ i + Len(nodes) \in 1 .. Len(nodes) + Len(edges) /\ ~(i + Len(nodes) <= Len(nodes))
          /\ (i + Len(nodes)) - Len(nodes) = i
      BY <1>5, <1>6
    <3>2. todo'[i + Len(nodes)] = b[i]
      BY <1>9, <3>1
    <3>3. QED
      BY <1>6, <2>1, <3>1, <3>2
  <2>4. QED
    BY <2>1, <2>2, <2>3
<1>11. GraphTyped'
  BY <1>2, <1>9 DEF GraphInv, GraphTyped
<1>12. ReadingInv'
  <2>1. ASSUME NEW c \in Known(text) PROVE \E i \in DOMAIN todo' : todo'[i] = Graph!Add("concept", c)
    BY <1>3, <1>7, <1>10
  <2>2. ASSUME NEW p \in Related(text) PROVE \E i \in DOMAIN todo' : todo'[i] = Graph!Add("link", p)
    <3>1. PICK i \in 1 .. Len(edges) : edges[i] = p
      BY <1>4, <1>7 DEF Related
    <3>2. QED
      BY <1>10, <3>1
  <2>3. ASSUME NEW i \in DOMAIN todo', NEW j \in DOMAIN todo', todo'[i].kind = "link", todo'[j].kind = "concept"
        PROVE  j < i
    <3>1. i > Len(nodes)
      <4>1. i <= Len(nodes) => todo'[i].kind = "concept"
        <5>1. i \in 1 .. Len(nodes) + Len(edges)
          BY <1>10
        <5>2. i <= Len(nodes) => i \in 1 .. Len(nodes)
          BY <1>5, <1>6, <5>1
        <5>3. ASSUME i <= Len(nodes) PROVE todo'[i].kind = "concept"
          <6>1. todo'[i] = Graph!Add("concept", nodes[i])
            BY <1>10, <5>2, <5>3
          <6>2. QED
            BY <6>1 DEF Graph!Add
        <5>4. QED
          BY <5>3
      <4>2. QED
        BY <1>5, <1>6, <1>10, <2>3, <4>1
    <3>2. j <= Len(nodes)
      <4>1. ASSUME j > Len(nodes) PROVE todo'[j].kind = "link"
        <5>1. j - Len(nodes) \in 1 .. Len(edges) /\ (j - Len(nodes)) + Len(nodes) = j
          BY <1>5, <1>6, <1>10, <4>1
        <5>2. todo'[j] = Graph!Add("link", edges[j - Len(nodes)])
          BY <1>10, <5>1
        <5>3. QED
          BY <5>2 DEF Graph!Add
      <4>2. QED
        BY <1>5, <1>6, <1>10, <2>3, <4>1
    <3>3. QED
      BY <1>5, <1>6, <1>10, <3>1, <3>2
  <2>4. QED
    BY <1>2, <2>1, <2>2, <2>3 DEF ReadingInv
<1>13. QED
  BY <1>2, <1>11, <1>12 DEF GraphInv, CopyInv

(* A run is recorded. *)
LEMMA PersistRunKeeps ==
    ASSUME GraphInv, NEW t \in Tasks, NEW paths \in SUBSET Paths, Graph!PersistRun(t, paths) PROVE GraphInv'
<1>1. PICK order \in Graph!SetToSeqs(paths) :
          todo' = [i \in 1 .. 2 * Len(order) + 1 |->
                      IF i = 1 THEN Graph!Add("node", t)
                      ELSE LET path == order[i \div 2]
                           IN  IF i % 2 = 0 THEN Graph!Add("node", path) ELSE Graph!Add("edge", <<t, path>>)]
  BY DEF Graph!PersistRun
<1>2. reading = Absent /\ UNCHANGED <<graph, file, copy, reading, ingested, merged>>
  BY DEF Graph!PersistRun, Graph!Idle
<1>3. order \in Seq(Paths)
  <2>1. IsFiniteSet(paths)
    BY GraphAssumption, FS_Subset
  <2>2. order \in Seq(paths)
    BY <2>1, AllAreListed
  <2>3. QED
    BY <2>2
<1> DEFINE n == Len(order)
<1>4. n \in Nat /\ \A i \in 1 .. n : order[i] \in Paths
  BY <1>3
<1> HIDE DEF n
<1>5. ASSUME NEW i \in 1 .. 2 * n + 1, i # 1 PROVE order[i \div 2] \in Paths
  <2>1. i \div 2 \in 1 .. n
    BY <1>4, <1>5
  <2>2. QED
    BY <1>4, <2>1
<1>6. /\ Graph!Add("node", t) \in Additions
      /\ \A p \in Paths : Graph!Add("node", p) \in Additions /\ Graph!Add("edge", <<t, p>>) \in Additions
  BY DEF Graph!Add, Additions
<1>7. todo' \in Seq(Additions)
  <2> DEFINE item(i) == IF i = 1 THEN Graph!Add("node", t)
                        ELSE LET path == order[i \div 2]
                             IN  IF i % 2 = 0 THEN Graph!Add("node", path) ELSE Graph!Add("edge", <<t, path>>)
  <2>1. ASSUME NEW i \in 1 .. 2 * n + 1 PROVE item(i) \in Additions
    BY <1>5, <1>6
  <2>2. todo' = [i \in 1 .. 2 * n + 1 |-> item(i)] /\ 2 * n + 1 \in Nat
    BY <1>1, <1>4 DEF n
  <2> HIDE DEF item
  <2>3. QED
    BY <2>1, <2>2
<1>8. GraphTyped'
  BY <1>2, <1>7 DEF GraphInv, GraphTyped
<1>9. QED
  BY <1>2, <1>8 DEF GraphInv, CopyInv, ReadingInv

(* A text has been read. *)
LEMMA CompleteKeeps == ASSUME GraphInv, Graph!Complete PROVE GraphInv'
<1>1. /\ todo = <<>> /\ reading # Absent /\ ingested' = ingested \cup {reading} /\ reading' = Absent
      /\ UNCHANGED <<graph, file, copy, todo, merged>>
  BY DEF Graph!Complete
<1>2. reading \in Texts
  BY <1>1 DEF GraphInv, GraphTyped
<1>3. DOMAIN todo = {}
  BY <1>1
<1>4. Holds(graph, reading)
  BY <1>1, <1>3 DEF GraphInv, ReadingInv, Holds
<1>5. GraphTyped'
  BY <1>1, <1>2 DEF GraphInv, GraphTyped
<1>6. \A text \in ingested' : Holds(graph', text)
  BY <1>1, <1>4 DEF GraphInv
<1>7. QED
  BY <1>1, <1>5, <1>6 DEF GraphInv, CopyInv, ReadingInv

(* The graph is copied, and copied back. *)
LEMMA ExportKeeps == ASSUME GraphInv, Graph!Export PROVE GraphInv'
<1>1. /\ copy' = [graph |-> graph, ingested |-> ingested]
      /\ UNCHANGED <<graph, file, todo, reading, ingested, merged>>
  BY DEF Graph!Export
<1>2. copy'.graph = graph /\ copy'.ingested = ingested
  BY <1>1
<1>3. GraphTyped'
  BY <1>1 DEF GraphInv, GraphTyped
<1>4. CopyInv'
  BY <1>1, <1>2 DEF GraphInv, CopyInv
<1>5. QED
  BY <1>1, <1>3, <1>4 DEF GraphInv, ReadingInv

LEMMA ImportKeeps == ASSUME GraphInv, NEW clear \in BOOLEAN, Graph!Import(clear) PROVE GraphInv'
<1> DEFINE old == IF clear THEN Graph!Empty ELSE graph
<1>1. /\ reading = Absent /\ copy.graph \notin {Absent, Torn}
      /\ graph' = [nodes |-> old.nodes \cup copy.graph.nodes,
                   edges |-> [p \in Graph!Pairs |-> old.edges[p] + copy.graph.edges[p]]]
      /\ file' = graph' /\ ingested' = (IF clear THEN copy.ingested ELSE ingested \cup copy.ingested)
      /\ merged' = (merged \/ ~clear) /\ UNCHANGED <<copy, todo, reading>>
  BY DEF Graph!Import, Graph!Persist, Graph!Idle
<1> DEFINE c == copy.graph
<1>2. /\ c \in GraphSet /\ Linked(c) /\ (~merged => Single(c)) /\ \A text \in copy.ingested : Holds(c, text)
      /\ copy.ingested \subseteq Texts /\ merged \in BOOLEAN
  BY <1>1 DEF GraphInv, GraphTyped, CopyInv
<1>3. old \in GraphSet /\ Linked(old) /\ (~merged => Single(old))
  BY EmptyGraph DEF GraphInv, GraphTyped
<1>4. clear => \A p \in Graph!Pairs : old.edges[p] = 0
  BY DEF Graph!Empty
<1>5. ~clear => old = graph
  OBVIOUS
<1> HIDE DEF old, c
<1>6. graph' = [nodes |-> old.nodes \cup c.nodes,
                edges |-> [p \in Graph!Pairs |-> old.edges[p] + c.edges[p]]]
  BY <1>1 DEF c
<1>7. \A p \in Graph!Pairs : old.edges[p] \in Nat /\ c.edges[p] \in Nat
  BY <1>2, <1>3 DEF GraphSet
<1>8. /\ graph' \in GraphSet /\ graph'.nodes = old.nodes \cup c.nodes
      /\ \A p \in Graph!Pairs : graph'.edges[p] = old.edges[p] + c.edges[p]
  <2>1. old.nodes \cup c.nodes \in SUBSET Graph!Nodes
    BY <1>2, <1>3 DEF GraphSet
  <2>2. [p \in Graph!Pairs |-> old.edges[p] + c.edges[p]] \in [Graph!Pairs -> Nat]
    BY <1>7
  <2>3. QED
    BY <1>6, <2>1, <2>2 DEF GraphSet
<1>9. Concepts \X Concepts \subseteq Graph!Pairs
  BY DEF Graph!Pairs, Graph!Nodes
<1>10. Linked(graph')
  <2>1. ASSUME NEW p \in Concepts \X Concepts, graph'.edges[p] > 0 PROVE old.edges[p] > 0 \/ c.edges[p] > 0
    BY <1>7, <1>8, <1>9, <2>1
  <2>2. QED
    BY <1>2, <1>3, <1>8, <2>1 DEF Linked
<1>11. ~merged' => Single(graph')
  <2>1. ASSUME ~merged' PROVE ~merged /\ clear
    BY <1>1, <2>1
  <2>2. ASSUME ~merged, clear, NEW p \in Concepts \X Concepts PROVE graph'.edges[p] <= 1
    <3>1. /\ old.edges[p] = 0 /\ c.edges[p] <= 1 /\ c.edges[p] \in Nat
          /\ graph'.edges[p] = old.edges[p] + c.edges[p]
      BY <1>2, <1>4, <1>7, <1>8, <1>9, <2>2 DEF Single
    <3>2. QED
      BY <3>1
  <2>3. QED
    BY <2>1, <2>2 DEF Single
<1>12. ASSUME NEW text \in ingested' PROVE Holds(graph', text) /\ text \in Texts
  <2>1. CASE text \in copy.ingested
    <3>1. \A p \in Graph!Pairs : c.edges[p] <= graph'.edges[p]
      BY <1>7, <1>8
    <3>2. c.nodes \subseteq graph'.nodes
      BY <1>8
    <3>3. QED
      BY <1>2, <1>8, <2>1, <3>1, <3>2, MoreHolds
  <2>2. CASE ~clear /\ text \in ingested
    <3>1. old = graph /\ text \in Texts /\ Holds(graph, text)
      BY <1>5, <2>2 DEF GraphInv, GraphTyped
    <3>2. \A p \in Graph!Pairs : old.edges[p] <= graph'.edges[p]
      BY <1>7, <1>8
    <3>3. old.nodes \subseteq graph'.nodes
      BY <1>8
    <3>4. QED
      BY <1>3, <1>8, <3>1, <3>2, <3>3, MoreHolds
  <2>3. QED
    BY <1>1, <1>12, <2>1, <2>2
<1>13. GraphTyped'
  <2>1. merged' \in BOOLEAN /\ ingested' \in SUBSET Texts
    BY <1>1, <1>2, <1>12
  <2>2. QED
    BY <1>1, <1>8, <2>1 DEF GraphInv, GraphTyped
<1>14. CopyInv'
  <2>1. copy' = copy /\ (~merged' => ~merged)
    BY <1>1, <1>2
  <2>2. QED
    BY <2>1 DEF GraphInv, CopyInv
<1>15. ReadingInv'
  BY <1>1 DEF ReadingInv
<1>16. QED
  BY <1>10, <1>11, <1>12, <1>13, <1>14, <1>15 DEF GraphInv

(* Files are removed, the server goes down. *)
LEMMA CleanupKeeps == ASSUME GraphInv, Graph!Cleanup PROVE GraphInv'
<1>1. /\ \/ file' = Absent /\ UNCHANGED copy
         \/ copy' = [graph |-> Absent, ingested |-> {}] /\ UNCHANGED file
      /\ UNCHANGED <<graph, todo, reading, ingested, merged>>
  BY DEF Graph!Cleanup
<1>2. GraphTyped'
  BY <1>1 DEF GraphInv, GraphTyped
<1>3. CopyInv'
  <2>1. copy' = copy \/ copy'.graph = Absent
    BY <1>1
  <2>2. QED
    BY <1>1, <2>1, EmptyGraph DEF GraphInv, CopyInv
<1>4. QED
  BY <1>1, <1>2, <1>3 DEF GraphInv, ReadingInv

LEMMA GoingDownKeeps == ASSUME GraphInv, Graph!Restart \/ Graph!CrashInExport PROVE GraphInv'
<1>1. /\ graph' = (IF file = Absent THEN Graph!Empty ELSE file) /\ file' = file
      /\ ingested' = (IF file = Absent THEN {} ELSE ingested) /\ merged' = merged
  BY DEF Graph!Restart, Graph!CrashInExport, Graph!Load
<1>2. todo' \in Seq(Additions) /\ reading' = Absent
  <2>1. (todo' = <<>> \/ todo' = todo) /\ reading' = Absent
    BY DEF Graph!Restart, Graph!CrashInExport, Graph!Idle
  <2> DEFINE T == Seq(Additions)
  <2>2. todo \in T /\ <<>> \in T
    BY DEF GraphInv, GraphTyped
  <2> HIDE DEF T
  <2>3. todo' \in T /\ reading' = Absent
    BY <2>1, <2>2
  <2>4. QED
    BY <2>3 DEF T
<1>3. copy' = copy \/ copy' = [graph |-> Torn, ingested |-> {}]
  BY DEF Graph!Restart, Graph!CrashInExport
<1>4. \/ graph' = graph /\ ingested' = ingested /\ file' = graph'
      \/ graph' = Graph!Empty /\ ingested' = {} /\ file' = Absent
  BY <1>1 DEF GraphInv, GraphTyped
<1>5. GraphTyped'
  BY <1>1, <1>2, <1>3, <1>4, EmptyGraph DEF GraphInv, GraphTyped
<1>6. CopyInv'
  <2>1. copy' = copy \/ copy'.graph = Torn
    BY <1>3
  <2>2. QED
    BY <1>1, <2>1, EmptyGraph DEF GraphInv, CopyInv
<1>7. Linked(graph') /\ (~merged' => Single(graph')) /\ \A text \in ingested' : Holds(graph', text)
  BY <1>1, <1>4, EmptyGraph DEF GraphInv
<1>8. QED
  BY <1>2, <1>5, <1>6, <1>7 DEF GraphInv, ReadingInv

-----------------------------------------------------------------------------
LEMMA InitGraph == ASSUME Graph!Init PROVE GraphInv
<1>1. /\ graph = Graph!Empty /\ file = Absent /\ copy = [graph |-> Absent, ingested |-> {}]
      /\ todo = <<>> /\ reading = Absent /\ ingested = {} /\ merged = FALSE
  BY DEF Graph!Init
<1>2. GraphTyped
  <2>1. copy \in [graph : GraphSet \cup {Absent, Torn}, ingested : SUBSET Texts]
    BY <1>1
  <2>2. todo \in Seq(Additions)
    BY <1>1
  <2>3. QED
    BY <1>1, <2>1, <2>2, EmptyGraph DEF GraphTyped
<1>3. CopyInv
  BY <1>1, EmptyGraph DEF CopyInv
<1>4. QED
  BY <1>1, <1>2, <1>3, EmptyGraph DEF GraphInv, ReadingInv

LEMMA NextGraph == ASSUME GraphInv, [Graph!Next]_(Graph!vars) PROVE GraphInv'
<1>1. CASE UNCHANGED Graph!vars
  BY <1>1 DEF Graph!vars, GraphInv, GraphTyped, ReadingInv, CopyInv
<1>2. CASE \E text \in Texts : Graph!Graphify(text)
  BY <1>2, GraphifyKeeps
<1>3. CASE \E t \in Tasks, paths \in SUBSET Paths : Graph!PersistRun(t, paths)
  BY <1>3, PersistRunKeeps
<1>4. CASE \E clear \in BOOLEAN : Graph!Import(clear)
  BY <1>4, ImportKeeps
<1>5. CASE \/ Graph!Step \/ Graph!Complete \/ Graph!Export
           \/ Graph!Cleanup \/ Graph!Restart \/ Graph!CrashInExport
  BY <1>5, StepKeeps, CompleteKeeps, ExportKeeps, CleanupKeeps, GoingDownKeeps
<1>6. QED
  BY <1>1, <1>2, <1>3, <1>4, <1>5 DEF Graph!Next

LEMMA GraphTells == ASSUME GraphInv PROVE KnowledgeIsKept /\ ConceptsAreLinkedOnce
<1>1. ASSUME NEW text \in ingested
      PROVE  LET known == {c \in Graph!Entities(text) : Graph!Confident(c, text)}
             IN  /\ known \subseteq graph.nodes
                 /\ \A p \in Graph!Relations(text) : Graph!ToSet(p) \subseteq known => Graph!HasEdge(p)
  BY <1>1 DEF GraphInv, Holds, Related, Known, Graph!HasEdge
<1>2. ASSUME NEW p \in Concepts \X Concepts
      PROVE  /\ ~merged => graph.edges[p] <= 1
             /\ Graph!HasEdge(p) => Graph!ToSet(p) \subseteq graph.nodes /\ p[1] # p[2]
  BY TwoOfPair DEF GraphInv, Linked, Single, Graph!HasEdge
<1>3. QED
  BY <1>1, <1>2 DEF KnowledgeIsKept, Graph!KnowledgeIsKept, ConceptsAreLinkedOnce, Graph!ConceptsAreLinkedOnce

(* What an ingestion has reported stays in the graph through whatever      *)
(* crashes and restarts, however its additions are interleaved with them.  *)
THEOREM IngestionsLast == Graph!Spec => []KnowledgeIsKept
<1>1. Graph!Init => GraphInv
  BY InitGraph
<1>2. GraphInv /\ [Graph!Next]_(Graph!vars) => GraphInv'
  BY NextGraph
<1>3. GraphInv => KnowledgeIsKept
  BY GraphTells
<1>4. QED
  BY <1>1, <1>2, <1>3, PTL DEF Graph!Spec

(* No two concepts are linked twice unless graphs have been merged. *)
THEOREM NoParallelLinks == Graph!Spec => []ConceptsAreLinkedOnce
<1>1. Graph!Init => GraphInv
  BY InitGraph
<1>2. GraphInv /\ [Graph!Next]_(Graph!vars) => GraphInv'
  BY NextGraph
<1>3. GraphInv => ConceptsAreLinkedOnce
  BY GraphTells
<1>4. QED
  BY <1>1, <1>2, <1>3, PTL DEF Graph!Spec

-----------------------------------------------------------------------------
(* The parts together.                                                     *)

(* What TLC explores is a behaviour of every part: the theorems about the  *)
(* parts hold of it.                                                       *)
THEOREM PartsKeepTheirSpecs ==
    MCSpec => Spec /\ Chat!Spec /\ Jobs!Spec /\ Config!Spec /\ Graph!Spec /\ Beat!Spec /\ Schema!Spec
<1>1. MCInit => Init /\ Chat!Init /\ Jobs!Init /\ Config!Init /\ Graph!Init /\ Beat!Init /\ Schema!Init
  BY DEF MCInit
<1>2. ASSUME [MCNext /\ UNCHANGED focus]_<<allVars, focus>>
      PROVE  /\ [Next]_vars /\ [Chat!Next]_(Chat!vars) /\ [Jobs!Next]_(Jobs!vars)
             /\ [Config!Next]_(Config!vars) /\ [Graph!Next]_(Graph!vars)
             /\ [Beat!Next]_(Beat!vars) /\ [Schema!Next]_(Schema!vars)
  <2> USE DEF chatVars, jobsVars, configVars, graphVars, beatVars, schemaVars, vars,
              Chat!vars, Jobs!vars, Config!vars, Graph!vars, Beat!vars, Schema!vars
  <2>1. CASE UNCHANGED allVars
    BY <2>1 DEF allVars
  <2>2. CASE MCNext
    BY <2>2 DEF MCNext
  <2>3. QED
    BY <1>2, <2>1, <2>2
<1>3. QED
  BY <1>1, <1>2, PTL DEF MCSpec, Spec, Chat!Spec, Jobs!Spec, Config!Spec, Graph!Spec, Beat!Spec, Schema!Spec
=============================================================================
