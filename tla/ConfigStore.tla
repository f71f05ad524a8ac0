------------------------------ MODULE ConfigStore ------------------------------
(***************************************************************************)
(* ConfigManager (harness/runtime/config.py): settings in a tracked base   *)
(* file, a local file that overlays it and that people edit by hand, and   *)
(* what POST /config and POST /api-keys/rotate have set since the start.   *)
(* Files are written in place, from the top, the local one first.          *)
(*                                                                         *)
(* A setting is one key: that the files are trees, in which a key may be   *)
(* inside of another, is left out, and so are the defaults and environment *)
(* variables below and above everything.                                   *)
(***************************************************************************)
EXTENDS Naturals

CONSTANTS Settings,
          LocalSettings,   (* "model.*" and "*.api_key"                     *)
          Values,
          Unset,           (* no value                                      *)
          Torn             (* a file that does not parse                    *)

VARIABLES
    overrides,    (* _overrides                                             *)
    base,         (* _base_config                                           *)
    fileConfig,   (* _file_config                                           *)
    baseFile,     (* harness.config.json                                    *)
    localFile,    (* harness.config.local.json                              *)
    latest,       (* the value last given to each setting: history          *)
    lost,         (* settings of files that a crash has torn: history       *)
    edited        (* settings edited by hand since the start: history       *)

vars == <<overrides, base, fileConfig, baseFile, localFile, latest, lost, edited>>

Configs == [Settings -> Values \cup {Unset}]
Nothing == [k \in Settings |-> Unset]

(* _load_json *)
Load(file) == IF file = Torn THEN Nothing ELSE file

BugBaseWins(b, l) == [k \in Settings |-> IF b[k] # Unset THEN b[k] ELSE l[k]]

(* _deep_merge *)
Merge(b, l) == [k \in Settings |-> IF l[k] # Unset THEN l[k] ELSE b[k]]

Get(k) == IF overrides[k] # Unset THEN overrides[k] ELSE fileConfig[k]

AfterRestart(k) == Merge(Load(baseFile), Load(localFile))[k]

Start == /\ overrides' = Nothing /\ edited' = {}
         /\ base' = Load(baseFile')
         /\ fileConfig' = Merge(Load(baseFile'), Load(localFile'))

(* Any settings may be in either file. *)
Init == /\ baseFile \in Configs /\ localFile \in Configs
        /\ overrides = Nothing
        /\ base = baseFile
        /\ fileConfig = Merge(baseFile, localFile)
        /\ latest = fileConfig
        /\ lost = {} /\ edited = {}

(* What set makes of the two configurations; the local one is read again.  *)
NewBase(k, v)  == [base EXCEPT ![k] = IF k \in LocalSettings THEN Unset ELSE v]
NewLocal(k, v) == IF k \in LocalSettings THEN [Load(localFile) EXCEPT ![k] = v] ELSE Load(localFile)

Set(k, v) ==
    /\ overrides' = [overrides EXCEPT ![k] = v]
    /\ base' = NewBase(k, v)
    /\ fileConfig' = Merge(NewBase(k, v), NewLocal(k, v))
    /\ localFile' = IF k \in LocalSettings THEN NewLocal(k, v) ELSE localFile
    /\ baseFile' = NewBase(k, v)
    /\ latest' = [latest EXCEPT ![k] = v]
    /\ lost' = lost \ {k}
    /\ edited' = edited \ {k}

(* The server goes down in one of the two writes. *)
CrashInLocal(k) ==
    /\ k \in LocalSettings
    /\ localFile' = Torn
    /\ lost' = lost \cup {j \in Settings : NewLocal(k, Unset)[j] # Unset} \cup {k}
    /\ UNCHANGED <<baseFile, latest>>
    /\ Start

CrashInBase(k, v) ==
    /\ localFile' = IF k \in LocalSettings THEN NewLocal(k, v) ELSE localFile
    /\ baseFile' = Torn
    /\ latest' = [latest EXCEPT ![k] = v]
    /\ lost' = lost \cup {j \in Settings : NewBase(k, v)[j] # Unset}
    /\ Start

(* Or between them. *)
CrashBetween(k, v) ==
    /\ k \in LocalSettings
    /\ localFile' = NewLocal(k, v)
    /\ latest' = [latest EXCEPT ![k] = v]
    /\ UNCHANGED <<baseFile, lost>>
    /\ Start

Restart == UNCHANGED <<baseFile, localFile, latest, lost>> /\ Start

(* Someone edits the local file; the server sees it at its next set. *)
EditLocal(k, v) ==
    /\ localFile' = [Load(localFile) EXCEPT ![k] = v]
    /\ edited' = edited \cup {k}
    /\ UNCHANGED <<overrides, base, fileConfig, baseFile, lost>>
    /\ latest' = [latest EXCEPT ![k] = Merge(Load(baseFile), Load(localFile'))[k]]

Next == \/ \E k \in Settings : \/ CrashInLocal(k)
                               \/ \E v \in Values : \/ Set(k, v) \/ CrashInBase(k, v)
                                                    \/ CrashBetween(k, v)
                               \/ \E v \in Values \cup {Unset} : EditLocal(k, v)
        \/ Restart

Spec == Init /\ [][Next]_vars

-----------------------------------------------------------------------------
(* A setting is what it was last set to, through the server or by hand:    *)
(* after every restart, also when the server goes down while it sets this  *)
(* or another one, and until then unless it was by hand; but for a tracked *)
(* setting that the local file overlays, and for what was in a file that a *)
(* crash has torn.                                                         *)
SettingsSurvive ==
    \A k \in Settings :
        \/ AfterRestart(k) = latest[k] /\ (Get(k) = latest[k] \/ k \in edited)
        \/ k \notin LocalSettings /\ Load(localFile)[k] # Unset
        \/ k \in lost
=============================================================================
