CONSTANTS
    Keys = {k1, k2, k3}
    Scopes = {"read", "admin"}
    Nobody = nobody
    MaxTime = 1
    Streams = {s1, s2}
    Other = o
    Filter = f
    MaxEvents = 3
    Templates = {t1}
    JobIds = {j1}
    Maintenance = j1
    Roots = {a, b}
    Launch = a
    NoJob = none
    Torn = torn
    Settings = {m, b1}
    LocalSettings = {m}
    Values = {v1, v2}
    Unset = unset
    Word1 = w1
    Word2 = w2
    StopWord = stop
    Concepts = {w1, w2}
    Texts <- SmallTexts
    MinPercent = 30
    Tasks = {t}
    Paths = {p}
    MaxParallel = 2
    Absent = absent
    Timeout = 1
    MaxClock = 7
    Latest = 2
    ScriptLength = 2
    Once = {2}
SPECIFICATION MCSpec
INVARIANTS LogTellsAll StreamsTellAll AcknowledgedIsStored RecordsAreScheduled SettingsSurvive KnowledgeIsKept ConceptsAreLinkedOnce OutagesAreReportedOnce SchemaIsThere
PROPERTIES RotationLeavesNoGap DeletedStaysDeleted
CHECK_DEADLOCK FALSE
