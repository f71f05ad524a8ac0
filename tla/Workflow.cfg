CONSTANTS
  Runs = {r1}
  Earlier = {t0}
  MaxItems = 2
  IterationSettings = {0, 2}
  MaxSpecialists = 2
  RequireVerification = TRUE
  ConfiguredMode = "auto"
  MaxCancels = 2
  MaxEvents = 2
SPECIFICATION Spec
INVARIANTS WorkIsApprovedAndReviewed EndsAreAnnounced NothingIsLeftBehind
PROPERTIES RunsEnd
CHECK_DEADLOCK FALSE
