CONSTANTS
  chat = chat
  queued = queued
  file = file
  index = index
  name = name
  here = here
  there = there
  Calls = {c1, c2}
  Tasks = {chat, queued}
  Chats = {chat}
  Paths = {file, index}
  IndexFiles = {index}
  Relative = {name}
  Roots = {here, there}
  Locate <- MCLocate
  Cwd = here
  WorkspaceRoot = here
  Arguments <- MCEdits
  Seeded = {file}
  InitialRules <- MCInitialRules
  NewRules <- MCNewRules
  MaxShell = 1
  MaxBrowser = 1
  MaxEvents = 0
SPECIFICATION Spec
PROPERTIES MutationsAreSnapshotted
CHECK_DEADLOCK FALSE
