SPECIFICATION Spec
CONSTANTS
  cli = cli
  web = web
  pipe = pipe
  Process = {cli, web, pipe}
  Kind <- OneOfEach
  Key = {1, 2}
  Answer = {"resolved", "miss", "unsearched", "incomplete"}
  MaxOpens = 2
  MaxKills = 1
  Absent = Absent
INVARIANTS
  MissesAreSearched
PROPERTIES
  OnlyStaleWritesLose
CHECK_DEADLOCK FALSE
