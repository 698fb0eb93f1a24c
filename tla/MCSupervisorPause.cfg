SPECIFICATION FairSpec
CONSTANTS
  Tasks = {t1, t2}
  Long = 1
  Short = 1
  Checks = {"stopouts", "velocity"}
  Alerts = {}
  RaftBreaches = {}
  MaxPauses = 1
  MaxRestarts = 0
  BusMayFail = TRUE
INVARIANTS
  SessionHaltIsSystemHalt
PROPERTIES
  HaltEndsByHuman
  PausesEnd
CHECK_DEADLOCK FALSE
