SPECIFICATION Spec
CONSTANTS
  Tasks = {t1, t2}
  Long = 1
  Short = 1
  Checks = {"loss", "pdt"}
  Alerts = {"bus_failure", "reconciliation_mismatch", "FEED_ANOMALY"}
  RaftBreaches = {"recon"}
  MaxPauses = 0
  MaxRestarts = 1
  BusMayFail = TRUE
SYMMETRY Symmetry
INVARIANTS
  HaltBlocksTrading
  HaltIsDurable
PROPERTIES
  SessionPolicy
CHECK_DEADLOCK FALSE
