CONSTANTS
  Lacking = {{}}
  Tracking = {FALSE}
  UpgradeFaults = {"kill"}
  MaxStrikes = 1
SPECIFICATION UpgradeSpec
INVARIANTS Resumed
CHECK_DEADLOCK FALSE
