CONSTANTS
  NNames = 3
  NSweeps = 2
  Faults = {"power", "kill"}
  MaxFaults = 2
  MaxRevision = 3
  MaxShelf = 3
  Damage = {"entry", "index", "lost"}
  MaxDamage = 1
  MaxKilled = 1
  Agent = {a1, a2}
  Key = {"k", "l"}
  PlansKept = 2
  MaxSerial = 2
  Outside = {"edit", "spoil", "reformat"}
  MaxOutside = 2
  Restarts = TRUE
SPECIFICATION ServingSpec
SYMMETRY Interchangeable
INVARIANTS NamesKept ReadersFind LineageWhole NothingForgotten PagesContinue SubscribersHear
 
CHECK_DEADLOCK FALSE
