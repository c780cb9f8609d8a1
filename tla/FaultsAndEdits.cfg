CONSTANTS
  p = p  q = q  a = a  b = b
  Target = {p, q}
  Dir = {a, b}
  DirOf <- TwoDirs
  Root = Root  HistDir = HistDir  NoTarget = NoTarget
  N = 1
  Kinds = {"write", "delete"}
  Faults = {"power", "kill", "killremoved", "place", "mark", "sync", "syncremoved"}
  MaxFaults = 3
  Edits <- ForeignOnly
  EditWhen = {"idle", "busy"}
  MaxEdits = 1
SPECIFICATION Spec
INVARIANTS NeverLost AckedForGood
PROPERTIES EditsKept Atomic
