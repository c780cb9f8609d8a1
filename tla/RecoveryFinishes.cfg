CONSTANTS
  p = p  q = q  a = a  b = b
  Target = {p, q}
  Dir = {a, b}
  DirOf <- OneDir
  Root = Root  HistDir = HistDir  NoTarget = NoTarget
  N = 1
  Kinds = {"write"}
  Faults = {"power", "place", "sync", "syncremoved", "drop"}
  MaxFaults = 3
  Edits <- ForeignOnly
  EditWhen = {"idle"}
  MaxEdits = 1
SPECIFICATION FairSpec
INVARIANTS BeforeOrAfter
PROPERTIES Finished
