CONSTANTS
  p = p  q = q  a = a  b = b
  Target = {p}
  Dir = {a}
  DirOf <- OneDir
  Root = Root  HistDir = HistDir  NoTarget = NoTarget
  N = 2
  Kinds = {"write", "delete"}
  Faults = {"power", "kill", "killremoved"}
  MaxFaults = 4
  Edits = {}
  EditWhen = {}
  MaxEdits = 0
SPECIFICATION Spec
INVARIANT NeverLost
