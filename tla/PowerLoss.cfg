CONSTANTS
  p = p  q = q  a = a  b = b
  Target = {p, q}
  Dir = {a, b}
  DirOf <- TwoDirs
  Root = Root  HistDir = HistDir  NoTarget = NoTarget
  N = 2
  Kinds = {"write", "delete"}
  Faults = {"power", "kill", "killremoved"}
  MaxFaults = 2
  Edits = {}
  EditWhen = {}
  MaxEdits = 0
SPECIFICATION Spec
INVARIANTS TypeOK WriteAhead NoThirdOutcome OneJournal HeadFollows
