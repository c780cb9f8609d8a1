CONSTANTS
  p = p  q = q  x = x
  Path = {p, q}
  Table = {p, q}
  TableOf <- OwnTables
  Row = {x}
  NoRow = NoRow
  Content <- Contents
  SizeOf <- OneSize
  Absent = Absent
  Planned <- Written
  AskWhen = {"observe", "prospect"}
  MaxTime = 3
  MaxEdits = 0
  MaxPlans = 1
  MaxKills = 0
SPECIFICATION Spec
SYMMETRY Alike
INVARIANTS ProspectIsFuture
CHECK_DEADLOCK FALSE
