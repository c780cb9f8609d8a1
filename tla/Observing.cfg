CONSTANTS
  p = p  q = q  x = x
  Path = {p, q}
  Table = {p, q}
  TableOf <- OwnTables
  Row = {x}
  NoRow = NoRow
  Content <- Contents
  SizeOf <- OneSize
  Absent = Absent
  Planned <- Written
  AskWhen = {"observe"}
  MaxTime = 3
  MaxEdits = 1
  MaxPlans = 1
  MaxKills = 1
  File = {f, g}
  Other = Other
  Cookie = {c1, c2}
  Reuse = FALSE
  LogLimit = 2
  QueueLimit = 2
  MaxChanges = 3
  MaxAsks = 2
  MaxEpochs = 2
SPECIFICATION ObservingSpec
SYMMETRY AllAlike
INVARIANTS ObservedIsHeld ProspectIsFuture DeltaIsWhole HoldsWhatWasAsked Accounted
CHECK_DEADLOCK FALSE
