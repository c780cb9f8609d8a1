CONSTANTS
  w = w v = v o = o k = k
  Command = {w, v, o}
  Scripts <- Together
  Path = {p1, p2}
  NoKey = NoKey Nobody = Nobody
  Budget = 1 FirstDelay = 2 MaxDelay = 2
  Marks = {"ext", "bad"}
  MaxEdits = 2 MaxKills = 1 MaxBlocks = 1 MaxPulls = 1 MaxEvents = 2
  KillUnjudged = FALSE
SPECIFICATION CommandsSpec
SYMMETRY RowFiles
INVARIANTS OncePerKey NoLostUpdate HistoryTold DescribesAlone AnsweredTruly
