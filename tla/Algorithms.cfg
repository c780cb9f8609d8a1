SPECIFICATION AlgorithmsSpec
CONSTANTS
  Null = 0
  Default = 7
  Keys <- OwnKeys
  Fks <- OwnFks
  Bases <- OwnBases
  Rules <- OwnRules
  MayRun <- OwnStatements
  MaxRevisions = 5
  LastTime = 3
  Skewed = FALSE
  States <- OwnStates
  BucketOf <- OwnBucketOf
  TableOf <- OwnTableOf
  MaxRecords = 3
  Names <- OwnNames
  Triples <- OwnTriples
  Places = {"p", "q", "r"}
  Rows = {"x", "y"}
  MaxStatements = 3
  RowPaths <- OwnPaths
  Folders <- OwnFolders
  Writable <- OwnWritable
  FoldOf <- OwnFold
  Ignored = {}
  Missing = Missing
  Garbage = Garbage
  NoKey = NoKey
  Limit = 2
  FileName = {"a", "A"}
  CaseOf <- OwnCase
  Seeds <- OwnSeeds
  Bytes = {"x"}
  MaxCalls = 3
  FileTables <- OwnFileTables
  Columns <- OwnColumns
  Conventional = "t_id"
  Asked <- OwnAsked
  Spellings <- OwnSpellings
  Strays <- OwnStrays
  MaxWrites = 2
  RowTables <- OwnRowTables
  RowNames = {"1", "2"}
  Outside <- OwnOutside
  Inside <- OwnInside
  Imports <- OwnImports
  MapMinNames = 1
  Rounds = 4
  MaxOutside = 1
  MaxInside = 2
  Lacking = {{}, {"old"}}
  Tracking = {FALSE}
  UpgradeFaults = {"kill", "power"}
  MaxStrikes = 3
CHECK_DEADLOCK FALSE
INVARIANTS CascadeKeeps Numbered StateHeld KeepsValid NetIsEffect JudgedAsWhole CrashesForeseen NamedByKey AdmitsTheLike ContractKept UpgradeKept
