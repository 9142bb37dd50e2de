SPECIFICATION FairSpec
CONSTANTS
  my = my
  pg = pg
  pg2 = pg2
  Services <- MCServices
  Kind <- MCKind
  Detected <- MCDetected
  Tables <- MCTables
  Databases <- MCDatabases
  IndexNames <- MCIndexNames
  Filters <- MCFilters
  Chunk = 1
  Conns = {"k1", "k2"}
  Faults = {"interrupt", "truncate", "setval"}
  MaxRuns = 2
  MaxWrites = 1
INVARIANTS MigrateTypeOK DoneComplete NextIdFree LossesAreListed FksKept
PROPERTIES TouchesOnlyItsTables MigrationEnds
CHECK_DEADLOCK FALSE
