SPECIFICATION MCSpec
CONSTANTS
  Loaded <- MCLoaded
  Files <- MCFiles
  Environments <- MCEnvironments
  Lines <- MCLines
  Numerals <- MCNumerals
  BaseDir <- MCBaseDir
  Addresses = {"ip1", "ip2", "ip3"}
  HostLabels <- MCHostLabels
  MaxFaults = 1
  ProjectName = "shop"
  SanitizeName <- MCSanitize
  PipeSize = 1
  Scripts <- MCScripts
  DbEnv <- MCDbEnv
  SystemEnv <- MCSystemEnv
  DotEnvs <- MCDotEnvs
  DefaultEnv <- MCDefaultEnv
  Hooks = {"pre-start", "post-stop"}
  HookExports <- MCHookExports
  Commands <- MCCommands
  UseChoices <- MCUseChoices
  MaxCommands = 3
INVARIANTS RoutesAgree ReadAsWritten DependenciesFirst
PROPERTIES DumpsWhole CommandEnds
CHECK_DEADLOCK FALSE
