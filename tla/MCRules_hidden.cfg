SPECIFICATION Spec
CONSTANTS
  Bytes = {1, 2, 3}
  Chunks <- MCChunks
  LogLimit = 4
  MaxPlanBytes = 4
  MaxLogBytes = 4
  BodySizes = {0, 1, 3, 4, 5, 6}
  MaxChanges = 2
  MaxOutputs = 3
  ActionLists <- MCActionLists
  Paths <- MCPaths
  References = {"", "1"}
  Downloads <- MCDownloads
  Names <- MCNames
  Contents = {1, 2}
  Osvs = {"v", "w"}
  Tuples = {"1", "2"}
  Reviewed <- MCReviewed
  Scalars = {"k", "l"}
  MaxNesting = 2
  Modules = {"m", "s", "d"}
  Declared = {"d"}
  Inside <- MCInside
  Want <- MCWant
  FieldNames = {"module", "moduleSum", "spdx"}
  FieldValues = {"right", "wrong", "number"}
  Forced <- MCForced
  Environ <- MCEnviron
  DefaultWait = 25
  StandardSettings <- MCStandardSettings
  GatewaySettings <- MCGatewaySettings
  ProcessSettings <- MCProcessSettings
  CommandLines <- MCCommandLines
  Variables <- MCVariables
  OwnVolumes <- MCOwnVolumes
  MaxLen <- MCMaxLen
INVARIANT
  NoFieldHidden
\* A document of its full length does not grow.
CHECK_DEADLOCK FALSE
