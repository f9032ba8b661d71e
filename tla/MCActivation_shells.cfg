SPECIFICATION Spec
CONSTANTS
  Activations = {a1, a2}
  Tools <- MCTools
  Routes = {"anthropic", "github", "mistral", "openai"}
  Github = "github"
  Names = {"n1", "it's", "../x"}
  Unsafe = {"../x"}
  Unquotable = {"it's"}
  Invocations <- MCInvocations
  Configs <- MCConfigs
  Remotes <- MCRemotes
  Lower <- MCLower
  None = None
  Empty = Empty
  Torn = Torn
  MaxSaves = 1
  MaxFaults = 1
SYMMETRY Processes
CHECK_DEADLOCK FALSE
INVARIANT TypeOK
INVARIANT RoutesWithinGrant
INVARIANT ActiveFilesWhole
INVARIANT HelperAnswers
INVARIANT HelperOwnGateway
