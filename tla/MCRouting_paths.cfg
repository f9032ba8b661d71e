SPECIFICATION Spec
CONSTANTS
  Symbols <- MCSymbols
  Slash = "/"
  DotGit = ".git"
  GitMark = "__git__"
  GitSuffixes = {"info/refs"}
  Rank <- MCRank
  None = None
  Builds <- MCBuilds
  Settings <- MCSettings
  Paths <- MCPaths
INVARIANT TypeOK
INVARIANT ServesEveryProfile
INVARIANT RefusedForCause
INVARIANT RouteOfFirstName
INVARIANT GitByShapeOnly
INVARIANT PlainPrefixConsumed
INVARIANT RootedUnlessCut
