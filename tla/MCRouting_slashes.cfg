SPECIFICATION Spec
CONSTANTS
  Symbols <- MCSymbols
  Slash = "/"
  DotGit = ".git"
  GitMark = "__git__"
  GitSuffixes = {"info/refs"}
  Rank <- MCRank
  None = None
  Builds <- ShippedBuild
  Settings <- PlainSetting
  Paths <- ShortPaths
INVARIANT PrefixConsumed
