SPECIFICATION Spec
CONSTANTS
  Routes <- MCRoutes
  CredNames <- MCCredNames
  Values <- MCValues
  Prefixes <- MCPrefixes
  HeaderNames <- MCHeaderNames
  Envs <- MCEnvs
  Entries <- MCEntries
  CanonicalOf <- MCCanonicalOf
  SourcesOf <- MCSourcesOf
  PrefixesOf <- MCPrefixesOf
  Env <- MCEnv
  EmptyValue = ""
  None = None
  Proxied = {q1}
  q1 = q1
  t1 = t1
  t2 = t2
  Tokens = {t1}
  Deletes = {}
  Phantom = Phantom
  GitEntries = {"git"}
  UrlEntries = {}
  InjectOf <- MCInjectOf
  Illegal = {}
  ListNames <- MCListNames
  Items <- MCItems
  Grants <- UnboundGrants
  Requests <- StrippedRequests
  MaxCredOps = 0
  MaxFaults = 0
  MaxRestarts = 0
INVARIANT TokenStripped
