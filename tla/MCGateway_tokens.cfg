SPECIFICATION FairSpec
CONSTANTS
  Routes <- MCRoutes
  CredNames <- MCCredNames
  Values <- MCValues
  Prefixes <- MCPrefixes
  HeaderNames <- MCHeaderNames
  Envs <- MCEnvs
  Entries <- MCEntries
  CanonicalOf <- MCCanonicalOf
  SourcesOf <- MCSourcesOf
  PrefixesOf <- MCPrefixesOf
  Env <- MCEnv
  EmptyValue = ""
  None = None
  Proxied = {q1}
  q1 = q1
  t1 = t1
  t2 = t2
  Tokens = {t1, t2}
  Deletes = {d1, d2}
  d1 = d1
  d2 = d2
  Phantom = Phantom
  GitEntries = {"git"}
  UrlEntries = {}
  InjectOf <- MCInjectOf
  Illegal = {}
  ListNames <- MCListNames
  Items <- MCItems
  Grants <- UnboundGrants
  Requests <- MCRequests
  MaxCredOps = 0
  MaxFaults = 1
  MaxRestarts = 1
CONSTRAINT SecondTokenInPeace
INVARIANT RevokedNeverForwarded
INVARIANT SteadyTokenServed
INVARIANT FirstInForceDecides
PROPERTY RequestsDecided
PROPERTY TunnelUntilHangUp
PROPERTY TunnelsSettle
