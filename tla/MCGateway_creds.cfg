SPECIFICATION Spec
CONSTANTS
  Routes <- CredRoutes
  CredNames <- CredCredNames
  Values <- CredValues
  Prefixes <- MCPrefixes
  HeaderNames <- MCHeaderNames
  Envs <- MCEnvs
  Entries <- CredEntries
  CanonicalOf <- CredCanonicalOf
  SourcesOf <- CredSourcesOf
  PrefixesOf <- CredPrefixesOf
  Env <- MCEnv
  EmptyValue = ""
  None = None
  Proxied = {q1}
  q1 = q1
  t1 = t1
  t2 = t2
  Tokens = {t1}
  Deletes = {}
  Phantom = Phantom
  GitEntries = {}
  UrlEntries = {"telegram", "alias"}
  InjectOf <- CredInjectOf
  Illegal = {"newline"}
  ListNames <- MCListNames
  Items <- MCItems
  Grants <- CredGrants
  Requests <- CredRequests
  MaxCredOps = 2
  MaxFaults = 0
  MaxRestarts = 1
INVARIANT TypeOK
INVARIANT BoundTokenOwnCredential
INVARIANT DefaultBeforeEnv
INVARIANT OneCredentialUpstream
INVARIANT ExtraFitsCredential
