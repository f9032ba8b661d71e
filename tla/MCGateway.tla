----------------------------- MODULE MCGateway -----------------------------
(* Small instances of Gateway for TLC: two routes as the shipped profiles   *)
(* have them, anthropic with two sources and github with its git companion. *)
EXTENDS Gateway, TLC

CONSTANTS t1, t2

MCRoutes == {"anthropic", "github"}
MCCredNames == MCRoutes \cup {"work"}
MCValues == {"oauth", "key", ""}
MCListNames == {"anthropic-beta"}
MCItems == {"oauth-beta", "other-beta"}
MCPrefixes == {"sk-ant-oat", "gate_"}
MCHeaderNames == {"authorization", "proxy-authorization", "x-api-key"}
MCEnvs == {"ANTHROPIC_API_KEY", "GITHUB_TOKEN"}
MCEntries == {"anthropic", "github", "git"}
MCCanonicalOf == [e \in MCEntries |-> IF e = "git" THEN "github" ELSE e]

OAuthSource == [env |-> "ANTHROPIC_API_KEY", header |-> "authorization",
                prefix |-> "sk-ant-oat", reject |-> {"gate_"}]
ApiKeySource == [env |-> "ANTHROPIC_API_KEY", header |-> "x-api-key",
                 prefix |-> None, reject |-> {"gate_", "sk-ant-oat"}]
GithubSource == [env |-> "GITHUB_TOKEN", header |-> "authorization",
                 prefix |-> None, reject |-> {}]

MCSourcesOf == [e \in MCEntries |->
  IF e = "anthropic" THEN <<OAuthSource, ApiKeySource>> ELSE <<GithubSource>>]
Plain(list) == [n \in MCListNames |-> list]
MCInjectOf == [e \in MCEntries |->
  IF e = "anthropic" THEN <<[basic |-> FALSE, extra |-> Plain("oauth-beta")],
                            [basic |-> FALSE, extra |-> Plain(None)]>>
  ELSE <<[basic |-> e = "git", extra |-> Plain(None)]>>]
MCPrefixesOf == [v \in MCValues |-> IF v = "oauth" THEN {"sk-ant-oat"} ELSE {}]
MCEnv == [x \in MCEnvs |-> IF x = "GITHUB_TOKEN" THEN None ELSE "key"]

NoCreds == [r \in MCRoutes |-> None]
MCGrants == {
  [all |-> TRUE, scope |-> {}, creds |-> NoCreds],
  [all |-> FALSE, scope |-> {"anthropic"}, creds |-> NoCreds],
  [all |-> FALSE, scope |-> {"anthropic"}, creds |-> [NoCreds EXCEPT !["anthropic"] = "work"]]}

Bearer(x) == [scheme |-> "bearer", parts |-> <<x>>]
Raw(x) == [scheme |-> "raw", parts |-> <<x>>]
NoHeaders == [n \in MCHeaderNames |-> None]

\* Two tokens in two headers and as the halves of a Basic value, and the phantom token
\* beside a token, alone, and before one in a value that is also sent to the git companion
\* and on a path of no route.
Pair(x, y) == [NoHeaders EXCEPT !["authorization"] = [scheme |-> "basic", parts |-> <<x, y>>]]
MCRequests ==
  [entry : {"anthropic"}, lists : {Plain(<<>>)}, upgrade : {FALSE},
   headers : {[NoHeaders EXCEPT !["proxy-authorization"] = Bearer(t2), !["x-api-key"] = Raw(t1)],
              [NoHeaders EXCEPT !["authorization"] = Bearer(t2), !["x-api-key"] = Raw(Phantom)],
              Pair(t1, t2)}]
  \cup [entry : {"anthropic"}, lists : {Plain(<<>>)}, upgrade : {TRUE},
        headers : {[NoHeaders EXCEPT !["authorization"] = Raw(Phantom)], Pair(Phantom, t1)}]
  \cup [entry : {"git", None}, lists : {Plain(<<>>)}, upgrade : {FALSE},
        headers : {Pair(Phantom, t1)}]

\* Tokens without bindings, for the runs that are about tokens.
UnboundGrants == {g \in MCGrants : g.creds = NoCreds}

\* Bound: overlapping revocations, faults and restarts come with one token; once there is
\* a second, all that goes on is revocations one at a time.
SecondTokenInPeace ==
  creation[t2] = "new" \/
    /\ budget["fault"] = MaxFaults /\ budget["restart"] = MaxRestarts
    /\ \A d, e \in Deletes : revoking[d] # None /\ revoking[e] # None => d = e

StrippedRequests == [entry : {"anthropic"}, lists : {Plain(<<>>)}, upgrade : {FALSE},
  headers : {[NoHeaders EXCEPT !["authorization"] = Bearer(t1), !["proxy-authorization"] = Bearer(t1)]}]

\* The routes for the runs about credentials: anthropic, and one that has its credential
\* in the URL, asked for by an alias.
CredRoutes == {"anthropic", "telegram"}
CredCredNames == CredRoutes \cup {"work"}
CredEntries == {"anthropic", "telegram", "alias"}
CredCanonicalOf == [e \in CredEntries |-> IF e = "alias" THEN "telegram" ELSE e]
CredSourcesOf == [e \in CredEntries |->
  IF e = "anthropic" THEN <<OAuthSource, ApiKeySource>> ELSE <<GithubSource>>]
CredInjectOf == [e \in CredEntries |-> IF e = "anthropic" THEN MCInjectOf[e] ELSE MCInjectOf["github"]]
\* An unrestricted token, and one that is bound on anthropic.
Unbound == [r \in CredRoutes |-> None]
CredGrants == {
  [all |-> TRUE, scope |-> {}, creds |-> Unbound],
  [all |-> TRUE, scope |-> {}, creds |-> [Unbound EXCEPT !["anthropic"] = "work"]]}
CredValues == MCValues \cup {"newline"}
CredPrefixesOf == [v \in CredValues |-> IF v = "oauth" THEN {"sk-ant-oat"} ELSE {}]

\* The lists in several lines, in one, in one that cannot be read, and none.
CredRequests ==
  {[entry |-> "anthropic", headers |-> [NoHeaders EXCEPT !["x-api-key"] = Raw(t1)],
    lists |-> Plain(<<<<"other-beta">>, <<"oauth-beta">>>>), upgrade |-> FALSE],
   [entry |-> "anthropic", lists |-> Plain(<<<<"other-beta">>>>), upgrade |-> FALSE,
    headers |-> [NoHeaders EXCEPT !["authorization"] = Bearer(Phantom), !["x-api-key"] = Raw(t1)]],
   [entry |-> "anthropic", lists |-> Plain(<<None>>), upgrade |-> FALSE,
    headers |-> [NoHeaders EXCEPT !["authorization"] = Bearer(Phantom), !["x-api-key"] = Raw(Phantom)]],
   [entry |-> "alias", lists |-> Plain(<<>>), upgrade |-> FALSE,
    headers |-> [NoHeaders EXCEPT !["authorization"] = Bearer(Phantom), !["proxy-authorization"] = Bearer(t1)]]}
=============================================================================
