---------------------------- MODULE MCActivation ----------------------------
(* A small instance of Activation for TLC: the shipped adapters, one for two  *)
(* routes with a managed file, and one with a mistake in its template.        *)
EXTENDS Activation

Text(s) == <<"text", s>>
Env(route, key, value) == [requires |-> route, key |-> key, value |-> value]
Adapter(name, routes, helper, env, files) ==
  [name |-> name, routes |-> routes, helper |-> helper, env |-> env, files |-> files]
Installed(id, route, leaf, content) ==
  [id |-> id, requires |-> route, managed |-> None,
   generated |-> <<<<"generated_root">>, Text(leaf)>>, content |-> content]

Aider == Adapter("aider", {"anthropic", "openai"}, FALSE,
  <<Env("anthropic", "BASE", <<<<"route_url", "anthropic">>>>),
    Env("openai", "OPENAI_BASE", <<<<"route_url", "openai">>, Text("/v1")>>),
    Env("openai", "AIDER_CONFIG", <<<<"managed_file", "config">>>>)>>,
  <<[id |-> "config", requires |-> "openai", managed |-> "aider.conf", generated |-> None,
     content |-> <<<<"route_url", "openai">>, <<"token">>>>]>>)

Codex == Adapter("codex", {"openai"}, FALSE,
  <<Env(None, "CODEX_HOME", <<<<"generated_root">>, Text("home")>>)>>,
  <<Installed("config", "openai", "config.toml", <<<<"route_url", "openai">>>>),
    Installed("auth", "openai", "auth.json", <<<<"token">>>>)>>)

Gh == Adapter("gh", {"github"}, TRUE,
  <<Env("github", "GH_HOST", <<<<"gateway_host">>>>),
    Env("github", "GH_TOKEN", <<<<"token">>>>)>>, <<>>)

\* It names a file it manages only for another route, and a path outside its directory.
Vibe == Adapter("vibe", {"anthropic", "mistral"}, FALSE,
  <<Env("anthropic", "VIBE_CONFIG", <<<<"managed_file", "config">>>>)>>,
  <<[id |-> "config", requires |-> "mistral", managed |-> "outside", generated |-> None,
     content |-> <<<<"tokn">>>>]>>)

MCTools == <<Aider, Codex, Gh, Vibe>>

MCLower == [s \in {"https", "HTTPS", "gw", "GW", "hub", ""} |->
  IF s = "HTTPS" THEN "https" ELSE IF s = "GW" THEN "gw" ELSE s]

MCUrl(scheme, host) == [scheme |-> scheme, host |-> host, slash |-> host = "GW"]
Entry(value, scope) == [token |-> value, scope |-> scope, all |-> FALSE]
Of(url, n1, n2) ==
  [url |-> url, tokens |-> [n \in {"n1", "it's", "../x"} |->
     IF n = "n1" THEN n1 ELSE IF n = "it's" THEN n2 ELSE None]]

MCConfigs == {
  Of(MCUrl("https", "GW"), Entry("v1", {"openai", "github"}), Entry("v3", {})),
  Of(MCUrl("HTTPS", "gw"), Entry("v2", {"github"}), None),
  Of(MCUrl("https", "hub"), Entry("v1", {"openai", "anthropic", "github"}), None),
  Of(MCUrl(None, "gw"), None, Entry("v3", {"github"}))}

Call(name, tools, route, eval, override) ==
  [name |-> name, tools |-> tools, route |-> route, eval |-> eval, override |-> override]

MCInvocations == {
  Call("n1", {}, None, FALSE, None),
  Call("n1", {}, "openai", FALSE, None),
  Call("n1", {"gh"}, None, TRUE, MCUrl("https", "hub")),
  Call("n1", {"gh", "codex"}, "github", FALSE, None),
  Call("it's", {"gh"}, None, FALSE, None),
  Call("../x", {}, None, FALSE, None),
  Call("n1", {"vi"}, None, FALSE, None),
  Call("n1", {"aider"}, "opnai", FALSE, None)}

Ask(op, host) == [op |-> op, scheme |-> "https", host |-> host]
MCRemotes == {Ask("get", "gw"), Ask("get", "GW"), Ask("get", "hub"), Ask("store", "gw")}

Processes == Permutations(Activations)
=============================================================================
