---------------------------- MODULE Credentials ----------------------------
(***************************************************************************)
(* How the gateway chooses the upstream credential of a request            *)
(* (proxy.rs, credstore.rs, profile.rs): the credential sources of a route *)
(* entry, the in-memory store of named credentials, and the priority chain *)
(* binding of the token, service default, environment variable.            *)
(*                                                                         *)
(* A credential value is known by the prefixes it starts with; nothing in  *)
(* the chain looks at more of it.                                          *)
(***************************************************************************)
EXTENDS Naturals, Sequences

CONSTANTS
  Routes,       \* canonical route ids
  CredNames,    \* names of stored credentials; a route id is such a name
  Values,       \* credential values
  Prefixes,     \* prefixes that the sources require or reject
  HeaderNames,  \* lower-cased header names a request may carry
  Envs,         \* environment variables
  Entries,      \* route entries: a route, its aliases, its git companion
  CanonicalOf,  \* the canonical route of an entry
  SourcesOf,    \* the credential_sources of an entry, in order
  PrefixesOf,   \* the prefixes a value starts with
  Env,          \* the environment of the gateway process
  EmptyValue,   \* the empty string
  None          \* no prefix, no value, no credential, no entry

Source == [env : Envs, header : HeaderNames,
           prefix : Prefixes \cup {None}, reject : SUBSET Prefixes]

ASSUME CredentialsAssumption ==
  /\ Routes \subseteq CredNames
  /\ CanonicalOf \in [Entries -> Routes]
  /\ SourcesOf \in [Entries -> Seq(Source)]
  /\ PrefixesOf \in [Values -> SUBSET Prefixes]
  /\ EmptyValue \in Values /\ PrefixesOf[EmptyValue] = {}
  /\ Env \in [Envs -> Values \cup {None}]
  /\ None \notin Routes \cup CredNames \cup Values \cup Prefixes \cup Entries

ServiceToken == [service : Routes, value : Values]

Stores == [CredNames -> ServiceToken \cup {None}]

\* What a resolution picks: the rule that applied, the source and the value.
Pick == [from : {"binding", "default", "env"}, source : Nat \ {0}, value : Values]

EmptyStore == [n \in CredNames |-> None]

-----------------------------------------------------------------------------
(* The store                                                               *)

\* Variant: the value is returned whatever service it was registered for.
GetUnchecked(st, n, service) == IF st[n] = None THEN None ELSE st[n].value

\* get_checked: the value, only if it was registered for that service.
GetChecked(st, n, service) ==
  IF st[n] # None /\ st[n].service = service THEN st[n].value ELSE None

\* get_for_service: the credential named like the service and registered for it.
GetForService(st, service) == GetChecked(st, service, service)

-----------------------------------------------------------------------------
(* Sources                                                                 *)

SourceAccepts(src, v) ==
  /\ v # EmptyValue
  /\ src.prefix # None => src.prefix \in PrefixesOf[v]
  /\ src.reject \cap PrefixesOf[v] = {}

Accepting(e, v) == {i \in DOMAIN SourcesOf[e] : SourceAccepts(SourcesOf[e][i], v)}

First(S) == CHOOSE i \in S : \A j \in S : i <= j

\* A stored value goes out through the first source that accepts it, or not at all.
FromStore(e, from, v) ==
  IF Accepting(e, v) = {} THEN None
  ELSE [from |-> from, source |-> First(Accepting(e, v)), value |-> v]

EnvOf(e, i) == Env[SourcesOf[e][i].env]

EnvUsable(e) ==
  {i \in DOMAIN SourcesOf[e] : EnvOf(e, i) # None /\ SourceAccepts(SourcesOf[e][i], EnvOf(e, i))}

\* Variant: the source the client authenticated through is taken as it is.
FromEnvPreferred(e, preferred) ==
  IF preferred # 0 THEN [from |-> "env", source |-> preferred, value |-> EnvOf(e, preferred)]
  ELSE IF EnvUsable(e) = {} THEN None
  ELSE LET i == First(EnvUsable(e)) IN [from |-> "env", source |-> i, value |-> EnvOf(e, i)]

\* resolve_credential_with: the source the client authenticated through comes first.
FromEnv(e, preferred) ==
  IF EnvUsable(e) = {} THEN None
  ELSE LET i == IF preferred \in EnvUsable(e) THEN preferred ELSE First(EnvUsable(e))
       IN  [from |-> "env", source |-> i, value |-> EnvOf(e, i)]

-----------------------------------------------------------------------------
(* The priority chain                                                      *)

\* Variant: the environment comes before the service default.
ResolveEnvFirst(st, e, binding, preferred) ==
  LET r == CanonicalOf[e]
      v == GetChecked(st, IF binding # None THEN binding ELSE r, r)
  IN  IF binding # None THEN IF v = None THEN None ELSE FromStore(e, "binding", v)
      ELSE IF EnvUsable(e) # {} THEN FromEnv(e, preferred)
      ELSE IF v = None THEN None ELSE FromStore(e, "default", v)

\* resolve_route_credential_with: a binding resolves or fails, a registered service
\* default that no source accepts fails, and only a store miss reads the environment.
Resolve(st, e, binding, preferred) ==
  LET r == CanonicalOf[e]
      bound == GetChecked(st, binding, r)
      default == GetForService(st, r)
  IN  IF binding # None
        THEN IF bound = None THEN None ELSE FromStore(e, "binding", bound)
      ELSE IF default # None THEN FromStore(e, "default", default)
      ELSE FromEnv(e, preferred)
=============================================================================
