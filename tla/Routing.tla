------------------------------ MODULE Routing ------------------------------
(***************************************************************************)
(* How the gateway starts (main.rs), expands its embedded route profiles   *)
(* into one table of routes (profile.rs), and resolves the path of a       *)
(* request to an entry of it and to the path it sends upstream (state.rs). *)
(*                                                                         *)
(* A path is a sequence of symbols, one of which is the slash: resolution  *)
(* counts, trims and slices, so the positions matter.  ".git" and the mark *)
(* "__git__" of the synthetic keys are one symbol each.  A key is a path   *)
(* without outer slashes.                                                  *)
(***************************************************************************)
EXTENDS Naturals, Sequences, FiniteSets, FiniteSetsExt

CONSTANTS
  Symbols,      \* what names and paths are made of
  Slash,
  DotGit,       \* ".git"
  GitMark,      \* "__git__"
  GitSuffixes,  \* info/refs, git-upload-pack, git-receive-pack
  Rank,         \* the order of the symbols
  None,
  Builds,       \* the embedded profiles: sequences of route files
  Settings,     \* the environments the process may find
  Paths         \* the paths a request may have

\* A route file: its name, the aliases of the route, whether it has a git companion,
\* and whether it is the YAML of a route.
Alias == [prefix : Seq(Symbols), strip : Seq(Symbols) \cup {None}]
RouteFile == [name : Seq(Symbols), aliases : Seq(Alias), git : BOOLEAN, parses : BOOLEAN]

\* What a request is matched with: by its first name or by the shape of git.
Entry == [key : Seq(Symbols), canonical : Seq(Symbols), strip : Seq(Symbols) \cup {None},
          matcher : {"prefix", "git"}]

\* GATE_ADMIN_TOKEN, GATE_PHANTOM_TOKEN, whether GATE_TOKENS_FILE is set, and the
\* tokens file it or the default names.
Setting == [admin   : {"set", "empty", "unset"},
            phantom : {"set", "empty", "unset"},
            named   : BOOLEAN,
            tokens  : {"missing", "readable", "unreadable"}]

ASSUME RoutingAssumption ==
  /\ {Slash, DotGit, GitMark} \cup GitSuffixes \subseteq Symbols
  /\ Slash \notin {DotGit, GitMark} \cup GitSuffixes
  /\ Rank \in [Symbols -> Nat]
  /\ \A a, b \in Symbols : Rank[a] = Rank[b] => a = b
  /\ Builds \subseteq Seq(RouteFile)
  /\ Settings \subseteq Setting
  /\ Paths \subseteq Seq(Symbols)
  /\ \A p \in Paths : p # <<>> /\ p[1] = Slash
  /\ None \notin Seq(Symbols)
  /\ None \notin [entry : Entry, upstream : Seq(Symbols)]

VARIABLES
  phase,     \* how far the process is
  setting,   \* its environment
  build,     \* the route files it was built with
  profile,   \* the files read so far under their keys: a set of [key, file]
  routes,    \* the table: a set of entries, at most one under a key
  path,      \* the path of a request
  resolved   \* what it was resolved to

vars == <<phase, setting, build, profile, routes, path, resolved>>

-----------------------------------------------------------------------------
(* Names and paths                                                         *)

Solid(s) == {i \in DOMAIN s : s[i] # Slash}

Slashes(s) == DOMAIN s \ Solid(s)

\* Variant: one leading slash is trimmed.
TrimOne(s) == IF s # <<>> /\ s[1] = Slash THEN Tail(s) ELSE s

\* trim_start_matches('/')
TrimStart(s) == IF Solid(s) = {} THEN <<>> ELSE SubSeq(s, Min(Solid(s)), Len(s))

\* normalize_route_key: trim_matches('/')
Normalize(s) == IF Solid(s) = {} THEN <<>> ELSE SubSeq(s, Min(Solid(s)), Max(Solid(s)))

\* split('/').next()
FirstSegment(s) == SubSeq(s, 1, Min(Slashes(s) \cup {Len(s) + 1}) - 1)

StartsWith(s, p) == Len(p) <= Len(s) /\ SubSeq(s, 1, Len(p)) = p

From(s, i) == SubSeq(s, i, Len(s))

\* The order in which a BTreeMap yields its keys.
Before(a, b) ==
  \/ a # b /\ StartsWith(b, a)
  \/ \E i \in DOMAIN a \cap DOMAIN b :
       /\ SubSeq(a, 1, i - 1) = SubSeq(b, 1, i - 1)
       /\ Rank[a[i]] < Rank[b[i]]

\* The element of S, a set of records with distinct keys, that is visited first.
Foremost(S) == CHOOSE x \in S : \A y \in S : x = y \/ Before(x.key, y.key)

\* Variant: anything up to the first ".git/" is a repository.
GitShapeAnyDepth(p) ==
  LET t == TrimStart(p)
      cuts == {i \in 1..(Len(t) - 1) : t[i] = DotGit /\ t[i + 1] = Slash}
  IN  cuts # {} /\ \E x \in GitSuffixes : From(t, Min(cuts) + 2) = <<x>>

\* is_git_smart_http: two segments before the first ".git/", a service behind it.
IsGitSmartHttp(p) ==
  LET t == TrimStart(p)
      cuts == {i \in 1..(Len(t) - 1) : t[i] = DotGit /\ t[i + 1] = Slash}
      repo == SubSeq(t, 1, Min(cuts) - 1)
  IN  /\ cuts # {}
      /\ \E i \in 2..(Len(repo) - 1) : Slashes(repo) = {i}
      /\ \E x \in GitSuffixes : From(t, Min(cuts) + 2) = <<x>>

-----------------------------------------------------------------------------
(* The table                                                               *)

Keys(S) == {x.key : x \in S}

GitKey(k) == <<GitMark>> \o k

\* Variant: an alias is a route of its own.
ExpansionOwn(p) ==
  <<[key |-> p.key, canonical |-> p.key, strip |-> None, matcher |-> "prefix"]>>
  \o [i \in DOMAIN p.file.aliases |->
        [key |-> Normalize(p.file.aliases[i].prefix),
         canonical |-> Normalize(p.file.aliases[i].prefix),
         strip |-> p.file.aliases[i].strip, matcher |-> "prefix"]]

\* The entries of a profile in the order they are inserted: the route itself, its
\* aliases, its git companion.
Expansion(p) ==
  <<[key |-> p.key, canonical |-> p.key, strip |-> None, matcher |-> "prefix"]>>
  \o [i \in DOMAIN p.file.aliases |->
        [key |-> Normalize(p.file.aliases[i].prefix), canonical |-> p.key,
         strip |-> p.file.aliases[i].strip, matcher |-> "prefix"]]
  \o IF p.file.git
       THEN <<[key |-> GitKey(p.key), canonical |-> p.key, strip |-> None, matcher |-> "git"]>>
     ELSE <<>>

Expanded(p) == \E e \in routes : e.key = p.key /\ e.canonical = p.key /\ e.matcher = "prefix"

\* Variant: only the routes are looked up, not what their aliases added.
CollidesWithRoute(es) ==
  \E i \in DOMAIN es : es[i].key \in {e.key : e \in {x \in routes : x.canonical = x.key}}

\* insert_route finds the key of one of the entries es taken.
Collides(es) ==
  \E i \in DOMAIN es :
    es[i].key \in Keys(routes) \/ \E j \in 1..(i - 1) : es[j].key = es[i].key

\* known_routes: the names a token's scope and a credential's service may have.
KnownRoutes == {e.canonical : e \in {x \in routes : ~StartsWith(x.key, <<GitMark>>)}}

\* Variant: the slice starts at the last symbol of the prefix.
AfterPrefixOff(p, e) == From(p, Len(e.key) + 1)

\* &path[prefix.len() + 1..]
AfterPrefix(p, e) == From(p, Len(e.key) + 2)

\* Variant: the prefix to strip is dropped from any path.
UpstreamPathCut(p, e) ==
  LET after == AfterPrefix(p, e)
      stripped == IF e.strip # None THEN From(after, Len(e.strip) + 1) ELSE after
  IN  IF stripped = <<>> THEN <<Slash>> ELSE stripped

\* What is forwarded of a path that entry e matched by its prefix.
UpstreamPath(p, e) ==
  LET after == AfterPrefix(p, e)
      stripped == IF e.strip # None /\ StartsWith(after, e.strip)
                    THEN From(after, Len(e.strip) + 1) ELSE after
  IN  IF stripped = <<>> THEN <<Slash>> ELSE stripped

\* resolve_route: git smart-HTTP first, then the first segment.
Resolve(p) ==
  LET git == {e \in routes : e.matcher = "git"}
      hits == {e \in routes : e.key = FirstSegment(TrimStart(p))}
  IN  IF git # {} /\ IsGitSmartHttp(p)
        THEN [entry |-> Foremost(git), upstream |-> p]
      ELSE IF \E e \in hits : e.matcher = "prefix"
        THEN LET e == Foremost(hits) IN [entry |-> e, upstream |-> UpstreamPath(p, e)]
      ELSE None

-----------------------------------------------------------------------------
(* Starting                                                                *)

Init ==
  /\ phase = "env"
  /\ setting \in Settings
  /\ build \in Builds
  /\ profile = {}
  /\ routes = {}
  /\ path = None
  /\ resolved = None

Goto(p) == phase' = p

\* The admin token must be set and the phantom token must not be empty.
CheckEnv ==
  /\ phase = "env"
  /\ Goto(IF setting.admin = "set" /\ setting.phantom # "empty" THEN "tokens" ELSE "refused")
  /\ UNCHANGED <<setting, build, profile, routes, path, resolved>>

HasRegistry == setting.named \/ setting.tokens # "missing"

\* Variant: a start needs both ways to authenticate.
LoadTokensBoth ==
  /\ phase = "tokens"
  /\ Goto(IF setting.tokens = "unreadable" \/ ~HasRegistry \/ setting.phantom = "unset"
            THEN "refused" ELSE "reading")
  /\ UNCHANGED <<setting, build, profile, routes, path, resolved>>

\* The registry, if there is to be one, and then the need for one of the two ways
\* to authenticate.
LoadTokens ==
  /\ phase = "tokens"
  /\ Goto(IF setting.tokens = "unreadable" \/ (~HasRegistry /\ setting.phantom = "unset")
            THEN "refused" ELSE "reading")
  /\ UNCHANGED <<setting, build, profile, routes, path, resolved>>

\* try_load_routes_from_files: the next file, whose key must be new and not empty.
ReadFile ==
  /\ phase = "reading" /\ Cardinality(profile) < Len(build)
  /\ LET file == build[Cardinality(profile) + 1]
         key == Normalize(file.name)
     IN  IF key = <<>> \/ key \in Keys(profile) \/ ~file.parses
           THEN Goto("refused") /\ UNCHANGED profile
         ELSE /\ profile' = profile \cup {[key |-> key, file |-> file]}
              /\ UNCHANGED phase
  /\ UNCHANGED <<setting, build, routes, path, resolved>>

AllRead ==
  /\ phase = "reading" /\ Cardinality(profile) = Len(build)
  /\ Goto(IF build = <<>> THEN "refused" ELSE "expanding")
  /\ UNCHANGED <<setting, build, profile, routes, path, resolved>>

\* expand_profile_routes: the next profile in key order; an error of insert_route is
\* the end of the process.
ExpandRoute ==
  /\ phase = "expanding" /\ \E p \in profile : ~Expanded(p)
  /\ LET es == Expansion(Foremost({p \in profile : ~Expanded(p)})) IN
     IF Collides(es) THEN Goto("refused") /\ UNCHANGED routes
     ELSE /\ routes' = routes \cup {es[i] : i \in DOMAIN es}
          /\ UNCHANGED phase
  /\ UNCHANGED <<setting, build, profile, path, resolved>>

\* The address is bound, or taken.
Bind ==
  /\ phase = "expanding" /\ \A p \in profile : Expanded(p)
  /\ \E p \in {"serving", "unbound"} : Goto(p)
  /\ UNCHANGED <<setting, build, profile, routes, path, resolved>>

\* A request: the table is never changed again, so one tells all there is to tell.
Request(p) ==
  /\ phase = "serving" /\ path = None
  /\ path' = p
  /\ resolved' = Resolve(p)
  /\ UNCHANGED <<phase, setting, build, profile, routes>>

Done == (phase \in {"refused", "unbound"} \/ path # None) /\ UNCHANGED vars

Start == CheckEnv \/ LoadTokens \/ ReadFile \/ AllRead \/ ExpandRoute \/ Bind

Next == Start \/ (\E p \in Paths : Request(p)) \/ Done

Spec == Init /\ [][Next]_vars

-----------------------------------------------------------------------------
(* Properties                                                              *)

TypeOK ==
  /\ phase \in {"env", "tokens", "reading", "expanding", "serving", "refused", "unbound"}
  /\ setting \in Settings /\ build \in Builds
  /\ \A p \in profile : p.key \in Seq(Symbols) /\ p.file \in RouteFile
  /\ \A e \in routes : e \in Entry /\ e.canonical \in Keys(profile)
  /\ path # None => path \in Seq(Symbols) /\ path[1] = Slash
  /\ resolved # None => resolved.entry \in routes

\* What files lay claim to: each its route, its aliases and its companion.
ClaimsOf(files) ==
  UNION {
    {[file |-> i, matcher |-> "prefix", key |-> Normalize(files[i].name), strip |-> None, n |-> 0]}
    \cup {[file |-> i, matcher |-> "prefix", key |-> Normalize(files[i].aliases[j].prefix),
           strip |-> files[i].aliases[j].strip, n |-> j] : j \in DOMAIN files[i].aliases}
    \cup {[file |-> i, matcher |-> "git", key |-> GitKey(Normalize(files[i].name)),
           strip |-> None, n |-> 0] : g \in {x \in {TRUE} : files[i].git}}
    : i \in DOMAIN files}

Claims == ClaimsOf(build)

\* A gateway that serves has every route, alias and companion of every file in its
\* table under a key of its own, for the route of that file: nothing was replaced
\* on the way (profile.rs:205-259, state.rs:34-39).
ServesEveryProfile ==
  phase = "serving" =>
    /\ Cardinality(routes) = Cardinality(Claims)
    /\ \A c \in Claims : \E e \in routes :
         e = [key |-> c.key, canonical |-> Normalize(build[c.file].name),
              strip |-> c.strip, matcher |-> c.matcher]

\* A gateway refuses to start only for a reason: its environment, a file without a
\* key or that does not parse, no file at all, or two claims to one key
\* (main.rs:33-80, profile.rs:201-259).
RefusedForCause ==
  phase = "refused" =>
    \/ setting.admin # "set" \/ setting.phantom = "empty" \/ setting.tokens = "unreadable"
    \/ setting.phantom = "unset" /\ setting.tokens = "missing" /\ ~setting.named
    \/ build = <<>>
    \/ \E i \in DOMAIN build : Solid(build[i].name) = {} \/ ~build[i].parses
    \/ \E c, d \in Claims : c # d /\ c.key = d.key

\* k is the first name in p, behind any number of slashes.
Names(p, k) ==
  \E n \in 0..Len(p) :
    /\ \A i \in 1..n : p[i] = Slash
    /\ StartsWith(From(p, n + 1), k) /\ Slashes(k) = {}
    /\ n + Len(k) = Len(p) \/ p[n + Len(k) + 1] = Slash
    /\ k # <<>> \/ n = Len(p)

ByPrefix == resolved # None /\ resolved.entry.matcher = "prefix"

\* A request goes to the route that the first name of its path is a key of, and to
\* none only if there is no such route; the synthetic key of a companion is no
\* such name (state.rs:86-94).
RouteOfFirstName ==
  path # None =>
    /\ ByPrefix => Names(path, resolved.entry.key)
    /\ resolved = None => ~\E e \in routes : e.matcher = "prefix" /\ Names(path, e.key)

\* p is an owner, a repository and a git service; an owner is not itself "x.git".
GitShape(p) ==
  \E n \in 0..Len(p), a \in 1..Len(p), b \in 1..Len(p), x \in GitSuffixes :
    LET owner == SubSeq(p, n + 1, a)
        repo == SubSeq(p, a + 2, b)
    IN  /\ \A i \in 1..n : p[i] = Slash
        /\ owner # <<>> /\ repo # <<>> /\ Slashes(owner) = {} /\ Slashes(repo) = {}
        /\ owner[Len(owner)] # DotGit
        /\ p = SubSeq(p, 1, n) \o owner \o <<Slash>> \o repo \o <<DotGit, Slash, x>>

\* The git companion gets the paths of git smart-HTTP, whole, before any prefix is
\* tried, and no other path (profile.rs:158-176, state.rs:77-84).
GitByShapeOnly ==
  path # None =>
    /\ resolved # None /\ resolved.entry.matcher = "git" <=>
         GitShape(path) /\ \E e \in routes : e.matcher = "git"
    /\ resolved # None /\ resolved.entry.matcher = "git" => resolved.upstream = path

\* The path is lead, the key, the prefix to strip if it is there, and what was
\* forwarded, where an empty rest is forwarded as a slash.
Consumed(lead) ==
  LET e == resolved.entry IN
  \E rest \in {resolved.upstream} \cup {r \in {<<>>} : resolved.upstream = <<Slash>>} :
    \/ /\ path = lead \o e.key \o rest
       /\ e.strip # None => ~StartsWith(rest, e.strip)
    \/ e.strip # None /\ path = lead \o e.key \o e.strip \o rest

OneSlash == Len(path) = 1 \/ path[2] # Slash

\* Of a path with one leading slash exactly the key and the prefix to strip are
\* consumed (state.rs:96-102).
PlainPrefixConsumed ==
  path # None /\ ByPrefix /\ OneSlash => Consumed(<<Slash>>)

\* What such a path forwards is rooted, unless the prefix to strip ended inside one
\* of its segments (state.rs:97-102).
RootedUnlessCut ==
  path # None /\ ByPrefix /\ OneSlash =>
    \/ resolved.upstream[1] = Slash
    \/ /\ resolved.entry.strip # None
       /\ path = <<Slash>> \o resolved.entry.key \o resolved.entry.strip \o resolved.upstream

\* Of every path the key and the prefix to strip are consumed ("The matched prefix is
\* stripped", state.rs:64).
PrefixConsumed ==
  path # None /\ ByPrefix =>
    \E n \in 1..Len(path) : Consumed([i \in 1..n |-> Slash])

\* The names that scopes and credentials may use are the files' own, and a request is
\* never for a route that none of them names (state.rs:48-56, auth.rs:193-196).
KnownRoutesComplete ==
  phase = "serving" /\ (\A i \in DOMAIN build : ~StartsWith(Normalize(build[i].name), <<GitMark>>)) =>
    /\ KnownRoutes = {Normalize(build[i].name) : i \in DOMAIN build}
    /\ resolved # None => resolved.entry.canonical \in KnownRoutes
=============================================================================
