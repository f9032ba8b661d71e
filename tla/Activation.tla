----------------------------- MODULE Activation -----------------------------
(***************************************************************************)
(* gate activate: from the saved tokens and the embedded tool adapters it  *)
(* writes the files of each tool and exports its environment (tooling.rs,  *)
(* activate.rs).  Activations run in processes of their own, over the same *)
(* paths for the same token, while other commands rewrite the config; the  *)
(* git of an activated shell asks gate git-credential, which loads the     *)
(* config again (git_credential.rs).                                       *)
(*                                                                         *)
(* A template is a sequence of references; rendered, each is paired with   *)
(* its value.  A path is a rendered sequence too.                          *)
(***************************************************************************)
EXTENDS Naturals, Sequences, FiniteSets, FiniteSetsExt, SequencesExt

CONSTANTS
  Activations,  \* the processes that run gate activate
  Tools,        \* the adapters in the order of their names
  Routes,       \* the routes with a profile
  Github,       \* the one the git helper serves
  Names,        \* token names
  Unsafe,       \* those that are no single path component
  Unquotable,   \* those whose shell quoting git refuses to read back
  Invocations,  \* the arguments of gate activate
  Configs,      \* what the config file may hold
  Remotes,      \* what git asks a credential helper
  Lower,        \* to_ascii_lowercase
  None, Empty, Torn,
  MaxSaves, MaxFaults

\* A gateway URL: without a scheme, it has no "://".
Url == [scheme : DOMAIN Lower \cup {None}, host : DOMAIN Lower, slash : BOOLEAN]

ASSUME ActivationAssumption ==
  /\ Github \in Routes /\ None \notin Routes \cup Activations
  /\ Unsafe \cup Unquotable \subseteq Names
  /\ \A c \in Configs : c.url \in Url /\ DOMAIN c.tokens = Names
  /\ \A v \in Invocations : v.name \in Names /\ v.override \in Url \cup {None}
  /\ \A i, j \in DOMAIN Tools : Tools[i].name = Tools[j].name => i = j
  /\ \A s \in DOMAIN Lower : Lower[s] \in DOMAIN Lower
  /\ MaxSaves \in Nat /\ MaxFaults \in Nat

\* The routes whose URLs a template refers to.
RoutesOf(template) ==
  {template[k][2] : k \in {i \in DOMAIN template : template[i][1] = "route_url"}}

\* The adapters as they are written (profiles/tools, profiles/README.md); no code checks it:
\* a template refers to the URL of a route only where it requires that route, and none of
\* them writes or exports the gitconfig of the helper.
ASSUME AdaptersAssumption ==
  /\ Tools \in Seq(Range(Tools))
  /\ \A t \in DOMAIN Tools :
       /\ Tools[t].env \in Seq(Range(Tools[t].env))
       /\ \A i \in DOMAIN Tools[t].env :
            LET e == Tools[t].env[i] IN
            /\ RoutesOf(e.value) \subseteq Routes \cap {e.requires}
            /\ e.key # "GIT_CONFIG_GLOBAL"
       /\ Tools[t].files \in Seq(Range(Tools[t].files))
       /\ \A i \in DOMAIN Tools[t].files :
            LET f == Tools[t].files[i] IN
            /\ RoutesOf(f.content) \subseteq Routes \cap {f.requires}
            /\ f.managed # "gitconfig"
            /\ f.generated # None => <<"text", "gitconfig">> \notin Range(f.generated)

VARIABLES
  config,  \* the config file
  saving,  \* whether it is truncated for a save
  pc,      \* what each activation is doing
  call,    \* its arguments, the config it loaded and what it does for them
  todo,    \* the steps of its plan that are files it has still to write
  data,    \* the files by path
  sole,    \* history: the activation that opened a file alone and last
  asked,   \* the pending question of a git
  reply,   \* the last answer of the helper
  saves, faults

vars == <<config, saving, pc, call, todo, data, sole, asked, reply, saves, faults>>

-----------------------------------------------------------------------------
(* The config as a process sees it                                         *)

\* An entry of before the scopes is for every route.
Migrate(entry) ==
  IF entry # None /\ entry.scope = {} THEN [entry EXCEPT !.all = TRUE] ELSE entry

\* GATEWAY_URL goes before the file.
Load(c, override) ==
  [url |-> IF override = None THEN c.url ELSE override,
   tokens |-> [n \in Names |-> Migrate(c.tokens[n])]]

Allows(entry, r) == entry.all \/ r \in entry.scope

\* trim_end_matches('/')
Trim(url) == [url EXCEPT !.slash = FALSE]

\* host_only knows two schemes, as they are written.
HostOnly(url) ==
  IF url.scheme \in {None, "https", "http"} THEN url.host ELSE url.scheme

-----------------------------------------------------------------------------
(* Templates, in the context x of a tool                                   *)

\* Variant: every route of the token, whatever --route selects.
HasGrantedRoute(x, r) == r = None \/ Allows(x.entry, r)

\* Variant: the route selected, whatever the token is for.
HasSelectedRoute(x, r) == r = None \/ x.filter \in {None, r}

HasRoute(x, r) ==
  \/ r = None
  \/ x.filter \in {None, r} /\ Allows(x.entry, r)

Context(c, v, tool) ==
  [tool |-> tool, name |-> v.name, entry |-> c.tokens[v.name],
   url |-> Trim(c.url), filter |-> v.route]

Root(x) == <<"generated_root", <<x.tool.name, x.name>>>>

IsManaged(x, i) ==
  x.tool.files[i].managed # None /\ HasRoute(x, x.tool.files[i].requires)

\* validate_managed_path refuses the paths written as "outside".
ManagedPath(x, i) == <<Root(x), <<"text", x.tool.files[i].managed>>>>

\* The files a template rendered before the i-th file may refer to as id.
Managed(x, i, id) == {j \in 1..i-1 : IsManaged(x, j) /\ x.tool.files[j].id = id}

Plain(x) ==
  [token |-> x.entry.token, token_name |-> x.name, gateway_url |-> x.url,
   gateway_host |-> HostOnly(x.url), generated_root |-> Root(x)[2]]

Known(x, i, ref) ==
  \/ ref[1] \in {"text", "route_url"} \cup DOMAIN Plain(x)
  \/ ref[1] = "managed_file" /\ Managed(x, i, ref[2]) # {}

Value(x, i, ref) ==
  CASE ref[1] = "text" -> ref
    [] ref[1] = "route_url" -> <<"route_url", <<x.url, ref[2]>>>>
    [] ref[1] = "managed_file" -> <<"file", ManagedPath(x, Max(Managed(x, i, ref[2])))>>
    [] OTHER -> <<ref[1], Plain(x)[ref[1]]>>

Renders(x, i, template) == \A k \in DOMAIN template : Known(x, i, template[k])

Render(x, i, template) == [k \in DOMAIN template |-> Value(x, i, template[k])]

-----------------------------------------------------------------------------
(* What an activation does, step after step                                *)

WriteOf(path, text) == [do |-> "write", path |-> path, text |-> text]
ExportOf(key, text) == [do |-> "export", key |-> key, text |-> text]
Fail == [do |-> "fail"]

\* The concatenation of what Step(i) does for each i of a sequence.
InTurn(s, Step(_)) == FlattenSeq([i \in DOMAIN s |-> Step(i)])

ManagedSteps(x) ==
  LET Step(i) ==
        LET f == x.tool.files[i] IN
        IF ~IsManaged(x, i) THEN <<>>
        ELSE IF f.managed = "outside" \/ ~Renders(x, i, f.content) THEN <<Fail>>
        ELSE <<WriteOf(ManagedPath(x, i), Render(x, i, f.content))>>
  IN  InTurn(x.tool.files, Step)

EnvSteps(x) ==
  LET all == Len(x.tool.files) + 1
      Step(i) ==
        LET e == x.tool.env[i] IN
        IF ~HasRoute(x, e.requires) THEN <<>>
        ELSE IF ~Renders(x, all, e.value) THEN <<Fail>>
        ELSE <<ExportOf(e.key, Render(x, all, e.value))>>
  IN  InTurn(x.tool.env, Step)

Gitconfig(x) == <<Root(x), <<"text", "gitconfig">>>>

\* Its section is for the gateway URL and its helper names the token.
GitSteps(x) ==
  IF x.tool.helper /\ HasRoute(x, Github)
  THEN <<WriteOf(Gitconfig(x), <<<<"gateway_url", x.url>>, <<"token_name", x.name>>>>),
         ExportOf("GIT_CONFIG_GLOBAL", <<<<"file", Gitconfig(x)>>>>)>>
  ELSE <<>>

InstallSteps(x) ==
  LET all == Len(x.tool.files) + 1
      Step(i) ==
        LET f == x.tool.files[i] IN
        IF f.generated = None \/ ~HasRoute(x, f.requires) THEN <<>>
        ELSE IF ~Renders(x, all, f.generated \o f.content) THEN <<Fail>>
        ELSE <<WriteOf(Render(x, all, f.generated), Render(x, all, f.content))>>
  IN  InTurn(x.tool.files, Step)

Applies(x) == x.tool.routes = {} \/ \E r \in x.tool.routes : HasRoute(x, r)

AdapterSteps(c, v, tool) ==
  LET x == Context(c, v, tool) IN
  IF v.tools # {} /\ tool.name \notin v.tools THEN <<>>
  ELSE IF v.name \in Unsafe \/ x.entry = None THEN <<Fail>>
  ELSE IF ~Applies(x) THEN IF v.tools = {} THEN <<>> ELSE <<Fail>>
  ELSE ManagedSteps(x) \o EnvSteps(x) \o GitSteps(x) \o InstallSteps(x)

Plan(c, v) ==
  LET known == {Tools[i].name : i \in DOMAIN Tools}
      Step(i) == AdapterSteps(c, v, Tools[i])
  IN  IF v.route \notin Routes \cup {None} \/ ~(v.tools \subseteq known)
      THEN <<Fail>>
      ELSE InTurn(Tools, Step)

\* The steps of a plan that are done: the first failure ends it.
Done(plan) == {i \in DOMAIN plan : \A j \in 1..i : plan[j] # Fail}

WritesOf(plan) == {i \in Done(plan) : plan[i].do = "write"}

\* push_export: the last value of a key.
ExportsOf(plan) ==
  LET exports == {i \in Done(plan) : plan[i].do = "export"}
  IN  [k \in {plan[i].key : i \in exports} |-> plan[Max({i \in exports : plan[i].key = k})].text]

-----------------------------------------------------------------------------
(* The activations                                                         *)

Init ==
  /\ config \in Configs /\ saving = FALSE
  /\ pc = [a \in Activations |-> "idle"]
  /\ call = [a \in Activations |-> None]
  /\ todo = [a \in Activations |-> {}]
  /\ data = <<>> /\ sole = <<>>
  /\ asked = None /\ reply = None
  /\ saves = 0 /\ faults = 0

GoTo(a, label) == pc' = [pc EXCEPT ![a] = label]

Set(f, k, v) == [x \in DOMAIN f \cup {k} |-> IF x = k THEN v ELSE f[x]]

\* A truncated config does not parse.
LoadFails(a) ==
  /\ pc[a] = "idle" /\ saving
  /\ GoTo(a, "failed")
  /\ UNCHANGED <<config, saving, call, todo, data, sole, asked, reply, saves, faults>>

Activate(a, v) ==
  /\ pc[a] = "idle" /\ ~saving
  /\ LET c == Load(config, v.override) IN
       /\ call' = [call EXCEPT ![a] = [args |-> v, config |-> c, plan |-> Plan(c, v)]]
       /\ todo' = [todo EXCEPT ![a] = WritesOf(Plan(c, v))]
  /\ GoTo(a, "writing")
  /\ UNCHANGED <<config, saving, data, sole, asked, reply, saves, faults>>

\* The write it is at.
Current(a) == call[a].plan[Min(todo[a])]

Writers(path) == {a \in Activations : pc[a] = "open" /\ Current(a).path = path}

\* Variant: opened without truncation.
OpenOver(path) == IF path \in DOMAIN data THEN data ELSE Set(data, path, Empty)

\* write_secret_file truncates the file when it opens it.
OpenTruncated(path) == Set(data, path, Empty)

Open(a) ==
  /\ pc[a] = "writing" /\ todo[a] # {}
  /\ LET p == Current(a).path IN
       /\ data' = OpenTruncated(p)
       /\ sole' = Set(sole, p, IF Writers(p) = {} THEN a ELSE None)
  /\ GoTo(a, "open")
  /\ UNCHANGED <<config, saving, call, todo, asked, reply, saves, faults>>

\* Over the text of a process that opened the file as well, the longer one sticks out.
Write(a) ==
  /\ pc[a] = "open"
  /\ LET w == Current(a) IN
       \E result \in IF data[w.path] \in {Empty, w.text} THEN {w.text} ELSE {w.text, Torn} :
         data' = Set(data, w.path, result)
  /\ todo' = [todo EXCEPT ![a] = @ \ {Min(@)}]
  /\ GoTo(a, "writing")
  /\ UNCHANGED <<config, saving, call, sole, asked, reply, saves, faults>>

\* Variant: a file that could not be written is passed over.
PassOver(a) ==
  /\ pc[a] = "writing" /\ faults < MaxFaults /\ todo[a] # {}
  /\ faults' = faults + 1
  /\ todo' = [todo EXCEPT ![a] = @ \ {Min(@)}]
  /\ UNCHANGED <<config, saving, pc, call, data, sole, asked, reply, saves>>

\* The file or its directory cannot be opened, or the process is killed between two files.
OpenFails(a) ==
  /\ pc[a] = "writing" /\ faults < MaxFaults
  /\ faults' = faults + 1
  /\ GoTo(a, "failed")
  /\ UNCHANGED <<config, saving, call, todo, data, sole, asked, reply, saves>>

\* The write fails half way, or the process is killed before it.
WriteFails(a) ==
  /\ pc[a] = "open" /\ faults < MaxFaults
  /\ faults' = faults + 1
  /\ LET p == Current(a).path IN
       \E result \in {data[p], Torn} : data' = Set(data, p, result)
  /\ GoTo(a, "failed")
  /\ UNCHANGED <<config, saving, call, todo, sole, asked, reply, saves>>

\* Variant: the exports are given before the files are all written.
FinishEarly(a) ==
  /\ pc[a] = "writing"
  /\ GoTo(a, IF Done(call[a].plan) = DOMAIN call[a].plan THEN "active" ELSE "failed")
  /\ UNCHANGED <<config, saving, call, todo, data, sole, asked, reply, saves, faults>>

\* The exports are printed, or the subshell started, once every file is written.
Finish(a) ==
  /\ pc[a] = "writing" /\ todo[a] = {}
  /\ GoTo(a, IF Done(call[a].plan) = DOMAIN call[a].plan THEN "active" ELSE "failed")
  /\ UNCHANGED <<config, saving, call, todo, data, sole, asked, reply, saves, faults>>

\* Another command, or an editor, rewrites the config.
BeginSave ==
  /\ ~saving /\ saves < MaxSaves
  /\ saving' = TRUE
  /\ saves' = saves + 1
  /\ UNCHANGED <<config, pc, call, todo, data, sole, asked, reply, faults>>

EndSave(c) ==
  /\ saving
  /\ config' = c
  /\ saving' = FALSE
  /\ UNCHANGED <<pc, call, todo, data, sole, asked, reply, saves, faults>>

-----------------------------------------------------------------------------
(* Git and its credential helper                                           *)

Same(s, t) == s \in DOMAIN Lower /\ t \in DOMAIN Lower /\ Lower[s] = Lower[t]

\* The scheme and the host of a URL are those of the remote.
Here(url, remote) == Same(url.scheme, remote.scheme) /\ Same(url.host, remote.host)

\* Git takes the section of the gitconfig for the remote; its helper inherits the
\* environment, GATEWAY_URL with it unless the exports were evaluated in another shell.
GitAsks(a, remote) ==
  /\ pc[a] = "active" /\ asked = None
  /\ LET exports == ExportsOf(call[a].plan) IN
       /\ "GIT_CONFIG_GLOBAL" \in DOMAIN exports
       /\ LET path == exports["GIT_CONFIG_GLOBAL"][1][2]
              text == data[path]
          IN  /\ text \notin {Empty, Torn}
              /\ text[2][2] \notin Unquotable
              /\ Here(text[1][2], remote)
              /\ \E o \in {call[a].args.override} \cup (IF call[a].args.eval THEN {None} ELSE {}) :
                   asked' = [remote |-> remote, url |-> text[1][2], name |-> text[2][2], override |-> o]
  /\ reply' = None
  /\ UNCHANGED <<config, saving, pc, call, todo, data, sole, saves, faults>>

\* gateway_endpoint: none without a scheme or a host.
HasEndpoint(url) == url.scheme \notin {None, ""} /\ url.host # ""

\* Variant: the host as it is written.
EndpointAsWritten(url) == <<Lower[url.scheme], url.host>>

Endpoint(url) == <<Lower[url.scheme], Lower[url.host]>>

\* Variant: any host of the gateway's protocol.
AsksProtocol(remote, url) == HasEndpoint(url) /\ Lower[remote.scheme] = Endpoint(url)[1]

\* CredentialRequest::parse lowers what git says, too.
AsksGateway(remote, url) ==
  HasEndpoint(url) /\ <<Lower[remote.scheme], Lower[remote.host]>> = Endpoint(url)

\* credential_response
Response(c, name, remote) ==
  LET entry == c.tokens[name] IN
  IF remote.op # "get" THEN None
  ELSE IF entry = None THEN "error"
  ELSE IF ~Allows(entry, Github) \/ ~AsksGateway(remote, c.url) THEN None
  ELSE entry.token

Helper ==
  /\ asked # None
  /\ LET c == Load(config, asked.override) IN
       reply' = [to |-> asked, config |-> c,
                 said |-> IF saving THEN "unreadable" ELSE Response(c, asked.name, asked.remote)]
  /\ asked' = None
  /\ UNCHANGED <<config, saving, pc, call, todo, data, sole, saves, faults>>

Next ==
  \/ \E a \in Activations :
       \/ LoadFails(a) \/ \E v \in Invocations : Activate(a, v)
       \/ Open(a) \/ Write(a) \/ OpenFails(a) \/ WriteFails(a) \/ Finish(a)
       \/ \E r \in Remotes : GitAsks(a, r)
  \/ BeginSave \/ \E c \in Configs : EndSave(c)
  \/ Helper

Spec == Init /\ [][Next]_vars

-----------------------------------------------------------------------------
(* Properties                                                              *)

\* The types of the state: an open file is the next one to write, and no file is without
\* the history of who opened it (activate_with_manifest, write_secret_file).
TypeOK ==
  /\ config \in Configs /\ saving \in BOOLEAN
  /\ pc \in [Activations -> {"idle", "writing", "open", "active", "failed"}]
  /\ \A a \in Activations :
       /\ pc[a] \in {"writing", "open", "active"} =>
            call[a].args \in Invocations /\ todo[a] \subseteq WritesOf(call[a].plan)
       /\ pc[a] = "open" => todo[a] # {} /\ Current(a).path \in DOMAIN data
       /\ pc[a] = "active" => todo[a] = {}
  /\ DOMAIN sole = DOMAIN data
  /\ sole \in [DOMAIN data -> Activations \cup {None}]
  /\ asked # None => asked.remote \in Remotes /\ asked.name \in Names
  /\ reply # None => asked = None
  /\ saves \in 0..MaxSaves /\ faults \in 0..MaxFaults

RoutesIn(text) == {text[k][2][2] : k \in {i \in DOMAIN text : text[i][1] = "route_url"}}

Granted(c, v) ==
  LET entry == c.tokens[v.name]
  IN  {r \in Routes : (entry.scope = {} \/ Allows(entry, r)) /\ v.route \in {None, r}}

\* Whatever an activation has written or will, and what it exports, sends tools only to
\* routes the token is for and --route selects, and it sets a git helper up only where
\* github is one of them (has_route): a tool needs one of its routes, and the rest of it
\* must be left out.
RoutesWithinGrant ==
  \A a \in Activations : pc[a] \in {"writing", "open", "active"} =>
    LET granted == Granted(call[a].config, call[a].args) IN
    \A i \in Done(call[a].plan) :
      LET step == call[a].plan[i] IN
      /\ RoutesIn(step.text) \subseteq granted
      /\ step.do = "export" /\ step.key = "GIT_CONFIG_GLOBAL" => Github \in granted

\* The files of an activated shell exist, and one that was opened while nobody else had it
\* open, and by nobody since, holds what this activation rendered last, whatever an earlier
\* activation that failed, was killed or ran under another config left in it
\* (write_secret_file truncates; the first failed write ends the activation).
ActiveFilesWhole ==
  \A a \in Activations : pc[a] = "active" =>
    LET plan == call[a].plan IN
    \A i \in WritesOf(plan) :
      /\ plan[i].path \in DOMAIN data
      /\ sole[plan[i].path] = a /\ (\A j \in WritesOf(plan) : plan[j].path = plan[i].path => j <= i) =>
           data[plan[i].path] = plan[i].text

\* As long as the config still names the gateway whose gitconfig made git ask, and a token
\* of that name for github, the helper gives its value, however the user, the config and
\* git write the host and the scheme: two places read the URL, and they must agree
\* (materialize_git_credential_config, gateway_endpoint).
HelperAnswers ==
  reply # None /\ reply.to.remote.op = "get" /\ reply.said # "unreadable" =>
    LET entry == reply.config.tokens[reply.to.name]
    IN  HasEndpoint(reply.config.url) /\ Here(reply.to.url, reply.config.url)
          /\ entry # None /\ Allows(entry, Github) => reply.said = entry.token

\* A token is given only to a get for the scheme and the host of the gateway the config
\* names when the helper runs, with the value it has then and while it is for github,
\* whatever gateway the gitconfig was written for (credential_response).
HelperOwnGateway ==
  reply # None /\ reply.said \notin {None, "error", "unreadable"} =>
    LET entry == reply.config.tokens[reply.to.name]
    IN  /\ reply.to.remote.op = "get"
        /\ Here(reply.config.url, reply.to.remote)
        /\ entry # None /\ Allows(entry, Github) /\ reply.said = entry.token

=============================================================================
