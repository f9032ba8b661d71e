# A TLA+ model of the enclave credential gateway

The gateway stands between developer tools and upstream APIs.  A client holds a
phantom token (`gate_...`); the gateway checks it, takes it out of the request, puts
the real credential of the route in its place and forwards the request.  This
directory models it: the start and the table of routes, the token registry and its
file, the store of credentials, the handling of a proxied request and of the tunnel it
may leave while administrators change both, the `gate` commands that share one
configuration file, and the activation of tools with the git helper.

## The system

| Part (source) | State | Operations | Talks to |
|---|---|---|---|
| Token registry (`registry.rs`) | `tokens: RwLock<Vec<TokenRecord>>`, `tokens.json`, `tokens.tmp` | `load_or_create`, `create_token`, `validate`, `list_tokens`, `revoke_token`, `persist` | called by admin handlers and by the auth middleware; the disk through `tokio::fs` |
| Credential store (`credstore.rs`) | `inner: RwLock<HashMap<name, ServiceToken>>`, in memory only | `register`, `remove`, `get_checked`, `service_of`, `get_for_service`, `list` | written by admin handlers, read by the proxy |
| Admin API (`admin.rs`) | none | POST/GET/DELETE of tokens and of credentials | registry, store; every request is a task of its own |
| Auth middleware (`auth.rs`, `lib.rs`) | the `PhantomAuth` it attaches to a request | candidates per header, look-up of each, scope check, phantom fallback | registry (one await per candidate), then `proxy_handler` |
| Proxy (`proxy.rs`) | one task per request, one spawned task per tunnel | resolve the credential, rewrite headers, forward | store, environment, upstream |
| Routes (`profile.rs`, `state.rs`, `build.rs`) | constant after the start | expand profiles, match a path, git smart-HTTP test | read by auth and proxy |
| Start (`main.rs`) | none | read the environment, load the registry, serve | all of the above |
| CLI (`gate-cli`) | `~/.config/gate/config.toml`, generated files | create, list and revoke tokens, push credentials, activate tools, git credential helper | admin API over HTTPS; other CLI processes through the files |

What is hard in it:

* **Interleaving.** Every request is a task of a multi-threaded runtime.  An admin
  request takes the registry's lock two or three times and does file operations in
  between; a proxied request reads the registry once per candidate token and the
  store once more later.
* **Failure.** Any file operation may fail; the change is then undone in a critical
  section of its own.  The process may die between any two steps.  A client may go
  away: its task is dropped at an await, while a file operation it asked for runs
  to its end on the blocking pool.
* **Stale decisions.** The bindings of a token are checked when it is created and
  used much later; the store is empty after a restart and the registry is not.
* **No lock.** CLI processes share `config.toml`; each loads all of it, changes it and
  writes all of it, truncating it first.
* **Liveness.** A task that undoes its change asks for the write guard while others
  hold read guards.

What makes each part correct:

* registry: names are unique; an answered creation or revocation stays in force;
  memory and file agree when nothing is in flight; every request ends;
* credentials: a bound token gets its own credential or nothing, a service default
  comes before the environment, the value goes out in a header whose source takes it;
* requests: a revoked token authorises nothing, a token in force is not turned
  away, the upstream sees one credential and not the token, every request is decided.
* tunnels: one lives until both its peers are done with it, and no longer;
* routes: every profile is served under all its names or the gateway refuses to start,
  for a reason; a path goes to the route of its first name, less just that name;
* CLI: what the configuration holds was issued by the gateway, a token reported saved
  stays saved, a revocation by name revokes what had that name;
* activation: a tool is sent to granted routes only, an active shell finds its files
  whole, and git's helper gives the token to its own gateway and to no other host.

## Modules

| Module | Models | Checked by | Proved in |
|---|---|---|---|
| `TokenRegistry` | `registry.rs` with the admin handlers that call it, file operation by file operation | `MCTokenRegistry` | `TokenRegistryProofs`, `TokenDurabilityProofs` |
| `Credentials` | `source_accepts`, `get_checked`, the priority chain of `proxy.rs` (no state) | with `Gateway` | `CredentialsProofs` |
| `Gateway` | `auth.rs` and `proxy.rs` against the table and the store of `admin.rs` and `credstore.rs` | `MCGateway` | `GatewayProofs` |
| `TokenTable` | what the registry promises: one change per request, in one step, undone only by its own failure | implemented by `TokenRegistry` | `TokenRegistryProofs` |
| `Routing` | `main.rs` up to serving, `profile.rs`, `state.rs` | `MCRouting` | `RoutingProofs` |
| `Activation` | `tooling.rs`, `activate.rs`, `git_credential.rs`, with the loads and writes of `config.rs` and `secure_file.rs` | `MCActivation` | `ActivationProofs` |
| `GateCli` | `config.rs`, `secure_file.rs`, `commands/token.rs` and the loading of a saved token by the local commands | `MCGateCli` | `GateCliProofs` |

`NumberLemmas` holds what the last two proof modules share: least and greatest numbers,
and induction in the form of a set.

The definitions whose comment begins with *Variant* are not part of a model: each is a
definition as a plausible bug would leave it, and the check substitutes it to see
that a property notices.

### TokenRegistry

A record is known by the request that created it (its `Uuid`); the table is a function
from ids to `absent`, `active` or `revoked`, and `name` gives the name.  `pc[r]` is
the await at which the task of request `r` is: `lock` (the first `write().await`),
`persist` (between dropping the write guard and the read guard), `write` and `rename`
(the two `tokio::fs` calls), `undo` (the rollback's `write().await`).  `readers` are
the tasks that hold the read guard across those calls.

The runtime's lock is first come, first served; the model grants it to anyone who may
have it, so it has the code's orders and more.  `persist` on the way to
`persist().await` cannot be told apart from `create_dir_all`, so the two are one place.

Two things follow the operating system instead of the source.  `tokio::fs` runs on
the blocking pool, so an operation has a life of its own (`job`), and a cancelled
request leaves it running.  `fs::write` is an open with truncation followed by a
write at offset 0 of the *inode* that was opened (`fd`, `data`), which another
request may have renamed to `tokens.json` since.  What two such writes leave behind
is the second document, if it covers the first (`NoLonger` compares them: a table in
which fewer of the same records are revoked is the shorter text), or a mixture,
`Torn`; `Empty` and `Torn` do not parse, and `load_or_create` makes an empty table of
them.

`Cancel` (axum drops a handler whose client disconnected) and `CrashRestart` come from
outside; `MaxFaults`, `MaxCancels` and `MaxCrashes` bound how often the environment
interferes.

`TokenTable` is the abstract registry: a request is `asked`, `applied` and answered, its
change is one step, a failure puts the request's own record back, and a restart
brings back one of the tables that were ever on their way to the disk (`images`), or
none.  `TableOf` in `TokenRegistry` is the refinement mapping: `phase` forgets which
await a task is at, `before` is the code's `previous_status`, `durable` is what `Load`
would make of the file, `images` are the parsable inodes and the snapshots under way.

### Credentials

A route entry has an ordered list of sources, each naming an environment variable, a
header, a prefix it asks for and prefixes it rejects.  All that the chain looks at in
a value is whether it is empty and what it starts with, so a value is known by
`PrefixesOf`.  `Resolve` is `resolve_route_credential_with`: binding, then service
default, then environment, with the hard failures of the first two.

### Gateway

`pc[q]` of a proxied request: `auth` (in `find_registry_auth`, having looked up the
candidates `tried[q]`), `resolve` (in `proxy_handler`), `sent` (awaiting the upstream),
`done`.  `LookUp` is one `validate().await` together with the scope check when it
hits; `FallBack` is what follows the last miss.  Reading the store and building the
upstream request happen without an await between them and are one step, `Forward`.

The token table here is the registry's as its clients see it: `status` is the record in
memory, `disk` the table that was last renamed into `tokens.json`, and the single steps
of a write are left to `TokenRegistry`.  Creating a token is `CheckToken` (the
handler's validation), `PushToken` (the record is in the table and counts), and then
`CreateToken`, `CreateFails` (it is taken out again) or `DropCreate`.  A DELETE `d` is
`MarkToken`, which marks the record whatever its status and keeps that in `revoking[d]`
as the code keeps `previous_status`, and then `RevokeToken`, `RevokeFails`, which puts
it back, or `DropRevoke`.  Two of them may be about one token.  A dropped request undoes
nothing, and the table as it was may be written at any later time (`stale`).  `Restart`
loads what the file may then hold: `disk`, a table of a request still being persisted, one
of `stale`, or nothing that parses.

Left to constants: the entries, their sources and the environment (fixed after the
start; `Routing` says where entries come from).  A header carries one value: its scheme
and the distinct candidates it names (a `Basic` value may name two).  Strings that are
no token anyone was given miss every look-up and are left out.  A registry and a
phantom token are both configured.

`sent` is the upstream request: the credential, the headers that may carry one, and
the list headers (`lists`, such as `anthropic-beta`) line by line, to which the chosen
source adds its `extra_headers`.  A value of `Illegal` (with a line break, say) makes an
empty header, unless it is Basic-encoded, and no URL.

A request that asks for an upgrade may be answered `upgraded`, and leaves a task behind:
`tunnel[q]` is `joining` (in `try_join`), `open` (in `copy_bidirectional`) or `over`, and
`open[q]` are the peers that have not hung up.

`seen`, `ended`, `doubtful`, `dead` and `steady` are history: the stores seen since a
request arrived, the tokens whose revocation was answered (so far, and when the request
arrived), and the tokens active ever since it did.  No guard reads them.  `doubtful` are
the tokens whose revocation the code does not vouch for: two DELETEs of it were in
flight at once, so that the one that fails may undo the one that was answered, or a
request was dropped while the token was active, so that its write may be the last to
reach the file.  `registry_double_revoke` and `registry_orphan` show both;
`RevokedNeverForwarded` is stated of all other tokens, and false without the condition.

### GateCli

A command is one process, run once; several processes share `file`, which is
`config.toml`: missing, just truncated, torn, or a configuration.  Of a configuration the
model keeps what these commands look at: whether an `AdminTransport` can be built from
it (`ready`) and the token saved under each name.  `pc[p]` follows `create`: `load`,
`post`, `answer` (the gateway has changed its table, the process awaits the answer),
`reload`, `open` and `write` (the two halves of `write_secret_file`); `revoke` goes
through `list`, `delete` and `answer`; `use` stands for `activate` and the git helper up to the
look-up of the token.  `Config::load` of a missing file saves the default, which no
admin command can run with.

Two descriptors write at offset 0 of one file, so what a save leaves is its document,
or that followed by whole entries of an older and longer one, or a text that does not
parse (`Over`); a write that fails half way leaves a beginning, which may parse too
(`Cuts`).

The gateway's side of a request is in `undo`: what the record was before `Post` or
`Delete` changed it, until the change is persisted (`Persisted`) or taken back
(`PersistFails`), which happens whether or not the command still waits.  Several
requests may be there at once, and about one record: the rollback of one revocation may
undo another that was answered, as in `Gateway`.  `contested` is the history of the
records this may have happened to, and the condition of `RevokedKnown`, which is false
without it.  A restart of the gateway is not modelled here; what it may bring back
is in `Gateway`.

`exposed` (saves that overlapped another or were followed by a failing one) and `known`
are history too.  `MaxFaults` bounds kills, lost answers, changes taken back and failing
file operations together.  Left out: `GATEWAY_URL` and `GATE_ADMIN_TOKEN`, the checks of
arguments, and the listing.

### Routing

Positions matter here (the code counts, trims and slices), so a path is a sequence of
symbols, one of them the slash; `.git` and `__git__` are one symbol each.  `phase`
follows `main`: the environment, the registry, the files one by one, the expansion
profile by profile in the order of their keys, the port.  A request is resolved
against the finished table, which nothing changes any more.  The properties say what
should come out without the operators that compute it: `Claims` lists what the files
ask for, `Names` and `GitShape` describe paths by concatenation, `Consumed` says how a
path falls into parts.

### Activation

`Plan` is all that `activate_with_manifest` does for a configuration and arguments: for
every tool in name order the managed files, the exports, the gitconfig and the
installed files, each held back by `HasRoute`, up to the first error.  A template is
a sequence of references, and rendered each keeps the name of what it came from.
`todo` are the positions of the plan that are left.
An activation then does its writes one by one (`open`, which truncates, and `Write`),
with what another activation of the same token writes to the same paths in between,
and exports (`Finish`) when all are done.  `BeginSave` and `EndSave` are other commands
that rewrite the configuration.

`GitAsks` is git, which is not this code: it reads the file that `GIT_CONFIG_GLOBAL`
names, compares scheme and host without case and runs the helper named there, whose
environment may have another `GATEWAY_URL` than the activation had.  `Helper` loads the
configuration again and answers.  `sole` is history: who opened a file while no one
else had it open, and since.

## The runs

| Run | Instance | Shows |
|---|---|---|
| `registry_faults` | three requests and one record at boot, two names; an I/O error and a crash | names unique, snapshots equal to memory, a quiet file after a success equal to memory, answered changes in force; `TokenTable` is implemented |
| `registry_cancel` | `FairSpec`; two requests and one record at boot, two names; both may fail and both may be dropped | the in-memory promises hold when a task is dropped with its file operation running, every admin request ends, and `TokenTable` is still implemented |
| `gateway_creds` | one token, four requests on a route with two sources and on the alias of one with its credential in the URL, two store changes and a restart; a value that no header can hold | the right credential, in the right header, with the extra headers that belong to it |
| `gateway_tokens` | `FairSpec`; requests that name up to two tokens and the phantom token in one or two headers, on a route, its alias and no route, two of them upgrades; one token with two DELETEs at a time, a failed persist or a dropped admin request and a restart; or two tokens with one DELETE at a time (`SecondTokenInPeace`) | an answered revocation keeps its token out, through failures, later revocations and the restart, unless it is `doubtful`; tokens in force get in and the foremost of them decides; every request is decided; tunnels end when they should and not before |
| `cli_faults` | three commands, any mix of operations, two names, two faults; file missing or configured | entries were issued, an undisturbed save is never undone, a revocation by name misses none and stays, unless two were being persisted at once |
| `routing` | every environment; eleven sets of route files: the shipped shapes, none, and files that collide in their names, aliases and companions; all paths of up to six symbols and longer ones around the shape of git | complete tables, refusals for cause, the right route and rest of a path |
| `activation` | two activations, an adapter with every kind of file and shipped-like ones, arguments with and without filters, a configuration that is saved once, one fault | routes within the grant, whole files, a helper that answers its own gateway and nobody else |

Why the bounds are enough.  Two requests meet in every pair of steps the registry
has: two snapshots under read guards, two writes of one file, a rollback against a
change; the third is a change between the two.  One boot record gives revocations a
target that needs no creation first.  One fault decides which of them fails.  Proxied requests write nothing that
another one reads, so one of them against the administrators shows every
interleaving it can meet.  Two DELETEs at a time are enough for one to undo the other,
and one restart to bring back what a file kept.  Both need one token only, and the order
of several tokens in a request needs none of that: the constraint `SecondTokenInPeace`
leaves out the states that have all of it together, and never a step of a request or a tunnel.
So the run does not reach a token that is in doubt because the dropped creation of another
wrote it as active; the theorem `RevokedStaysOut` covers it, and `registry_orphan` shows
where it leads.  Two store changes suffice for "registered, then
registered again for another service"; the restart is a third.  The two routes have the
shapes of the shipped profiles: two sources that share one variable and differ in
header and prefix, and a route with a git companion.  Three commands are two saves that
overlap and a third that saved before or reads meanwhile; processes and names are
interchangeable, hence the symmetry.  One fault ends or damages one save; the second
meets what the first left.  A table of routes never changes, so one path after the
start tells all there is to tell; the paths are long enough for an owner, a repository and
a service behind two slashes.  Two activations are a writer and the one that meets
what it left, whole or torn; one save of the configuration puts any of the
others in the place of the one that was loaded.

Deadlock is checked in all runs but `activation`, where each activation is run once and
nothing need happen after them; elsewhere `Done` is the only way to stop.

### Fairness

`TokenRegistry` assumes weak fairness of the steps the runtime and the disk take for a
request, errors excluded: tokio polls a task whose lock or file operation is ready
and the blocking pool runs what it is given.  Its lock is fair, so a waiting writer is not
starved; with finitely many requests weak fairness is all that is needed.  `Gateway`
assumes it of `Handle`, the steps between arrival and sending, and of `Relay`, what the
task of a tunnel does when its connections let it.  Nothing is assumed of
clients, of administrators, or of an upstream: the HTTPS client has no timeout, so a
request that was sent may wait for ever, a peer may keep its tunnel open for ever, and
no property says otherwise.

### What the runs found

Five runs end in a counterexample to a sentence of the documentation.

* `registry_double_revoke`: two requests revoke one token.  The first found it
  active and is persisting; if its persist fails after the second was answered 200, it
  restores `Active`.  The token is valid again.
* `registry_orphan`: a client disconnects while its request waits for `fs::write`.  Its
  read guard is gone, the write is not; it puts an older table into the file that a later
  request renamed to `tokens.json`: a revocation that was answered is forgotten at the
  next start.  The order matters: the dropped write truncates `tokens.tmp` after the
  revocation has written it and before it is renamed.  Over the whole new document the
  old one leaves the last byte of it ("active" is shorter than "revoked"), the file
  does not parse, and the next start has no tokens at all.
* `gateway_stripped`: a token sent in `Authorization` and again in
  `Proxy-Authorization` is stripped from the first only, and the second goes upstream.
* `cli_lost_update`: two `token create` load the file before either saves; both report
  success and the file keeps one token.  The other exists nowhere but on a terminal.
* `routing_slashes`: `resolve_route` finds the name behind any number of slashes and cuts
  the path as if there were one.  Of `//a` the route `a` is asked for `a`, and the
  upstream host and the path are run together.

Three more things the models show, without a sentence of the documentation against
them: a client that sends a list header in two lines loses the second when a source
adds to it (`WithExtra`); a token name with an apostrophe makes a gitconfig that git
cannot read (`Unquotable`); a command that loads `config.toml` while another one saves it
finds it truncated.

## The proofs

All theorems hold for every value of the constants that satisfies the assumptions
named `...Assumption` in the modules, which TLC evaluates in the runs.

`TokenRegistryProofs`

* `TypeCorrect` by induction over the actions.
* `SnapshotsAgree` and `AckedCreatesStay` from `TableInv`.  `SnapshotIsMemory` alone is
  not inductive: that no one changes the table while a snapshot is on its way needs
  that a task at `write` or `rename` is among the `readers`, and that those who may
  change the table hold the write guard, that is, see no reader.  `AckedCreateHeld`
  needs that a rollback of a creation is about the request's own record.
* `NamesStayUnique`: the table, every serialised snapshot and every parsable file
  contents are sub-tables of uniquely named records; `FewerIsUnique` carries this
  through removals, `NamesKept` through renamings that do not happen.
* `RegistryIsTable`: `TokenRegistry` implements `TokenTable`.  Initial states map to
  initial states, and each action maps to an abstract step (`PushRecord` and
  `MarkRevoked` to the change, the last `Rename` to the answer, `Undo` to the failure, a
  crash to a restart) or to none.  Two facts about the mapping do the work: `Phases`
  moves only where an await of another phase begins, and what a start would load is
  always one of `Images`.  `PrevOfCreate` is added to `TableInv` because the abstract
  failure puts back what was there before, and the code's removes the record.

`TokenDurabilityProofs`

* `FileAfterSuccess` from `DiskInv`: as long as no request was dropped, a task whose
  operation runs is still waiting for it, the descriptor it has open is that of
  `tokens.tmp`, and what is at `tokens.tmp` after the write is the table in memory.
* `SoleRevocationsHold` from `RevocationsInv`: a record that was revoked once is active
  neither in memory nor, once that was answered, in any file that a restart may load,
  now or after the operations under way (`HeldOnDisk`).

Both are proved of the states before a request was dropped (`NoCancelYet`), the second
also, with cancellations, of those before a crash: after both it is false, as
`registry_orphan` shows, and the first is false after a cancellation alone, when the
operation of the dropped request ends late.  `registry_faults` and
`registry_cancel` check the two properties under the same conditions, as bounds.

`CredentialsProofs` proves of `Resolve` what the chain promises: a resolution is
accepted by its source; a bound one is the bound credential, registered for that route;
an unbound one is the default if there is one.  `LeastExists` gives `First` its meaning.

`GatewayProofs`

* `TypeCorrect`, from `Structure`: besides the types, that a request past
  authentication has an entry, a token and a grant, so that what it resolves is defined.
* `BoundTokensKeepToTheirs` and `DefaultsComeFirst` from `CredentialInv`: the current
  store is among those seen by every live request, and the binding of a request that
  was forwarded does not change any more.
* `RevokedStaysOut` from `RevocationInv`.  A token that is not `doubtful` has at most one
  revocation in flight (`Orderly`), which alone may make it active again; once it is
  `ended` it is active neither in memory, nor in `disk`, nor in any of the `stale`
  tables, nor is it what a DELETE in flight would put back (`Settled`); and a look-up
  accepts active tokens only.  The theorem carries the condition of the property.
* `FirstTokenDecides` from `DecidesInv`: every candidate before the one that
  authenticated was looked up and was not active at that moment, so none of them was
  active all along.
* `OnlyTheChosenHeader` and `ExtrasGoWithCredential` from `UpstreamInv`: what was sent is
  the request's headers, less those that carry credentials, with the header and the
  extra headers of one source, and is not touched after that.
* `SteadyTokensServed` from `SteadyInv`: a token that has been active since the request
  arrived is not among the candidates that were looked up without a hit, so that when
  none is left there was none; `NamedIsCandidate` says that every place where a request
  may carry a token is a candidate.
* `TunnelsOutliveTokens` (the action property `TunnelUntilHangUp`): of all steps only the
  end of a connection and a restart end a tunnel that stands.

`GateCliProofs`

* `TypeCorrect`, from `OverType` and `CutsType`, which say what a write may leave.
* `OnlyIssued` from `EntriesInv`.  `EntriesIssued` is not inductive: a rolled back
  creation takes its record away, so an entry's creator must be past its answer.
* `SoleSaveStays` from `SavesInv`: besides the file, every document *about to be* saved
  holds the tokens saved undisturbed, and two saves at once have exposed each other.
* `RevocationFindsAll` from `RevokeInv` and the uniqueness of names: the id found by name
  is the only token known under it; a token that is not `contested` has one revocation
  in flight at most (`OneAtATime`), and after one was answered no other would put the
  token back to active.  `UndoInv` says what a request in flight has behind it.

`RoutingProofs`.  `IInv` is `FilesRead` (the files read so far are the first ones of the
build, under different keys), `TableGrown` (the table holds the expansions of the
expanded profiles, whole, under keys that all differ, and nothing else) and `Progress`.
No part is inductive without the others: `TableGrown` must know that profiles have
different keys, or one would count as expanded for the sake of another.  TLC checked
`IInv` on the instance of `routing` before it was proved.

* `EveryProfileServed`: positions of expansions are put one to one with `Claims`
  (`ClaimOfPosition`, `PositionOfClaim`, `ClaimsApart`), and claims with entries.
* `RefusalsHaveCause`: a collision is between two positions, hence two claims.
* `RoutedByFirstName`, `CompanionGetsGit`, `PrefixesConsumed`, `UpstreamRooted` and
  `KnownRoutesAreFiles` from `Resolved`, the three ends of `resolve_route`, with what the
  operators on paths compute for paths of any length: `FirstName` (trimming and taking
  the first segment is to have a name), `GitShapeRecognised` (the search for the first
  `.git/` finds just the paths put together as owner, repository and service),
  `PathParts` and `Forwarded`.  `ForemostIsOne` gives the `CHOOSE` of the first entry
  its meaning: the order of the keys is total (`PrecedesTotal`, `PrecedesTransitive`), and
  a finite set has a least element.  `KnownRoutesComplete` is proved only: it follows from
  the complete table, which the run checks.

`ActivationProofs`.  `IInv` is `TypesRest`, `ActivationsSound` (the plan of an activation
is what it was when it began, what it has done is in the files unless others had
them open, and the steps are `Sound`), `GitconfigsSound` and `AskSound`.

* `ActivationTyped`, `ActiveShellsFindTheirFiles`.
* `ActivationsKeepToGrant`: every kind of step is guarded by `HasRoute`, and so is their
  concatenation over tools and files, of any number (`SoundAll`).
* `HelperAnswersGit` and `HelperKeepsToGateway`: only gitconfigs are at the paths of
  gitconfigs, so what git asks came from one, and names the gateway of its configuration.
  `AdaptersAssumption` says that no adapter of `tooling.rs` writes a file of its own to
  such a path; it is a fact about the adapters as they are, which the code does not test.

Only model-checked: `EveryRequestEnds`, `RequestsDecided` and `TunnelsSettle`, the liveness
properties, which are out of the prover's reach.  Every invariant and action property
that a passing run checks is a theorem.

## Plan

All modules of the plan are there, and all their safety properties are proved.  Left
are the conditions under which the two durability theorems are stated (what a dropped
request may still do to the file is bounded by its one descriptor, so weaker ones
should do), and what `TokenTable` promises a caller who does not know the registry.

## Not modelled

* `health.rs`: a constant answer.
* `transport.rs`, `client.rs`: the encrypted channel of an external crate.  What a lost
  answer does to a command is in `GateCli`.
* `creds.rs`: one request per command; what it does to the gateway is in `Gateway`.
* Argument parsing, listings, help texts, log output, the build and release scripts.
