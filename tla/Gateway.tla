------------------------------ MODULE Gateway ------------------------------
(***************************************************************************)
(* The gateway as its clients see it: proxied requests (auth.rs, proxy.rs) *)
(* against the table of tokens and the store of credentials that admin     *)
(* requests change meanwhile (admin.rs, credstore.rs).                     *)
(*                                                                         *)
(* A proxied request awaits the registry once per candidate token, then    *)
(* reads the credential store, then waits for its upstream; admin requests *)
(* and a restart fall between any two of these.  A request for an upgrade  *)
(* that the upstream accepts leaves a tunnel behind, a task of its own.    *)
(* The table is the registry's, in memory and in its file.  Each change    *)
(* and its answer are two steps, with any number of others in between; a   *)
(* change that cannot be persisted is undone, one whose request is dropped *)
(* is not, and the write of a dropped one may reach the file at any later  *)
(* time.  Module TokenRegistry has the single steps of a write.            *)
(***************************************************************************)
EXTENDS Credentials

CONSTANTS
  Proxied,      \* proxied requests; each is made at most once
  Tokens,       \* registry tokens; each is created at most once
  Deletes,      \* DELETE /admin/tokens/{id} requests that are in flight at once
  Phantom,      \* GATE_PHANTOM_TOKEN
  GitEntries,   \* the entries matched as git smart-HTTP
  UrlEntries,   \* the entries whose credential goes into the URL
  InjectOf,     \* what each source of an entry sends besides: Basic encoding, extra_headers
  Illegal,      \* values that are neither a legal header value nor part of a URL
  ListNames,    \* headers that are lists and carry no credential
  Items,        \* what such a list may hold, up to case
  Grants,       \* what a token may be created with
  Requests,     \* what a client may send
  MaxCredOps,   \* bound: changes of the credential store
  MaxFaults,    \* bound: changes of the registry that fail to persist or are dropped
  MaxRestarts   \* bound: restarts of the gateway

Bearers == Tokens \cup {Phantom}

Grant == [all : BOOLEAN, scope : SUBSET Routes, creds : [Routes -> CredNames \cup {None}]]

Revocation == [token : Tokens, previous : {"active", "revoked"}]

\* One header value: its scheme and the distinct candidate tokens it names; a
\* Basic value may name two.  None is a header that is absent.
HeaderValue == [scheme : {"raw", "bearer", "basic"}, parts : Seq(Bearers)]

\* The lines of a list header; None is a line that is no visible ASCII.
Lines == Seq(Seq(Items) \cup {None})

\* upgrade: Connection names it and Upgrade is there (is_upgrade_request).
Request == [entry : Entries \cup {None}, headers : [HeaderNames -> HeaderValue \cup {None}],
            lists : [ListNames -> Lines], upgrade : BOOLEAN]

ASSUME GatewayAssumption ==
  /\ GitEntries \subseteq Entries /\ UrlEntries \subseteq Entries
  /\ InjectOf \in [Entries -> Seq([basic : BOOLEAN, extra : [ListNames -> Items \cup {None}]])]
  /\ \A e \in Entries : DOMAIN InjectOf[e] = DOMAIN SourcesOf[e]
  /\ Illegal \subseteq Values
  /\ {"authorization", "proxy-authorization"} \subseteq HeaderNames
  /\ Phantom \notin Tokens
  /\ None \notin Revocation
  /\ None \notin Tokens \cup {Phantom} \cup Grants \cup Requests
  /\ None \notin Items \cup Seq(Items)
  /\ None \notin [scheme : {"injected"}, parts : Seq(Values)]
  /\ Grants \subseteq Grant
  /\ Requests \subseteq Request
  /\ MaxCredOps \in Nat /\ MaxFaults \in Nat /\ MaxRestarts \in Nat

VARIABLES
  store,    \* the CredStore
  creation, \* where the request that creates each token is
  status,   \* its record in memory
  disk,     \* the table that was last renamed into the file
  stale,    \* the tables that writes of dropped requests may yet put there
  revoking, \* the token that each DELETE has marked, and the status it had
  grant,    \* scope and bindings of each token
  pc,       \* where each proxied request is
  req,      \* what it asks for
  tried,    \* the candidates that were looked up and are no valid tokens
  auth,     \* its PhantomAuth
  sent,     \* what it sent upstream
  answer,   \* what it was answered
  tunnel,   \* the task that joins its two connections after an upgrade
  open,     \* the connections whose peer has not hung up
  seen,     \* history: the stores there were since it arrived
  ended,    \* history: the tokens whose revocation was answered
  doubtful, \* history: those with two revocations in flight at once, or active in a
            \* table that a dropped request was writing
  dead,     \* history: those of them whose answer came before it arrived
  steady,   \* history: the tokens active ever since it arrived
  budget    \* store changes, faults and restarts that may still happen

tableVars == <<creation, status, disk, stale, revoking, grant>>
adminVars == <<store, creation, status, disk, stale, revoking, grant, budget>>
requestVars == <<pc, req, tried, auth, sent, answer>>
tunnelVars == <<tunnel, open>>
historyVars == <<seen, ended, doubtful, dead, steady>>
vars == <<adminVars, requestVars, tunnelVars, historyVars>>

Creation == {"new", "checked", "pushed", "issued", "gone"}

TokenStatus == {"absent", "active", "revoked"}

Table == [Tokens -> TokenStatus]

NoTokens == [t \in Tokens |-> "absent"]

Answers == {"upstream", "badgateway", "unavailable", "notfound", "forbidden",
            "challenge", "denied", "upgraded", "lost"}

ASSUME AnswersAssumption == None \notin Answers

Peers == {"client", "upstream"}

-----------------------------------------------------------------------------
(* Authentication                                                          *)

Sources(e) == IF e = None THEN <<>> ELSE SourcesOf[e]

AllowsRoute(t, e) ==
  grant[t].all \/ (e # None /\ CanonicalOf[e] \in grant[t].scope)

\* Where a request is looked for tokens, in this order: the injected headers in source
\* order, in which a value without a scheme is a token too, then the two standard ones.
Places(m) ==
  [i \in DOMAIN Sources(m.entry) |-> [header |-> Sources(m.entry)[i].header, raw |-> TRUE]]
    \o <<[header |-> "authorization", raw |-> FALSE],
         [header |-> "proxy-authorization", raw |-> FALSE]>>

\* Variant: only the first half of a Basic value is looked up.
FirstHalf(m, place) ==
  LET v == m.headers[place.header] IN
  IF v = None \/ (v.scheme = "raw" /\ ~place.raw) THEN <<>> ELSE <<v.parts[1]>>

\* The candidates that the header of a place holds.
FromHeader(m, place) ==
  LET v == m.headers[place.header] IN
  IF v = None \/ (v.scheme = "raw" /\ ~place.raw) THEN <<>> ELSE v.parts

\* registry_auth_candidates: each by its place and its position there.
Candidates(m) ==
  UNION {{<<i, k>> : k \in DOMAIN FromHeader(m, Places(m)[i])} : i \in DOMAIN Places(m)}

HeaderOf(m, c) == Places(m)[c[1]].header
BearerOf(m, c) == FromHeader(m, Places(m)[c[1]])[c[2]]

\* Variant: the places are looked at from the last to the first.
Hindmost(S) == {c \in S : \A d \in S : d[1] < c[1] \/ (c[1] = d[1] /\ c[2] <= d[2])}

Foremost(S) == {c \in S : \A d \in S : c[1] < d[1] \/ (c[1] = d[1] /\ c[2] <= d[2])}

\* validate_bearer_or_raw: header n of m is the phantom token, and nothing else.
IsPhantom(m, n) ==
  LET v == m.headers[n] IN v # None /\ v.scheme # "basic" /\ v.parts = <<Phantom>>

PhantomSources(m) ==
  {i \in DOMAIN Sources(m.entry) : IsPhantom(m, Sources(m.entry)[i].header)}

\* find_phantom_auth: the header that carries the phantom token, and its source.
PhantomAuths(m) ==
  IF PhantomSources(m) # {} THEN
    LET i == First(PhantomSources(m)) IN
    {[bearer |-> Phantom, header |-> Sources(m.entry)[i].header, preferred |-> i]}
  ELSE IF IsPhantom(m, "authorization") THEN
    {[bearer |-> Phantom, header |-> "authorization", preferred |-> 0]}
  ELSE IF IsPhantom(m, "proxy-authorization") THEN
    {[bearer |-> Phantom, header |-> "proxy-authorization", preferred |-> 0]}
  ELSE {}

\* The credential name that an authenticated request is bound to on its route.
Binding(a, e) == IF a.bearer = Phantom THEN None ELSE grant[a.bearer].creds[CanonicalOf[e]]

-----------------------------------------------------------------------------
(* What goes upstream                                                      *)

\* Variant: only the header that carried the token is removed.
StrippedMatched(e, a) == {a.header}

\* remove_client_credential_headers: the headers of all sources and the matched one.
Stripped(e, a) == {Sources(e)[i].header : i \in DOMAIN Sources(e)} \cup {a.header}

\* Variant: a value that is no legal header value leaves the client's header there.
InjectedIfLegal(m, c) ==
  IF c.value \in Illegal THEN m.headers[Sources(m.entry)[c.source].header]
  ELSE [scheme |-> "injected", parts |-> <<c.value>>]

\* The header value made of c: empty if it would not be a legal one.
Injected(m, c) ==
  [scheme |-> "injected",
   parts |-> IF c.value \in Illegal /\ ~InjectOf[m.entry][c.source].basic THEN <<>>
             ELSE <<c.value>>]

\* The headers of the upstream request: the client's, less the stripped ones, plus
\* the credential unless it goes into the URL.
Outgoing(m, a, c) ==
  [n \in HeaderNames |->
    IF m.entry \notin UrlEntries /\ n = Sources(m.entry)[c.source].header THEN Injected(m, c)
    ELSE IF n \in Stripped(m.entry, a) THEN None
    ELSE m.headers[n]]

HasItem(line, x) == line # None /\ \E k \in DOMAIN line : line[k] = x

\* insert_extra_headers looks at the first line: x is in it, or the line with x added
\* replaces all lines.  To a line it cannot read it adds one of its own.
WithExtra(lines, x) ==
  IF x = None \/ (lines # <<>> /\ HasItem(lines[1], x)) THEN lines
  ELSE IF lines # <<>> /\ lines[1] # None THEN <<Append(lines[1], x)>>
  ELSE Append(lines, <<x>>)

\* Variant: the extra headers of the source the client authenticated through.
ExtraOfMatched(m, a, c) ==
  LET i == IF a.preferred # 0 THEN a.preferred ELSE c.source IN
  [n \in ListNames |-> WithExtra(m.lists[n], InjectOf[m.entry][i].extra[n])]

\* The list headers of the upstream request.
OutgoingLists(m, a, c) ==
  [n \in ListNames |->
    IF m.entry \in UrlEntries THEN m.lists[n]
    ELSE WithExtra(m.lists[n], InjectOf[m.entry][c.source].extra[n])]

-----------------------------------------------------------------------------

Live(q) == pc[q] \in {"auth", "resolve", "sent"}

Finish(q, a) ==
  /\ pc' = [pc EXCEPT ![q] = "done"]
  /\ answer' = [answer EXCEPT ![q] = a]

Spend(kind) ==
  /\ budget[kind] > 0
  /\ budget' = [budget EXCEPT ![kind] = @ - 1]

ActiveTokens == {t \in Tokens : status[t] = "active"}

\* The history every live request keeps of the store and of the active tokens.
Observe(st, active) ==
  /\ seen' = [q \in Proxied |-> IF Live(q) THEN seen[q] \cup {st} ELSE seen[q]]
  /\ steady' = [q \in Proxied |-> IF Live(q) THEN steady[q] \cap active ELSE steady[q]]
  /\ UNCHANGED dead

Init ==
  /\ store = EmptyStore
  /\ creation = [t \in Tokens |-> "new"]
  /\ status = NoTokens
  /\ disk = NoTokens
  /\ stale = {}
  /\ revoking = [d \in Deletes |-> None]
  /\ grant = [t \in Tokens |-> None]
  /\ pc = [q \in Proxied |-> "idle"]
  /\ req = [q \in Proxied |-> None]
  /\ tried = [q \in Proxied |-> {}]
  /\ auth = [q \in Proxied |-> None]
  /\ sent = [q \in Proxied |-> None]
  /\ answer = [q \in Proxied |-> None]
  /\ tunnel = [q \in Proxied |-> "none"]
  /\ open = [q \in Proxied |-> {}]
  /\ seen = [q \in Proxied |-> {}]
  /\ ended = {}
  /\ doubtful = {}
  /\ dead = [q \in Proxied |-> {}]
  /\ steady = [q \in Proxied |-> {}]
  /\ budget = [cred |-> MaxCredOps, fault |-> MaxFaults, restart |-> MaxRestarts]

-----------------------------------------------------------------------------
(* Admin requests                                                          *)

\* POST /admin/creds: an upsert, of a known service.
RegisterCred(n, service, v) ==
  /\ Spend("cred")
  /\ store' = [store EXCEPT ![n] = [service |-> service, value |-> v]]
  /\ Observe(store', ActiveTokens)
  /\ UNCHANGED <<tableVars, requestVars, ended, doubtful>>

\* DELETE /admin/creds/{name}, of a name that is there.
DeleteCred(n) ==
  /\ store[n] # None
  /\ Spend("cred")
  /\ store' = [store EXCEPT ![n] = None]
  /\ Observe(store', ActiveTokens)
  /\ UNCHANGED <<tableVars, requestVars, ended, doubtful>>

\* validate_token_scope and validate_token_creds, for routes that are known.
ValidGrant(g) ==
  /\ g.all <=> g.scope = {}
  /\ \A r \in Routes : g.creds[r] # None =>
       /\ g.all \/ r \in g.scope
       /\ store[g.creds[r]] # None /\ store[g.creds[r]].service = r

\* POST /admin/tokens, up to the registry call: the store may change after it.
CheckToken(t, g) ==
  /\ creation[t] = "new" /\ ValidGrant(g)
  /\ creation' = [creation EXCEPT ![t] = "checked"]
  /\ grant' = [grant EXCEPT ![t] = g]
  /\ UNCHANGED <<store, status, disk, stale, revoking, budget, requestVars, historyVars>>

\* create_token pushes the record, which counts from here on, before it persists.
PushToken(t) ==
  /\ creation[t] = "checked"
  /\ creation' = [creation EXCEPT ![t] = "pushed"]
  /\ status' = [status EXCEPT ![t] = "active"]
  /\ UNCHANGED <<store, disk, stale, revoking, grant, budget, requestVars, historyVars>>

\* persist succeeded: the file is the table, with what others changed in it meanwhile.
\* The client gets the token, whatever has become of its record.
CreateToken(t) ==
  /\ creation[t] = "pushed"
  /\ creation' = [creation EXCEPT ![t] = "issued"]
  /\ disk' = status
  /\ UNCHANGED <<store, status, stale, revoking, grant, budget, requestVars, historyVars>>

\* persist failed.  With writes of dropped requests about, one of them may have renamed
\* tokens.tmp away, and the file is the table all the same.
PersistFails ==
  /\ Spend("fault")
  /\ disk' \in {disk} \cup (IF stale = {} THEN {} ELSE {status})

\* The record is taken out again.
CreateFails(t) ==
  /\ creation[t] = "pushed"
  /\ PersistFails
  /\ creation' = [creation EXCEPT ![t] = "gone"]
  /\ status' = [status EXCEPT ![t] = "absent"]
  /\ Observe(store, ActiveTokens')
  /\ UNCHANGED <<store, stale, revoking, grant, requestVars, ended, doubtful>>

\* DELETE /admin/tokens/{id}: the record is marked, whatever its status, and the guard
\* dropped before it is persisted.
MarkToken(d, t) ==
  /\ revoking[d] = None /\ status[t] # "absent"
  /\ revoking' = [revoking EXCEPT ![d] = [token |-> t, previous |-> status[t]]]
  /\ status' = [status EXCEPT ![t] = "revoked"]
  /\ doubtful' = IF \E e \in Deletes : revoking[e] # None /\ revoking[e].token = t
                    THEN doubtful \cup {t} ELSE doubtful
  /\ Observe(store, ActiveTokens')
  /\ UNCHANGED <<store, creation, disk, stale, grant, budget, requestVars, ended>>

RevokeToken(d) ==
  /\ revoking[d] # None
  /\ revoking' = [revoking EXCEPT ![d] = None]
  /\ disk' = status
  /\ ended' = ended \cup {revoking[d].token}
  /\ UNCHANGED <<store, creation, status, stale, grant, budget, requestVars, seen, doubtful, dead,
                 steady>>

\* Variant: the rollback does not ask what the status was.
RevokeFailsToActive(d) ==
  /\ revoking[d] # None
  /\ PersistFails
  /\ revoking' = [revoking EXCEPT ![d] = None]
  /\ status' = [status EXCEPT ![revoking[d].token] = IF @ = "absent" THEN @ ELSE "active"]
  /\ Observe(store, ActiveTokens')
  /\ UNCHANGED <<store, creation, stale, grant, requestVars, ended, doubtful>>

\* The status is put back, if the record is still there, whoever else marked it since.
RevokeFails(d) ==
  /\ revoking[d] # None
  /\ PersistFails
  /\ revoking' = [revoking EXCEPT ![d] = None]
  /\ status' = [status EXCEPT ![revoking[d].token] =
                  IF @ = "absent" THEN @ ELSE revoking[d].previous]
  /\ Observe(store, ActiveTokens')
  /\ UNCHANGED <<store, creation, stale, grant, requestVars, ended, doubtful>>

\* The client of a change goes away: nothing is undone, and the table as it is may be
\* written to the file whenever the blocking pool comes to it.
LeaveWrite ==
  /\ Spend("fault")
  /\ stale' = stale \cup {status}
  /\ doubtful' = doubtful \cup ActiveTokens

DropCreate(t) ==
  /\ creation[t] = "pushed"
  /\ LeaveWrite
  /\ creation' = [creation EXCEPT ![t] = "gone"]
  /\ UNCHANGED <<store, status, disk, revoking, grant, requestVars, seen, ended, dead, steady>>

DropRevoke(d) ==
  /\ revoking[d] # None
  /\ LeaveWrite
  /\ revoking' = [revoking EXCEPT ![d] = None]
  /\ UNCHANGED <<store, creation, status, disk, grant, requestVars, seen, ended, dead, steady>>

-----------------------------------------------------------------------------
(* Proxied requests                                                        *)

\* The tokens of a request are ones the client was given.
Issued == {t \in Tokens : creation[t] = "issued"}

Known(m) ==
  \A n \in HeaderNames : m.headers[n] # None =>
    \A k \in DOMAIN m.headers[n].parts : m.headers[n].parts[k] \in Issued \cup {Phantom}

Arrive(q, m) ==
  /\ pc[q] = "idle" /\ Known(m)
  /\ pc' = [pc EXCEPT ![q] = "auth"]
  /\ req' = [req EXCEPT ![q] = m]
  /\ seen' = [seen EXCEPT ![q] = {store}]
  /\ dead' = [dead EXCEPT ![q] = ended]
  /\ steady' = [steady EXCEPT ![q] = ActiveTokens]
  /\ UNCHANGED <<adminVars, tried, auth, sent, answer, ended, doubtful>>

Authenticated(q, a) ==
  /\ auth' = [auth EXCEPT ![q] = a]
  /\ pc' = [pc EXCEPT ![q] = "resolve"]
  /\ UNCHANGED answer

\* Variant: a token whose revocation is being persisted is waited for.
LookUpWaits(q) ==
  /\ pc[q] = "auth"
  /\ \E c \in Foremost(Candidates(req[q]) \ tried[q]) : LET b == BearerOf(req[q], c) IN
     /\ \A d \in Deletes : revoking[d] # None => revoking[d].token # b
     /\ IF b \notin ActiveTokens
          THEN tried' = [tried EXCEPT ![q] = @ \cup {c}] /\ UNCHANGED <<pc, auth, answer>>
        ELSE /\ UNCHANGED tried
             /\ IF AllowsRoute(b, req[q].entry)
                  THEN Authenticated(q, [bearer |-> b, header |-> HeaderOf(req[q], c),
                                      preferred |-> 0])
                ELSE Finish(q, "forbidden") /\ UNCHANGED auth
  /\ UNCHANGED <<adminVars, req, sent, historyVars>>

\* find_registry_auth: one await of validate per candidate.  The first valid one
\* decides, and a scope that misses the route is the end of the request.
LookUp(q) ==
  /\ pc[q] = "auth"
  /\ \E c \in Foremost(Candidates(req[q]) \ tried[q]) : LET b == BearerOf(req[q], c) IN
     IF b \notin ActiveTokens
       THEN tried' = [tried EXCEPT ![q] = @ \cup {c}] /\ UNCHANGED <<pc, auth, answer>>
     ELSE /\ UNCHANGED tried
          /\ IF AllowsRoute(b, req[q].entry)
               THEN Authenticated(q, [bearer |-> b, header |-> HeaderOf(req[q], c),
                                      preferred |-> 0])
             ELSE Finish(q, "forbidden") /\ UNCHANGED auth
  /\ UNCHANGED <<adminVars, req, sent, historyVars>>

\* No candidate is a valid token: the phantom token, if the route is known, or 407;
\* a git client is challenged with 401.
FallBack(q) ==
  /\ pc[q] = "auth" /\ Candidates(req[q]) \subseteq tried[q]
  /\ IF req[q].entry # None /\ PhantomAuths(req[q]) # {}
       THEN \E a \in PhantomAuths(req[q]) : Authenticated(q, a)
     ELSE /\ Finish(q, IF req[q].entry \in GitEntries THEN "challenge" ELSE "denied")
          /\ UNCHANGED auth
  /\ UNCHANGED <<adminVars, req, tried, sent, historyVars>>

\* What proxy_handler resolves for q from the store as it is now.
Resolved(q) ==
  Resolve(store, req[q].entry, Binding(auth[q], req[q].entry), auth[q].preferred)

\* An all_routes token gets past authentication on a path of no route.
NoRoute(q) ==
  /\ pc[q] = "resolve" /\ req[q].entry = None
  /\ Finish(q, "notfound")
  /\ UNCHANGED <<adminVars, req, tried, auth, sent, historyVars>>

Unavailable(q) ==
  /\ pc[q] = "resolve" /\ req[q].entry # None /\ Resolved(q) = None
  /\ Finish(q, "unavailable")
  /\ UNCHANGED <<adminVars, req, tried, auth, sent, historyVars>>

\* The upstream URL does not parse, for the path or for the value in it.
BadUrl(q) ==
  /\ pc[q] = "resolve" /\ req[q].entry # None /\ Resolved(q) # None
  /\ Finish(q, "badgateway")
  /\ UNCHANGED <<adminVars, req, tried, auth, sent, historyVars>>

Forward(q) ==
  /\ pc[q] = "resolve" /\ req[q].entry # None /\ Resolved(q) # None
  /\ req[q].entry \in UrlEntries => Resolved(q).value \notin Illegal
  /\ sent' = [sent EXCEPT ![q] =
                [credential |-> Resolved(q), headers |-> Outgoing(req[q], auth[q], Resolved(q)),
                 lists |-> OutgoingLists(req[q], auth[q], Resolved(q))]]
  /\ pc' = [pc EXCEPT ![q] = "sent"]
  /\ UNCHANGED <<adminVars, req, tried, auth, answer, historyVars>>

\* The upstream answers, or the connection to it fails.
Upstream(q) ==
  /\ pc[q] = "sent"
  /\ \E a \in {"upstream", "badgateway"} : Finish(q, a)
  /\ UNCHANGED <<adminVars, req, tried, auth, sent, historyVars>>

\* The upstream switches protocols; the client's 101 leaves a task behind.
Upgrade(q) ==
  /\ pc[q] = "sent" /\ req[q].upgrade
  /\ Finish(q, "upgraded")
  /\ tunnel' = [tunnel EXCEPT ![q] = "joining"]
  /\ open' = [open EXCEPT ![q] = Peers]
  /\ UNCHANGED <<adminVars, req, tried, auth, sent, historyVars>>

\* The client goes away and the server drops the request.
Drop(q) ==
  /\ Live(q)
  /\ Finish(q, "lost")
  /\ UNCHANGED <<adminVars, req, tried, auth, sent, historyVars>>

\* Tunnels are tasks of the process.
EndTunnels ==
  /\ tunnel' = [q \in Proxied |-> IF tunnel[q] = "none" THEN "none" ELSE "over"]
  /\ UNCHANGED open

\* The process starts again with what load_or_create makes of the file: the table last
\* renamed into it, or that of a change not answered yet, or of a dropped one, and no
\* tokens if it is missing or does not parse.  The store was in memory only, and every
\* request is lost.
Restart ==
  /\ Spend("restart")
  /\ store' = EmptyStore
  /\ \E table \in {disk, NoTokens} \cup stale
        \cup (IF \/ \E d \in Deletes : revoking[d] # None
                 \/ \E t \in Tokens : creation[t] = "pushed"
               THEN {status} ELSE {}) :
       status' = table /\ disk' = table
  /\ stale' = {}
  /\ creation' = [t \in Tokens |->
                    IF creation[t] \in {"checked", "pushed"} THEN "gone" ELSE creation[t]]
  /\ revoking' = [d \in Deletes |-> None]
  /\ pc' = [q \in Proxied |-> IF Live(q) THEN "done" ELSE pc[q]]
  /\ answer' = [q \in Proxied |-> IF Live(q) THEN "lost" ELSE answer[q]]
  /\ EndTunnels
  /\ UNCHANGED <<grant, req, tried, auth, sent, historyVars>>

-----------------------------------------------------------------------------
(* Tunnels                                                                 *)

\* Both connections have been taken over.
Join(q) ==
  /\ tunnel[q] = "joining" /\ open[q] = Peers
  /\ tunnel' = [tunnel EXCEPT ![q] = "open"]
  /\ UNCHANGED open

\* Variant: the task waits for both connections, also when one of them has failed.
JoinFailsOnce(q) ==
  /\ tunnel[q] = "joining" /\ open[q] = {}
  /\ tunnel' = [tunnel EXCEPT ![q] = "over"]
  /\ UNCHANGED open

\* try_join gives up when one of them cannot be.
JoinFails(q) ==
  /\ tunnel[q] = "joining" /\ open[q] # Peers
  /\ tunnel' = [tunnel EXCEPT ![q] = "over"]
  /\ UNCHANGED open

\* Variant: the tunnel ends with the first of its two directions.
CopyOneWay(q) ==
  /\ tunnel[q] = "open" /\ open[q] # Peers
  /\ tunnel' = [tunnel EXCEPT ![q] = "over"]
  /\ UNCHANGED open

\* copy_bidirectional: one direction goes on when the other has ended.
Copied(q) ==
  /\ tunnel[q] = "open" /\ open[q] = {}
  /\ tunnel' = [tunnel EXCEPT ![q] = "over"]
  /\ UNCHANGED open

\* A peer has sent its last.
HangUp(q, peer) ==
  /\ tunnel[q] \in {"joining", "open"} /\ peer \in open[q]
  /\ open' = [open EXCEPT ![q] = @ \ {peer}]
  /\ UNCHANGED tunnel

\* Reading from one of the connections or writing to it fails, which ends both.
Break(q) ==
  /\ tunnel[q] = "open"
  /\ tunnel' = [tunnel EXCEPT ![q] = "over"]
  /\ open' = [open EXCEPT ![q] = {}]

Relay(q) == Join(q) \/ JoinFails(q) \/ Copied(q)

Tunnel(q) ==
  /\ Relay(q) \/ Break(q) \/ \E peer \in Peers : HangUp(q, peer)
  /\ UNCHANGED <<adminVars, requestVars, historyVars>>

-----------------------------------------------------------------------------

Admin ==
  \/ \E n \in CredNames, service \in Routes, v \in Values : RegisterCred(n, service, v)
  \/ \E n \in CredNames : DeleteCred(n)
  \/ \E t \in Tokens : \/ \E g \in Grants : CheckToken(t, g)
                       \/ PushToken(t) \/ CreateToken(t) \/ CreateFails(t) \/ DropCreate(t)
  \/ \E d \in Deletes : \/ \E t \in Tokens : MarkToken(d, t)
                        \/ RevokeToken(d) \/ RevokeFails(d) \/ DropRevoke(d)

\* The steps the gateway takes for q on its own.
Handle(q) ==
  LookUp(q) \/ FallBack(q) \/ NoRoute(q) \/ Unavailable(q) \/ BadUrl(q) \/ Forward(q)

Done ==
  /\ \A q \in Proxied : pc[q] = "done" /\ tunnel[q] \in {"none", "over"}
  /\ UNCHANGED vars

Next ==
  \/ /\ \/ Admin
        \/ \E q \in Proxied :
             (\E m \in Requests : Arrive(q, m)) \/ Handle(q) \/ Upstream(q) \/ Drop(q)
     /\ UNCHANGED tunnelVars
  \/ \E q \in Proxied : Upgrade(q) \/ Tunnel(q)
  \/ Restart
  \/ Done

Spec == Init /\ [][Next]_vars

\* The runtime polls every request and every tunnel that can go on.
Fairness ==
  \A q \in Proxied :
    /\ WF_vars(Handle(q) /\ UNCHANGED tunnelVars)
    /\ WF_vars(Relay(q) /\ UNCHANGED <<adminVars, requestVars, historyVars>>)

FairSpec == Spec /\ Fairness

-----------------------------------------------------------------------------
(* Properties                                                              *)

TypeOK ==
  /\ store \in Stores
  /\ creation \in [Tokens -> Creation]
  /\ status \in Table
  /\ disk \in Table
  /\ stale \in SUBSET Table
  /\ revoking \in [Deletes -> Revocation \cup {None}]
  /\ grant \in [Tokens -> Grant \cup {None}]
  /\ pc \in [Proxied -> {"idle", "auth", "resolve", "sent", "done"}]
  /\ req \in [Proxied -> Request \cup {None}]
  /\ tried \in [Proxied -> SUBSET (Nat \X Nat)]
  /\ DOMAIN auth = Proxied
  /\ \A q \in Proxied : auth[q] # None =>
       auth[q].bearer \in Bearers /\ auth[q].preferred \in Nat
  /\ DOMAIN sent = Proxied
  /\ \A q \in Proxied : sent[q] # None => sent[q].credential \in Pick
  /\ answer \in [Proxied -> Answers \cup {None}]
  /\ tunnel \in [Proxied -> {"none", "joining", "open", "over"}]
  /\ open \in [Proxied -> SUBSET Peers]
  /\ seen \in [Proxied -> SUBSET Stores]
  /\ ended \in SUBSET Tokens
  /\ doubtful \in SUBSET Tokens
  /\ dead \in [Proxied -> SUBSET Tokens]
  /\ steady \in [Proxied -> SUBSET Tokens]
  /\ budget \in [{"cred", "fault", "restart"} -> Nat]

Forwarded(q) == sent[q] # None

BindingOf(q) == Binding(auth[q], req[q].entry)

RouteOf(q) == CanonicalOf[req[q].entry]

\* A request of a token bound on its route goes out with the value that the bound
\* name held, for that very route, at some moment since the request arrived: never
\* with a retired value, one registered for another service since the token was
\* created, the service default or the environment (proxy.rs:336-374).
BoundTokenOwnCredential ==
  \A q \in Proxied : Forwarded(q) /\ BindingOf(q) # None =>
    LET c == sent[q].credential IN
    /\ c.from = "binding"
    /\ \E st \in seen[q] : st[BindingOf(q)] = [service |-> RouteOf(q), value |-> c.value]

\* An unbound request goes out with the service default as it was at some moment
\* since it arrived, and with an environment value only if at some such moment
\* there was no default for the route (proxy.rs:376-398).
DefaultBeforeEnv ==
  \A q \in Proxied : Forwarded(q) /\ BindingOf(q) = None =>
    LET c == sent[q].credential IN
    \E st \in seen[q] :
      IF c.from = "env" THEN st[RouteOf(q)] = None \/ st[RouteOf(q)].service # RouteOf(q)
      ELSE st[RouteOf(q)] = [service |-> RouteOf(q), value |-> c.value]

\* A token whose revocation was answered before a request arrived authorises no
\* upstream call of that request, whatever else it carries and through restarts: unless
\* two revocations of it were in flight at once, one of which may be undone after the
\* other was answered, or a request was dropped while it wrote a table with the token
\* still active, which may reach the file last.  Revocations one after the other leave it
\* revoked, those that fail too (registry.rs:135-150).
RevokedNeverForwarded ==
  \A q \in Proxied : Forwarded(q) => auth[q].bearer \notin dead[q] \ doubtful

\* The tokens that m names where the gateway looks for them: anywhere in a header that
\* some source of its entry injects, after a scheme in the two standard ones.
Named(m) ==
  {t \in Tokens : \E n \in HeaderNames :
     /\ m.headers[n] # None
     /\ \E k \in DOMAIN m.headers[n].parts : m.headers[n].parts[k] = t
     /\ \/ \E i \in DOMAIN Sources(m.entry) : Sources(m.entry)[i].header = n
        \/ n \in {"authorization", "proxy-authorization"} /\ m.headers[n].scheme # "raw"}

\* A request that names a token active from its arrival to its answer is not sent
\* away as unauthenticated, wherever in its headers that token is and whatever
\* else they name (auth.rs:66-68, 110-117).
SteadyTokenServed ==
  \A q \in Proxied : answer[q] \in {"denied", "challenge"} =>
    Named(req[q]) \cap steady[q] = {}

\* Of several tokens that a request names, the first in force decides, by the order of
\* the places and within one: neither a token further back nor the phantom token speaks
\* for the request while one before it is active all along, though each is looked up
\* under a guard of its own (auth.rs:110-117, 205).
FirstInForceDecides ==
  \A q \in Proxied : auth[q] # None =>
    \A c \in Candidates(req[q]) : BearerOf(req[q], c) \in steady[q] =>
      \E d \in Candidates(req[q]) :
        /\ BearerOf(req[q], d) = auth[q].bearer /\ HeaderOf(req[q], d) = auth[q].header
        /\ d[1] < c[1] \/ (d[1] = c[1] /\ d[2] <= c[2])

\* Of the headers that the sources of a route inject, the upstream sees exactly the one of
\* the chosen source, with the chosen value, which that source accepts; none at all when
\* the credential is in the URL, and an empty one, not the client's, for a value that no
\* header can hold (proxy.rs:104-129).  Other headers are not spoken of.
OneCredentialUpstream ==
  \A q \in Proxied : Forwarded(q) =>
    LET c == sent[q].credential
        sources == Sources(req[q].entry)
    IN  /\ c.source \in Accepting(req[q].entry, c.value)
        /\ \A i \in DOMAIN sources :
             LET out == sent[q].headers[sources[i].header] IN
             IF req[q].entry \in UrlEntries \/ sources[i].header # sources[c.source].header
               THEN out = None
             ELSE /\ out # None /\ out.scheme = "injected"
                  /\ \/ out.parts = <<c.value>>
                     \/ out.parts = <<>> /\ c.value \in Illegal

ItemsOf(lines) == {x \in Items : \E k \in DOMAIN lines : HasItem(lines[k], x)}

\* Beside a credential in a header goes, in every list header, what the source that accepts
\* the value and has that header adds, and nothing else that the client did not send itself,
\* whatever header the client used and whatever became of the store since ("For Anthropic
\* OAuth tokens ... the gateway injects ... and adds ...", docs/USING.md:111); and of a
\* header that the client sent in one line nothing is lost (proxy.rs:252-286).
ExtraFitsCredential ==
  \A q \in Proxied : Forwarded(q) /\ req[q].entry \notin UrlEntries =>
    \E i \in Accepting(req[q].entry, sent[q].credential.value) :
      /\ sent[q].headers[Sources(req[q].entry)[i].header] # None
      /\ \A n \in ListNames :
           LET client == req[q].lists[n]
               extra == {InjectOf[req[q].entry][i].extra[n]} \ {None}
               out == ItemsOf(sent[q].lists[n])
           IN  /\ extra \subseteq out /\ out \subseteq extra \cup ItemsOf(client)
               /\ Len(client) <= 1 => ItemsOf(client) \subseteq out

\* The token that authenticated a request does not go upstream ("The gateway
\* validates the phantom, strips it", docs/USING.md:109).
TokenStripped ==
  \A q \in Proxied : Forwarded(q) =>
    \A n \in HeaderNames : sent[q].headers[n] # None =>
      \A k \in DOMAIN sent[q].headers[n].parts :
        sent[q].headers[n].parts[k] # auth[q].bearer

\* Every request is decided: it is answered or sent upstream, however the table
\* and the store change meanwhile.
RequestsDecided ==
  \A q \in Proxied : pc[q] \in {"auth", "resolve"} ~> pc[q] \in {"sent", "done"}

\* A tunnel is cut by nothing that happens to the token or the credential it was opened
\* with: only when both its peers have hung up, by an error of a connection, which closes
\* both, or with the process (docs/USING.md:294, "In-flight requests complete").
TunnelUntilHangUp ==
  [][\A q \in Proxied : tunnel[q] = "open" /\ tunnel'[q] = "over" =>
       open'[q] = {} \/ budget'["restart"] < budget["restart"]]_vars

\* A tunnel that has yet to be joined, or that both its peers have left.
Unsettled(q) == tunnel[q] = "joining" \/ (tunnel[q] = "open" /\ open[q] = {})

\* No tunnel is left half made when a peer goes away before it stands, and none is left
\* over when both its peers have hung up, whoever did first (proxy.rs:219-233).
TunnelsSettle == \A q \in Proxied : Unsettled(q) ~> ~Unsettled(q)
=============================================================================
