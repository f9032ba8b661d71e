--------------------------- MODULE GatewayProofs ---------------------------
(***************************************************************************)
(* Proofs about Gateway for every set of tokens, grants, routes, sources   *)
(* and requests and any number of admin requests and restarts.             *)
(***************************************************************************)
EXTENDS Gateway, CredentialsProofs

\* A token that was checked has a grant.
GrantKnown == \A t \in Tokens : creation[t] # "new" => grant[t] # None

\* The tables there are: in memory, in the file and those that may yet get there.
Tables == {status, disk} \cup stale

\* A token that was not pushed yet has no record anywhere, and nobody revokes it.
Unborn ==
  \A t \in Tokens : creation[t] \in {"new", "checked"} =>
    /\ \A table \in Tables : table[t] = "absent"
    /\ \A d \in Deletes : revoking[d] # None => revoking[d].token # t
    /\ t \notin ended

\* A request that passed authentication.
Identified(q) == pc[q] \in {"resolve", "sent"} \/ Forwarded(q)

\* How far a request is says what it has: nothing sent before it is resolved, and a
\* route when it went out.
Stages ==
  \A q \in Proxied :
    /\ pc[q] \in {"idle", "auth", "resolve"} => sent[q] = None
    /\ Live(q) \/ Forwarded(q) => req[q] # None
    /\ pc[q] = "sent" \/ Forwarded(q) => req[q].entry # None

\* An identity is the phantom token or a token that was pushed once.
IdentityKnown ==
  \A q \in Proxied : Identified(q) =>
    /\ auth[q].bearer \in Bearers
    /\ auth[q].bearer \in Tokens => creation[auth[q].bearer] \notin {"new", "checked"}

\* The store as it is now is one that a live request has seen.
SeesStore == \A q \in Proxied : Live(q) => store \in seen[q]

\* The DELETEs of t that are in flight.
Marking(t) == {d \in Deletes : revoking[d] # None /\ revoking[d].token = t}

\* No table that may become the one in memory has t active, and no rollback makes it so.
Settled(t) ==
  /\ \A table \in Tables : table[t] # "active"
  /\ \A d \in Marking(t) : revoking[d].previous = "revoked"

\* Without doubt about it, a token is revoked by one request at a time, is not active
\* meanwhile, and is active in no table a dropped request left behind.
Orderly(t) ==
  /\ \A d, e \in Marking(t) : d = e
  /\ Marking(t) # {} => status[t] # "active"
  /\ \A table \in stale : table[t] # "active"

\* A revocation that was answered is never taken back.
DeadStayDead ==
  /\ \A t \in Tokens \ doubtful : Orderly(t)
  /\ \A t \in ended \ doubtful : Settled(t)
  /\ \A q \in Proxied : dead[q] \subseteq ended

NoDeadIdentity ==
  \A q \in Proxied : Identified(q) => auth[q].bearer \notin dead[q] \ doubtful

Structure == TypeOK /\ GrantKnown /\ Unborn /\ Stages /\ IdentityKnown /\ SeesStore

CredentialInv == Structure /\ BoundTokenOwnCredential /\ DefaultBeforeEnv

RevocationInv == Structure /\ DeadStayDead /\ NoDeadIdentity

-----------------------------------------------------------------------------
(* Types                                                                   *)

\* The types hold at the start.
LEMMA InitTyped == Init => TypeOK
  BY GatewayAssumption, CredentialsAssumption
     DEF Init, TypeOK, EmptyStore, Stores, TokenStatus, Table, NoTokens, Creation

\* The history keeps its type when the store does.
LEMMA ObserveTyped ==
  ASSUME TypeOK, NEW st \in Stores, NEW active \in SUBSET Tokens, Observe(st, active)
  PROVE  /\ seen' \in [Proxied -> SUBSET Stores]
         /\ dead' \in [Proxied -> SUBSET Tokens]
         /\ steady' \in [Proxied -> SUBSET Tokens]
  BY DEF TypeOK, Observe

\* A failing write and a dropped one keep the types of what they change.
LEMMA WritesTyped ==
  ASSUME TypeOK, PersistFails \/ LeaveWrite
  PROVE  /\ budget' \in [{"cred", "fault", "restart"} -> Nat]
         /\ PersistFails => disk' \in Table
         /\ LeaveWrite => stale' \in SUBSET Table /\ doubtful' \in SUBSET Tokens
  BY DEF PersistFails, LeaveWrite, Spend, TypeOK, ActiveTokens

\* The administrators keep the types.
LEMMA AdminTyped == TypeOK /\ Admin /\ UNCHANGED tunnelVars => TypeOK'
<1> SUFFICES ASSUME TypeOK, Admin, UNCHANGED tunnelVars PROVE TypeOK'
  OBVIOUS
<1> USE DEF requestVars, historyVars, tunnelVars
<1>0. ActiveTokens' \in SUBSET Tokens /\ store \in Stores
  BY DEF TypeOK, ActiveTokens
<1>1. ASSUME NEW n \in CredNames, NEW service \in Routes, NEW v \in Values,
             RegisterCred(n, service, v)
      PROVE  TypeOK'
  <2>1. store' \in Stores
    BY <1>1 DEF RegisterCred, TypeOK, Stores, ServiceToken
  <2>2. budget' \in [{"cred", "fault", "restart"} -> Nat]
    BY <1>1 DEF RegisterCred, Spend, TypeOK
  <2> QED
    BY <1>1, <2>1, <2>2, ObserveTyped DEF RegisterCred, TypeOK, ActiveTokens, tableVars
<1>2. ASSUME NEW n \in CredNames, DeleteCred(n) PROVE TypeOK'
  <2>1. store' \in Stores
    BY <1>2 DEF DeleteCred, TypeOK, Stores, ServiceToken
  <2>2. budget' \in [{"cred", "fault", "restart"} -> Nat]
    BY <1>2 DEF DeleteCred, Spend, TypeOK
  <2> QED
    BY <1>2, <2>1, <2>2, ObserveTyped DEF DeleteCred, TypeOK, ActiveTokens, tableVars
<1>3. ASSUME NEW t \in Tokens, NEW g \in Grants, CheckToken(t, g) PROVE TypeOK'
  BY <1>3, GatewayAssumption DEF CheckToken, TypeOK, Creation
<1>4. ASSUME NEW t \in Tokens, PushToken(t) \/ CreateToken(t) PROVE TypeOK'
  BY <1>4 DEF PushToken, CreateToken, TypeOK, Creation, Table, TokenStatus
<1>5. ASSUME NEW t \in Tokens, CreateFails(t) PROVE TypeOK'
  <2>1. status' \in Table /\ creation' \in [Tokens -> Creation]
    BY <1>5 DEF CreateFails, TypeOK, Table, TokenStatus, Creation
  <2> QED
    BY <1>0, <1>5, <2>1, ObserveTyped, WritesTyped DEF CreateFails, TypeOK
<1>6. ASSUME NEW d \in Deletes, NEW t \in Tokens, MarkToken(d, t) PROVE TypeOK'
  <2>1. /\ status' \in Table /\ doubtful' \in SUBSET Tokens
        /\ revoking' \in [Deletes -> Revocation \cup {None}]
    BY <1>6 DEF MarkToken, TypeOK, Table, TokenStatus, Revocation
  <2> QED
    BY <1>0, <1>6, <2>1, ObserveTyped DEF MarkToken, TypeOK
<1>7. ASSUME NEW d \in Deletes, RevokeToken(d) PROVE TypeOK'
  BY <1>7 DEF RevokeToken, TypeOK, Revocation
<1>8. ASSUME NEW d \in Deletes, RevokeFails(d) PROVE TypeOK'
  <2>1. revoking[d] \in Revocation /\ revoking' \in [Deletes -> Revocation \cup {None}]
    BY <1>8 DEF RevokeFails, TypeOK
  <2>2. status' \in Table
    BY <1>8, <2>1 DEF RevokeFails, TypeOK, Table, TokenStatus, Revocation
  <2> QED
    BY <1>0, <1>8, <2>1, <2>2, ObserveTyped, WritesTyped DEF RevokeFails, TypeOK
<1>9. ASSUME NEW t \in Tokens, DropCreate(t) PROVE TypeOK'
  BY <1>9, WritesTyped DEF DropCreate, TypeOK, Creation
<1>10. ASSUME NEW d \in Deletes, DropRevoke(d) PROVE TypeOK'
  BY <1>10, WritesTyped DEF DropRevoke, TypeOK
<1> QED
  BY <1>1, <1>2, <1>3, <1>4, <1>5, <1>6, <1>7, <1>8, <1>9, <1>10 DEF Admin

\* What the administrators leave alone, and in which direction they change the history.
LEMMA AdminEffects ==
  ASSUME TypeOK, Admin
  PROVE  /\ UNCHANGED <<requestVars, dead>>
         /\ doubtful \subseteq doubtful'
         /\ \/ UNCHANGED <<store, seen>>
            \/ \E active : Observe(store', active)
         /\ \A q \in Proxied : seen[q] \subseteq seen'[q]
         /\ \A t \in Tokens :
              /\ creation[t] # "new" => creation'[t] # "new" /\ UNCHANGED grant[t]
              /\ creation[t] \notin {"new", "checked"} => creation'[t] \notin {"new", "checked"}
<1> USE DEF historyVars, TypeOK
<1>0. ASSUME NEW st, NEW active, Observe(st, active)
      PROVE  UNCHANGED dead /\ \A q \in Proxied : seen[q] \subseteq seen'[q]
  BY <1>0 DEF Observe
<1>1. ASSUME NEW n \in CredNames,
             (\E service \in Routes, v \in Values : RegisterCred(n, service, v)) \/ DeleteCred(n)
      PROVE  /\ UNCHANGED <<requestVars, dead, doubtful, creation, grant>>
             /\ \E active : Observe(store', active)
             /\ \A q \in Proxied : seen[q] \subseteq seen'[q]
  <2>1. /\ UNCHANGED <<requestVars, doubtful, creation, grant>>
        /\ Observe(store', ActiveTokens)
    BY <1>1 DEF RegisterCred, DeleteCred, tableVars
  <2> QED
    BY <1>0, <2>1
<1>2. ASSUME NEW t \in Tokens,
             \/ \E g \in Grants : CheckToken(t, g)
             \/ PushToken(t) \/ CreateToken(t) \/ DropCreate(t)
      PROVE  /\ UNCHANGED <<requestVars, dead, store, seen>> /\ doubtful \subseteq doubtful'
             /\ \A u \in Tokens :
                  /\ creation[u] # "new" => creation'[u] # "new" /\ UNCHANGED grant[u]
                  /\ creation[u] \notin {"new", "checked"} => creation'[u] \notin {"new", "checked"}
  BY <1>2 DEF CheckToken, PushToken, CreateToken, DropCreate, LeaveWrite
<1>3. ASSUME NEW t \in Tokens,
             CreateFails(t) \/ \E d \in Deletes : MarkToken(d, t)
      PROVE  /\ UNCHANGED <<requestVars, dead, store, grant>> /\ doubtful \subseteq doubtful'
             /\ \E active : Observe(store', active)
             /\ \A q \in Proxied : seen[q] \subseteq seen'[q]
             /\ \A u \in Tokens :
                  /\ creation[u] # "new" => creation'[u] # "new"
                  /\ creation[u] \notin {"new", "checked"} => creation'[u] \notin {"new", "checked"}
  <2>1. UNCHANGED <<requestVars, store, grant>> /\ doubtful \subseteq doubtful'
    BY <1>3 DEF CreateFails, MarkToken, RevokeFails
  <2>2. Observe(store', ActiveTokens')
    BY <1>3 DEF CreateFails, MarkToken, RevokeFails
  <2>3. \A u \in Tokens : creation'[u] = creation[u] \/ (creation[u] # "new" /\ creation'[u] = "gone")
    BY <1>3 DEF CreateFails, MarkToken, RevokeFails
  <2> QED
    BY <1>0, <2>1, <2>2, <2>3
<1>4. ASSUME NEW d \in Deletes, RevokeToken(d) \/ DropRevoke(d)
      PROVE  /\ UNCHANGED <<requestVars, dead, store, seen, creation, grant>>
             /\ doubtful \subseteq doubtful'
  BY <1>4 DEF RevokeToken, DropRevoke, LeaveWrite
<1>5. ASSUME NEW d \in Deletes, RevokeFails(d)
      PROVE  /\ UNCHANGED <<requestVars, dead, store, creation, grant, doubtful>>
             /\ \E active : Observe(store', active)
             /\ \A q \in Proxied : seen[q] \subseteq seen'[q]
  <2>1. UNCHANGED <<requestVars, store, creation, grant, doubtful>> /\ Observe(store', ActiveTokens')
    BY <1>5 DEF RevokeFails
  <2> QED
    BY <1>0, <2>1
<1> QED
  BY <1>1, <1>2, <1>3, <1>4, <1>5 DEF Admin

\* A binding is a name or nothing.
LEMMA BindingTyped ==
  ASSUME Structure, NEW q \in Proxied, Identified(q), req[q].entry # None
  PROVE  /\ req[q].entry \in Entries /\ RouteOf(q) \in Routes
         /\ BindingOf(q) \in CredNames \cup {None}
<1>1. req[q] \in Request
  BY DEF Structure, TypeOK, Stages, Identified, Live
<1>2. req[q].entry \in Entries /\ RouteOf(q) \in Routes
  BY <1>1, CredentialsAssumption DEF Request, RouteOf
<1>3. CASE auth[q].bearer = Phantom
  BY <1>2, <1>3 DEF BindingOf, Binding
<1>4. CASE auth[q].bearer \in Tokens
  <2>1. grant[auth[q].bearer] \in Grant
    BY <1>4 DEF Structure, TypeOK, GrantKnown, IdentityKnown
  <2> QED
    BY <1>2, <1>4, <2>1, GatewayAssumption DEF BindingOf, Binding, RouteOf, Grant
<1> QED
  BY <1>2, <1>3, <1>4 DEF Structure, IdentityKnown, Bearers

\* An identity found among the phantom headers is the phantom token.
LEMMA PhantomAuthTyped ==
  ASSUME NEW m \in Request, NEW a \in PhantomAuths(m)
  PROVE  a.bearer = Phantom /\ a.preferred \in Nat
<1>1. PhantomSources(m) \subseteq Nat
  <2>1. CASE m.entry = None
    BY <2>1 DEF PhantomSources, Sources
  <2>2. CASE m.entry # None
    <3>1. m.entry \in Entries
      BY <2>2 DEF Request
    <3>2. SourcesOf[m.entry] \in Seq(Source)
      BY <3>1, CredentialsAssumption
    <3> QED
      BY <2>2, <3>2 DEF PhantomSources, Sources
  <2> QED
    BY <2>1, <2>2
<1>2. PhantomSources(m) # {} => First(PhantomSources(m)) \in Nat
  BY <1>1, FirstIsOne
<1> QED
  BY <1>2 DEF PhantomAuths

\* The entry of a request has a list of sources.
LEMMA SourcesOfRequest ==
  ASSUME NEW m \in Request
  PROVE  Sources(m.entry) \in Seq(Source)
<1>1. CASE m.entry = None
  BY <1>1 DEF Sources
<1>2. CASE m.entry # None
  <2>1. m.entry \in Entries
    BY <1>2 DEF Request
  <2> QED
    BY <1>2, <2>1, CredentialsAssumption DEF Sources
<1> QED
  BY <1>1, <1>2

\* A source goes into a header that has a name.
LEMMA SourceHeaders ==
  ASSUME NEW m \in Request, NEW i \in DOMAIN Sources(m.entry)
  PROVE  Sources(m.entry)[i].header \in HeaderNames
<1>1. Sources(m.entry)[i] \in Source
  BY SourcesOfRequest
<1> QED
  BY <1>1 DEF Source

\* Every source of the entry is a place, and so are the two standard headers.
LEMMA PlacesOfRequest ==
  ASSUME NEW m \in Request
  PROVE  /\ Places(m) \in Seq([header : HeaderNames, raw : BOOLEAN])
         /\ \A i \in DOMAIN Sources(m.entry) :
              /\ i \in DOMAIN Places(m)
              /\ Places(m)[i] = [header |-> Sources(m.entry)[i].header, raw |-> TRUE]
         /\ \A n \in {"authorization", "proxy-authorization"} :
              \E i \in DOMAIN Places(m) : Places(m)[i] = [header |-> n, raw |-> FALSE]
<1> DEFINE s == Sources(m.entry)
           here == [i \in DOMAIN s |-> [header |-> s[i].header, raw |-> TRUE]]
           std == <<[header |-> "authorization", raw |-> FALSE],
                    [header |-> "proxy-authorization", raw |-> FALSE]>>
           P == [header : HeaderNames, raw : BOOLEAN]
<1>1. s \in Seq(Source) /\ Places(m) = here \o std
  BY SourcesOfRequest DEF Places
<1>2. here \in Seq(P) /\ Len(here) = Len(s) /\ Len(s) \in Nat
  <2>1. DOMAIN s = 1..Len(s) /\ Len(s) \in Nat
    BY <1>1
  <2>2. \A i \in 1..Len(s) : s[i].header \in HeaderNames
    BY <2>1, SourceHeaders
  <2>3. here = [i \in 1..Len(s) |-> [header |-> s[i].header, raw |-> TRUE]]
    BY <2>1
  <2> QED
    BY <2>1, <2>2, <2>3
<1>3. std \in Seq(P) /\ Len(std) = 2
  BY GatewayAssumption
<1> HIDE DEF P
<1>4. \A i \in DOMAIN s : i \in DOMAIN (here \o std) /\ (here \o std)[i] = here[i]
  BY <1>1, <1>2, <1>3
<1>5. \A j \in {1, 2} : Len(s) + j \in DOMAIN (here \o std) /\ (here \o std)[Len(s) + j] = std[j]
  BY <1>1, <1>2, <1>3
<1>6. here \o std \in Seq(P)
  BY <1>2, <1>3
<1> QED
  BY <1>1, <1>4, <1>5, <1>6 DEF P

\* A candidate is a pair of positions; what it names is a token that the request carries.
LEMMA CandidatesTyped ==
  ASSUME NEW m \in Request
  PROVE  /\ Candidates(m) \subseteq Nat \X Nat
         /\ \A c \in Candidates(m) : BearerOf(m, c) \in Bearers /\ HeaderOf(m, c) \in HeaderNames
<1> SUFFICES ASSUME NEW i \in DOMAIN Places(m), NEW k \in DOMAIN FromHeader(m, Places(m)[i])
             PROVE  /\ i \in Nat /\ k \in Nat
                    /\ FromHeader(m, Places(m)[i])[k] \in Bearers
                    /\ Places(m)[i].header \in HeaderNames
  BY DEF Candidates, BearerOf, HeaderOf
<1>1. i \in Nat /\ Places(m)[i].header \in HeaderNames
  <2> DEFINE P == [header : HeaderNames, raw : BOOLEAN]
  <2>1. Places(m) \in Seq(P)
    BY PlacesOfRequest
  <2>2. \A p \in P : p.header \in HeaderNames
    OBVIOUS
  <2> HIDE DEF P
  <2> QED
    BY <2>1, <2>2
<1>2. m.headers[Places(m)[i].header] \in HeaderValue \cup {None}
  BY <1>1 DEF Request
<1>3. FromHeader(m, Places(m)[i]) \in Seq(Bearers)
  BY <1>2 DEF FromHeader, HeaderValue
<1> QED
  BY <1>1, <1>3

\* A look-up tries one candidate: it is none, or it decides.
LEMMA LookUpCases ==
  ASSUME TypeOK, Stages, NEW q \in Proxied, LookUp(q)
  PROVE  /\ pc[q] = "auth" /\ UNCHANGED <<adminVars, req, sent, historyVars>>
         /\ \E c \in Candidates(req[q]) :
              /\ c \in Nat \X Nat
              /\ \/ /\ BearerOf(req[q], c) \notin ActiveTokens
                    /\ tried' = [tried EXCEPT ![q] = @ \cup {c}]
                    /\ UNCHANGED <<pc, auth, answer>>
                 \/ /\ BearerOf(req[q], c) \in ActiveTokens
                    /\ UNCHANGED tried
                    /\ Authenticated(q, [bearer |-> BearerOf(req[q], c),
                                         header |-> HeaderOf(req[q], c), preferred |-> 0])
                 \/ UNCHANGED <<tried, auth>> /\ Finish(q, "forbidden")
<1>1. req[q] \in Request
  BY DEF LookUp, TypeOK, Stages, Live
<1> QED
  BY <1>1, CandidatesTyped DEF LookUp, Foremost

\* A request keeps the types.
LEMMA RequestStepTyped ==
  ASSUME Structure, NEW q \in Proxied,
         (\E m \in Requests : Arrive(q, m)) \/ Handle(q) \/ Upstream(q) \/ Drop(q),
         UNCHANGED tunnelVars
  PROVE  TypeOK'
<1> USE DEF adminVars, historyVars, tunnelVars
<1>0. TypeOK
  BY DEF Structure
<1>1. ASSUME NEW m \in Requests, Arrive(q, m) PROVE TypeOK'
  BY <1>0, <1>1, GatewayAssumption DEF Arrive, TypeOK, ActiveTokens
<1>2. CASE LookUp(q)
  <2>1. ASSUME NEW c \in Nat \X Nat, tried' = [tried EXCEPT ![q] = @ \cup {c}],
               UNCHANGED <<pc, auth, answer, adminVars, req, sent, historyVars>>
        PROVE  TypeOK'
    BY <1>0, <2>1 DEF TypeOK
  <2>2. ASSUME NEW b \in Bearers, NEW h,
               Authenticated(q, [bearer |-> b, header |-> h, preferred |-> 0]),
               UNCHANGED <<tried, adminVars, req, sent, historyVars>>
        PROVE  TypeOK'
    BY <1>0, <2>2 DEF Authenticated, TypeOK
  <2>3. CASE UNCHANGED <<tried, auth, adminVars, req, sent, historyVars>> /\ Finish(q, "forbidden")
    BY <1>0, <2>3 DEF Finish, TypeOK, Answers
  <2>4. ActiveTokens \subseteq Bearers
    BY DEF ActiveTokens, Bearers
  <2> QED
    BY <1>0, <1>2, <2>1, <2>2, <2>3, <2>4, LookUpCases DEF Structure
<1>3. CASE FallBack(q)
  <2>1. req[q] \in Request
    BY <1>0, <1>3 DEF FallBack, TypeOK, Structure, Stages, Live
  <2>2. ASSUME NEW a \in PhantomAuths(req[q]), Authenticated(q, a) PROVE TypeOK'
    <3>1. a.bearer \in Bearers /\ a.preferred \in Nat
      BY <2>1, PhantomAuthTyped DEF Bearers
    <3> QED
      BY <1>0, <1>3, <2>2, <3>1 DEF FallBack, Authenticated, TypeOK
  <2>3. CASE \E a \in {"challenge", "denied"} : Finish(q, a) /\ UNCHANGED auth
    BY <1>0, <1>3, <2>3 DEF FallBack, Finish, TypeOK, Answers
  <2> QED
    BY <1>3, <2>2, <2>3 DEF FallBack
<1>4. CASE NoRoute(q) \/ Unavailable(q) \/ BadUrl(q) \/ Upstream(q) \/ Drop(q)
  <2>1. PICK a \in Answers : Finish(q, a) /\ UNCHANGED <<req, tried, auth, sent>>
    BY <1>4 DEF NoRoute, Unavailable, BadUrl, Upstream, Drop, Answers
  <2>2. UNCHANGED <<store, creation, status, disk, stale, revoking, grant, budget, seen, ended,
                    doubtful, dead, steady>>
    BY <1>4 DEF NoRoute, Unavailable, BadUrl, Upstream, Drop
  <2>3. /\ pc' \in [Proxied -> {"idle", "auth", "resolve", "sent", "done"}]
        /\ answer' \in [Proxied -> Answers \cup {None}]
    BY <1>0, <2>1 DEF Finish, TypeOK
  <2> QED
    BY <1>0, <2>1, <2>2, <2>3 DEF TypeOK
<1>5. CASE Forward(q)
  <2>1. /\ req[q].entry \in Entries /\ BindingOf(q) \in CredNames \cup {None}
    BY <1>5, BindingTyped DEF Forward, Identified
  <2>2. Resolved(q) \in Pick
    BY <1>0, <1>5, <2>1, ResolvedFits DEF Forward, Resolved, BindingOf, TypeOK
  <2> QED
    BY <1>0, <1>5, <2>2 DEF Forward, TypeOK
<1> QED
  BY <1>1, <1>2, <1>3, <1>4, <1>5 DEF Handle

\* So does a restart,
LEMMA RestartTyped == TypeOK /\ Restart => TypeOK'
<1> SUFFICES ASSUME TypeOK, Restart PROVE TypeOK'
  OBVIOUS
<1>1. store' \in Stores
  BY DEF Restart, EmptyStore, Stores
<1>2. /\ status' \in Table /\ disk' \in Table /\ stale' \in SUBSET Table
      /\ creation' \in [Tokens -> Creation]
      /\ revoking' \in [Deletes -> Revocation \cup {None}]
  <2>1. NoTokens \in Table
    BY DEF NoTokens, Table, TokenStatus
  <2> QED
    BY <2>1 DEF Restart, TypeOK, Creation
<1>3. budget' \in [{"cred", "fault", "restart"} -> Nat]
  BY DEF Restart, Spend, TypeOK
<1>4. tunnel' \in [Proxied -> {"none", "joining", "open", "over"}] /\ UNCHANGED open
  BY DEF Restart, EndTunnels, TypeOK
<1> QED
  BY <1>1, <1>2, <1>3, <1>4 DEF Restart, TypeOK, Answers, historyVars

\* An upgrade answers its request, and a tunnel is nothing but its own two variables.
LEMMA UpgradeTyped ==
  ASSUME TypeOK, NEW q \in Proxied, Upgrade(q)
  PROVE  TypeOK'
  BY DEF Upgrade, Finish, TypeOK, Answers, Peers, adminVars, historyVars

\* and a tunnel.
LEMMA TunnelTyped ==
  ASSUME TypeOK, NEW q \in Proxied, Tunnel(q)
  PROVE  TypeOK'
<1>1. /\ tunnel' \in [Proxied -> {"none", "joining", "open", "over"}]
      /\ open' \in [Proxied -> SUBSET Peers]
  BY DEF Tunnel, Relay, Join, JoinFails, Copied, HangUp, Break, TypeOK
<1> QED
  BY <1>1 DEF Tunnel, adminVars, requestVars, historyVars, TypeOK

-----------------------------------------------------------------------------
(* The structure of a request                                              *)

\* The structure is there at the start.
LEMMA InitStructure == Init => Structure
<1> SUFFICES ASSUME Init PROVE Structure
  OBVIOUS
<1>1. \A q \in Proxied : pc[q] = "idle" /\ sent[q] = None
  BY DEF Init
<1> QED
  BY <1>1, InitTyped
     DEF Init, Structure, GrantKnown, Unborn, Tables, NoTokens, Stages, IdentityKnown, SeesStore,
         Identified, Forwarded, Live

\* No record appears, in memory or in the file, but by its own request.
LEMMA AdminUnborn == TypeOK /\ Unborn /\ Admin => Unborn'
<1> SUFFICES ASSUME TypeOK, Unborn, Admin PROVE Unborn'
  OBVIOUS
<1>1. ASSUME NEW n \in CredNames,
             (\E service \in Routes, v \in Values : RegisterCred(n, service, v)) \/ DeleteCred(n)
      PROVE  Unborn'
  BY <1>1 DEF RegisterCred, DeleteCred, tableVars, Unborn, Tables
<1>2. ASSUME NEW t \in Tokens, (\E g \in Grants : CheckToken(t, g)) \/ PushToken(t) \/ CreateToken(t)
      PROVE  Unborn'
  BY <1>2 DEF CheckToken, PushToken, CreateToken, historyVars, Unborn, Tables, TypeOK, Table
<1>3. ASSUME NEW t \in Tokens, CreateFails(t) PROVE Unborn'
  BY <1>3 DEF CreateFails, PersistFails, Unborn, Tables, TypeOK, Table
<1>4. ASSUME NEW d \in Deletes, NEW t \in Tokens, MarkToken(d, t) PROVE Unborn'
  <2>1. creation[t] \notin {"new", "checked"}
    BY <1>4 DEF MarkToken, Unborn, Tables
  <2> QED
    BY <1>4, <2>1 DEF MarkToken, Unborn, Tables, TypeOK, Table
<1>5. ASSUME NEW d \in Deletes, RevokeToken(d) PROVE Unborn'
  BY <1>5 DEF RevokeToken, Unborn, Tables, TypeOK
<1>6. ASSUME NEW d \in Deletes, RevokeFails(d) PROVE Unborn'
  <2>1. creation[revoking[d].token] \notin {"new", "checked"}
    BY <1>6 DEF RevokeFails, Unborn, TypeOK, Revocation
  <2> QED
    BY <1>6, <2>1 DEF RevokeFails, PersistFails, Unborn, Tables, TypeOK, Table
<1>7. ASSUME NEW t \in Tokens, DropCreate(t) PROVE Unborn'
  BY <1>7 DEF DropCreate, LeaveWrite, Unborn, Tables, TypeOK
<1>8. ASSUME NEW d \in Deletes, DropRevoke(d) PROVE Unborn'
  BY <1>8 DEF DropRevoke, LeaveWrite, Unborn, Tables, TypeOK
<1> QED
  BY <1>1, <1>2, <1>3, <1>4, <1>5, <1>6, <1>7, <1>8 DEF Admin

\* Admin requests leave the stages alone, and no token goes back to being new.
LEMMA AdminStructure == Structure /\ Admin /\ UNCHANGED tunnelVars => Structure'
<1> SUFFICES ASSUME Structure, Admin, UNCHANGED tunnelVars PROVE Structure'
  OBVIOUS
<1>0. TypeOK /\ TypeOK'
  BY AdminTyped DEF Structure
<1>1. UNCHANGED requestVars
  BY <1>0, AdminEffects
<1>2. Stages'
  BY <1>1 DEF requestVars, Structure, Stages, Live, Forwarded
<1>3. GrantKnown'
  <2>1. ASSUME NEW t \in Tokens, NEW g \in Grants, CheckToken(t, g) PROVE GrantKnown'
    <3>1. g # None
      BY GatewayAssumption
    <3> QED
      BY <1>0, <2>1, <3>1 DEF CheckToken, TypeOK, Structure, GrantKnown
  <2>2. CASE ~\E t \in Tokens, g \in Grants : CheckToken(t, g)
    <3>1. \A t \in Tokens : creation'[t] # "new" => creation[t] # "new"
      BY <1>0, <2>2 DEF Admin, RegisterCred, DeleteCred, PushToken, CreateToken, CreateFails,
         DropCreate, MarkToken, RevokeToken, RevokeFails, DropRevoke, tableVars, TypeOK
    <3> QED
      BY <1>0, <3>1, AdminEffects DEF Structure, GrantKnown
  <2> QED
    BY <2>1, <2>2
<1>4. IdentityKnown'
  BY <1>0, <1>1, AdminEffects DEF requestVars, Structure, IdentityKnown, Identified, Forwarded
<1>5. SeesStore'
  BY <1>0, <1>1, AdminEffects DEF requestVars, Observe, Structure, SeesStore, Live
<1>6. Unborn'
  BY <1>0, AdminUnborn DEF Structure
<1> QED
  BY <1>0, <1>3, <1>2, <1>4, <1>5, <1>6 DEF Structure

\* A request and its tunnel keep the structure.
LEMMA RequestStructure ==
  ASSUME Structure, NEW q \in Proxied,
         \/ /\ (\E m \in Requests : Arrive(q, m)) \/ Handle(q) \/ Upstream(q) \/ Drop(q)
            /\ UNCHANGED tunnelVars
         \/ Upgrade(q)
  PROVE  Structure'
<1> USE DEF adminVars, historyVars
<1>0. TypeOK /\ TypeOK' /\ Stages /\ IdentityKnown /\ SeesStore /\ GrantKnown /\ Unborn
  BY RequestStepTyped, UpgradeTyped DEF Structure
<1>1. UNCHANGED <<store, creation, status, disk, stale, revoking, grant, ended>>
  BY DEF Arrive, Handle, LookUp, FallBack, NoRoute, Unavailable, BadUrl, Forward, Upstream, Drop,
     Upgrade
<1>2. GrantKnown' /\ Unborn'
  BY <1>0, <1>1 DEF GrantKnown, Unborn, Tables
<1>3. ASSUME NEW m \in Requests, Arrive(q, m) PROVE Structure'
  <2>1. m # None
    BY GatewayAssumption
  <2>2. Stages' /\ IdentityKnown' /\ SeesStore'
    BY <1>0, <1>1, <1>3, <2>1
       DEF Arrive, Stages, IdentityKnown, SeesStore, Identified, Forwarded, Live, TypeOK
  <2> QED
    BY <1>0, <1>2, <2>2 DEF Structure
<1>4. ASSUME NEW a, a \in Answers, Finish(q, a),
             UNCHANGED <<req, sent, seen, auth>>, pc[q] # "idle"
      PROVE  Structure'
  <2>1. Stages' /\ IdentityKnown' /\ SeesStore'
    BY <1>0, <1>1, <1>4
       DEF Finish, Stages, IdentityKnown, SeesStore, Identified, Forwarded, Live, TypeOK
  <2> QED
    BY <1>0, <1>2, <2>1 DEF Structure
<1>5. ASSUME NEW a, Authenticated(q, a), pc[q] = "auth", UNCHANGED <<req, sent, seen>>,
             a.bearer \in ActiveTokens \cup {Phantom}
      PROVE  Structure'
  <2>1. auth'[q].bearer \in ActiveTokens \cup {Phantom} /\ \A r \in Proxied \ {q} : auth'[r] = auth[r]
    BY <1>0, <1>5 DEF Authenticated, TypeOK
  <2>2. pc' = [pc EXCEPT ![q] = "resolve"]
    BY <1>5 DEF Authenticated
  <2>3. Stages' /\ SeesStore'
    BY <1>0, <1>1, <1>5, <2>2 DEF Stages, SeesStore, Forwarded, Live, TypeOK
  <2>4. IdentityKnown'
    <3>1. \A t \in ActiveTokens : creation[t] \notin {"new", "checked"}
      BY <1>0 DEF ActiveTokens, Unborn, Tables
    <3>2. /\ auth'[q].bearer \in Bearers
          /\ auth'[q].bearer \in Tokens => creation[auth'[q].bearer] \notin {"new", "checked"}
      BY <2>1, <3>1, GatewayAssumption DEF Bearers, ActiveTokens
    <3> QED
      BY <1>0, <1>1, <1>5, <2>1, <2>2, <3>2 DEF IdentityKnown, Identified, Forwarded, TypeOK
  <2> QED
    BY <1>0, <1>2, <2>3, <2>4 DEF Structure
<1>6. CASE LookUp(q)
  <2>1. CASE UNCHANGED <<pc, auth, req, sent, seen>>
    BY <1>0, <1>1, <1>2, <2>1
       DEF Structure, Stages, IdentityKnown, SeesStore, Identified, Forwarded, Live
  <2>2. ASSUME NEW b \in ActiveTokens, NEW h,
               Authenticated(q, [bearer |-> b, header |-> h, preferred |-> 0]),
               UNCHANGED <<req, sent, seen>>
        PROVE  Structure'
    BY <1>5, <1>6, <2>2 DEF LookUp
  <2>3. CASE UNCHANGED <<req, sent, seen, auth>> /\ Finish(q, "forbidden")
    BY <1>4, <1>6, <2>3 DEF LookUp, Answers
  <2> QED
    BY <1>0, <1>6, <2>1, <2>2, <2>3, LookUpCases
<1>7. CASE FallBack(q)
  <2>1. req[q] \in Request
    BY <1>0, <1>7 DEF FallBack, TypeOK, Stages, Live
  <2>2. ASSUME NEW a \in PhantomAuths(req[q]), Authenticated(q, a) PROVE Structure'
    BY <1>5, <1>7, <2>1, <2>2, PhantomAuthTyped DEF FallBack
  <2>3. CASE \E a \in {"challenge", "denied"} : Finish(q, a) /\ UNCHANGED auth
    BY <1>4, <1>7, <2>3 DEF FallBack, Answers
  <2> QED
    BY <1>7, <2>2, <2>3 DEF FallBack
<1>8. CASE NoRoute(q) \/ Unavailable(q) \/ BadUrl(q) \/ Upstream(q) \/ Upgrade(q) \/ Drop(q)
  <2>1. /\ \E a \in Answers : Finish(q, a)
        /\ UNCHANGED <<req, sent, seen, auth>> /\ pc[q] # "idle"
    BY <1>8 DEF NoRoute, Unavailable, BadUrl, Upstream, Upgrade, Drop, Live, Answers
  <2> QED
    BY <1>4, <2>1
<1>9. CASE Forward(q)
  <2>1. /\ pc' = [pc EXCEPT ![q] = "sent"] /\ pc[q] = "resolve" /\ req[q].entry # None
        /\ UNCHANGED <<req, auth, seen>>
        /\ \A r \in Proxied \ {q} : sent'[r] = sent[r]
    BY <1>0, <1>9 DEF Forward, TypeOK
  <2>2. Stages' /\ IdentityKnown' /\ SeesStore'
    BY <1>0, <1>1, <2>1
       DEF Stages, IdentityKnown, SeesStore, Identified, Forwarded, Live, TypeOK
  <2> QED
    BY <1>0, <1>2, <2>2 DEF Structure
<1> QED
  BY <1>3, <1>6, <1>7, <1>8, <1>9 DEF Handle

\* A restart keeps the structure.
LEMMA RestartStructure == Structure /\ Restart => Structure'
<1> SUFFICES ASSUME Structure, Restart PROVE Structure'
  OBVIOUS
<1>0. TypeOK /\ TypeOK'
  BY RestartTyped DEF Structure
<1>1. /\ \A q \in Proxied : ~Live(q)'
      /\ \A q \in Proxied : pc'[q] \in {"idle", "auth", "resolve"} => pc[q] \in {"idle", "auth", "resolve"}
      /\ UNCHANGED <<grant, req, auth, sent>>
  BY <1>0 DEF Restart, Live, TypeOK
<1>2. \A t \in Tokens :
        /\ creation'[t] # "new" => creation[t] # "new"
        /\ creation'[t] \in {"new", "checked"} => creation[t] = "new" /\ creation'[t] = "new"
        /\ creation[t] \notin {"new", "checked"} => creation'[t] \notin {"new", "checked"}
  BY <1>0 DEF Restart, TypeOK
<1>3. Unborn'
  <2>1. /\ \E table \in Tables \cup {NoTokens} : status' = table /\ disk' = table
        /\ stale' = {} /\ UNCHANGED ended /\ \A d \in Deletes : revoking'[d] = None
    BY DEF Restart, Tables, historyVars
  <2> QED
    BY <1>2, <2>1 DEF Structure, Unborn, Tables, NoTokens
<1> QED
  BY <1>0, <1>1, <1>2, <1>3
     DEF Structure, GrantKnown, Stages, IdentityKnown, SeesStore, Identified, Forwarded, Live

\* What leaves everything but the tunnels alone leaves the structure of requests alone.
LEMMA TunnelStructure ==
  ASSUME Structure, NEW q \in Proxied, Tunnel(q)
  PROVE  Structure'
<1>1. TypeOK'
  BY TunnelTyped DEF Structure
<1>2. UNCHANGED <<adminVars, requestVars, historyVars>>
  BY DEF Tunnel
<1> QED
  BY <1>1, <1>2 DEF adminVars, requestVars, historyVars, Structure, GrantKnown, Unborn, Tables,
     Stages, IdentityKnown, SeesStore, Identified, Forwarded, Live

\* Every step keeps the structure.
LEMMA StepStructure == Structure /\ [Next]_vars => Structure'
<1> SUFFICES ASSUME Structure, [Next]_vars PROVE Structure'
  OBVIOUS
<1>1. CASE UNCHANGED vars
  BY <1>1 DEF vars, adminVars, requestVars, tunnelVars, historyVars, Structure, TypeOK, GrantKnown,
     Unborn, Tables, Stages, IdentityKnown, SeesStore, Identified, Forwarded, Live
<1> QED
  BY <1>1, AdminStructure, RequestStructure, RestartStructure, TunnelStructure DEF Next, Done

\* The variables of the gateway keep their types in every behaviour.
THEOREM TypeCorrect == Spec => []TypeOK
<1>1. Structure => TypeOK
  BY DEF Structure
<1> QED
  BY <1>1, InitStructure, StepStructure, PTL DEF Spec

-----------------------------------------------------------------------------
(* Credentials                                                             *)

\* A step that leaves what went out, and who it went out for, as they are, and only
\* adds to the history, keeps both properties of the credential.
LEMMA CredentialKept ==
  ASSUME CredentialInv, Structure',
         \A q \in Proxied : Forwarded(q)' =>
           /\ UNCHANGED <<sent[q], auth[q], req[q]>>
           /\ seen[q] \subseteq seen'[q]
           /\ auth[q].bearer \in Tokens => UNCHANGED grant[auth[q].bearer]
  PROVE  CredentialInv'
<1>1. ASSUME NEW q \in Proxied, Forwarded(q)'
      PROVE  /\ Forwarded(q) /\ RouteOf(q)' = RouteOf(q) /\ BindingOf(q)' = BindingOf(q)
             /\ sent'[q] = sent[q] /\ seen[q] \subseteq seen'[q]
  <2>1. Forwarded(q) /\ UNCHANGED <<sent[q], auth[q], req[q]>>
    BY <1>1 DEF Forwarded
  <2>2. auth[q].bearer \in Bearers
    BY <2>1 DEF CredentialInv, Structure, IdentityKnown, Identified
  <2> QED
    BY <1>1, <2>1, <2>2 DEF RouteOf, BindingOf, Binding, Bearers
<1>2. BoundTokenOwnCredential'
  BY <1>1 DEF CredentialInv, BoundTokenOwnCredential
<1>3. DefaultBeforeEnv'
  BY <1>1 DEF CredentialInv, DefaultBeforeEnv
<1> QED
  BY <1>2, <1>3 DEF CredentialInv

\* A request is sent with what the store, which it sees, resolves to.
LEMMA CredentialForward ==
  ASSUME CredentialInv, Structure', NEW q \in Proxied, Forward(q)
  PROVE  CredentialInv'
<1> DEFINE c == Resolved(q)
<1>1. /\ Identified(q) /\ req[q].entry \in Entries /\ Resolved(q) # None
      /\ BindingOf(q) \in CredNames \cup {None}
      /\ store \in Stores /\ store \in seen[q]
  BY BindingTyped DEF Forward, CredentialInv, Structure, SeesStore, TypeOK, Identified, Live
<1>2. /\ Resolved(q) = Resolve(store, req[q].entry, BindingOf(q), auth[q].preferred)
      /\ RouteOf(q) = CanonicalOf[req[q].entry]
  BY DEF Resolved, BindingOf, RouteOf
<1>3. /\ sent'[q].credential = c
      /\ UNCHANGED <<auth, req, grant, seen>>
      /\ \A r \in Proxied \ {q} : sent'[r] = sent[r]
  BY DEF Forward, CredentialInv, Structure, TypeOK, adminVars, historyVars
<1>4. \A r \in Proxied : BindingOf(r)' = BindingOf(r) /\ RouteOf(r)' = RouteOf(r)
  BY <1>3 DEF BindingOf, Binding, RouteOf
<1> HIDE DEF c
<1>5. BindingOf(q) # None =>
        c.from = "binding" /\ store[BindingOf(q)] = [service |-> RouteOf(q), value |-> c.value]
  BY <1>1, <1>2, BoundResolvesToBinding DEF c
<1>6. BindingOf(q) = None =>
        IF c.from = "env" THEN store[RouteOf(q)] = None \/ store[RouteOf(q)].service # RouteOf(q)
        ELSE store[RouteOf(q)] = [service |-> RouteOf(q), value |-> c.value]
  BY <1>1, <1>2, UnboundResolvesInOrder DEF c
<1>7. BoundTokenOwnCredential'
  BY <1>1, <1>3, <1>4, <1>5 DEF CredentialInv, BoundTokenOwnCredential, Forwarded
<1>8. DefaultBeforeEnv'
  BY <1>1, <1>3, <1>4, <1>6 DEF CredentialInv, DefaultBeforeEnv, Forwarded
<1> QED
  BY <1>7, <1>8 DEF CredentialInv

\* Every step keeps what was forwarded true to its binding and its defaults.
LEMMA StepCredential == CredentialInv /\ [Next]_vars => CredentialInv'
<1> SUFFICES ASSUME CredentialInv, [Next]_vars PROVE CredentialInv'
  OBVIOUS
<1>0. Structure' /\ TypeOK /\ Stages /\ IdentityKnown
  BY StepStructure DEF CredentialInv, Structure
<1>1. CASE Admin
  <2>1. UNCHANGED <<sent, auth, req>>
    BY <1>0, <1>1, AdminEffects DEF requestVars
  <2>2. \A q \in Proxied : seen[q] \subseteq seen'[q]
    BY <1>0, <1>1, AdminEffects
  <2>3. \A t \in Tokens : creation[t] # "new" => UNCHANGED grant[t]
    BY <1>0, <1>1, AdminEffects
  <2> QED
    BY <1>0, <2>1, <2>2, <2>3, CredentialKept DEF IdentityKnown, Identified, Forwarded
<1>2. ASSUME NEW q \in Proxied,
             (\E m \in Requests : Arrive(q, m)) \/ LookUp(q) \/ FallBack(q)
      PROVE  CredentialInv'
  <2>1. /\ UNCHANGED <<sent, grant>> /\ sent[q] = None
        /\ \A r \in Proxied \ {q} : UNCHANGED <<auth[r], req[r], seen[r]>>
    BY <1>0, <1>2 DEF Arrive, LookUp, FallBack, Authenticated, adminVars, historyVars, TypeOK, Stages
  <2> QED
    BY <1>0, <2>1, CredentialKept DEF Forwarded
<1>3. ASSUME NEW q \in Proxied,
             NoRoute(q) \/ Unavailable(q) \/ BadUrl(q) \/ Upstream(q) \/ Upgrade(q) \/ Drop(q)
             \/ Tunnel(q)
      PROVE  CredentialInv'
  <2>1. UNCHANGED <<sent, auth, req, grant, seen>>
    BY <1>3 DEF NoRoute, Unavailable, BadUrl, Upstream, Upgrade, Drop, Tunnel, adminVars,
       requestVars, historyVars
  <2> QED
    BY <1>0, <2>1, CredentialKept
<1>4. ASSUME NEW q \in Proxied, Forward(q) PROVE CredentialInv'
  BY <1>0, <1>4, CredentialForward
<1>5. CASE Restart \/ UNCHANGED vars
  <2>1. UNCHANGED <<sent, auth, req, grant, seen>>
    BY <1>5 DEF Restart, vars, adminVars, requestVars, historyVars
  <2> QED
    BY <1>0, <2>1, CredentialKept
<1> QED
  BY <1>1, <1>2, <1>3, <1>4, <1>5 DEF Next, Handle, Done

\* At the start nothing is forwarded.
LEMMA InitCredential == Init => CredentialInv
<1> SUFFICES ASSUME Init PROVE CredentialInv
  OBVIOUS
<1>1. \A q \in Proxied : ~Forwarded(q)
  BY DEF Init, Forwarded
<1> QED
  BY <1>1, InitStructure DEF CredentialInv, BoundTokenOwnCredential, DefaultBeforeEnv

\* The request of a bound token is only ever sent with the value that the bound name
\* held for the route while the request was in flight.
THEOREM BoundTokensKeepToTheirs == Spec => []BoundTokenOwnCredential
<1>1. CredentialInv => BoundTokenOwnCredential
  BY DEF CredentialInv
<1> QED
  BY <1>1, InitCredential, StepCredential, PTL DEF Spec

\* An unbound request is only ever sent with the service default of a store it saw,
\* or with the environment's value when it saw a store without one.
THEOREM DefaultsComeFirst == Spec => []DefaultBeforeEnv
<1>1. CredentialInv => DefaultBeforeEnv
  BY DEF CredentialInv
<1> QED
  BY <1>1, InitCredential, StepCredential, PTL DEF Spec

-----------------------------------------------------------------------------
(* Revocation                                                              *)

\* Tokens are revoked in order, or fall into doubt.
LEMMA AdminOrderly ==
  ASSUME TypeOK, Unborn, Admin, \A t \in Tokens \ doubtful : Orderly(t)
  PROVE  \A t \in Tokens \ doubtful' : Orderly(t)'
<1> SUFFICES ASSUME NEW t \in Tokens \ doubtful' PROVE Orderly(t)'
  OBVIOUS
<1>0. t \notin doubtful /\ Orderly(t)
  BY AdminEffects
<1> USE DEF TypeOK, Table
<1>1. ASSUME NEW n \in CredNames,
             (\E service \in Routes, v \in Values : RegisterCred(n, service, v)) \/ DeleteCred(n)
      PROVE  Orderly(t)'
  BY <1>0, <1>1 DEF RegisterCred, DeleteCred, tableVars, Orderly, Marking
<1>2. ASSUME NEW u \in Tokens, (\E g \in Grants : CheckToken(u, g)) \/ CreateToken(u) \/ CreateFails(u)
      PROVE  Orderly(t)'
  <2>1. /\ UNCHANGED <<stale, revoking>>
        /\ status'[t] = status[t] \/ status'[t] = "absent"
    BY <1>2 DEF CheckToken, CreateToken, CreateFails
  <2> QED
    BY <1>0, <2>1 DEF Orderly, Marking
<1>3. ASSUME NEW u \in Tokens, PushToken(u) PROVE Orderly(t)'
  <2>1. UNCHANGED <<stale, revoking>> /\ Marking(u) = {}
    BY <1>3 DEF PushToken, Unborn, Marking
  <2>2. t # u => status'[t] = status[t]
    BY <1>3 DEF PushToken
  <2> QED
    BY <1>0, <2>1, <2>2 DEF Orderly, Marking
<1>4. ASSUME NEW d \in Deletes, NEW u \in Tokens, MarkToken(d, u) PROVE Orderly(t)'
  <2>1. CASE t = u
    <3>1. Marking(t) = {} /\ Marking(t)' = {d} /\ status'[t] = "revoked" /\ UNCHANGED stale
      <4>1. Marking(t) = {} /\ revoking[d] = None
        BY <1>0, <1>4, <2>1 DEF MarkToken, Marking
      <4>2. revoking'[d] # None /\ revoking'[d].token = t
        <5>1. /\ revoking'[d] = [token |-> t, previous |-> status[t]]
              /\ status[t] \in {"active", "revoked"}
          BY <1>4, <2>1 DEF MarkToken, TokenStatus
        <5>2. revoking'[d] \in Revocation
          BY <5>1 DEF Revocation
        <5> QED
          BY <5>1, <5>2, GatewayAssumption
      <4>3. \A e \in Deletes \ {d} : revoking'[e] = revoking[e]
        BY <1>4 DEF MarkToken
      <4>4. status'[t] = "revoked" /\ UNCHANGED stale
        BY <1>4, <2>1 DEF MarkToken
      <4> QED
        BY <4>1, <4>2, <4>3, <4>4 DEF Marking
    <3> QED
      BY <1>0, <3>1 DEF Orderly
  <2>2. CASE t # u
    <3>1. Marking(t)' = Marking(t) /\ status'[t] = status[t] /\ UNCHANGED stale
      BY <1>4, <2>2, GatewayAssumption DEF MarkToken, Marking, Revocation
    <3> QED
      BY <1>0, <3>1 DEF Orderly
  <2> QED
    BY <2>1, <2>2
<1>5. ASSUME NEW d \in Deletes, RevokeToken(d) \/ DropRevoke(d) PROVE Orderly(t)'
  <2>1. Marking(t)' \subseteq Marking(t) /\ UNCHANGED status
    BY <1>5 DEF RevokeToken, DropRevoke, Marking
  <2>2. \A table \in stale' : table[t] # "active"
    BY <1>0, <1>5 DEF RevokeToken, DropRevoke, LeaveWrite, ActiveTokens, Orderly
  <2> QED
    BY <1>0, <2>1, <2>2 DEF Orderly
<1>6. ASSUME NEW d \in Deletes, RevokeFails(d) PROVE Orderly(t)'
  <2>1. Marking(t)' = Marking(t) \ {d} /\ UNCHANGED stale
    BY <1>6 DEF RevokeFails, Marking
  <2>2. d \notin Marking(t) => status'[t] = status[t]
    BY <1>6 DEF RevokeFails, Marking
  <2>3. d \in Marking(t) => Marking(t)' = {}
    BY <1>0, <2>1 DEF Orderly
  <2> QED
    BY <1>0, <2>1, <2>2, <2>3 DEF Orderly
<1>7. ASSUME NEW u \in Tokens, DropCreate(u) PROVE Orderly(t)'
  <2>1. UNCHANGED <<status, revoking>> /\ \A table \in stale' : table[t] # "active"
    BY <1>0, <1>7 DEF DropCreate, LeaveWrite, ActiveTokens, Orderly
  <2> QED
    BY <1>0, <2>1 DEF Orderly, Marking
<1> QED
  BY <1>1, <1>2, <1>3, <1>4, <1>5, <1>6, <1>7 DEF Admin

\* A revocation that is answered leaves its token settled, and nothing unsettles it but doubt.
LEMMA AdminSettled ==
  ASSUME TypeOK, Unborn, Admin,
         \A t \in Tokens \ doubtful : Orderly(t), \A t \in ended \ doubtful : Settled(t)
  PROVE  \A t \in ended' \ doubtful' : Settled(t)'
<1> SUFFICES ASSUME NEW t \in ended' \ doubtful' PROVE Settled(t)'
  OBVIOUS
<1>0. t \notin doubtful
  BY AdminEffects
<1> USE DEF TypeOK, Table
<1>1. ASSUME NEW d \in Deletes, RevokeToken(d), revoking[d].token = t PROVE Settled(t)'
  <2>1. t \in Tokens /\ d \in Marking(t) /\ Orderly(t)
    BY <1>0, <1>1 DEF RevokeToken, Marking, Revocation
  <2>2. Marking(t)' = {}
    BY <1>1, <2>1 DEF RevokeToken, Marking, Orderly
  <2>3. UNCHANGED <<status, stale>> /\ disk' = status
    BY <1>1 DEF RevokeToken
  <2> QED
    BY <2>1, <2>2, <2>3 DEF Settled, Tables, Orderly
<1>2. CASE t \in ended
  <2>0. Settled(t) /\ t \in Tokens
    BY <1>0, <1>2
  <2>1. ASSUME NEW n \in CredNames,
               (\E service \in Routes, v \in Values : RegisterCred(n, service, v)) \/ DeleteCred(n)
        PROVE  Settled(t)'
    BY <2>0, <2>1 DEF RegisterCred, DeleteCred, tableVars, Settled, Tables, Marking
  <2>2. ASSUME NEW u \in Tokens, (\E g \in Grants : CheckToken(u, g)) \/ CreateToken(u)
        PROVE  Settled(t)'
    BY <2>0, <2>2 DEF CheckToken, CreateToken, Settled, Tables, Marking
  <2>3. ASSUME NEW u \in Tokens, CreateFails(u) PROVE Settled(t)'
    BY <2>0, <2>3 DEF CreateFails, PersistFails, Settled, Tables, Marking
  <2>4. ASSUME NEW u \in Tokens, PushToken(u) PROVE Settled(t)'
    <3>1. t # u
      BY <1>2, <2>4 DEF PushToken, Unborn
    <3> QED
      BY <2>0, <2>4, <3>1 DEF PushToken, Settled, Tables, Marking
  <2>5. ASSUME NEW d \in Deletes, NEW u \in Tokens, MarkToken(d, u) PROVE Settled(t)'
    <3>1. /\ status'[t] # "active" /\ UNCHANGED <<disk, stale>>
      BY <2>0, <2>5 DEF MarkToken, Settled, Tables
    <3>2. \A e \in Marking(t)' : revoking'[e].previous = "revoked"
      <4>1. status[t] # "active"
        BY <2>0 DEF Settled, Tables
      <4>2. ASSUME NEW e \in Marking(t)', e = d PROVE revoking'[e].previous = "revoked"
        <5>1. revoking'[d] = [token |-> u, previous |-> status[u]] /\ status[u] # "absent"
          BY <2>5 DEF MarkToken
        <5>2. u = t /\ status[t] \in TokenStatus
          BY <2>0, <4>2, <5>1 DEF Marking
        <5> QED
          BY <4>1, <4>2, <5>1, <5>2 DEF TokenStatus
      <4>3. ASSUME NEW e \in Marking(t)', e # d PROVE revoking'[e].previous = "revoked"
        BY <2>0, <2>5, <4>3 DEF MarkToken, Marking, Settled
      <4> QED
        BY <4>2, <4>3
    <3> QED
      BY <2>0, <3>1, <3>2 DEF Settled, Tables
  <2>6. ASSUME NEW d \in Deletes, RevokeToken(d) PROVE Settled(t)'
    BY <2>0, <2>6 DEF RevokeToken, Settled, Tables, Marking
  <2>7. ASSUME NEW d \in Deletes, RevokeFails(d) PROVE Settled(t)'
    <3>1. status'[t] # "active"
      BY <2>0, <2>7 DEF RevokeFails, Settled, Tables, Marking
    <3>2. UNCHANGED stale /\ disk'[t] # "active"
      BY <2>0, <2>7 DEF RevokeFails, PersistFails, Settled, Tables
    <3>3. \A e \in Marking(t)' : e \in Marking(t) /\ revoking'[e] = revoking[e]
      BY <2>7 DEF RevokeFails, Marking
    <3> QED
      BY <2>0, <3>1, <3>2, <3>3 DEF Settled, Tables
  <2>8. ASSUME NEW u \in Tokens, DropCreate(u) PROVE Settled(t)'
    BY <2>0, <2>8 DEF DropCreate, LeaveWrite, Settled, Tables, Marking
  <2>9. ASSUME NEW d \in Deletes, DropRevoke(d) PROVE Settled(t)'
    BY <2>0, <2>9 DEF DropRevoke, LeaveWrite, Settled, Tables, Marking
  <2> QED
    BY <2>1, <2>2, <2>3, <2>4, <2>5, <2>6, <2>7, <2>8, <2>9 DEF Admin
<1>3. CASE t \notin ended
  <2>1. \E d \in Deletes : RevokeToken(d) /\ revoking[d].token = t
    BY <1>3 DEF Admin, RegisterCred, DeleteCred, CheckToken, PushToken, CreateToken, CreateFails,
       DropCreate, MarkToken, RevokeToken, RevokeFails, DropRevoke, historyVars
  <2> QED
    BY <1>1, <2>1
<1> QED
  BY <1>2, <1>3

\* What was answered stays answered.
LEMMA EndedGrows == TypeOK /\ Admin => ended \subseteq ended'
  BY DEF Admin, RegisterCred, DeleteCred, CheckToken, PushToken, CreateToken, CreateFails,
     DropCreate, MarkToken, RevokeToken, RevokeFails, DropRevoke, historyVars

\* A restart loads a table that does not have a settled token active.
LEMMA RestartKeepsDead == Structure /\ DeadStayDead /\ Restart => DeadStayDead'
<1> SUFFICES ASSUME Structure, DeadStayDead, Restart PROVE DeadStayDead'
  OBVIOUS
<1>1. /\ \E table \in Tables \cup {NoTokens} : status' = table /\ disk' = table
      /\ stale' = {} /\ \A d \in Deletes : revoking'[d] = None
      /\ UNCHANGED <<ended, doubtful, dead>>
  BY DEF Restart, Tables, historyVars
<1>2. \A t : Marking(t)' = {}
  BY <1>1 DEF Marking
<1>3. \A t \in ended \ doubtful : Settled(t)'
  BY <1>1, <1>2 DEF DeadStayDead, Settled, Tables, NoTokens, Structure, TypeOK
<1> QED
  BY <1>1, <1>2, <1>3 DEF DeadStayDead, Orderly

\* Every step keeps the dead tokens revoked, and no request goes by one.
LEMMA StepRevocation == RevocationInv /\ [Next]_vars => RevocationInv'
<1> SUFFICES ASSUME RevocationInv, [Next]_vars PROVE RevocationInv'
  OBVIOUS
<1>0. Structure' /\ Structure /\ TypeOK /\ Stages /\ IdentityKnown /\ Unborn
  BY StepStructure DEF RevocationInv, Structure
<1>a. DeadStayDead /\ NoDeadIdentity
  BY DEF RevocationInv
<1> SUFFICES DeadStayDead' /\ NoDeadIdentity'
  BY <1>0 DEF RevocationInv
<1>b. ASSUME UNCHANGED <<status, disk, stale, revoking, ended, doubtful>>,
             \A q \in Proxied : dead'[q] \subseteq ended
      PROVE  DeadStayDead'
  BY <1>a, <1>b DEF DeadStayDead, Orderly, Settled, Tables, Marking
<1>1. CASE Admin
  <2>1. UNCHANGED <<pc, sent, auth, dead>> /\ doubtful \subseteq doubtful' /\ ended \subseteq ended'
    BY <1>0, <1>1, AdminEffects, EndedGrows DEF requestVars
  <2>2. DeadStayDead'
    BY <1>0, <1>a, <1>1, <2>1, AdminOrderly, AdminSettled DEF DeadStayDead
  <2> QED
    BY <1>a, <2>1, <2>2 DEF NoDeadIdentity, Identified, Forwarded
<1>2. ASSUME NEW q \in Proxied, NEW m \in Requests, Arrive(q, m)
      PROVE  DeadStayDead' /\ NoDeadIdentity'
  <2>1. DeadStayDead'
    BY <1>0, <1>a, <1>b, <1>2 DEF Arrive, adminVars, DeadStayDead, TypeOK
  <2> QED
    BY <1>0, <1>a, <1>2, <2>1
       DEF Arrive, NoDeadIdentity, Identified, Forwarded, TypeOK, Stages
<1>3. ASSUME NEW q \in Proxied, NEW a, Authenticated(q, a),
             UNCHANGED <<status, disk, stale, revoking, sent, ended, doubtful, dead>>,
             a.bearer \in ActiveTokens \cup {Phantom}
      PROVE  DeadStayDead' /\ NoDeadIdentity'
  <2>1. auth'[q].bearer \notin dead[q] \ doubtful /\ \A r \in Proxied \ {q} : auth'[r] = auth[r]
    <3>1. auth'[q] = a /\ \A r \in Proxied \ {q} : auth'[r] = auth[r]
      BY <1>0, <1>3 DEF Authenticated, TypeOK
    <3>2. dead[q] \subseteq Tokens
      BY <1>0 DEF TypeOK
    <3>3. \A t \in dead[q] \ doubtful : t \notin ActiveTokens
      BY <1>a DEF DeadStayDead, Settled, Tables, ActiveTokens
    <3> QED
      BY <1>3, <3>1, <3>2, <3>3, GatewayAssumption
  <2>2. pc' = [pc EXCEPT ![q] = "resolve"]
    BY <1>3 DEF Authenticated
  <2>3. DeadStayDead'
    BY <1>a, <1>b, <1>3 DEF DeadStayDead
  <2> QED
    BY <1>0, <1>a, <1>3, <2>1, <2>2, <2>3 DEF NoDeadIdentity, Identified, Forwarded, TypeOK
<1>c. ASSUME UNCHANGED <<status, disk, stale, revoking, auth, ended, doubtful, dead>>,
             \A r \in Proxied : Identified(r)' => Identified(r)
      PROVE  DeadStayDead' /\ NoDeadIdentity'
  BY <1>a, <1>b, <1>c DEF DeadStayDead, NoDeadIdentity
<1>4. ASSUME NEW q \in Proxied, LookUp(q) PROVE DeadStayDead' /\ NoDeadIdentity'
  <2>1. UNCHANGED <<status, disk, stale, revoking, sent, ended, doubtful, dead>>
    BY <1>4 DEF LookUp, adminVars, historyVars
  <2>2. ASSUME NEW b \in ActiveTokens, NEW h,
               Authenticated(q, [bearer |-> b, header |-> h, preferred |-> 0])
        PROVE  DeadStayDead' /\ NoDeadIdentity'
    BY <1>3, <2>1, <2>2
  <2>3. CASE UNCHANGED auth /\ (UNCHANGED pc \/ Finish(q, "forbidden"))
    <3>1. \A r \in Proxied : pc'[r] = pc[r] \/ pc'[r] = "done"
      BY <1>0, <2>3 DEF Finish, TypeOK
    <3> QED
      BY <1>c, <2>1, <2>3, <3>1 DEF Identified, Forwarded
  <2> QED
    BY <1>0, <1>4, <2>2, <2>3, LookUpCases
<1>5. ASSUME NEW q \in Proxied, FallBack(q) PROVE DeadStayDead' /\ NoDeadIdentity'
  <2>1. /\ UNCHANGED <<status, disk, stale, revoking, sent, ended, doubtful, dead>>
        /\ req[q] \in Request
    BY <1>0, <1>5 DEF FallBack, adminVars, historyVars, TypeOK, Stages, Live
  <2>2. ASSUME NEW a \in PhantomAuths(req[q]), Authenticated(q, a)
        PROVE  DeadStayDead' /\ NoDeadIdentity'
    BY <1>3, <2>1, <2>2, PhantomAuthTyped
  <2>3. CASE UNCHANGED auth /\ \E a \in Answers : Finish(q, a)
    <3>1. \A r \in Proxied : pc'[r] = pc[r] \/ pc'[r] = "done"
      BY <1>0, <2>3 DEF Finish, TypeOK
    <3> QED
      BY <1>c, <2>1, <2>3, <3>1 DEF Identified, Forwarded
  <2> QED
    BY <1>5, <2>2, <2>3 DEF FallBack, Answers
<1>6. ASSUME NEW q \in Proxied,
             NoRoute(q) \/ Unavailable(q) \/ BadUrl(q) \/ Upstream(q) \/ Upgrade(q) \/ Drop(q)
             \/ Forward(q) \/ Tunnel(q)
      PROVE  DeadStayDead' /\ NoDeadIdentity'
  <2>1. /\ UNCHANGED <<status, disk, stale, revoking, auth, ended, doubtful, dead>>
        /\ \A r \in Proxied : Identified(r)' => Identified(r)
    BY <1>0, <1>6 DEF NoRoute, Unavailable, BadUrl, Upstream, Upgrade, Drop, Forward, Tunnel, Finish,
       adminVars, requestVars, historyVars, Identified, Forwarded, TypeOK
  <2> QED
    BY <1>c, <2>1
<1>7. CASE Restart
  <2>1. /\ UNCHANGED <<auth, doubtful, dead>>
        /\ \A r \in Proxied : Identified(r)' => Identified(r)
    BY <1>0, <1>7 DEF Restart, historyVars, Identified, Forwarded, TypeOK
  <2> QED
    BY <1>0, <1>a, <1>7, <2>1, RestartKeepsDead DEF NoDeadIdentity
<1>8. CASE UNCHANGED vars
  BY <1>c, <1>8 DEF vars, adminVars, requestVars, historyVars, Identified, Forwarded
<1> QED
  BY <1>1, <1>2, <1>4, <1>5, <1>6, <1>7, <1>8 DEF Next, Handle, Done

\* At the start no token is dead.
LEMMA InitRevocation == Init => RevocationInv
  BY InitStructure DEF Init, RevocationInv, DeadStayDead, Orderly, Marking, NoDeadIdentity,
     Identified, Forwarded

\* No request that arrives after a revocation was answered is sent upstream under the
\* revoked token, whatever other tokens it carries, however many revocations failed and
\* through any restarts: unless two revocations of the token ever overlapped or a dropped
\* request was writing a table with the token active.
THEOREM RevokedStaysOut == Spec => []RevokedNeverForwarded
<1>1. RevocationInv => RevokedNeverForwarded
  BY DEF RevocationInv, NoDeadIdentity, RevokedNeverForwarded, Identified
<1> QED
  BY <1>1, InitRevocation, StepRevocation, PTL DEF Spec

-----------------------------------------------------------------------------
(* What goes upstream                                                      *)

\* What was sent is made of the request, its identity and a credential that fits.
SentFits ==
  \A q \in Proxied : Forwarded(q) =>
    LET c == sent[q].credential IN
    /\ sent[q].headers = Outgoing(req[q], auth[q], c)
    /\ sent[q].lists = OutgoingLists(req[q], auth[q], c)
    /\ c.source \in Accepting(req[q].entry, c.value)

\* Once a request was sent, nothing changes what was sent or for whom.
LEMMA SentStays ==
  ASSUME Structure, [Next]_vars, NEW q \in Proxied, Forwarded(q)', ~Forward(q)
  PROVE  UNCHANGED <<sent[q], auth[q], req[q]>>
<1>0. TypeOK /\ Stages
  BY DEF Structure
<1>1. ASSUME NEW r \in Proxied, Forward(r) PROVE UNCHANGED <<sent[q], auth[q], req[q]>>
  BY <1>0, <1>1 DEF Forward, TypeOK
<1>2. ASSUME NEW r \in Proxied,
             (\E m \in Requests : Arrive(r, m)) \/ LookUp(r) \/ FallBack(r)
      PROVE  UNCHANGED <<sent[q], auth[q], req[q]>>
  <2>1. /\ UNCHANGED sent /\ sent[r] = None
        /\ \A p \in Proxied \ {r} : UNCHANGED <<auth[p], req[p]>>
    BY <1>0, <1>2 DEF Arrive, LookUp, FallBack, Authenticated, TypeOK, Stages
  <2> QED
    BY <2>1 DEF Forwarded
<1>3. CASE UNCHANGED <<sent, auth, req>>
  BY <1>3
<1>4. CASE Admin
  BY <1>0, <1>4, AdminEffects DEF requestVars
<1> QED
  BY <1>1, <1>2, <1>3, <1>4 DEF Next, Handle, Done, NoRoute, Unavailable, BadUrl, Upstream, Upgrade,
     Drop, Tunnel, Restart, vars, requestVars

\* What is sent fits its source when it is built, and is not changed afterwards.
LEMMA StepSent ==
  ASSUME Structure, SentFits, [Next]_vars
  PROVE  SentFits'
<1> SUFFICES ASSUME NEW q \in Proxied, Forwarded(q)'
             PROVE  LET c == sent'[q].credential IN
                    /\ sent'[q].headers = Outgoing(req'[q], auth'[q], c)
                    /\ sent'[q].lists = OutgoingLists(req'[q], auth'[q], c)
                    /\ c.source \in Accepting(req'[q].entry, c.value)
  BY DEF SentFits, Outgoing, OutgoingLists, Injected, Stripped, WithExtra, HasItem
<1>1. CASE Forward(q)
  <2>1. /\ req[q].entry \in Entries /\ BindingOf(q) \in CredNames \cup {None}
        /\ store \in Stores
    BY <1>1, BindingTyped DEF Forward, Identified, Structure, TypeOK
  <2>2. Resolved(q).source \in Accepting(req[q].entry, Resolved(q).value)
    BY <1>1, <2>1, ResolvedFits DEF Forward, Resolved, BindingOf
  <2>3. /\ sent'[q] = [credential |-> Resolved(q),
                       headers |-> Outgoing(req[q], auth[q], Resolved(q)),
                       lists |-> OutgoingLists(req[q], auth[q], Resolved(q))]
        /\ UNCHANGED <<req, auth>>
    BY <1>1 DEF Forward, Structure, TypeOK
  <2> QED
    BY <2>2, <2>3
<1>2. CASE ~Forward(q)
  <2>1. UNCHANGED <<sent[q], auth[q], req[q]>>
    BY <1>2, SentStays
  <2> QED
    BY <2>1 DEF SentFits, Forwarded
<1> QED
  BY <1>1, <1>2

UpstreamInv == Structure /\ SentFits

\* What is sent fits its source in every reachable state.
LEMMA UpstreamInductive == Spec => []UpstreamInv
<1>1. Init => UpstreamInv
  BY InitStructure DEF Init, UpstreamInv, SentFits, Forwarded
<1>2. UpstreamInv /\ [Next]_vars => UpstreamInv'
  BY StepStructure, StepSent DEF UpstreamInv
<1> QED
  BY <1>1, <1>2, PTL DEF Spec

\* The injected header is there, and what it holds.
LEMMA InjectedFits ==
  ASSUME NEW m, NEW c \in Pick
  PROVE  LET out == Injected(m, c) IN
         /\ out # None /\ out.scheme = "injected"
         /\ \/ out.parts = <<c.value>>
            \/ out.parts = <<>> /\ c.value \in Illegal
<1>1. c.value \in Values
  BY DEF Pick
<1>2. Injected(m, c) \in [scheme : {"injected"}, parts : Seq(Values)]
  BY <1>1 DEF Injected
<1> QED
  BY <1>2, GatewayAssumption DEF Injected

\* Of the headers that the sources of its route inject, a request goes out with that of the
\* chosen source, which accepts the value, and with none of the others.
THEOREM OnlyTheChosenHeader == Spec => []OneCredentialUpstream
<1>1. UpstreamInv => OneCredentialUpstream
  <2> SUFFICES ASSUME UpstreamInv, NEW q \in Proxied, Forwarded(q)
               PROVE  LET c == sent[q].credential
                          sources == Sources(req[q].entry)
                      IN  /\ c.source \in Accepting(req[q].entry, c.value)
                          /\ \A i \in DOMAIN sources :
                               LET out == sent[q].headers[sources[i].header] IN
                               IF \/ req[q].entry \in UrlEntries
                                  \/ sources[i].header # sources[c.source].header
                                 THEN out = None
                               ELSE /\ out # None /\ out.scheme = "injected"
                                    /\ \/ out.parts = <<c.value>>
                                       \/ out.parts = <<>> /\ c.value \in Illegal
    BY Zenon DEF OneCredentialUpstream
  <2> DEFINE c == sent[q].credential
             sources == Sources(req[q].entry)
  <2>1. req[q] \in Request /\ c \in Pick
    BY DEF UpstreamInv, Structure, TypeOK, Stages, Forwarded
  <2>2. c.source \in Accepting(req[q].entry, c.value) /\ sent[q].headers = Outgoing(req[q], auth[q], c)
    BY DEF UpstreamInv, SentFits
  <2>3. ASSUME NEW i \in DOMAIN sources
        PROVE  sources[i].header \in HeaderNames /\ sources[i].header \in Stripped(req[q].entry, auth[q])
    BY <2>1, SourceHeaders DEF Stripped
  <2>4. ASSUME NEW i \in DOMAIN sources,
               req[q].entry \in UrlEntries \/ sources[i].header # sources[c.source].header
        PROVE  sent[q].headers[sources[i].header] = None
    BY <2>2, <2>3, <2>4 DEF Outgoing
  <2>5. ASSUME NEW i \in DOMAIN sources,
               req[q].entry \notin UrlEntries, sources[i].header = sources[c.source].header
        PROVE  sent[q].headers[sources[i].header] = Injected(req[q], c)
    BY <2>2, <2>3, <2>5 DEF Outgoing
  <2> HIDE DEF c, sources
  <2>6. LET out == Injected(req[q], c)
        IN  /\ out # None /\ out.scheme = "injected"
            /\ \/ out.parts = <<c.value>>
               \/ out.parts = <<>> /\ c.value \in Illegal
    BY <2>1, InjectedFits
  <2>7. ASSUME NEW i \in DOMAIN sources
        PROVE  LET out == sent[q].headers[sources[i].header] IN
               IF req[q].entry \in UrlEntries \/ sources[i].header # sources[c.source].header
                 THEN out = None
               ELSE /\ out # None /\ out.scheme = "injected"
                    /\ \/ out.parts = <<c.value>>
                       \/ out.parts = <<>> /\ c.value \in Illegal
    BY <2>4, <2>5, <2>6
  <2> QED
    BY <2>2, <2>7 DEF c, sources
<1> QED
  BY <1>1, UpstreamInductive, PTL

\* What insert_extra_headers makes of a list: x is in it, nothing else is new, and of one
\* line nothing is lost.
LEMMA ItemsOfOne ==
  ASSUME NEW line
  PROVE  ItemsOf(<<line>>) = {y \in Items : HasItem(line, y)}
<1>1. DOMAIN <<line>> = {1} /\ <<line>>[1] = line
  OBVIOUS
<1> QED
  BY <1>1 DEF ItemsOf

\* What WithExtra makes of the lines of a list header.
LEMMA ExtraAdded ==
  ASSUME NEW lines \in Lines, NEW x \in Items \cup {None}
  PROVE  LET out == ItemsOf(WithExtra(lines, x)) IN
         /\ {x} \ {None} \subseteq out
         /\ out \subseteq ({x} \ {None}) \cup ItemsOf(lines)
         /\ Len(lines) <= 1 => ItemsOf(lines) \subseteq out
<1> DEFINE L == Seq(Items) \cup {None}
<1>0. lines \in Seq(L) /\ None \notin Seq(Items) /\ None \notin Items
  BY GatewayAssumption DEF Lines
<1>1. CASE x = None \/ (lines # <<>> /\ HasItem(lines[1], x))
  <2>1. WithExtra(lines, x) = lines
    BY <1>1 DEF WithExtra
  <2>2. lines # <<>> => 1 \in DOMAIN lines
    BY <1>0
  <2> QED
    BY <1>1, <2>1, <2>2 DEF ItemsOf
<1>2. CASE x # None /\ lines # <<>> /\ ~HasItem(lines[1], x) /\ lines[1] # None
  <2>1. WithExtra(lines, x) = <<Append(lines[1], x)>>
    BY <1>2 DEF WithExtra
  <2>2. 1 \in DOMAIN lines /\ lines[1] \in Seq(Items) /\ x \in Items
    BY <1>0, <1>2
  <2>3. \A y \in Items : HasItem(Append(lines[1], x), y) <=> y = x \/ HasItem(lines[1], y)
    <3>1. Append(lines[1], x) # None /\ lines[1] # None
      BY <1>0, <2>2
    <3>2. /\ Len(lines[1]) \in Nat
          /\ DOMAIN Append(lines[1], x) = 1..(Len(lines[1]) + 1)
          /\ DOMAIN lines[1] = 1..Len(lines[1])
          /\ Append(lines[1], x)[Len(lines[1]) + 1] = x
          /\ \A k \in 1..Len(lines[1]) : Append(lines[1], x)[k] = lines[1][k]
      BY <2>2
    <3> QED
      BY <3>1, <3>2 DEF HasItem
  <2>4. ItemsOf(<<Append(lines[1], x)>>) = {y \in Items : HasItem(Append(lines[1], x), y)}
    BY ItemsOfOne
  <2>5. Len(lines) <= 1 => \A k \in DOMAIN lines : k = 1
    BY <1>0
  <2> QED
    <3>1. \A y \in Items : y \in ItemsOf(WithExtra(lines, x)) <=> y = x \/ HasItem(lines[1], y)
      BY <2>1, <2>3, <2>4
    <3>2. \A y \in Items : HasItem(lines[1], y) => y \in ItemsOf(lines)
      BY <2>2 DEF ItemsOf
    <3>3. Len(lines) <= 1 => \A y \in ItemsOf(lines) : HasItem(lines[1], y)
      BY <2>5 DEF ItemsOf
    <3>4. ItemsOf(WithExtra(lines, x)) \subseteq Items /\ ItemsOf(lines) \subseteq Items
      BY DEF ItemsOf
    <3> QED
      BY <1>2, <2>2, <3>1, <3>2, <3>3, <3>4
<1>3. CASE x # None /\ (lines = <<>> \/ lines[1] = None)
  <2>1. WithExtra(lines, x) = Append(lines, <<x>>)
    BY <1>3 DEF WithExtra, HasItem
  <2>2. x \in Items /\ <<x>> \in Seq(Items) /\ <<x>> # None /\ <<x>> \in L
    <3>1. x \in Items
      BY <1>3
    <3>2. <<x>> \in Seq(Items)
      BY <3>1
    <3> QED
      BY <1>0, <3>1, <3>2
  <2>3. \A y \in Items : HasItem(<<x>>, y) <=> y = x
    <3>1. DOMAIN <<x>> = {1} /\ <<x>>[1] = x
      OBVIOUS
    <3> QED
      BY <2>2, <3>1 DEF HasItem
  <2>4. /\ DOMAIN Append(lines, <<x>>) = DOMAIN lines \cup {Len(lines) + 1}
        /\ Append(lines, <<x>>)[Len(lines) + 1] = <<x>>
        /\ \A k \in DOMAIN lines : Append(lines, <<x>>)[k] = lines[k]
    <3> HIDE DEF L
    <3> QED
      BY <1>0, <2>2
  <2>5. \A y \in Items : y \in ItemsOf(WithExtra(lines, x)) <=> y = x \/ y \in ItemsOf(lines)
    BY <2>1, <2>3, <2>4 DEF ItemsOf
  <2>6. ItemsOf(WithExtra(lines, x)) \subseteq Items /\ ItemsOf(lines) \subseteq Items
    BY DEF ItemsOf
  <2> QED
    BY <1>3, <2>2, <2>5, <2>6
<1> QED
  BY <1>1, <1>2, <1>3

\* The list headers go out with what the chosen source adds, whatever the client sent.
THEOREM ExtrasGoWithCredential == Spec => []ExtraFitsCredential
<1>1. UpstreamInv => ExtraFitsCredential
  <2> SUFFICES ASSUME UpstreamInv, NEW q \in Proxied, Forwarded(q), req[q].entry \notin UrlEntries
               PROVE  \E i \in Accepting(req[q].entry, sent[q].credential.value) :
                        /\ sent[q].headers[Sources(req[q].entry)[i].header] # None
                        /\ \A n \in ListNames :
                             LET client == req[q].lists[n]
                                 extra == {InjectOf[req[q].entry][i].extra[n]} \ {None}
                                 out == ItemsOf(sent[q].lists[n])
                             IN  /\ extra \subseteq out /\ out \subseteq extra \cup ItemsOf(client)
                                 /\ Len(client) <= 1 => ItemsOf(client) \subseteq out
    BY DEF ExtraFitsCredential
  <2> DEFINE e == req[q].entry
             c == sent[q].credential
  <2>1. req[q] \in Request /\ e \in Entries /\ e # None /\ Sources(e) = SourcesOf[e]
    BY CredentialsAssumption DEF UpstreamInv, Structure, TypeOK, Stages, Request, Sources
  <2>2. /\ sent[q].headers = Outgoing(req[q], auth[q], c)
        /\ sent[q].lists = OutgoingLists(req[q], auth[q], c)
        /\ c.source \in Accepting(e, c.value)
        /\ c \in Pick
    BY DEF UpstreamInv, SentFits, Structure, TypeOK, Forwarded
  <2>3. c.source \in DOMAIN SourcesOf[e] /\ Sources(e)[c.source].header \in HeaderNames
    BY <2>1, <2>2, SourcesTyped DEF Accepting, Source
  <2>4. Injected(req[q], c) # None
    BY <2>2, InjectedFits
  <2>5. sent[q].headers[Sources(e)[c.source].header] # None
    BY <2>2, <2>3, <2>4 DEF Outgoing
  <2>6. ASSUME NEW n \in ListNames
        PROVE  /\ req[q].lists[n] \in Lines
               /\ InjectOf[e][c.source].extra[n] \in Items \cup {None}
               /\ sent[q].lists[n] = WithExtra(req[q].lists[n], InjectOf[e][c.source].extra[n])
    <3> DEFINE I == [basic : BOOLEAN, extra : [ListNames -> Items \cup {None}]]
    <3>1. InjectOf[e] \in Seq(I) /\ c.source \in DOMAIN InjectOf[e]
      BY <2>1, <2>3, GatewayAssumption
    <3>2. \A i \in I : i.extra[n] \in Items \cup {None}
      BY <2>6
    <3>3. InjectOf[e][c.source].extra[n] \in Items \cup {None}
      <4> HIDE DEF I
      <4>1. InjectOf[e][c.source] \in I
        BY <3>1
      <4> QED
        BY <3>2, <4>1
    <3> QED
      BY <2>1, <2>2, <2>6, <3>3 DEF Request, OutgoingLists
  <2> DEFINE Fits(i, n) ==
        LET client == req[q].lists[n]
            extra == {InjectOf[e][i].extra[n]} \ {None}
            out == ItemsOf(sent[q].lists[n])
        IN  /\ extra \subseteq out /\ out \subseteq extra \cup ItemsOf(client)
            /\ Len(client) <= 1 => ItemsOf(client) \subseteq out
  <2>7. \A n \in ListNames : Fits(c.source, n)
    <3> SUFFICES ASSUME NEW n \in ListNames PROVE Fits(c.source, n)
      OBVIOUS
    <3>1. PICK lines \in Lines, x \in Items \cup {None} :
             /\ lines = req[q].lists[n] /\ x = InjectOf[e][c.source].extra[n]
             /\ sent[q].lists[n] = WithExtra(lines, x)
      BY <2>6
    <3>2. /\ {x} \ {None} \subseteq ItemsOf(WithExtra(lines, x))
          /\ ItemsOf(WithExtra(lines, x)) \subseteq ({x} \ {None}) \cup ItemsOf(lines)
          /\ Len(lines) <= 1 => ItemsOf(lines) \subseteq ItemsOf(WithExtra(lines, x))
      BY ExtraAdded
    <3> QED
      BY <3>1, <3>2
  <2> HIDE DEF Fits
  <2>8. \E i \in Accepting(e, c.value) :
          sent[q].headers[Sources(e)[i].header] # None /\ \A n \in ListNames : Fits(i, n)
    BY <2>2, <2>5, <2>7
  <2> QED
    BY <2>8 DEF Fits
<1> QED
  BY <1>1, UpstreamInductive, PTL

-----------------------------------------------------------------------------
(* Tokens that stay active                                                 *)

Unanswered == \A q \in Proxied : pc[q] # "done" => answer[q] = None

\* A request that has not arrived has looked nothing up.
Untried == \A q \in Proxied : pc[q] = "idle" => tried[q] = {}

SteadyActive == \A q \in Proxied : Live(q) => steady[q] \subseteq ActiveTokens

\* What a look-up found to be no valid token has not been active ever since.
TriedNotSteady ==
  \A q \in Proxied : pc[q] = "auth" =>
    \A c \in Candidates(req[q]) \cap tried[q] : BearerOf(req[q], c) \notin steady[q]

SteadyInv ==
  Structure /\ Unanswered /\ Untried /\ SteadyActive /\ TriedNotSteady /\ SteadyTokenServed

\* Wherever a request may carry a token, it is looked for there.
LEMMA NamedIsCandidate ==
  ASSUME NEW m \in Request, NEW t \in Named(m)
  PROVE  \E c \in Candidates(m) : BearerOf(m, c) = t
<1>1. PICK n \in HeaderNames :
        /\ m.headers[n] # None
        /\ \E k \in DOMAIN m.headers[n].parts : m.headers[n].parts[k] = t
        /\ \/ \E i \in DOMAIN Sources(m.entry) : Sources(m.entry)[i].header = n
           \/ n \in {"authorization", "proxy-authorization"} /\ m.headers[n].scheme # "raw"
  BY DEF Named
<1>2. PICK k \in DOMAIN m.headers[n].parts : m.headers[n].parts[k] = t
  BY <1>1
<1>3. PICK i \in DOMAIN Places(m) :
        Places(m)[i].header = n /\ (m.headers[n].scheme = "raw" => Places(m)[i].raw)
  <2>1. CASE \E j \in DOMAIN Sources(m.entry) : Sources(m.entry)[j].header = n
    <3>1. PICK j \in DOMAIN Sources(m.entry) : Sources(m.entry)[j].header = n
      BY <2>1
    <3>2. j \in DOMAIN Places(m) /\ Places(m)[j] = [header |-> n, raw |-> TRUE]
      BY <3>1, PlacesOfRequest
    <3> QED
      BY <3>2
  <2>2. CASE n \in {"authorization", "proxy-authorization"} /\ m.headers[n].scheme # "raw"
    BY <2>2, PlacesOfRequest
  <2> QED
    BY <1>1, <2>1, <2>2
<1>4. FromHeader(m, Places(m)[i]) = m.headers[n].parts
  BY <1>1, <1>3 DEF FromHeader
<1>5. <<i, k>> \in Candidates(m)
  BY <1>2, <1>4 DEF Candidates
<1>6. BearerOf(m, <<i, k>>) = t
  BY <1>2, <1>4 DEF BearerOf
<1> QED
  BY <1>5, <1>6

\* A step that leaves the requests alone, and takes from what was active ever since at least
\* what it makes inactive.
LEMMA SteadyKept ==
  ASSUME SteadyInv, Structure',
         UNCHANGED <<req, tried>>,
         \A q \in Proxied : steady'[q] \subseteq steady[q],
         \A q \in Proxied : Live(q)' => Live(q) /\ steady'[q] \subseteq ActiveTokens',
         \A q \in Proxied : pc'[q] = pc[q] \/ (pc[q] # "done" /\ pc'[q] \in {"resolve", "sent", "done"}),
         \A q \in Proxied : answer'[q] = answer[q]
                              \/ (pc'[q] = "done" /\ answer'[q] \notin {"denied", "challenge"})
  PROVE  SteadyInv'
<1>1. Unanswered' /\ Untried' /\ SteadyActive'
  BY DEF SteadyInv, Unanswered, Untried, SteadyActive
<1>2. TriedNotSteady'
  <2> SUFFICES ASSUME NEW q \in Proxied, pc'[q] = "auth",
                      NEW c \in Candidates(req[q]) \cap tried[q]
               PROVE  BearerOf(req[q], c) \notin steady'[q]
    BY DEF TriedNotSteady
  <2> QED
    BY DEF SteadyInv, TriedNotSteady
<1>3. SteadyTokenServed'
  <2> SUFFICES ASSUME NEW q \in Proxied, answer'[q] \in {"denied", "challenge"}
               PROVE  Named(req[q]) \cap steady'[q] = {}
    BY DEF SteadyTokenServed
  <2>1. answer[q] \in {"denied", "challenge"}
    OBVIOUS
  <2> QED
    BY <2>1 DEF SteadyInv, SteadyTokenServed
<1> QED
  BY <1>1, <1>2, <1>3 DEF SteadyInv

\* The administrators take tokens out of the steady ones, and put none in.
LEMMA AdminSteady == SteadyInv /\ Admin /\ UNCHANGED tunnelVars => SteadyInv'
<1> SUFFICES ASSUME SteadyInv, Admin, UNCHANGED tunnelVars PROVE SteadyInv'
  OBVIOUS
<1>0. Structure' /\ TypeOK /\ SteadyActive
  BY AdminStructure DEF SteadyInv, Structure
<1>1. UNCHANGED requestVars
  BY <1>0, AdminEffects
<1>2. \/ UNCHANGED steady /\ ActiveTokens \subseteq ActiveTokens'
      \/ \E st : Observe(st, ActiveTokens')
  <2>1. ASSUME NEW t \in Tokens, CreateFails(t) \/ \E d \in Deletes : MarkToken(d, t)
        PROVE  Observe(store, ActiveTokens')
    BY <2>1 DEF CreateFails, MarkToken, RevokeFails
  <2>2. ASSUME NEW t \in Tokens,
               (\E g \in Grants : CheckToken(t, g)) \/ PushToken(t) \/ CreateToken(t) \/ DropCreate(t)
        PROVE  UNCHANGED steady /\ ActiveTokens \subseteq ActiveTokens'
    BY <1>0, <2>2 DEF CheckToken, PushToken, CreateToken, DropCreate, ActiveTokens, TypeOK, Table,
       historyVars
  <2>3. ASSUME NEW d \in Deletes, RevokeToken(d) \/ DropRevoke(d)
        PROVE  UNCHANGED steady /\ ActiveTokens \subseteq ActiveTokens'
    BY <2>3 DEF RevokeToken, DropRevoke, ActiveTokens
  <2>4. ASSUME NEW d \in Deletes, RevokeFails(d) PROVE Observe(store, ActiveTokens')
    BY <2>4 DEF RevokeFails
  <2>5. ASSUME NEW n \in CredNames,
               (\E service \in Routes, v \in Values : RegisterCred(n, service, v)) \/ DeleteCred(n)
        PROVE  Observe(store', ActiveTokens')
    BY <2>5 DEF RegisterCred, DeleteCred, tableVars, ActiveTokens
  <2> QED
    BY <2>1, <2>2, <2>3, <2>4, <2>5 DEF Admin
<1>3. \A q \in Proxied : steady'[q] \subseteq steady[q]
                           /\ (Live(q) => steady'[q] \subseteq ActiveTokens')
  BY <1>0, <1>2 DEF Observe, SteadyActive
<1> QED
  BY <1>0, <1>1, <1>3, SteadyKept DEF requestVars, Live

\* Arriving and looking up keep the steady tokens served.
LEMMA RequestSteady ==
  ASSUME SteadyInv, Structure', NEW q \in Proxied,
         (\E m \in Requests : Arrive(q, m)) \/ LookUp(q) \/ FallBack(q)
  PROVE  SteadyInv'
<1>0. /\ TypeOK /\ Stages /\ Structure /\ Unanswered /\ Untried /\ SteadyActive
      /\ TriedNotSteady /\ SteadyTokenServed
  BY DEF SteadyInv, Structure
<1>1. UNCHANGED <<store, status, ended>> /\ ActiveTokens' = ActiveTokens
  BY DEF Arrive, LookUp, FallBack, adminVars, historyVars, ActiveTokens
<1>2. ASSUME NEW m \in Requests, Arrive(q, m) PROVE SteadyInv'
  <2>1. /\ pc[q] = "idle" /\ pc' = [pc EXCEPT ![q] = "auth"] /\ UNCHANGED <<tried, answer>>
        /\ steady' = [steady EXCEPT ![q] = ActiveTokens] /\ req' = [req EXCEPT ![q] = m]
    BY <1>2 DEF Arrive
  <2>2. tried[q] = {} /\ answer[q] = None
    BY <1>0, <2>1 DEF Untried, Unanswered
  <2>3. Unanswered' /\ Untried' /\ SteadyActive'
    BY <1>0, <1>1, <2>1 DEF Unanswered, Untried, SteadyActive, Live, TypeOK
  <2>4. \A r \in Proxied \ {q} : pc'[r] = pc[r] /\ req'[r] = req[r] /\ steady'[r] = steady[r]
    BY <1>0, <2>1 DEF TypeOK
  <2>5. TriedNotSteady'
    <3> SUFFICES ASSUME NEW r \in Proxied, pc'[r] = "auth", NEW c \in tried[r],
                        c \in Candidates(req'[r])
                 PROVE  BearerOf(req'[r], c) \notin steady'[r]
      BY <2>1 DEF TriedNotSteady
    <3> QED
      BY <1>0, <2>2, <2>4 DEF TriedNotSteady
  <2>6. SteadyTokenServed'
    <3> SUFFICES ASSUME NEW r \in Proxied, answer[r] \in {"denied", "challenge"}
                 PROVE  Named(req'[r]) \cap steady'[r] = {}
      BY <2>1 DEF SteadyTokenServed
    <3>1. r # q
      BY <2>2, AnswersAssumption DEF Answers
    <3> QED
      BY <1>0, <2>4, <3>1 DEF SteadyTokenServed
  <2> QED
    BY <2>3, <2>5, <2>6 DEF SteadyInv
<1>3. CASE LookUp(q)
  <2>1. /\ pc[q] = "auth" /\ UNCHANGED <<req, steady>>
        /\ \E c \in Candidates(req[q]) :
             \/ /\ BearerOf(req[q], c) \notin ActiveTokens
                /\ tried' = [tried EXCEPT ![q] = @ \cup {c}] /\ UNCHANGED <<pc, answer>>
             \/ /\ pc' = [pc EXCEPT ![q] = "resolve"] /\ UNCHANGED <<tried, answer>>
             \/ UNCHANGED tried /\ Finish(q, "forbidden")
    BY <1>0, <1>3, LookUpCases DEF historyVars, Authenticated
  <2>2. ASSUME NEW c \in Candidates(req[q]), BearerOf(req[q], c) \notin ActiveTokens,
               tried' = [tried EXCEPT ![q] = @ \cup {c}], UNCHANGED <<pc, answer>>
        PROVE  SteadyInv'
    <3>1. Unanswered' /\ Untried' /\ SteadyActive'
      BY <1>0, <1>1, <2>1, <2>2 DEF Unanswered, Untried, SteadyActive, Live, TypeOK
    <3>2. BearerOf(req[q], c) \notin steady[q]
      BY <1>0, <2>1, <2>2 DEF SteadyActive, Live
    <3>3. TriedNotSteady'
      <4> SUFFICES ASSUME NEW r \in Proxied, pc[r] = "auth",
                          NEW d \in Candidates(req[r]) \cap tried'[r]
                   PROVE  BearerOf(req[r], d) \notin steady[r]
        BY <2>1, <2>2 DEF TriedNotSteady
      <4> QED
        BY <1>0, <2>2, <3>2 DEF TriedNotSteady, TypeOK
    <3>4. SteadyTokenServed'
      BY <1>0, <2>1, <2>2 DEF SteadyTokenServed
    <3> QED
      BY <3>1, <3>3, <3>4 DEF SteadyInv
  <2>3. CASE pc' = [pc EXCEPT ![q] = "resolve"] /\ UNCHANGED <<tried, answer>>
    BY <1>0, <1>1, <2>1, <2>3, SteadyKept DEF Live, TypeOK, SteadyActive
  <2>4. CASE UNCHANGED tried /\ Finish(q, "forbidden")
    BY <1>0, <1>1, <2>1, <2>4, SteadyKept DEF Finish, Live, TypeOK, SteadyActive
  <2> QED
    BY <2>1, <2>2, <2>3, <2>4
<1>4. CASE FallBack(q)
  <2>1. /\ pc[q] = "auth" /\ UNCHANGED <<req, steady, tried>> /\ req[q] \in Request
        /\ Candidates(req[q]) \subseteq tried[q]
    BY <1>0, <1>4 DEF FallBack, historyVars, Stages, TypeOK, Live
  <2>2. CASE pc' = [pc EXCEPT ![q] = "resolve"] /\ UNCHANGED answer
    BY <1>0, <1>1, <2>1, <2>2, SteadyKept DEF Live, TypeOK, SteadyActive
  <2>3. ASSUME NEW a, Finish(q, a) PROVE SteadyInv'
    <3>1. Named(req[q]) \cap steady[q] = {}
      BY <1>0, <2>1, NamedIsCandidate DEF TriedNotSteady
    <3>2. Unanswered' /\ Untried' /\ SteadyActive'
      BY <1>0, <1>1, <2>1, <2>3 DEF Finish, Unanswered, Untried, SteadyActive, Live, TypeOK
    <3>3. TriedNotSteady'
      BY <1>0, <2>1, <2>3
         DEF Finish, TriedNotSteady, TypeOK
    <3>4. SteadyTokenServed'
      BY <1>0, <2>1, <2>3, <3>1 DEF Finish, SteadyTokenServed, TypeOK
    <3> QED
      BY <3>2, <3>3, <3>4 DEF SteadyInv
  <2> QED
    BY <1>4, <2>2, <2>3 DEF FallBack, Authenticated
<1> QED
  BY <1>2, <1>3, <1>4

\* Every step keeps the steady tokens served.
LEMMA StepSteady == SteadyInv /\ [Next]_vars => SteadyInv'
<1> SUFFICES ASSUME SteadyInv, [Next]_vars PROVE SteadyInv'
  OBVIOUS
<1>0. Structure' /\ TypeOK /\ SteadyActive
  BY StepStructure DEF SteadyInv, Structure
<1>1. ASSUME NEW q \in Proxied,
             NoRoute(q) \/ Unavailable(q) \/ BadUrl(q) \/ Forward(q) \/ Upstream(q) \/ Upgrade(q)
               \/ Drop(q)
      PROVE  SteadyInv'
  <2>1. /\ UNCHANGED <<req, tried, steady, status>> /\ Live(q)
        /\ \/ \E a \in Answers \ {"denied", "challenge"} : Finish(q, a)
           \/ pc' = [pc EXCEPT ![q] = "sent"] /\ UNCHANGED answer
    BY <1>1 DEF NoRoute, Unavailable, BadUrl, Forward, Upstream, Upgrade, Drop, Live, Answers,
       adminVars, historyVars
  <2> QED
    BY <1>0, <2>1, SteadyKept DEF Finish, Live, TypeOK, SteadyActive, ActiveTokens
<1>2. ASSUME NEW q \in Proxied, Tunnel(q) PROVE SteadyInv'
  BY <1>0, <1>2, SteadyKept
     DEF Tunnel, adminVars, requestVars, historyVars, Live, SteadyActive, ActiveTokens
<1>3. CASE Restart
  BY <1>0, <1>3, SteadyKept DEF Restart, historyVars, Live, TypeOK
<1>4. CASE UNCHANGED vars
  BY <1>0, <1>4, SteadyKept
     DEF vars, adminVars, requestVars, historyVars, Live, SteadyActive, ActiveTokens
<1> QED
  BY <1>0, <1>1, <1>2, <1>3, <1>4, AdminSteady, RequestSteady DEF Next, Handle, Done

\* At the start nothing was answered.
LEMMA InitSteady == Init => SteadyInv
  BY InitStructure DEF Init, SteadyInv, Unanswered, Untried, SteadyActive, TriedNotSteady,
     SteadyTokenServed, Live

\* A request with a token that is active from its arrival to its answer is never turned
\* away as unauthenticated, wherever it carries the token and whatever else it carries.
THEOREM SteadyTokensServed == Spec => []SteadyTokenServed
<1>1. SteadyInv => SteadyTokenServed
  BY DEF SteadyInv
<1> QED
  BY <1>1, InitSteady, StepSteady, PTL DEF Spec

-----------------------------------------------------------------------------
(* Which token decides                                                     *)

\* A request that is not past authentication has no identity.
Undecided == \A q \in Proxied : pc[q] \in {"idle", "auth"} => auth[q] = None

DecidesInv == SteadyInv /\ Undecided /\ FirstInForceDecides

\* Steps that give nobody an identity leave it to the tokens that were first.
LEMMA DecidesKept ==
  ASSUME DecidesInv,
         \A q \in Proxied : auth'[q] # None =>
           UNCHANGED <<auth[q], req[q]>> /\ steady'[q] \subseteq steady[q]
  PROVE  FirstInForceDecides'
<1> SUFFICES ASSUME NEW q \in Proxied, auth'[q] # None,
                    NEW c \in Candidates(req'[q]), BearerOf(req'[q], c) \in steady'[q]
             PROVE  \E d \in Candidates(req'[q]) :
                      /\ BearerOf(req'[q], d) = auth'[q].bearer
                      /\ HeaderOf(req'[q], d) = auth'[q].header
                      /\ d[1] < c[1] \/ (d[1] = c[1] /\ d[2] <= c[2])
  BY DEF FirstInForceDecides
<1>1. auth'[q] = auth[q] /\ req'[q] = req[q] /\ steady'[q] \subseteq steady[q]
  OBVIOUS
<1> QED
  BY <1>1 DEF DecidesInv, FirstInForceDecides

\* A look-up that finds a valid token finds the first that may be active.
LEMMA LookUpDecides ==
  ASSUME DecidesInv, NEW q \in Proxied, LookUp(q)
  PROVE  FirstInForceDecides'
<1>0. TypeOK /\ TriedNotSteady /\ Undecided /\ FirstInForceDecides
  BY DEF DecidesInv, SteadyInv, Structure
<1>1. pc[q] = "auth" /\ auth[q] = None /\ UNCHANGED <<req, steady>>
  BY <1>0 DEF LookUp, Undecided, historyVars
<1>2. CASE UNCHANGED auth
  BY <1>1, <1>2, DecidesKept
<1>3. ASSUME NEW c \in Foremost(Candidates(req[q]) \ tried[q]),
             Authenticated(q, [bearer |-> BearerOf(req[q], c), header |-> HeaderOf(req[q], c),
                               preferred |-> 0])
      PROVE  FirstInForceDecides'
  <2>1. /\ auth'[q].bearer = BearerOf(req[q], c) /\ auth'[q].header = HeaderOf(req[q], c)
        /\ \A r \in Proxied \ {q} : auth'[r] = auth[r]
    BY <1>0, <1>3 DEF Authenticated, TypeOK
  <2>2. c \in Candidates(req[q])
    BY DEF Foremost
  <2>3. ASSUME NEW e \in Candidates(req[q]), BearerOf(req[q], e) \in steady[q]
        PROVE  c[1] < e[1] \/ (c[1] = e[1] /\ c[2] <= e[2])
    <3>1. e \notin tried[q]
      BY <1>0, <1>1, <2>3 DEF TriedNotSteady
    <3> QED
      BY <3>1 DEF Foremost
  <2>4. ASSUME NEW r \in Proxied, auth'[r] # None,
               NEW e \in Candidates(req[r]), BearerOf(req[r], e) \in steady[r]
        PROVE  \E d \in Candidates(req[r]) :
                 /\ BearerOf(req[r], d) = auth'[r].bearer
                 /\ HeaderOf(req[r], d) = auth'[r].header
                 /\ d[1] < e[1] \/ (d[1] = e[1] /\ d[2] <= e[2])
    <3>1. CASE r = q
      BY <2>1, <2>2, <2>3, <2>4, <3>1
    <3>2. CASE r # q
      BY <1>0, <2>1, <2>4, <3>2 DEF FirstInForceDecides
    <3> QED
      BY <3>1, <3>2
  <2> QED
    BY <1>1, <2>4 DEF FirstInForceDecides
<1> QED
  BY <1>2, <1>3 DEF LookUp

\* The phantom token decides when no token that the request names was active all along.
LEMMA FallBackDecides ==
  ASSUME DecidesInv, NEW q \in Proxied, FallBack(q)
  PROVE  FirstInForceDecides'
<1>0. TypeOK /\ TriedNotSteady /\ FirstInForceDecides
  BY DEF DecidesInv, SteadyInv, Structure
<1>1. /\ pc[q] = "auth" /\ UNCHANGED <<req, steady>>
      /\ Candidates(req[q]) \subseteq tried[q]
      /\ \A r \in Proxied \ {q} : auth'[r] = auth[r]
  BY <1>0 DEF FallBack, Authenticated, historyVars, TypeOK
<1>2. \A c \in Candidates(req[q]) : BearerOf(req[q], c) \notin steady[q]
  BY <1>0, <1>1 DEF TriedNotSteady
<1>3. ASSUME NEW r \in Proxied, auth'[r] # None,
             NEW e \in Candidates(req[r]), BearerOf(req[r], e) \in steady[r]
      PROVE  \E d \in Candidates(req[r]) :
               /\ BearerOf(req[r], d) = auth'[r].bearer
               /\ HeaderOf(req[r], d) = auth'[r].header
               /\ d[1] < e[1] \/ (d[1] = e[1] /\ d[2] <= e[2])
  <2>1. r # q
    BY <1>2, <1>3
  <2> QED
    BY <1>0, <1>1, <1>3, <2>1 DEF FirstInForceDecides
<1> QED
  BY <1>1, <1>3 DEF FirstInForceDecides

\* Every step leaves the decision to the first token in force.
LEMMA StepDecides == DecidesInv /\ [Next]_vars => DecidesInv'
<1> SUFFICES ASSUME DecidesInv, [Next]_vars PROVE DecidesInv'
  OBVIOUS
<1>0. SteadyInv' /\ TypeOK /\ Undecided
  BY StepSteady DEF DecidesInv, SteadyInv, Structure
<1>1. ASSUME UNCHANGED <<auth, req>>, \A q \in Proxied : steady'[q] \subseteq steady[q],
             \A q \in Proxied : pc'[q] \in {"idle", "auth"} => pc[q] \in {"idle", "auth"}
      PROVE  DecidesInv'
  BY <1>0, <1>1, DecidesKept DEF DecidesInv, Undecided
<1>2. CASE Admin
  <2>1. UNCHANGED <<pc, auth, req>>
    BY <1>0, <1>2, AdminEffects DEF requestVars
  <2>2. \A q \in Proxied : steady'[q] \subseteq steady[q]
    BY <1>0, <1>2 DEF Admin, RegisterCred, DeleteCred, CheckToken, PushToken, CreateToken,
       CreateFails, DropCreate, MarkToken, RevokeToken, RevokeFails, DropRevoke, historyVars,
       Observe, TypeOK
  <2> QED
    BY <1>1, <2>1, <2>2
<1>3. ASSUME NEW q \in Proxied, NEW m \in Requests, Arrive(q, m) PROVE DecidesInv'
  <2>1. /\ pc[q] = "idle" /\ auth[q] = None /\ UNCHANGED auth
        /\ \A r \in Proxied \ {q} : UNCHANGED <<pc[r], req[r], steady[r]>>
    BY <1>0, <1>3 DEF Arrive, Undecided, TypeOK
  <2>2. Undecided'
    BY <1>0, <2>1 DEF Undecided
  <2> QED
    BY <1>0, <2>1, <2>2, DecidesKept DEF DecidesInv
<1>4. ASSUME NEW q \in Proxied, LookUp(q) \/ FallBack(q) PROVE DecidesInv'
  <2>1. Undecided'
    BY <1>0, <1>4 DEF LookUp, FallBack, Authenticated, Finish, Undecided, TypeOK
  <2> QED
    BY <1>0, <1>4, <2>1, LookUpDecides, FallBackDecides DEF DecidesInv
<1>5. ASSUME NEW q \in Proxied,
             NoRoute(q) \/ Unavailable(q) \/ BadUrl(q) \/ Upstream(q) \/ Upgrade(q) \/ Drop(q)
             \/ Forward(q) \/ Tunnel(q)
      PROVE  DecidesInv'
  <2>1. /\ UNCHANGED <<auth, req, steady>>
        /\ \A r \in Proxied : pc'[r] = pc[r] \/ pc'[r] \in {"sent", "done"}
    BY <1>0, <1>5 DEF NoRoute, Unavailable, BadUrl, Upstream, Upgrade, Drop, Forward, Tunnel, Finish,
       requestVars, historyVars, TypeOK
  <2> QED
    BY <1>1, <2>1
<1>6. CASE Restart \/ UNCHANGED vars
  <2>1. /\ UNCHANGED <<auth, req, steady>>
        /\ \A r \in Proxied : pc'[r] = pc[r] \/ pc'[r] = "done"
    BY <1>0, <1>6 DEF Restart, vars, requestVars, historyVars, TypeOK
  <2> QED
    BY <1>1, <2>1
<1> QED
  BY <1>2, <1>3, <1>4, <1>5, <1>6 DEF Next, Handle, Done

\* At the start nobody has an identity.
LEMMA InitDecides == Init => DecidesInv
  BY InitSteady DEF Init, DecidesInv, Undecided, FirstInForceDecides

\* Neither a token further back in a request nor the phantom token speaks for it while one
\* before it is active all along, whatever is created, revoked or restarted between the
\* look-ups.
THEOREM FirstTokenDecides == Spec => []FirstInForceDecides
<1>1. DecidesInv => FirstInForceDecides
  BY DEF DecidesInv
<1> QED
  BY <1>1, InitDecides, StepDecides, PTL DEF Spec

-----------------------------------------------------------------------------
(* Tunnels                                                                 *)

\* No change of the table or the store cuts a tunnel.
THEOREM TunnelsOutliveTokens == Spec => TunnelUntilHangUp
<1>1. TypeOK /\ [Next]_vars =>
        [\A q \in Proxied : tunnel[q] = "open" /\ tunnel'[q] = "over" =>
           open'[q] = {} \/ budget'["restart"] < budget["restart"]]_vars
  <2> SUFFICES ASSUME TypeOK, Next, NEW q \in Proxied, tunnel[q] = "open", tunnel'[q] = "over"
               PROVE  open'[q] = {} \/ budget'["restart"] < budget["restart"]
    BY DEF vars
  <2>1. ASSUME NEW r \in Proxied, Tunnel(r) PROVE open'[q] = {}
    BY <2>1 DEF Tunnel, Relay, Join, JoinFails, Copied, Break, HangUp, TypeOK
  <2>2. ASSUME NEW r \in Proxied, Upgrade(r) PROVE FALSE
    BY <2>2 DEF Upgrade, TypeOK
  <2>3. CASE Restart
    BY <2>3 DEF Restart, Spend, TypeOK
  <2> QED
    BY <2>1, <2>2, <2>3 DEF Next, Done, vars, tunnelVars
<1> QED
  BY <1>1, TypeCorrect, PTL DEF Spec, TunnelUntilHangUp
=============================================================================
