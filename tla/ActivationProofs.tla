-------------------------- MODULE ActivationProofs --------------------------
(***************************************************************************)
(* The theorems about gate activate and its git helper (Activation), for   *)
(* any adapters, arguments, configs and number of activations.             *)
(***************************************************************************)
EXTENDS Activation, NumberLemmas, TLAPS

-----------------------------------------------------------------------------
(* Concatenations                                                          *)

\* A concatenation is in every set that the empty and the concatenated sequences are in
\* and that is closed under \o.
LEMMA Concatenation ==
  ASSUME NEW T, <<>> \in T, \A s, t \in T : s \o t \in T, NEW ss \in Seq(T)
  PROVE  FlattenSeq(ss) \in T
<1> SUFFICES ASSUME Len(ss) # 0 PROVE FlattenSeq(ss) \in T
  BY DEF FlattenSeq
<1> DEFINE n == Len(ss)
           Link(f, i) == IF i = 1 THEN ss[i] ELSE f[i - 1] \o ss[i]
           IsFlat(f, m) == f = [i \in 1..m |-> Link(f, i)]
           flat == CHOOSE f : IsFlat(f, n)
<1>1. FlattenSeq(ss) = flat[n]
  BY DEF FlattenSeq
<1>2. n \in Nat /\ n >= 1 /\ \A i \in 1..n : ss[i] \in T
  OBVIOUS
<1>3. \E f : IsFlat(f, n)
  <2> DEFINE S == {m \in Nat : \E f : IsFlat(f, m)}
  <2>1. 0 \in S
    <3>1. 1..0 = {}
      OBVIOUS
    <3>2. [i \in {} |-> 0] = [i \in {} |-> Link([j \in {} |-> 0], i)]
      OBVIOUS
    <3> QED BY <3>1, <3>2
  <2>2. ASSUME NEW m \in Nat, m \in S PROVE m + 1 \in S
    <3>1. PICK f : IsFlat(f, m)
      BY <2>2
    <3>2. PICK g : g = [i \in 1..m + 1 |-> Link(f, i)]
      OBVIOUS
    <3>3. ASSUME NEW i \in 1..m + 1, i # 1 PROVE g[i - 1] = f[i - 1]
      <4>1. i - 1 \in 1..m /\ i - 1 \in 1..m + 1
        BY <3>3
      <4>2. g[i - 1] = Link(f, i - 1) /\ f[i - 1] = Link(f, i - 1)
        BY <3>1, <3>2, <4>1
      <4> QED BY <4>2
    <3>4. IsFlat(g, m + 1)
      BY <3>2, <3>3
    <3>5. \E h : IsFlat(h, m + 1)
      BY <3>4, Zenon
    <3>6. m + 1 \in Nat
      OBVIOUS
    <3> QED BY <3>5, <3>6, Zenon
  <2> QED BY <2>1, <2>2, <1>2, Induction
<1>4. IsFlat(flat, n)
  BY <1>3
<1>5. n \in {m \in Nat : m \in 1..n => flat[m] \in T}
  <2> DEFINE S == {m \in Nat : m \in 1..n => flat[m] \in T}
  <2> HIDE DEF flat
  <2>1. 0 \in S
    OBVIOUS
  <2>2. ASSUME NEW m \in Nat, m \in S PROVE m + 1 \in S
    <3> SUFFICES ASSUME m + 1 \in 1..n PROVE flat[m + 1] \in T
      OBVIOUS
    <3>1. flat[m + 1] = Link(flat, m + 1)
      BY <1>4
    <3>2. CASE m = 0
      BY <3>1, <3>2, <1>2
    <3>3. CASE m # 0
      <4>1. flat[m] \in T /\ ss[m + 1] \in T
        BY <2>2, <3>3, <1>2
      <4>2. m + 1 # 1 /\ (m + 1) - 1 = m
        BY <3>3
      <4>3. flat[m + 1] = flat[m] \o ss[m + 1]
        BY <3>1, <4>2
      <4> QED BY <4>1, <4>3
    <3> QED BY <3>2, <3>3
  <2> QED BY <2>1, <2>2, <1>2, Induction
<1> QED BY <1>1, <1>2, <1>5

-----------------------------------------------------------------------------
(* What a plan is made of                                                  *)

IsSequence(s) == \E S : s \in Seq(S)

\* The gitconfig of a tool, and the texts it may have.
IsGitconfig(path) == <<"text", "gitconfig">> \in Range(path)

GitconfigTexts == {<<<<"gateway_url", u>>, <<"token_name", n>>>> : u \in Url, n \in Names}

\* Nothing refers to a route that is not granted; what is written to a gitconfig is one; and
\* where git is told of a gitconfig, github is granted and the file was written just before.
PlanSound(c, v, plan) ==
  /\ IsSequence(plan)
  /\ \A i \in DOMAIN plan :
       /\ plan[i] # Fail => RoutesIn(plan[i].text) \subseteq Granted(c, v)
       /\ plan[i].do = "write" /\ IsGitconfig(plan[i].path) => plan[i].text \in GitconfigTexts
       /\ plan[i].do = "export" /\ plan[i].key = "GIT_CONFIG_GLOBAL" =>
            /\ Github \in Granted(c, v)
            /\ i - 1 \in DOMAIN plan
            /\ plan[i - 1].do = "write" /\ IsGitconfig(plan[i - 1].path)
            /\ plan[i].text = <<<<"file", plan[i - 1].path>>>>

\* A sequence is one of its own elements, and of any that have them.
LEMMA SequenceOf ==
  ASSUME NEW s, IsSequence(s), NEW S, Range(s) \subseteq S
  PROVE  s \in Seq(S)
<1>1. PICK T : s \in Seq(T)
  BY DEF IsSequence
<1>2. \A i \in 1..Len(s) : s[i] \in S
  BY <1>1 DEF Range
<1> QED BY <1>1, <1>2

\* Sound plans one after the other are one.
LEMMA SoundTwo ==
  ASSUME NEW c, NEW v, NEW p, NEW q, PlanSound(c, v, p), PlanSound(c, v, q)
  PROVE  PlanSound(c, v, p \o q)
<1> DEFINE U == Range(p) \cup Range(q)
           r == p \o q
<1>1. p \in Seq(U) /\ q \in Seq(U)
  BY SequenceOf DEF PlanSound
<1>2. r \in Seq(U) /\ Len(r) = Len(p) + Len(q)
  BY <1>1
<1>3. \A i \in 1..Len(p) : r[i] = p[i]
  BY <1>1
<1>4. \A i \in Len(p) + 1..Len(r) : i - Len(p) \in 1..Len(q) /\ r[i] = q[i - Len(p)]
  BY <1>1
<1>5. DOMAIN p = 1..Len(p) /\ DOMAIN q = 1..Len(q) /\ DOMAIN r = 1..Len(r)
  BY <1>1, <1>2
<1>6. ASSUME NEW i \in DOMAIN r
      PROVE  /\ r[i] # Fail => RoutesIn(r[i].text) \subseteq Granted(c, v)
             /\ r[i].do = "write" /\ IsGitconfig(r[i].path) => r[i].text \in GitconfigTexts
             /\ r[i].do = "export" /\ r[i].key = "GIT_CONFIG_GLOBAL" =>
                  /\ Github \in Granted(c, v)
                  /\ i - 1 \in DOMAIN r
                  /\ r[i - 1].do = "write" /\ IsGitconfig(r[i - 1].path)
                  /\ r[i].text = <<<<"file", r[i - 1].path>>>>
  <2> HIDE DEF r, U
  <2> Len(p) \in Nat /\ Len(q) \in Nat
    BY <1>1
  <2>1. CASE i \in 1..Len(p)
    <3>1. i - 1 \in DOMAIN p => i - 1 \in DOMAIN r /\ r[i - 1] = p[i - 1]
      BY <2>1, <1>2, <1>3, <1>5
    <3> QED BY <2>1, <3>1, <1>3, <1>5 DEF PlanSound
  <2>2. CASE i \notin 1..Len(p)
    <3>1. i \in Len(p) + 1..Len(r)
      BY <2>2, <1>2, <1>5
    <3> DEFINE k == i - Len(p)
    <3>2. k \in DOMAIN q /\ r[i] = q[k]
      BY <3>1, <1>4, <1>5
    <3>3. k - 1 \in DOMAIN q =>
            i - 1 \in DOMAIN r /\ i - 1 \in Len(p) + 1..Len(r) /\ (i - 1) - Len(p) = k - 1
      BY <3>1, <1>2, <1>5
    <3>4. k - 1 \in DOMAIN q => i - 1 \in DOMAIN r /\ r[i - 1] = q[k - 1]
      BY <3>3, <1>4
    <3> HIDE DEF k
    <3> QED BY <3>2, <3>4 DEF PlanSound
  <2> QED BY <2>1, <2>2
<1>7. IsSequence(r)
  BY <1>2 DEF IsSequence
<1> QED BY <1>6, <1>7 DEF PlanSound

\* Sound plans in a row are a sound plan.
LEMMA SoundAll ==
  ASSUME NEW c, NEW v, NEW n \in Nat, NEW ss, ss = [i \in 1..n |-> ss[i]],
         \A i \in 1..n : PlanSound(c, v, ss[i])
  PROVE  PlanSound(c, v, FlattenSeq(ss))
<1> DEFINE U == UNION {Range(ss[i]) : i \in 1..n}
           T == {p \in Seq(U) : PlanSound(c, v, p)}
<1>1. <<>> \in T
  BY DEF PlanSound, IsSequence
<1>2. \A p, q \in T : p \o q \in T
  BY SoundTwo
<1>3. \A i \in 1..n : ss[i] \in T
  <2> SUFFICES ASSUME NEW i \in 1..n PROVE ss[i] \in Seq(U)
    OBVIOUS
  <2>1. Range(ss[i]) \subseteq U
    OBVIOUS
  <2> QED BY <2>1, SequenceOf DEF PlanSound
<1> HIDE DEF T
<1>4. ss \in Seq(T)
  BY <1>3
<1>5. FlattenSeq(ss) \in T
  BY <1>1, <1>2, <1>4, Concatenation
<1> QED BY <1>5 DEF T

\* A plan of one step, or of none.
LEMMA SoundOne ==
  ASSUME NEW c, NEW v, NEW step,
         step # Fail => RoutesIn(step.text) \subseteq Granted(c, v),
         step.do = "write" /\ IsGitconfig(step.path) => step.text \in GitconfigTexts,
         step.do = "export" => step.key # "GIT_CONFIG_GLOBAL"
  PROVE  PlanSound(c, v, <<step>>)
<1>1. <<step>> \in Seq({step}) /\ DOMAIN <<step>> = {1} /\ <<step>>[1] = step
  OBVIOUS
<1> QED BY <1>1 DEF PlanSound, IsSequence

\* The empty plan is sound.
LEMMA SoundNone == \A c, v : PlanSound(c, v, <<>>)
  BY DEF PlanSound, IsSequence

\* So is one that only fails.
LEMMA SoundFail == \A c, v : PlanSound(c, v, <<Fail>>)
<1> Fail.do = "fail"
  BY DEF Fail
<1> QED BY SoundOne, Zenon

\* Rendered, a template refers to the routes it names and to no other.
LEMMA RenderedRoutes ==
  ASSUME NEW x, NEW i, NEW t
  PROVE  RoutesIn(Render(x, i, t)) \subseteq RoutesOf(t)
<1> DEFINE s == Render(x, i, t)
<1>1. DOMAIN s = DOMAIN t
  BY DEF Render
<1>2. \A k \in DOMAIN t : s[k] = Value(x, i, t[k])
  BY DEF Render
<1>3. ASSUME NEW k \in DOMAIN t, s[k][1] = "route_url"
      PROVE  t[k][1] = "route_url" /\ s[k][2][2] = t[k][2]
  <2> DEFINE ref == t[k]
  <2>1. s[k] = Value(x, i, ref)
    BY <1>2
  <2> HIDE DEF s, ref
  <2>2. CASE ref[1] = "text"
    <3>1. Value(x, i, ref) = ref
      BY <2>2 DEF Value
    <3> QED BY <1>3, <2>1, <2>2, <3>1
  <2>3. CASE ref[1] = "route_url"
    <3>1. Value(x, i, ref) = <<"route_url", <<x.url, ref[2]>>>>
      BY <2>3 DEF Value
    <3> QED BY <2>1, <2>3, <3>1 DEF ref
  <2>4. CASE ref[1] = "managed_file"
    <3>1. Value(x, i, ref) = <<"file", ManagedPath(x, Max(Managed(x, i, ref[2])))>>
      BY <2>4 DEF Value
    <3> QED BY <1>3, <2>1, <3>1
  <2>5. CASE ref[1] \notin {"text", "route_url", "managed_file"}
    <3>1. Value(x, i, ref) = <<ref[1], Plain(x)[ref[1]]>>
      BY <2>5 DEF Value
    <3> QED BY <1>3, <2>1, <2>5, <3>1
  <2> QED BY <2>2, <2>3, <2>4, <2>5
<1>4. ASSUME NEW r \in RoutesIn(s) PROVE r \in RoutesOf(t)
  <2> HIDE DEF s
  <2>1. PICK k \in DOMAIN s : s[k][1] = "route_url" /\ r = s[k][2][2]
    BY DEF RoutesIn
  <2>2. k \in DOMAIN t /\ t[k][1] = "route_url" /\ r = t[k][2]
    BY <1>1, <1>3, <2>1
  <2> QED BY <2>2 DEF RoutesOf
<1> QED BY <1>4

\* The name of the gitconfig is not rendered from anything else.
LEMMA RenderedGitconfig ==
  ASSUME NEW x, NEW i, NEW t, IsGitconfig(Render(x, i, t))
  PROVE  IsGitconfig(t)
<1> DEFINE s == Render(x, i, t)
<1>1. PICK k \in DOMAIN t : Value(x, i, t[k]) = <<"text", "gitconfig">>
  BY DEF Render, IsGitconfig, Range
<1>2. t[k] = <<"text", "gitconfig">>
  BY <1>1 DEF Value
<1> QED BY <1>2 DEF IsGitconfig, Range

\* A tool as it is activated: v for it under the config c.
LEMMA GrantedByRoute ==
  ASSUME NEW c, NEW v, NEW tool, NEW r \in Routes, HasRoute(Context(c, v, tool), r)
  PROVE  r \in Granted(c, v)
  BY ActivationAssumption DEF HasRoute, Context, Granted

\* The managed files of a tool are written for granted routes only.
LEMMA ManagedSound ==
  ASSUME NEW c, NEW v, NEW t \in DOMAIN Tools
  PROVE  PlanSound(c, v, ManagedSteps(Context(c, v, Tools[t])))
<1> DEFINE x == Context(c, v, Tools[t])
           files == Tools[t].files
           step(i) == IF ~IsManaged(x, i) THEN <<>>
                      ELSE IF files[i].managed = "outside" \/ ~Renders(x, i, files[i].content)
                        THEN <<Fail>>
                      ELSE <<WriteOf(ManagedPath(x, i), Render(x, i, files[i].content))>>
<1>1. files \in Seq(Range(files)) /\ DOMAIN files = 1..Len(files) /\ Len(files) \in Nat
  BY AdaptersAssumption
<1>2. x.tool = Tools[t]
  BY DEF Context
<1>3. ManagedSteps(x) = FlattenSeq([i \in DOMAIN files |-> step(i)])
  BY <1>2 DEF ManagedSteps, InTurn
<1>4. ASSUME NEW i \in DOMAIN files PROVE PlanSound(c, v, step(i))
  <2> DEFINE f == files[i]
             w == WriteOf(ManagedPath(x, i), Render(x, i, f.content))
  <2>1. CASE ~IsManaged(x, i) \/ f.managed = "outside" \/ ~Renders(x, i, f.content)
    BY <2>1, SoundNone, SoundFail, Zenon
  <2>2. CASE IsManaged(x, i)
    <3>1. RoutesOf(f.content) \subseteq Routes \cap {f.requires} /\ f.managed # "gitconfig"
      BY AdaptersAssumption
    <3>2. HasRoute(x, f.requires)
      BY <2>2, <1>2 DEF IsManaged
    <3>3. RoutesIn(Render(x, i, f.content)) \subseteq Granted(c, v)
      BY <3>1, <3>2, RenderedRoutes, GrantedByRoute, Zenon
    <3>4. ManagedPath(x, i) = <<Root(x), <<"text", f.managed>>>>
      BY <1>2 DEF ManagedPath
    <3>5. ~IsGitconfig(ManagedPath(x, i))
      BY <3>1, <3>4 DEF IsGitconfig, Range, Root
    <3>6. w.do = "write" /\ w.path = ManagedPath(x, i) /\ w.text = Render(x, i, f.content)
      BY DEF WriteOf
    <3> HIDE DEF w, x, f
    <3>7. PlanSound(c, v, <<w>>)
      BY <3>3, <3>5, <3>6, SoundOne
    <3> USE DEF w, x, f
    <3> QED BY <3>7, SoundNone, SoundFail, Zenon
  <2> QED BY <2>1, <2>2
<1> HIDE DEF step
<1>5. PlanSound(c, v, FlattenSeq([i \in 1..Len(files) |-> step(i)]))
  BY <1>1, <1>4, SoundAll
<1> QED BY <1>1, <1>3, <1>5

\* So are its variables exported,
LEMMA EnvSound ==
  ASSUME NEW c, NEW v, NEW t \in DOMAIN Tools
  PROVE  PlanSound(c, v, EnvSteps(Context(c, v, Tools[t])))
<1> DEFINE x == Context(c, v, Tools[t])
           env == Tools[t].env
           all == Len(x.tool.files) + 1
           step(i) == IF ~HasRoute(x, env[i].requires) THEN <<>>
                      ELSE IF ~Renders(x, all, env[i].value) THEN <<Fail>>
                      ELSE <<ExportOf(env[i].key, Render(x, all, env[i].value))>>
<1>1. env \in Seq(Range(env)) /\ DOMAIN env = 1..Len(env) /\ Len(env) \in Nat
  BY AdaptersAssumption
<1>2. x.tool = Tools[t]
  BY DEF Context
<1>3. EnvSteps(x) = FlattenSeq([i \in DOMAIN env |-> step(i)])
  BY <1>2 DEF EnvSteps, InTurn
<1> HIDE DEF all
<1>4. ASSUME NEW i \in DOMAIN env PROVE PlanSound(c, v, step(i))
  <2> DEFINE e == env[i]
             out == ExportOf(e.key, Render(x, all, e.value))
  <2>1. CASE ~HasRoute(x, e.requires) \/ ~Renders(x, all, e.value)
    BY <2>1, SoundNone, SoundFail, Zenon
  <2>2. CASE HasRoute(x, e.requires)
    <3>1. RoutesOf(e.value) \subseteq Routes \cap {e.requires} /\ e.key # "GIT_CONFIG_GLOBAL"
      BY AdaptersAssumption
    <3>2. RoutesIn(Render(x, all, e.value)) \subseteq Granted(c, v)
      BY <2>2, <3>1, RenderedRoutes, GrantedByRoute, Zenon
    <3>3. out.do = "export" /\ out.key = e.key /\ out.text = Render(x, all, e.value)
      BY DEF ExportOf
    <3> HIDE DEF out, x, e
    <3>4. PlanSound(c, v, <<out>>)
      BY <3>1, <3>2, <3>3, SoundOne
    <3> USE DEF out, x, e
    <3> QED BY <3>4, SoundNone, SoundFail, Zenon
  <2> QED BY <2>1, <2>2
<1> HIDE DEF step
<1>5. PlanSound(c, v, FlattenSeq([i \in 1..Len(env) |-> step(i)]))
  BY <1>1, <1>4, SoundAll
<1> QED BY <1>1, <1>3, <1>5

\* its installed files written,
LEMMA InstallSound ==
  ASSUME NEW c, NEW v, NEW t \in DOMAIN Tools
  PROVE  PlanSound(c, v, InstallSteps(Context(c, v, Tools[t])))
<1> DEFINE x == Context(c, v, Tools[t])
           files == Tools[t].files
           all == Len(x.tool.files) + 1
           step(i) == IF files[i].generated = None \/ ~HasRoute(x, files[i].requires) THEN <<>>
                      ELSE IF ~Renders(x, all, files[i].generated \o files[i].content)
                        THEN <<Fail>>
                      ELSE <<WriteOf(Render(x, all, files[i].generated),
                                     Render(x, all, files[i].content))>>
<1>1. files \in Seq(Range(files)) /\ DOMAIN files = 1..Len(files) /\ Len(files) \in Nat
  BY AdaptersAssumption
<1>2. x.tool = Tools[t]
  BY DEF Context
<1>3. InstallSteps(x) = FlattenSeq([i \in DOMAIN files |-> step(i)])
  BY <1>2 DEF InstallSteps, InTurn
<1> HIDE DEF all
<1>4. ASSUME NEW i \in DOMAIN files PROVE PlanSound(c, v, step(i))
  <2> DEFINE f == files[i]
             w == WriteOf(Render(x, all, f.generated), Render(x, all, f.content))
  <2>1. CASE \/ f.generated = None \/ ~HasRoute(x, f.requires)
             \/ ~Renders(x, all, f.generated \o f.content)
    BY <2>1, SoundNone, SoundFail, Zenon
  <2>2. CASE f.generated # None /\ HasRoute(x, f.requires)
    <3>1. /\ RoutesOf(f.content) \subseteq Routes \cap {f.requires}
          /\ <<"text", "gitconfig">> \notin Range(f.generated)
      BY <2>2, AdaptersAssumption
    <3>2. RoutesIn(Render(x, all, f.content)) \subseteq Granted(c, v)
      BY <2>2, <3>1, RenderedRoutes, GrantedByRoute, Zenon
    <3>3. ~IsGitconfig(Render(x, all, f.generated))
      BY <3>1, RenderedGitconfig, Zenon DEF IsGitconfig
    <3>4. /\ w.do = "write" /\ w.path = Render(x, all, f.generated)
          /\ w.text = Render(x, all, f.content)
      BY DEF WriteOf
    <3> HIDE DEF w, x, f
    <3>5. PlanSound(c, v, <<w>>)
      BY <3>2, <3>3, <3>4, SoundOne
    <3> USE DEF w, x, f
    <3> QED BY <3>5, SoundNone, SoundFail, Zenon
  <2> QED BY <2>1, <2>2
<1> HIDE DEF step
<1>5. PlanSound(c, v, FlattenSeq([i \in 1..Len(files) |-> step(i)]))
  BY <1>1, <1>4, SoundAll
<1> QED BY <1>1, <1>3, <1>5

\* and its gitconfig, which names the gateway and the token of the configuration.
LEMMA GitSound ==
  ASSUME NEW c, c.url \in Url, NEW v, v.name \in Names, NEW t \in DOMAIN Tools
  PROVE  PlanSound(c, v, GitSteps(Context(c, v, Tools[t])))
<1> DEFINE x == Context(c, v, Tools[t])
           text == <<<<"gateway_url", x.url>>, <<"token_name", x.name>>>>
           told == <<<<"file", Gitconfig(x)>>>>
           w == WriteOf(Gitconfig(x), text)
           e == ExportOf("GIT_CONFIG_GLOBAL", told)
<1>1. CASE ~(x.tool.helper /\ HasRoute(x, Github))
  BY <1>1, SoundNone DEF GitSteps
<1>2. CASE x.tool.helper /\ HasRoute(x, Github)
  <2>1. Github \in Granted(c, v)
    BY <1>2, ActivationAssumption, GrantedByRoute
  <2>2. x.url \in Url /\ x.name = v.name
    BY DEF Context, Trim, Url
  <2>3. text \in GitconfigTexts /\ RoutesIn(text) = {}
    BY <2>2 DEF GitconfigTexts, RoutesIn
  <2>4. RoutesIn(told) = {}
    BY DEF RoutesIn
  <2>5. IsGitconfig(Gitconfig(x))
    BY DEF IsGitconfig, Gitconfig, Range
  <2>6. GitSteps(x) = <<w, e>>
    BY <1>2 DEF GitSteps
  <2>7. /\ w.do = "write" /\ w.path = Gitconfig(x) /\ w.text = text
        /\ e.do = "export" /\ e.key = "GIT_CONFIG_GLOBAL" /\ e.text = <<<<"file", w.path>>>>
        /\ e.text = told
    BY DEF WriteOf, ExportOf
  <2> HIDE DEF w, e, text, told, x
  <2>8. PICK p : p = <<w, e>>
    OBVIOUS
  <2>9. p \in Seq({w, e}) /\ DOMAIN p = {1, 2} /\ p[1] = w /\ p[2] = e
    BY <2>8
  <2>10. PlanSound(c, v, p)
    <3>1. IsSequence(p)
      BY <2>9 DEF IsSequence
    <3>2. p[2].text = <<<<"file", p[1].path>>>> /\ p[2].key = "GIT_CONFIG_GLOBAL"
      BY <2>7, <2>9
    <3>3. p[1].do = "write" /\ IsGitconfig(p[1].path) /\ p[1].text \in GitconfigTexts
      BY <2>3, <2>5, <2>7, <2>9
    <3>4. RoutesIn(p[1].text) = {} /\ RoutesIn(p[2].text) = {} /\ p[2].do = "export"
      BY <2>3, <2>4, <2>7, <2>9
    <3>5. 2 - 1 = 1
      OBVIOUS
    <3> QED BY <2>1, <2>9, <3>1, <3>2, <3>3, <3>4, <3>5 DEF PlanSound
  <2> USE DEF x
  <2> QED BY <2>6, <2>8, <2>10
<1> QED BY <1>1, <1>2

\* What gate activate does is sound.
LEMMA PlansSound ==
  ASSUME NEW c, c.url \in Url, NEW v, v.name \in Names
  PROVE  PlanSound(c, v, Plan(c, v))
<1> DEFINE step(i) == AdapterSteps(c, v, Tools[i])
<1>1. ASSUME NEW t \in DOMAIN Tools PROVE PlanSound(c, v, step(t))
  <2> DEFINE x == Context(c, v, Tools[t])
  <2>1. PlanSound(c, v, ManagedSteps(x) \o EnvSteps(x) \o GitSteps(x) \o InstallSteps(x))
    <3>1. PlanSound(c, v, ManagedSteps(x)) /\ PlanSound(c, v, EnvSteps(x))
      BY ManagedSound, EnvSound
    <3>2. PlanSound(c, v, GitSteps(x)) /\ PlanSound(c, v, InstallSteps(x))
      BY GitSound, InstallSound
    <3> HIDE DEF x
    <3> QED BY <3>1, <3>2, SoundTwo
  <2> QED BY <2>1, SoundNone, SoundFail DEF AdapterSteps
<1>2. Tools \in Seq(Range(Tools)) /\ DOMAIN Tools = 1..Len(Tools) /\ Len(Tools) \in Nat
  BY AdaptersAssumption
<1> HIDE DEF step
<1>3. PlanSound(c, v, FlattenSeq([i \in 1..Len(Tools) |-> step(i)]))
  BY <1>1, <1>2, SoundAll
<1> USE DEF step
<1>4. Plan(c, v) \in {<<Fail>>, FlattenSeq([i \in DOMAIN Tools |-> step(i)])}
  BY DEF Plan, InTurn
<1> QED BY <1>2, <1>3, <1>4, SoundFail

-----------------------------------------------------------------------------
(* The inductive invariant                                                 *)

\* An activation's plan is sound and its writes are done in the order of the plan.
CallSound(k, left) ==
  /\ k.args \in Invocations /\ k.config.url \in Url
  /\ PlanSound(k.config, k.args, k.plan)
  /\ left \subseteq WritesOf(k.plan)
  /\ \A i \in WritesOf(k.plan) \ left, j \in left : i < j

LastOf(plan, i) == \A j \in WritesOf(plan) : plan[j].path = plan[i].path => j <= i

\* The files it has written are there, and those opened by it alone hold what it wrote last.
Written(a, plan, left, files, opener) ==
  \A i \in WritesOf(plan) \ left :
    LET w == plan[i] IN
    /\ w.path \in DOMAIN files
    /\ opener[w.path] = a /\ LastOf(plan, i) => files[w.path] = w.text

\* The file it has open; if nobody else opened it, it is still empty.
Opened(a, path, files, opener) ==
  /\ path \in DOMAIN files /\ opener[path] \in {a, None}
  /\ opener[path] = a => files[path] = Empty

\* A gitconfig holds the text of one, if any.
GitconfigsSound ==
  \A path \in DOMAIN data :
    IsGitconfig(path) => data[path] \in {Empty, Torn} \cup GitconfigTexts

\* Git asks the helper for the gateway of the gitconfig, and the helper answers that.
AskSound ==
  /\ asked # None =>
       /\ Here(asked.url, asked.remote)
       /\ asked.override \in Url \cup {None}
  /\ reply # None =>
       /\ Here(reply.to.url, reply.to.remote)
       /\ reply.config.url \in Url
       /\ reply.said \in {"unreadable", Response(reply.config, reply.to.name, reply.to.remote)}

Started(a) == pc[a] \in {"writing", "open", "active"}

ActivationsSound ==
  /\ DOMAIN call = Activations /\ DOMAIN todo = Activations
  /\ \A a \in Activations :
       /\ Started(a) => CallSound(call[a], todo[a]) /\ Written(a, call[a].plan, todo[a], data, sole)
       /\ pc[a] = "open" => todo[a] # {} /\ Opened(a, Current(a).path, data, sole)
       /\ pc[a] = "active" => Done(call[a].plan) = DOMAIN call[a].plan

\* What is left of the types.
TypesRest ==
  /\ config \in Configs /\ saving \in BOOLEAN
  /\ pc \in [Activations -> {"idle", "writing", "open", "active", "failed"}]
  /\ \A a \in Activations : pc[a] = "active" => todo[a] = {}
  /\ DOMAIN sole = DOMAIN data
  /\ sole \in [DOMAIN data -> Activations \cup {None}]
  /\ asked # None => asked.remote \in Remotes /\ asked.name \in Names
  /\ reply # None => asked = None
  /\ saves \in 0..MaxSaves /\ faults \in 0..MaxFaults

IInv == TypesRest /\ ActivationsSound /\ GitconfigsSound /\ AskSound

-----------------------------------------------------------------------------
(* Files and plans                                                         *)

\* Writing a file changes that file only.
LEMMA SetFile ==
  ASSUME NEW f, NEW k, NEW w
  PROVE  /\ DOMAIN Set(f, k, w) = DOMAIN f \cup {k}
         /\ Set(f, k, w)[k] = w
         /\ \A x \in DOMAIN f \ {k} : Set(f, k, w)[x] = f[x]
  BY DEF Set

\* The steps of a plan are numbered; the next write is one of those left, and the first.
LEMMA NextWrite ==
  ASSUME NEW k, NEW left, CallSound(k, left), left # {}
  PROVE  /\ Min(left) \in left /\ Min(left) \in WritesOf(k.plan)
         /\ \A j \in left : Min(left) <= j
         /\ left \in SUBSET Nat
         /\ IsGitconfig(k.plan[Min(left)].path) => k.plan[Min(left)].text \in GitconfigTexts
<1>1. WritesOf(k.plan) \subseteq DOMAIN k.plan /\ DOMAIN k.plan \subseteq Nat
  BY DEF CallSound, PlanSound, IsSequence, WritesOf, Done
<1>2. left \in SUBSET Nat
  BY <1>1 DEF CallSound
<1>3. Min(left) \in left /\ \A j \in left : Min(left) <= j
  BY <1>2, LeastNatural
<1>4. Min(left) \in WritesOf(k.plan)
  BY <1>3 DEF CallSound
<1>5. k.plan[Min(left)].do = "write" /\ Min(left) \in DOMAIN k.plan
  BY <1>1, <1>4 DEF WritesOf
<1> HIDE DEF IsGitconfig, GitconfigTexts
<1>6. IsGitconfig(k.plan[Min(left)].path) => k.plan[Min(left)].text \in GitconfigTexts
  BY <1>5 DEF CallSound, PlanSound
<1> QED BY <1>2, <1>3, <1>4, <1>6

\* Another process changes a file: one that it opened last itself, or that nobody did alone.
LEMMA WrittenByOthers ==
  ASSUME NEW a, NEW plan, NEW left, NEW files, NEW opener, Written(a, plan, left, files, opener),
         DOMAIN opener = DOMAIN files,
         NEW path, NEW files2, NEW opener2, opener2[path] # a,
         DOMAIN files \subseteq DOMAIN files2,
         \A p \in DOMAIN files \ {path} : files2[p] = files[p] /\ opener2[p] = opener[p]
  PROVE  Written(a, plan, left, files2, opener2)
<1> SUFFICES ASSUME NEW i \in WritesOf(plan) \ left
             PROVE  /\ plan[i].path \in DOMAIN files2
                    /\ opener2[plan[i].path] = a /\ LastOf(plan, i) =>
                         files2[plan[i].path] = plan[i].text
  BY DEF Written
<1>1. /\ plan[i].path \in DOMAIN files
      /\ opener[plan[i].path] = a /\ LastOf(plan, i) => files[plan[i].path] = plan[i].text
  BY DEF Written
<1> QED BY <1>1

\* It opens the file of its next write: no file of an earlier one is the last for its path.
LEMMA WrittenBeforeOpen ==
  ASSUME NEW a, NEW k, NEW left, CallSound(k, left), left # {}, NEW files, NEW opener,
         Written(a, k.plan, left, files, opener),
         NEW files2, NEW opener2, DOMAIN files \subseteq DOMAIN files2,
         \A p \in DOMAIN files \ {k.plan[Min(left)].path} :
           files2[p] = files[p] /\ opener2[p] = opener[p]
  PROVE  Written(a, k.plan, left, files2, opener2)
<1> DEFINE plan == k.plan
<1> SUFFICES ASSUME NEW i \in WritesOf(plan) \ left
             PROVE  /\ plan[i].path \in DOMAIN files2
                    /\ opener2[plan[i].path] = a /\ LastOf(plan, i) =>
                         files2[plan[i].path] = plan[i].text
  BY DEF Written
<1>1. /\ plan[i].path \in DOMAIN files
      /\ opener[plan[i].path] = a /\ LastOf(plan, i) => files[plan[i].path] = plan[i].text
  BY DEF Written
<1>2. Min(left) \in WritesOf(plan) /\ i < Min(left) /\ i \in Nat /\ Min(left) \in Nat
  <2>1. Min(left) \in left /\ Min(left) \in WritesOf(plan) /\ Min(left) \in Nat
    BY NextWrite
  <2>2. i \in Nat
    BY DEF CallSound, PlanSound, IsSequence, WritesOf, Done
  <2> QED BY <2>1, <2>2 DEF CallSound
<1>3. LastOf(plan, i) => plan[i].path # plan[Min(left)].path
  BY <1>2 DEF LastOf
<1> QED BY <1>1, <1>3

\* It writes it.
LEMMA WrittenNext ==
  ASSUME NEW a, NEW k, NEW left, CallSound(k, left), left # {}, NEW files, NEW opener,
         Written(a, k.plan, left, files, opener),
         NEW files2, DOMAIN files2 = DOMAIN files,
         k.plan[Min(left)].path \in DOMAIN files,
         opener[k.plan[Min(left)].path] = a =>
           files2[k.plan[Min(left)].path] = k.plan[Min(left)].text,
         \A p \in DOMAIN files \ {k.plan[Min(left)].path} : files2[p] = files[p]
  PROVE  /\ CallSound(k, left \ {Min(left)})
         /\ Written(a, k.plan, left \ {Min(left)}, files2, opener)
<1> DEFINE plan == k.plan
           m == Min(left)
<1>1. m \in left /\ m \in WritesOf(plan) /\ m \in Nat /\ \A j \in left : m <= j
  BY NextWrite
<1>2. left \in SUBSET Nat
  BY NextWrite
<1>3. Written(a, plan, left, files2, opener)
  BY WrittenBeforeOpen
<1>4. CallSound(k, left \ {m})
  <2> HIDE DEF m
  <2>1. ASSUME NEW i \in WritesOf(plan) \ (left \ {m}), NEW j \in left \ {m} PROVE i < j
    <3>1. CASE i = m
      BY <3>1, <1>1, <1>2
    <3>2. CASE i # m
      BY <3>2 DEF CallSound
    <3> QED BY <3>1, <3>2
  <2> QED BY <2>1 DEF CallSound
<1>5. Written(a, plan, left \ {m}, files2, opener)
  <2> HIDE DEF m
  <2> SUFFICES ASSUME NEW i \in WritesOf(plan) \ (left \ {m})
               PROVE  /\ plan[i].path \in DOMAIN files2
                      /\ opener[plan[i].path] = a /\ LastOf(plan, i) =>
                           files2[plan[i].path] = plan[i].text
    BY DEF Written
  <2>1. CASE i = m
    BY <2>1 DEF m
  <2>2. CASE i # m
    BY <2>2, <1>3 DEF Written
  <2> QED BY <2>1, <2>2
<1> QED BY <1>4, <1>5

-----------------------------------------------------------------------------
(* The steps                                                               *)

\* The invariant holds before any activation.
LEMMA InitSound == Init => IInv
<1> SUFFICES ASSUME Init PROVE IInv
  OBVIOUS
<1> USE DEF Init
<1>1. TypesRest
  <2>1. DOMAIN <<>> = {} /\ <<>> \in [{} -> Activations \cup {None}]
    OBVIOUS
  <2>2. DOMAIN sole = DOMAIN data /\ sole \in [DOMAIN data -> Activations \cup {None}]
    BY <2>1
  <2>3. saves \in 0..MaxSaves /\ faults \in 0..MaxFaults
    BY ActivationAssumption
  <2>4. pc \in [Activations -> {"idle", "writing", "open", "active", "failed"}]
    OBVIOUS
  <2> QED BY <2>2, <2>3, <2>4 DEF TypesRest
<1>2. ActivationsSound
  BY DEF ActivationsSound, Started
<1>3. GitconfigsSound
  BY DEF GitconfigsSound
<1>4. AskSound
  BY DEF AskSound
<1> QED BY <1>1, <1>2, <1>3, <1>4 DEF IInv

\* What an activation loads.
LEMMA LoadedUrl ==
  ASSUME NEW c \in Configs, NEW override \in Url \cup {None}
  PROVE  Load(c, override).url \in Url
  BY ActivationAssumption DEF Load

\* A new activation starts with its whole plan to do.
LEMMA ActivateStep ==
  ASSUME IInv, NEW a \in Activations, NEW v \in Invocations, Activate(a, v)
  PROVE  IInv'
<1> DEFINE c == Load(config, v.override)
           k == [args |-> v, config |-> c, plan |-> Plan(c, v)]
<1> USE DEF IInv
<1>1. c.url \in Url
  BY LoadedUrl, ActivationAssumption DEF TypesRest
<1>2. PlanSound(c, v, Plan(c, v))
  BY <1>1, PlansSound, ActivationAssumption
<1> HIDE DEF c
<1>3. CallSound(k, WritesOf(k.plan))
  BY <1>1, <1>2 DEF CallSound
<1>4. Written(a, k.plan, WritesOf(k.plan), data, sole)
  BY DEF Written
<1>5. /\ call' = [call EXCEPT ![a] = k] /\ todo' = [todo EXCEPT ![a] = WritesOf(k.plan)]
      /\ pc' = [pc EXCEPT ![a] = "writing"] /\ pc[a] = "idle"
      /\ UNCHANGED <<config, saving, data, sole, asked, reply, saves, faults>>
  BY DEF Activate, GoTo, c
<1> HIDE DEF k
<1>6. TypesRest'
  BY <1>5 DEF TypesRest
<1>7. ActivationsSound'
  <2>1. DOMAIN call' = Activations /\ DOMAIN todo' = Activations
    BY <1>5 DEF ActivationsSound
  <2>2. ASSUME NEW b \in Activations
        PROVE  /\ Started(b)' => (CallSound(call[b], todo[b]) /\ Written(b, call[b].plan, todo[b], data, sole))'
               /\ (pc[b] = "open" => todo[b] # {} /\ Opened(b, Current(b).path, data, sole))'
               /\ (pc[b] = "active" => Done(call[b].plan) = DOMAIN call[b].plan)'
    <3>1. CASE b = a
      <4>1. call'[a] = k /\ todo'[a] = WritesOf(k.plan) /\ pc'[a] = "writing"
        BY <1>5 DEF ActivationsSound, TypesRest
      <4> QED BY <3>1, <4>1, <1>3, <1>4, <1>5
    <3>2. CASE b # a
      <4>1. call'[b] = call[b] /\ todo'[b] = todo[b] /\ pc'[b] = pc[b]
        BY <3>2, <1>5 DEF ActivationsSound, TypesRest
      <4> QED BY <4>1, <1>5 DEF ActivationsSound, Started, Current
    <3> QED BY <3>1, <3>2
  <2> QED BY <2>1, <2>2 DEF ActivationsSound
<1>8. GitconfigsSound'
  BY <1>5 DEF GitconfigsSound
<1>9. AskSound'
  BY <1>5 DEF AskSound
<1> QED BY <1>6, <1>7, <1>8, <1>9

\* Opening a file empties it, and nobody else's file.
LEMMA OpenStep ==
  ASSUME IInv, NEW a \in Activations, Open(a)
  PROVE  IInv'
<1> DEFINE path == Current(a).path
           opener == IF Writers(path) = {} THEN a ELSE None
<1> USE DEF IInv
<1>1. /\ pc[a] = "writing" /\ todo[a] # {} /\ pc' = [pc EXCEPT ![a] = "open"]
      /\ data' = Set(data, path, Empty) /\ sole' = Set(sole, path, opener)
      /\ UNCHANGED <<config, saving, call, todo, asked, reply, saves, faults>>
  BY DEF Open, GoTo, OpenTruncated
<1>2. opener \in Activations \cup {None} /\ (opener = a => Writers(path) = {})
  BY ActivationAssumption
<1>3. Writers(path) # {} => opener = None
  OBVIOUS
<1> HIDE DEF opener
<1>4. /\ DOMAIN data' = DOMAIN data \cup {path} /\ data'[path] = Empty
      /\ DOMAIN sole' = DOMAIN sole \cup {path} /\ sole'[path] = opener
      /\ \A p \in DOMAIN data \ {path} : data'[p] = data[p]
      /\ \A p \in DOMAIN sole \ {path} : sole'[p] = sole[p]
  <2> HIDE DEF path
  <2> QED BY <1>1 DEF Set
<1>5. DOMAIN sole = DOMAIN data
  BY DEF TypesRest
<1>6. Started(a) /\ CallSound(call[a], todo[a]) /\ Written(a, call[a].plan, todo[a], data, sole)
  BY <1>1 DEF ActivationsSound, Started
<1>7. TypesRest'
  <2> HIDE DEF path
  <2>1. sole' \in [DOMAIN data' -> Activations \cup {None}]
    <3>1. sole' = [x \in DOMAIN data' |-> sole'[x]]
      BY <1>1, <1>4, <1>5 DEF Set
    <3>2. \A x \in DOMAIN data' : sole'[x] \in Activations \cup {None}
      BY <1>2, <1>4, <1>5 DEF TypesRest
    <3> QED BY <3>1, <3>2
  <2> QED BY <2>1, <1>1, <1>4, <1>5 DEF TypesRest
<1>8. ActivationsSound'
  <2>1. DOMAIN call' = Activations /\ DOMAIN todo' = Activations
    BY <1>1 DEF ActivationsSound
  <2>2. ASSUME NEW b \in Activations
        PROVE  /\ Started(b)' => (CallSound(call[b], todo[b]) /\ Written(b, call[b].plan, todo[b], data, sole))'
               /\ (pc[b] = "open" => todo[b] # {} /\ Opened(b, Current(b).path, data, sole))'
               /\ (pc[b] = "active" => Done(call[b].plan) = DOMAIN call[b].plan)'
    <3>1. CASE b = a
      <4>1. pc'[a] = "open"
        BY <1>1 DEF TypesRest
      <4>2. Written(a, call[a].plan, todo[a], data', sole')
        <5>1. path = call[a].plan[Min(todo[a])].path
          BY DEF Current
        <5> HIDE DEF path
        <5>2. \A p \in DOMAIN data \ {call[a].plan[Min(todo[a])].path} :
                data'[p] = data[p] /\ sole'[p] = sole[p]
          BY <1>4, <1>5, <5>1
        <5>3. DOMAIN data \subseteq DOMAIN data'
          BY <1>4
        <5>4. todo[a] # {}
          BY <1>1
        <5> QED BY <1>6, <5>2, <5>3, <5>4, WrittenBeforeOpen, Zenon
      <4>3. Opened(a, path, data', sole')
        <5> HIDE DEF path
        <5>1. sole'[path] \in {a, None}
          BY <1>2, <1>3, <1>4 DEF opener
        <5> QED BY <1>4, <5>1 DEF Opened
      <4>4. Current(a)' = Current(a)
        BY <1>1 DEF Current
      <4> QED BY <3>1, <4>1, <4>2, <4>3, <4>4, <1>1, <1>6
    <3>2. CASE b # a
      <4>1. call'[b] = call[b] /\ todo'[b] = todo[b] /\ pc'[b] = pc[b] /\ Current(b)' = Current(b)
        BY <3>2, <1>1 DEF TypesRest, Current
      <4>2. sole'[path] # b
        BY <3>2, <1>2, <1>3, <1>4, ActivationAssumption DEF opener
      <4>3. Written(b, call[b].plan, todo[b], data, sole) =>
              Written(b, call[b].plan, todo[b], data', sole')
        <5> HIDE DEF path
        <5> QED BY <4>2, <1>4, <1>5, WrittenByOthers
      <4>4. pc[b] = "open" => Opened(b, Current(b).path, data', sole')
        <5> SUFFICES ASSUME pc[b] = "open" PROVE Opened(b, Current(b).path, data', sole')
          OBVIOUS
        <5>1. Opened(b, Current(b).path, data, sole)
          BY DEF ActivationsSound
        <5>2. CASE Current(b).path = path
          <6>1. b \in Writers(path)
            BY <5>2 DEF Writers
          <6>2. sole'[path] = None
            BY <6>1, <1>3, <1>4
          <6> HIDE DEF path
          <6> QED BY <5>2, <6>2, <1>4, ActivationAssumption DEF Opened
        <5>3. CASE Current(b).path # path
          <6> HIDE DEF path
          <6> QED BY <5>1, <5>3, <1>4, <1>5 DEF Opened
        <5> QED BY <5>2, <5>3
      <4> QED BY <4>1, <4>3, <4>4, <1>1 DEF ActivationsSound, Started
    <3> QED BY <3>1, <3>2
  <2> QED BY <2>1, <2>2 DEF ActivationsSound
<1>9. GitconfigsSound'
  <2> HIDE DEF path
  <2> QED BY <1>1, <1>4 DEF GitconfigsSound
<1>10. AskSound'
  BY <1>1 DEF AskSound
<1> QED BY <1>7, <1>8, <1>9, <1>10

\* A process changes the file it has open and no other.
LEMMA FileWritten ==
  ASSUME IInv, NEW a \in Activations, pc[a] = "open", data' = Set(data, Current(a).path, data'[Current(a).path])
  PROVE  /\ Started(a) /\ todo[a] # {} /\ CallSound(call[a], todo[a])
         /\ Written(a, call[a].plan, todo[a], data, sole)
         /\ Opened(a, Current(a).path, data, sole)
         /\ Current(a).path = call[a].plan[Min(todo[a])].path
         /\ Current(a).text = call[a].plan[Min(todo[a])].text
         /\ IsGitconfig(Current(a).path) => Current(a).text \in GitconfigTexts
         /\ DOMAIN data' = DOMAIN data /\ DOMAIN sole = DOMAIN data
         /\ \A p \in DOMAIN data \ {Current(a).path} : data'[p] = data[p]
<1>1. /\ Started(a) /\ todo[a] # {} /\ CallSound(call[a], todo[a])
      /\ Written(a, call[a].plan, todo[a], data, sole)
      /\ Opened(a, Current(a).path, data, sole)
  BY DEF IInv, ActivationsSound, Started
<1>2. /\ Current(a).path = call[a].plan[Min(todo[a])].path
      /\ Current(a).text = call[a].plan[Min(todo[a])].text
  BY DEF Current
<1>3. IsGitconfig(call[a].plan[Min(todo[a])].path) =>
        call[a].plan[Min(todo[a])].text \in GitconfigTexts
  BY <1>1, NextWrite, Zenon
<1>4. /\ DOMAIN data' = DOMAIN data
      /\ \A p \in DOMAIN data \ {Current(a).path} : data'[p] = data[p]
  <2>1. Current(a).path \in DOMAIN data
    BY <1>1 DEF Opened
  <2> QED BY <2>1 DEF Set
<1>5. DOMAIN sole = DOMAIN data
  BY DEF IInv, TypesRest
<1> QED BY <1>1, <1>2, <1>3, <1>4, <1>5

\* What the others have written and opened is left alone.
LEMMA OthersKept ==
  ASSUME IInv, NEW a \in Activations, pc[a] = "open", data' = Set(data, Current(a).path, data'[Current(a).path]),
         sole' = sole, NEW b \in Activations, b # a
  PROVE  /\ Written(b, call[b].plan, todo[b], data, sole) =>
              Written(b, call[b].plan, todo[b], data', sole')
         /\ pc[b] = "open" => Opened(b, Current(b).path, data', sole')
<1> DEFINE path == Current(a).path
<1>1. /\ DOMAIN data' = DOMAIN data /\ DOMAIN sole = DOMAIN data
      /\ \A p \in DOMAIN data \ {path} : data'[p] = data[p]
  BY FileWritten
<1>2. sole'[path] # b /\ path \in DOMAIN data
  BY FileWritten, ActivationAssumption DEF Opened
<1>3. Written(b, call[b].plan, todo[b], data, sole) =>
        Written(b, call[b].plan, todo[b], data', sole')
  <2> HIDE DEF path
  <2> QED BY <1>1, <1>2, WrittenByOthers
<1>4. ASSUME pc[b] = "open" PROVE Opened(b, Current(b).path, data', sole')
  <2>1. Opened(b, Current(b).path, data, sole)
    BY <1>4 DEF IInv, ActivationsSound
  <2> HIDE DEF path
  <2> QED BY <2>1, <1>1, <1>2 DEF Opened
<1> QED BY <1>3, <1>4

\* A write leaves the document, or a mixture if another process had the file open.
LEMMA WriteStep ==
  ASSUME IInv, NEW a \in Activations, Write(a)
  PROVE  IInv'
<1> DEFINE w == Current(a)
           left == todo[a] \ {Min(todo[a])}
<1> USE DEF IInv
<1>1. PICK result \in IF data[w.path] \in {Empty, w.text} THEN {w.text} ELSE {w.text, Torn} :
        data' = Set(data, w.path, result)
  BY DEF Write
<1>2. /\ pc[a] = "open" /\ pc' = [pc EXCEPT ![a] = "writing"]
      /\ todo' = [todo EXCEPT ![a] = left]
      /\ UNCHANGED <<config, saving, call, sole, asked, reply, saves, faults>>
  BY DEF Write, GoTo
<1>3. data'[w.path] = result /\ data' = Set(data, w.path, data'[w.path])
  BY <1>1 DEF Set
<1>4. /\ Started(a) /\ todo[a] # {} /\ CallSound(call[a], todo[a])
      /\ Written(a, call[a].plan, todo[a], data, sole) /\ Opened(a, w.path, data, sole)
      /\ w.path = call[a].plan[Min(todo[a])].path /\ w.text = call[a].plan[Min(todo[a])].text
      /\ IsGitconfig(w.path) => w.text \in GitconfigTexts
      /\ DOMAIN data' = DOMAIN data /\ DOMAIN sole = DOMAIN data
      /\ \A p \in DOMAIN data \ {w.path} : data'[p] = data[p]
  BY <1>2, <1>3, FileWritten
<1> HIDE DEF w
<1>5. CallSound(call[a], left) /\ Written(a, call[a].plan, left, data', sole)
  <2>1. sole[w.path] = a => data'[w.path] = w.text
    BY <1>1, <1>3, <1>4 DEF Opened
  <2>2. /\ call[a].plan[Min(todo[a])].path \in DOMAIN data
        /\ sole[call[a].plan[Min(todo[a])].path] = a =>
             data'[call[a].plan[Min(todo[a])].path] = call[a].plan[Min(todo[a])].text
        /\ \A p \in DOMAIN data \ {call[a].plan[Min(todo[a])].path} : data'[p] = data[p]
    <3>1. w.path \in DOMAIN data
      BY <1>4 DEF Opened
    <3> QED BY <1>4, <2>1, <3>1, Zenon
  <2>3. /\ CallSound(call[a], todo[a]) /\ todo[a] # {} /\ DOMAIN data' = DOMAIN data
        /\ Written(a, call[a].plan, todo[a], data, sole)
    BY <1>4
  <2> QED BY <2>2, <2>3, WrittenNext, ZenonT(40)
<1>6. TypesRest'
  BY <1>2, <1>4 DEF TypesRest
<1>7. ActivationsSound'
  <2> HIDE DEF left
  <2>1. DOMAIN call' = Activations /\ DOMAIN todo' = Activations
    BY <1>2 DEF ActivationsSound
  <2>2. ASSUME NEW b \in Activations
        PROVE  /\ Started(b)' => (CallSound(call[b], todo[b]) /\ Written(b, call[b].plan, todo[b], data, sole))'
               /\ (pc[b] = "open" => todo[b] # {} /\ Opened(b, Current(b).path, data, sole))'
               /\ (pc[b] = "active" => Done(call[b].plan) = DOMAIN call[b].plan)'
    <3>1. CASE b = a
      <4>1. pc'[a] = "writing" /\ todo'[a] = left /\ call'[a] = call[a]
        BY <1>2 DEF TypesRest, ActivationsSound
      <4> QED BY <3>1, <4>1, <1>2, <1>5
    <3>2. CASE b # a
      <4>1. call'[b] = call[b] /\ todo'[b] = todo[b] /\ pc'[b] = pc[b]
        BY <3>2, <1>2 DEF TypesRest, ActivationsSound
      <4>2. Current(b)' = Current(b)
        BY <4>1 DEF Current
      <4>3. /\ Written(b, call[b].plan, todo[b], data, sole) =>
                 Written(b, call[b].plan, todo[b], data', sole')
            /\ pc[b] = "open" => Opened(b, Current(b).path, data', sole')
        BY <3>2, <1>2, <1>3, OthersKept DEF w
      <4> QED BY <4>1, <4>2, <4>3 DEF ActivationsSound, Started
    <3> QED BY <3>1, <3>2
  <2> QED BY <2>1, <2>2 DEF ActivationsSound
<1>8. GitconfigsSound'
  <2> HIDE DEF left
  <2> QED BY <1>1, <1>3, <1>4 DEF GitconfigsSound
<1>9. AskSound'
  BY <1>2 DEF AskSound
<1> QED BY <1>6, <1>7, <1>8, <1>9

\* A failed write ends its activation.
LEMMA WriteFailsStep ==
  ASSUME IInv, NEW a \in Activations, WriteFails(a)
  PROVE  IInv'
<1> DEFINE path == Current(a).path
<1> USE DEF IInv
<1>1. PICK result \in {data[path], Torn} : data' = Set(data, path, result)
  BY DEF WriteFails
<1>2. /\ pc[a] = "open" /\ pc' = [pc EXCEPT ![a] = "failed"]
      /\ faults < MaxFaults /\ faults' = faults + 1
      /\ UNCHANGED <<config, saving, call, todo, sole, asked, reply, saves>>
  BY DEF WriteFails, GoTo
<1>3. data'[path] = result /\ data' = Set(data, path, data'[path])
  BY <1>1 DEF Set
<1>4. /\ Opened(a, path, data, sole) /\ DOMAIN data' = DOMAIN data /\ DOMAIN sole = DOMAIN data
      /\ \A p \in DOMAIN data \ {path} : data'[p] = data[p]
  BY <1>2, <1>3, FileWritten
<1> HIDE DEF path
<1>5. TypesRest'
  <2>1. faults' \in 0..MaxFaults
    BY <1>2, ActivationAssumption DEF TypesRest
  <2> QED BY <2>1, <1>2, <1>4 DEF TypesRest
<1>6. ActivationsSound'
  <2>1. ASSUME NEW b \in Activations
        PROVE  /\ Started(b)' => (CallSound(call[b], todo[b]) /\ Written(b, call[b].plan, todo[b], data, sole))'
               /\ (pc[b] = "open" => todo[b] # {} /\ Opened(b, Current(b).path, data, sole))'
               /\ (pc[b] = "active" => Done(call[b].plan) = DOMAIN call[b].plan)'
    <3>1. CASE b = a
      <4>1. pc'[a] = "failed"
        BY <1>2 DEF TypesRest
      <4> QED BY <3>1, <4>1 DEF Started
    <3>2. CASE b # a
      <4>1. call'[b] = call[b] /\ todo'[b] = todo[b] /\ pc'[b] = pc[b]
        BY <3>2, <1>2 DEF TypesRest
      <4>2. Current(b)' = Current(b)
        BY <4>1 DEF Current
      <4>3. /\ Written(b, call[b].plan, todo[b], data, sole) =>
                 Written(b, call[b].plan, todo[b], data', sole')
            /\ pc[b] = "open" => Opened(b, Current(b).path, data', sole')
        BY <3>2, <1>2, <1>3, OthersKept DEF path
      <4> QED BY <4>1, <4>2, <4>3 DEF ActivationsSound, Started
    <3> QED BY <3>1, <3>2
  <2> QED BY <2>1, <1>2 DEF ActivationsSound
<1>7. GitconfigsSound'
  BY <1>1, <1>3, <1>4 DEF GitconfigsSound, Opened
<1>8. AskSound'
  BY <1>2 DEF AskSound
<1> QED BY <1>5, <1>6, <1>7, <1>8

\* Steps that write nothing: an activation goes on as it was, fails, or ends.
LEMMA FilesKept ==
  ASSUME IInv, UNCHANGED <<call, todo, data, sole>>,
         \A b \in Activations :
           \/ pc'[b] = pc[b] \/ pc'[b] = "failed"
           \/ pc[b] = "writing" /\ pc'[b] = "active" /\ Done(call[b].plan) = DOMAIN call[b].plan
  PROVE  ActivationsSound' /\ GitconfigsSound'
<1>1. ActivationsSound'
  <2>1. ASSUME NEW b \in Activations
        PROVE  /\ Started(b)' => (CallSound(call[b], todo[b]) /\ Written(b, call[b].plan, todo[b], data, sole))'
               /\ (pc[b] = "open" => todo[b] # {} /\ Opened(b, Current(b).path, data, sole))'
               /\ (pc[b] = "active" => Done(call[b].plan) = DOMAIN call[b].plan)'
    <3>1. Current(b)' = Current(b)
      BY DEF Current
    <3> QED BY <3>1 DEF IInv, ActivationsSound, Started
  <2> QED BY <2>1 DEF IInv, ActivationsSound
<1>2. GitconfigsSound'
  BY DEF IInv, GitconfigsSound
<1> QED BY <1>1, <1>2

\* Steps that touch no file of a tool.
LEMMA QuietStep ==
  ASSUME IInv,
         \/ \E a \in Activations : LoadFails(a) \/ OpenFails(a) \/ Finish(a)
         \/ BeginSave \/ (\E c \in Configs : EndSave(c))
         \/ UNCHANGED vars
  PROVE  IInv'
<1> USE DEF IInv
<1>1. ASSUME NEW a \in Activations, LoadFails(a) PROVE IInv'
  <2>1. UNCHANGED <<config, saving, call, todo, data, sole, asked, reply, saves, faults>>
        /\ pc' = [pc EXCEPT ![a] = "failed"]
    BY <1>1 DEF LoadFails, GoTo
  <2>2. ActivationsSound' /\ GitconfigsSound'
    BY <2>1, FilesKept DEF TypesRest
  <2>3. TypesRest' /\ AskSound'
    BY <2>1 DEF TypesRest, AskSound
  <2> QED BY <2>2, <2>3
<1>2. ASSUME NEW a \in Activations, OpenFails(a) PROVE IInv'
  <2>1. /\ UNCHANGED <<config, saving, call, todo, data, sole, asked, reply, saves>>
        /\ pc' = [pc EXCEPT ![a] = "failed"] /\ faults < MaxFaults /\ faults' = faults + 1
    BY <1>2 DEF OpenFails, GoTo
  <2>2. ActivationsSound' /\ GitconfigsSound'
    BY <2>1, FilesKept DEF TypesRest
  <2>3. faults' \in 0..MaxFaults
    BY <2>1, ActivationAssumption DEF TypesRest
  <2>4. TypesRest' /\ AskSound'
    BY <2>1, <2>3 DEF TypesRest, AskSound
  <2> QED BY <2>2, <2>4
<1>3. ASSUME NEW a \in Activations, Finish(a) PROVE IInv'
  <2>1. /\ UNCHANGED <<config, saving, call, todo, data, sole, asked, reply, saves, faults>>
        /\ pc[a] = "writing" /\ todo[a] = {}
        /\ pc' = [pc EXCEPT ![a] = IF Done(call[a].plan) = DOMAIN call[a].plan
                                     THEN "active" ELSE "failed"]
    BY <1>3 DEF Finish, GoTo
  <2>2. \A b \in Activations :
          \/ pc'[b] = pc[b] \/ pc'[b] = "failed"
          \/ pc[b] = "writing" /\ pc'[b] = "active" /\ Done(call[b].plan) = DOMAIN call[b].plan
    BY <2>1 DEF TypesRest
  <2>3. ActivationsSound' /\ GitconfigsSound'
    BY <2>1, <2>2, FilesKept
  <2>4. TypesRest'
    <3>1. pc' \in [Activations -> {"idle", "writing", "open", "active", "failed"}]
      BY <2>1 DEF TypesRest
    <3>2. \A b \in Activations : pc'[b] = "active" => todo[b] = {}
      BY <2>1 DEF TypesRest
    <3> QED BY <2>1, <3>1, <3>2 DEF TypesRest
  <2>5. AskSound'
    BY <2>1 DEF AskSound
  <2> QED BY <2>3, <2>4, <2>5
<1>4. ASSUME BeginSave PROVE IInv'
  <2>1. /\ UNCHANGED <<config, pc, call, todo, data, sole, asked, reply, faults>>
        /\ saving' = TRUE /\ saves < MaxSaves /\ saves' = saves + 1
    BY <1>4 DEF BeginSave
  <2>2. ActivationsSound' /\ GitconfigsSound'
    BY <2>1, FilesKept
  <2>3. saves' \in 0..MaxSaves
    BY <2>1, ActivationAssumption DEF TypesRest
  <2>4. TypesRest' /\ AskSound'
    BY <2>1, <2>3 DEF TypesRest, AskSound
  <2> QED BY <2>2, <2>4
<1>5. ASSUME NEW c \in Configs, EndSave(c) PROVE IInv'
  <2>1. /\ UNCHANGED <<pc, call, todo, data, sole, asked, reply, saves, faults>>
        /\ config' = c /\ saving' = FALSE
    BY <1>5 DEF EndSave
  <2>2. ActivationsSound' /\ GitconfigsSound'
    BY <2>1, FilesKept
  <2>3. TypesRest' /\ AskSound'
    BY <2>1 DEF TypesRest, AskSound
  <2> QED BY <2>2, <2>3
<1>6. ASSUME UNCHANGED vars PROVE IInv'
  <2>1. ActivationsSound' /\ GitconfigsSound'
    BY <1>6, FilesKept DEF vars
  <2>2. TypesRest' /\ AskSound'
    BY <1>6 DEF vars, TypesRest, AskSound
  <2> QED BY <2>1, <2>2
<1> QED BY <1>1, <1>2, <1>3, <1>4, <1>5, <1>6

\* What the last export of a key is, of a sound plan that is done.
LEMMA ExportOfGit ==
  ASSUME NEW c, NEW v, NEW plan, PlanSound(c, v, plan), Done(plan) = DOMAIN plan,
         "GIT_CONFIG_GLOBAL" \in DOMAIN ExportsOf(plan)
  PROVE  \E i \in WritesOf(plan) :
           /\ IsGitconfig(plan[i].path)
           /\ ExportsOf(plan)["GIT_CONFIG_GLOBAL"] = <<<<"file", plan[i].path>>>>
<1> DEFINE exports == {i \in Done(plan) : plan[i].do = "export"}
           S == {i \in exports : plan[i].key = "GIT_CONFIG_GLOBAL"}
           m == Max(S)
<1>1. DOMAIN plan = 1..Len(plan) /\ Len(plan) \in Nat
  BY DEF PlanSound, IsSequence
<1>2. S \subseteq 1..Len(plan) /\ S # {}
  BY <1>1 DEF ExportsOf
<1>3. m \in S
  <2> HIDE DEF S
  <2> QED BY <1>1, <1>2, GreatestNatural
<1>4. ExportsOf(plan)["GIT_CONFIG_GLOBAL"] = plan[m].text
  BY DEF ExportsOf
<1>5. m \in DOMAIN plan /\ plan[m].do = "export" /\ plan[m].key = "GIT_CONFIG_GLOBAL"
  BY <1>3
<1> HIDE DEF m, S, IsGitconfig
<1>6. /\ m - 1 \in DOMAIN plan /\ plan[m - 1].do = "write" /\ IsGitconfig(plan[m - 1].path)
      /\ plan[m].text = <<<<"file", plan[m - 1].path>>>>
  BY <1>5 DEF PlanSound
<1>7. m - 1 \in WritesOf(plan)
  BY <1>6 DEF WritesOf
<1> QED BY <1>4, <1>6, <1>7

\* What git asks the helper comes from a whole gitconfig.
LEMMA GitAsksStep ==
  ASSUME IInv, NEW a \in Activations, NEW remote \in Remotes, GitAsks(a, remote)
  PROVE  IInv'
<1> USE DEF IInv
<1>1. /\ UNCHANGED <<config, saving, pc, call, todo, data, sole, saves, faults>>
      /\ pc[a] = "active" /\ reply' = None
  BY DEF GitAsks
<1> DEFINE exports == ExportsOf(call[a].plan)
           path == exports["GIT_CONFIG_GLOBAL"][1][2]
           text == data[path]
<1>2. "GIT_CONFIG_GLOBAL" \in DOMAIN exports /\ text \notin {Empty, Torn} /\ Here(text[1][2], remote)
  BY DEF GitAsks
<1>3. PICK o \in {call[a].args.override} \cup (IF call[a].args.eval THEN {None} ELSE {}) :
        asked' = [remote |-> remote, url |-> text[1][2], name |-> text[2][2], override |-> o]
  BY DEF GitAsks
<1>4. /\ CallSound(call[a], todo[a]) /\ Written(a, call[a].plan, todo[a], data, sole)
      /\ Done(call[a].plan) = DOMAIN call[a].plan /\ todo[a] = {}
  BY <1>1 DEF ActivationsSound, Started, TypesRest
<1>5. PICK i \in WritesOf(call[a].plan) :
        /\ IsGitconfig(call[a].plan[i].path)
        /\ exports["GIT_CONFIG_GLOBAL"] = <<<<"file", call[a].plan[i].path>>>>
  <2>1. PlanSound(call[a].config, call[a].args, call[a].plan)
    BY <1>4 DEF CallSound
  <2>2. Done(call[a].plan) = DOMAIN call[a].plan
    BY <1>4
  <2>3. "GIT_CONFIG_GLOBAL" \in DOMAIN ExportsOf(call[a].plan)
    BY <1>2
  <2> QED BY <2>1, <2>2, <2>3, ExportOfGit, SMTT(30)
<1>6. path = call[a].plan[i].path
  BY <1>5
<1>7. path \in DOMAIN data /\ IsGitconfig(path)
  BY <1>4, <1>5, <1>6 DEF Written
<1> HIDE DEF path
<1>8. text \in GitconfigTexts
  BY <1>2, <1>7 DEF GitconfigsSound
<1>9. text[2][2] \in Names
  BY <1>8 DEF GitconfigTexts
<1>10. o \in Url \cup {None}
  BY <1>3, <1>4, ActivationAssumption DEF CallSound
<1> HIDE DEF text
<1>11. /\ asked'.remote = remote /\ asked'.url = text[1][2] /\ asked'.name = text[2][2]
       /\ asked'.override = o
  BY <1>3
<1>12. ActivationsSound' /\ GitconfigsSound'
  BY <1>1, FilesKept
<1>13. TypesRest'
  BY <1>1, <1>9, <1>11 DEF TypesRest
<1>14. AskSound'
  BY <1>1, <1>2, <1>10, <1>11 DEF AskSound
<1> QED BY <1>12, <1>13, <1>14

\* The helper answers from the configuration it loads.
LEMMA HelperStep ==
  ASSUME IInv, Helper
  PROVE  IInv'
<1> DEFINE c == Load(config, asked.override)
           said == IF saving THEN "unreadable" ELSE Response(c, asked.name, asked.remote)
<1> USE DEF IInv
<1>1. /\ UNCHANGED <<config, saving, pc, call, todo, data, sole, saves, faults>>
      /\ asked # None /\ asked' = None /\ reply' = [to |-> asked, config |-> c, said |-> said]
  BY DEF Helper
<1>2. c.url \in Url
  BY <1>1, LoadedUrl DEF TypesRest, AskSound
<1> HIDE DEF c
<1>3. said \in {"unreadable", Response(c, asked.name, asked.remote)}
  OBVIOUS
<1> HIDE DEF said
<1>4. reply'.to = asked /\ reply'.config = c /\ reply'.said = said
  BY <1>1
<1>5. ActivationsSound' /\ GitconfigsSound'
  BY <1>1, FilesKept
<1>6. TypesRest'
  BY <1>1 DEF TypesRest
<1>7. AskSound'
  BY <1>1, <1>2, <1>3, <1>4 DEF AskSound
<1> QED BY <1>5, <1>6, <1>7

\* Every step keeps the invariant.
LEMMA StepSound == IInv /\ [Next]_vars => IInv'
<1> SUFFICES ASSUME IInv, [Next]_vars PROVE IInv'
  OBVIOUS
<1>1. ASSUME NEW a \in Activations, NEW v \in Invocations, Activate(a, v) PROVE IInv'
  BY <1>1, ActivateStep
<1>2. ASSUME NEW a \in Activations, Open(a) PROVE IInv'
  BY <1>2, OpenStep
<1>3. ASSUME NEW a \in Activations, Write(a) PROVE IInv'
  BY <1>3, WriteStep
<1>4. ASSUME NEW a \in Activations, WriteFails(a) PROVE IInv'
  BY <1>4, WriteFailsStep
<1>5. ASSUME NEW a \in Activations, NEW r \in Remotes, GitAsks(a, r) PROVE IInv'
  BY <1>5, GitAsksStep
<1>6. ASSUME \/ \E a \in Activations : LoadFails(a) \/ OpenFails(a) \/ Finish(a)
             \/ BeginSave \/ (\E c \in Configs : EndSave(c))
             \/ UNCHANGED vars
      PROVE  IInv'
  BY <1>6, QuietStep
<1>7. ASSUME Helper PROVE IInv'
  BY <1>7, HelperStep
<1> QED BY <1>1, <1>2, <1>3, <1>4, <1>5, <1>6, <1>7 DEF Next

\* The invariant holds of every reachable state.
LEMMA Sound == Spec => []IInv
  BY InitSound, StepSound, PTL DEF Spec

-----------------------------------------------------------------------------
(* The theorems                                                            *)

\* The state is typed: an open file is the next one to write, and git asks the helper for a
\* token under a name there may be (activate_with_manifest, write_secret_file).
THEOREM ActivationTyped == Spec => []TypeOK
<1>1. IInv => TypeOK
  <2> SUFFICES ASSUME IInv PROVE TypeOK
    OBVIOUS
  <2>1. ASSUME NEW a \in Activations
        PROVE  /\ pc[a] \in {"writing", "open", "active"} =>
                    call[a].args \in Invocations /\ todo[a] \subseteq WritesOf(call[a].plan)
               /\ pc[a] = "open" => todo[a] # {} /\ Current(a).path \in DOMAIN data
               /\ pc[a] = "active" => todo[a] = {}
    BY DEF IInv, TypesRest, ActivationsSound, Started, CallSound, Opened
  <2> QED BY <2>1 DEF TypeOK, IInv, TypesRest
<1> QED BY <1>1, Sound, PTL

\* What an activation writes and exports stays within the routes its token is for and its
\* arguments select, whatever the adapters, and the git helper is set up only with github
\* among them (has_route).
THEOREM ActivationsKeepToGrant == Spec => []RoutesWithinGrant
<1>1. IInv => RoutesWithinGrant
  <2> SUFFICES ASSUME IInv, NEW a \in Activations, pc[a] \in {"writing", "open", "active"},
                      NEW i \in Done(call[a].plan)
               PROVE  LET granted == Granted(call[a].config, call[a].args)
                          step == call[a].plan[i]
                      IN  /\ RoutesIn(step.text) \subseteq granted
                          /\ step.do = "export" /\ step.key = "GIT_CONFIG_GLOBAL" => Github \in granted
    BY DEF RoutesWithinGrant
  <2>1. PlanSound(call[a].config, call[a].args, call[a].plan)
    BY DEF IInv, ActivationsSound, Started, CallSound
  <2>2. i \in DOMAIN call[a].plan /\ i \in Nat
    BY <2>1 DEF Done, PlanSound, IsSequence
  <2>3. call[a].plan[i] # Fail
    BY <2>1, <2>2 DEF Done, PlanSound, IsSequence
  <2> QED BY <2>1, <2>2, <2>3 DEF PlanSound
<1> QED BY <1>1, Sound, PTL

\* The files of an activated shell exist and hold what its activation rendered last, unless
\* another process had them open too or opened them since, whatever was in them before
\* (write_secret_file).
THEOREM ActiveShellsFindTheirFiles == Spec => []ActiveFilesWhole
<1>1. IInv => ActiveFilesWhole
  <2> SUFFICES ASSUME IInv, NEW a \in Activations, pc[a] = "active",
                      NEW i \in WritesOf(call[a].plan)
               PROVE  LET plan == call[a].plan IN
                      /\ plan[i].path \in DOMAIN data
                      /\ sole[plan[i].path] = a
                         /\ (\A j \in WritesOf(plan) : plan[j].path = plan[i].path => j <= i) =>
                           data[plan[i].path] = plan[i].text
    BY DEF ActiveFilesWhole
  <2>1. Written(a, call[a].plan, todo[a], data, sole) /\ todo[a] = {}
    BY DEF IInv, TypesRest, ActivationsSound, Started
  <2> QED BY <2>1 DEF Written, LastOf
<1> QED BY <1>1, Sound, PTL

\* The helper answers git with the token the config has, as long as the gateway it names is
\* the one git was sent to, in whatever case either is written (gateway_endpoint).
THEOREM HelperAnswersGit == Spec => []HelperAnswers
<1>1. IInv => HelperAnswers
  <2> SUFFICES ASSUME IInv, reply # None, reply.to.remote.op = "get", reply.said # "unreadable",
                      HasEndpoint(reply.config.url), Here(reply.to.url, reply.config.url),
                      reply.config.tokens[reply.to.name] # None,
                      Allows(reply.config.tokens[reply.to.name], Github)
               PROVE  reply.said = reply.config.tokens[reply.to.name].token
    BY DEF HelperAnswers
  <2>1. Here(reply.to.url, reply.to.remote)
        /\ reply.said = Response(reply.config, reply.to.name, reply.to.remote)
    BY DEF IInv, AskSound
  <2>2. AsksGateway(reply.to.remote, reply.config.url)
    BY <2>1 DEF AsksGateway, Endpoint, Here, Same
  <2> QED BY <2>1, <2>2 DEF Response
<1> QED BY <1>1, Sound, PTL

\* A token goes to a get for the gateway of the config and to nothing else, as the config
\* has it then and only if it is for github (credential_response).
THEOREM HelperKeepsToGateway == Spec => []HelperOwnGateway
<1>1. IInv => HelperOwnGateway
  <2> DEFINE entry == reply.config.tokens[reply.to.name]
  <2> SUFFICES ASSUME IInv, reply # None, reply.said \notin {None, "error", "unreadable"}
               PROVE  /\ reply.to.remote.op = "get"
                      /\ Here(reply.config.url, reply.to.remote)
                      /\ entry # None /\ Allows(entry, Github) /\ reply.said = entry.token
    BY DEF HelperOwnGateway
  <2>1. /\ Here(reply.to.url, reply.to.remote) /\ reply.config.url \in Url
        /\ reply.said = Response(reply.config, reply.to.name, reply.to.remote)
    BY DEF IInv, AskSound
  <2>2. /\ reply.to.remote.op = "get" /\ entry # None /\ Allows(entry, Github)
        /\ AsksGateway(reply.to.remote, reply.config.url) /\ reply.said = entry.token
    BY <2>1 DEF Response
  <2>3. reply.config.url.scheme \in DOMAIN Lower /\ reply.config.url.host \in DOMAIN Lower
    BY <2>1, <2>2 DEF AsksGateway, HasEndpoint, Url
  <2>4. Here(reply.config.url, reply.to.remote)
    BY <2>1, <2>2, <2>3 DEF AsksGateway, Endpoint, Here, Same
  <2> QED BY <2>2, <2>4
<1> QED BY <1>1, Sound, PTL
=============================================================================
