------------------------- MODULE CredentialsProofs -------------------------
(***************************************************************************)
(* What the priority chain of Credentials returns, for every set of routes,*)
(* sources, values and every store.                                        *)
(***************************************************************************)
EXTENDS Credentials, FiniteSetTheorems, TLAPS

\* A nonempty set of naturals has a least element: of the intervals up to its
\* elements one has no other strictly inside it.
LEMMA LeastExists ==
  ASSUME NEW S, S \subseteq Nat, S # {}
  PROVE  \E i \in S : \A j \in S : i <= j
<1> DEFINE T == {1..i : i \in S}
<1>1. T \subseteq FiniteSubsetsOf(Nat)
  <2> SUFFICES ASSUME NEW i \in S PROVE 1..i \in FiniteSubsetsOf(Nat)
    OBVIOUS
  <2>1. IsFiniteSet(1..i)
    BY FS_Interval
  <2> QED
    BY <2>1 DEF FiniteSubsetsOf
<1>2. PICK x \in T : \A y \in T : <<y, x>> \notin StrictSubsetOrdering(Nat)
  <2>1. T # {}
    OBVIOUS
  <2>2. IsWellFoundedOn(StrictSubsetOrdering(Nat), FiniteSubsetsOf(Nat))
    BY FS_StrictSubsetOrderingWellFounded
  <2> HIDE DEF T
  <2> QED
    BY <1>1, <2>1, <2>2, WFMin
<1>3. PICK i \in S : x = 1..i
  OBVIOUS
<1>4. ASSUME NEW j \in S, ~(i <= j) PROVE FALSE
  <2>1. 1..j \subseteq 1..i /\ i \in 1..i /\ i \notin 1..j
    BY <1>4
  <2>2. <<1..j, 1..i>> \in StrictSubsetOrdering(Nat)
    BY <2>1 DEF StrictSubsetOrdering
  <2> QED
    BY <1>2, <1>3, <2>2
<1> QED
  BY <1>4

\* The first of some source indices is one of them.
LEMMA FirstIsOne ==
  ASSUME NEW S, S \subseteq Nat, S # {}
  PROVE  First(S) \in S
  BY LeastExists DEF First

\* The sources of an entry and what the environment has for them.
LEMMA SourcesTyped ==
  ASSUME NEW e \in Entries, NEW i \in DOMAIN SourcesOf[e]
  PROVE  /\ i \in Nat \ {0} /\ SourcesOf[e][i] \in Source
         /\ EnvOf(e, i) \in Values \cup {None}
<1>1. SourcesOf[e] \in Seq(Source)
  BY CredentialsAssumption
<1>2. i \in Nat \ {0} /\ SourcesOf[e][i] \in Source
  BY <1>1
<1>3. SourcesOf[e][i].env \in Envs
  BY <1>2 DEF Source
<1> QED
  BY <1>2, <1>3, CredentialsAssumption DEF EnvOf

\* A stored value is picked with a source that accepts it.
LEMMA FromStoreFits ==
  ASSUME NEW e \in Entries, NEW from \in {"binding", "default"}, NEW v \in Values,
         FromStore(e, from, v) # None
  PROVE  LET c == FromStore(e, from, v) IN
         c \in Pick /\ c.from = from /\ c.value = v /\ c.source \in Accepting(e, v)
<1>1. Accepting(e, v) # {}
  BY DEF FromStore
<1>2. \A i \in Accepting(e, v) : i \in Nat \ {0}
  BY SourcesTyped DEF Accepting
<1>3. First(Accepting(e, v)) \in Accepting(e, v)
  BY <1>1, <1>2, FirstIsOne
<1> QED
  BY <1>1, <1>2, <1>3 DEF FromStore, Pick

\* An environment value is picked with a source that accepts it.
LEMMA FromEnvFits ==
  ASSUME NEW e \in Entries, NEW preferred, FromEnv(e, preferred) # None
  PROVE  LET c == FromEnv(e, preferred) IN
         c \in Pick /\ c.from = "env" /\ c.source \in Accepting(e, c.value)
<1>1. EnvUsable(e) # {}
  BY DEF FromEnv
<1>2. \A i \in EnvUsable(e) :
        /\ i \in Nat \ {0} /\ EnvOf(e, i) \in Values /\ i \in Accepting(e, EnvOf(e, i))
  BY SourcesTyped DEF EnvUsable, Accepting
<1>3. First(EnvUsable(e)) \in EnvUsable(e)
  BY <1>1, <1>2, FirstIsOne
<1>4. PICK i \in EnvUsable(e) :
        FromEnv(e, preferred) = [from |-> "env", source |-> i, value |-> EnvOf(e, i)]
  BY <1>1, <1>3 DEF FromEnv
<1> QED
  BY <1>2, <1>4 DEF Pick

\* A value that the store gives out for a service was registered for it.
LEMMA CheckedIsStored ==
  ASSUME NEW st \in Stores, NEW n \in CredNames, NEW r \in Routes, GetChecked(st, n, r) # None
  PROVE  /\ GetChecked(st, n, r) \in Values
         /\ st[n] = [service |-> r, value |-> GetChecked(st, n, r)]
  BY DEF GetChecked, Stores, ServiceToken

\* Whatever rule applies, the value goes out through a source of the entry that
\* accepts it: never empty, never under a prefix that the source rejects.
THEOREM ResolvedFits ==
  ASSUME NEW st \in Stores, NEW e \in Entries, NEW binding \in CredNames \cup {None},
         NEW preferred, Resolve(st, e, binding, preferred) # None
  PROVE  LET c == Resolve(st, e, binding, preferred) IN
         c \in Pick /\ c.source \in Accepting(e, c.value)
<1> DEFINE r == CanonicalOf[e]
<1>1. r \in Routes /\ r \in CredNames
  BY CredentialsAssumption
<1>2. CASE binding # None
  <2>1. GetChecked(st, binding, r) # None
    BY <1>2 DEF Resolve
  <2>2. GetChecked(st, binding, r) \in Values
    BY <1>1, <1>2, <2>1, CheckedIsStored
  <2>3. Resolve(st, e, binding, preferred) = FromStore(e, "binding", GetChecked(st, binding, r))
    BY <1>2, <2>1 DEF Resolve
  <2> QED
    BY <2>2, <2>3, FromStoreFits
<1>3. CASE binding = None /\ GetForService(st, r) # None
  <2>1. GetForService(st, r) \in Values
    BY <1>1, <1>3, CheckedIsStored DEF GetForService
  <2>2. Resolve(st, e, binding, preferred) = FromStore(e, "default", GetForService(st, r))
    BY <1>3 DEF Resolve
  <2> QED
    BY <2>1, <2>2, FromStoreFits
<1>4. CASE binding = None /\ GetForService(st, r) = None
  <2>1. Resolve(st, e, binding, preferred) = FromEnv(e, preferred)
    BY <1>4 DEF Resolve
  <2> QED
    BY <2>1, FromEnvFits
<1> QED
  BY <1>2, <1>3, <1>4

\* A bound token gets the value that the bound name holds for the route, or nothing.
THEOREM BoundResolvesToBinding ==
  ASSUME NEW st \in Stores, NEW e \in Entries, NEW binding \in CredNames,
         NEW preferred, Resolve(st, e, binding, preferred) # None
  PROVE  LET c == Resolve(st, e, binding, preferred) IN
         /\ c.from = "binding"
         /\ st[binding] = [service |-> CanonicalOf[e], value |-> c.value]
<1> DEFINE r == CanonicalOf[e]
<1>1. r \in Routes /\ binding # None
  BY CredentialsAssumption
<1>2. GetChecked(st, binding, r) # None
  BY <1>1 DEF Resolve
<1>3. Resolve(st, e, binding, preferred) = FromStore(e, "binding", GetChecked(st, binding, r))
  BY <1>1, <1>2 DEF Resolve
<1>4. /\ GetChecked(st, binding, r) \in Values
      /\ st[binding] = [service |-> r, value |-> GetChecked(st, binding, r)]
  BY <1>1, <1>2, CheckedIsStored
<1>5. FromStore(e, "binding", GetChecked(st, binding, r)) # None
  BY <1>3
<1> QED
  BY <1>3, <1>4, <1>5, FromStoreFits

\* Without a binding, the environment is read only when the store has no credential
\* of the name and the service of the route; otherwise the stored value is used.
THEOREM UnboundResolvesInOrder ==
  ASSUME NEW st \in Stores, NEW e \in Entries, NEW preferred,
         Resolve(st, e, None, preferred) # None
  PROVE  LET c == Resolve(st, e, None, preferred)
             r == CanonicalOf[e]
         IN  IF c.from = "env" THEN st[r] = None \/ st[r].service # r
             ELSE st[r] = [service |-> r, value |-> c.value]
<1> DEFINE r == CanonicalOf[e]
<1>1. r \in Routes /\ r \in CredNames
  BY CredentialsAssumption
<1>2. CASE GetForService(st, r) # None
  <2>1. Resolve(st, e, None, preferred) = FromStore(e, "default", GetForService(st, r))
    BY <1>2 DEF Resolve
  <2>2. /\ GetForService(st, r) \in Values
        /\ st[r] = [service |-> r, value |-> GetForService(st, r)]
    BY <1>1, <1>2, CheckedIsStored DEF GetForService
  <2> QED
    BY <2>1, <2>2, FromStoreFits
<1>3. CASE GetForService(st, r) = None
  <2>1. Resolve(st, e, None, preferred) = FromEnv(e, preferred)
    BY <1>3 DEF Resolve
  <2>2. st[r] = None \/ st[r].service # r
    BY <1>1, <1>3, CredentialsAssumption DEF GetForService, GetChecked, Stores, ServiceToken
  <2> QED
    BY <2>1, <2>2, FromEnvFits
<1> QED
  BY <1>2, <1>3
=============================================================================
