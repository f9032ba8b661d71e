--------------------------- MODULE RoutingProofs ---------------------------
(***************************************************************************)
(* What the table of routes holds once the gateway serves, why it may      *)
(* refuse to, and where a request goes: proofs about Routing, for every    *)
(* set of route files, names and paths.                                    *)
(***************************************************************************)
EXTENDS Routing, NumberLemmas, SequenceTheorems, FiniteSetTheorems, TLAPS

-----------------------------------------------------------------------------
(* The order of the keys                                                   *)

\* a comes before b for what is at position i.
Precedes(a, b, i) ==
  /\ i \in 1..Len(b)
  /\ \A j \in 1..(i - 1) : j <= Len(a) /\ a[j] = b[j]
  /\ i = Len(a) + 1 \/ (i <= Len(a) /\ Rank[a[i]] < Rank[b[i]])

\* Of two keys one precedes the other, at the place where they part.
LEMMA PrecedesTotal ==
  ASSUME NEW a \in Seq(Symbols), NEW b \in Seq(Symbols), a # b
  PROVE  \E i \in Nat : Precedes(a, b, i) \/ Precedes(b, a, i)
<1> DEFINE D == {i \in Nat \ {0} : i <= Len(a) /\ i <= Len(b) => a[i] # b[i]}
           i == Min(D)
<1>1. Len(a) \in Nat /\ Len(b) \in Nat
  BY LenProperties
<1>2. D \in SUBSET Nat /\ D # {}
  <2>1. Len(a) + 1 \in D
    BY <1>1
  <2> QED BY <2>1
<1>3. i \in D /\ \A j \in D : i <= j
  BY <1>2, LeastNatural
<1>4. \A j \in 1..(i - 1) : j <= Len(a) /\ j <= Len(b) /\ a[j] = b[j]
  BY <1>1, <1>3
<1> HIDE DEF i
<1>5. i \in Nat \ {0} /\ (i <= Len(a) /\ i <= Len(b) => a[i] # b[i])
  BY <1>3
<1>6. i <= Len(a) + 1 /\ i <= Len(b) + 1
  <2>1. i - 1 \in 1..(i - 1) \/ i = 1
    BY <1>5
  <2> QED BY <1>1, <1>4, <1>5, <2>1
<1>7. CASE i <= Len(a) /\ i <= Len(b)
  <2>1. a[i] \in Symbols /\ b[i] \in Symbols /\ a[i] # b[i]
    BY <1>1, <1>5, <1>7, ElementOfSeq
  <2>2. Rank[a[i]] \in Nat /\ Rank[b[i]] \in Nat /\ Rank[a[i]] # Rank[b[i]]
    BY <2>1, RoutingAssumption
  <2> QED BY <1>1, <1>4, <1>5, <1>7, <2>2 DEF Precedes
<1>8. CASE i = Len(a) + 1 /\ i <= Len(b)
  BY <1>1, <1>4, <1>5, <1>8 DEF Precedes
<1>9. CASE i <= Len(a) /\ i = Len(b) + 1
  BY <1>1, <1>4, <1>5, <1>9 DEF Precedes
<1>10. CASE i = Len(a) + 1 /\ i = Len(b) + 1
  <2>1. Len(a) = Len(b) /\ \A j \in 1..Len(a) : a[j] = b[j]
    BY <1>1, <1>4, <1>10
  <2> QED BY <2>1, SeqEqual
<1> QED BY <1>1, <1>5, <1>6, <1>7, <1>8, <1>9, <1>10

\* What precedes something precedes what that precedes.
LEMMA PrecedesTransitive ==
  ASSUME NEW a \in Seq(Symbols), NEW b \in Seq(Symbols), NEW c \in Seq(Symbols),
         NEW i \in Nat, NEW j \in Nat, Precedes(a, b, i), Precedes(b, c, j)
  PROVE  \E k \in Nat : Precedes(a, c, k)
<1>1. Len(a) \in Nat /\ Len(b) \in Nat /\ Len(c) \in Nat
  BY LenProperties
<1>2. /\ i \in 1..Len(b) /\ \A l \in 1..(i - 1) : l <= Len(a) /\ a[l] = b[l]
      /\ i = Len(a) + 1 \/ (i <= Len(a) /\ Rank[a[i]] < Rank[b[i]])
  BY DEF Precedes
<1>3. /\ j \in 1..Len(c) /\ \A l \in 1..(j - 1) : l <= Len(b) /\ b[l] = c[l]
      /\ j = Len(b) + 1 \/ (j <= Len(b) /\ Rank[b[j]] < Rank[c[j]])
  BY DEF Precedes
<1>4. CASE i < j
  <2>1. b[i] = c[i] /\ i \in 1..Len(c) /\ \A l \in 1..(i - 1) : a[l] = c[l]
    BY <1>1, <1>2, <1>3, <1>4
  <2>2. Precedes(a, c, i)
    BY <1>2, <2>1 DEF Precedes
  <2> QED BY <2>2
<1>5. CASE i = j
  <2>1. \A l \in 1..(i - 1) : a[l] = b[l] /\ b[l] = c[l]
    BY <1>2, <1>3, <1>5
  <2>2. Rank[b[i]] < Rank[c[i]] /\ \A l \in 1..(i - 1) : a[l] = c[l]
    <3>1. i # Len(b) + 1
      BY <1>1, <1>2
    <3> QED BY <1>3, <1>5, <2>1, <3>1
  <2>3. i <= Len(a) => /\ Rank[a[i]] \in Nat /\ Rank[b[i]] \in Nat /\ Rank[c[i]] \in Nat
    <3> SUFFICES ASSUME i <= Len(a)
                 PROVE  Rank[a[i]] \in Nat /\ Rank[b[i]] \in Nat /\ Rank[c[i]] \in Nat
      OBVIOUS
    <3>1. i \in 1..Len(a) /\ i \in 1..Len(b) /\ i \in 1..Len(c)
      BY <1>1, <1>2, <1>3, <1>5
    <3>2. a[i] \in Symbols /\ b[i] \in Symbols /\ c[i] \in Symbols
      BY <3>1, ElementOfSeq
    <3> QED BY <3>2, RoutingAssumption
  <2>4. i = Len(a) + 1 \/ (i <= Len(a) /\ Rank[a[i]] < Rank[c[i]])
    BY <1>2, <2>2, <2>3
  <2>5. Precedes(a, c, i)
    BY <1>2, <1>3, <1>5, <2>2, <2>4 DEF Precedes
  <2> QED BY <2>5
<1>6. CASE j < i
  <2>1. j \in 1..(i - 1) /\ j <= Len(b) /\ j # Len(b) + 1
    BY <1>1, <1>2, <1>3, <1>6
  <2>2. j <= Len(a) /\ a[j] = b[j] /\ Rank[b[j]] < Rank[c[j]]
    BY <1>2, <1>3, <2>1
  <2>3. \A l \in 1..(j - 1) : l <= Len(a) /\ a[l] = c[l]
    BY <1>1, <1>2, <1>3, <1>6
  <2>4. Precedes(a, c, j)
    BY <1>3, <2>2, <2>3 DEF Precedes
  <2> QED BY <2>4
<1> QED BY <1>4, <1>5, <1>6

\* The order with its place is the order of the map.
LEMMA PrecedingIsBefore ==
  ASSUME NEW a \in Seq(Symbols), NEW b \in Seq(Symbols), NEW i \in Nat, Precedes(a, b, i)
  PROVE  Before(a, b)
<1>1. Len(a) \in Nat /\ Len(b) \in Nat /\ DOMAIN a = 1..Len(a) /\ DOMAIN b = 1..Len(b)
  BY LenProperties
<1>2. i \in 1..Len(b) /\ \A l \in 1..(i - 1) : l <= Len(a) /\ a[l] = b[l]
  BY DEF Precedes
<1>3. CASE i = Len(a) + 1
  <2> DEFINE p == SubSeq(b, 1, Len(a))
  <2>1. \A l \in 1..Len(a) : b[l] \in Symbols
    BY <1>1, <1>2, <1>3, ElementOfSeq
  <2>2. p \in Seq(Symbols) /\ Len(p) = Len(a) /\ \A l \in 1..Len(a) : p[l] = b[l]
    BY <1>1, <2>1, SubSeqProperties
  <2>3. p = a
    BY <1>1, <1>2, <1>3, <2>2, SeqEqual
  <2>4. Len(a) < Len(b)
    BY <1>1, <1>2, <1>3
  <2> QED BY <1>1, <2>3, <2>4 DEF Before, StartsWith
<1>4. CASE i <= Len(a) /\ Rank[a[i]] < Rank[b[i]]
  <2> DEFINE p == SubSeq(a, 1, i - 1)  q == SubSeq(b, 1, i - 1)
  <2>1. \A l \in 1..(i - 1) : a[l] \in Symbols /\ b[l] \in Symbols
    BY <1>1, <1>2, <1>4, ElementOfSeq
  <2>2. p \in Seq(Symbols) /\ Len(p) = i - 1 /\ \A l \in 1..(i - 1) : p[l] = a[l]
    BY <1>1, <1>2, <2>1, SubSeqProperties
  <2>3. q \in Seq(Symbols) /\ Len(q) = i - 1 /\ \A l \in 1..(i - 1) : q[l] = b[l]
    BY <1>1, <1>2, <2>1, SubSeqProperties
  <2>4. p = q
    BY <1>1, <1>2, <2>2, <2>3, SeqEqual
  <2>5. i \in DOMAIN a \cap DOMAIN b
    BY <1>1, <1>2, <1>4
  <2> QED BY <1>4, <2>4, <2>5 DEF Before
<1> QED BY <1>3, <1>4 DEF Precedes

\* A finite set has a least element in an order that compares any two of its elements.
LEMMA FiniteLeast ==
  ASSUME NEW S, IsFiniteSet(S), S # {}, NEW R,
         \A x, y \in S : x = y \/ <<x, y>> \in R \/ <<y, x>> \in R,
         \A x, y, z \in S : <<x, y>> \in R /\ <<y, z>> \in R => <<x, z>> \in R
  PROVE  \E x \in S : \A y \in S : x = y \/ <<x, y>> \in R
<1>1. PICK n \in Nat : ExistsSurjection(1..n, S)
  BY FS_NatSurjection
<1>2. PICK f \in [1..n -> S] : \A y \in S : \E i \in 1..n : f[i] = y
  BY <1>1 DEF ExistsSurjection, Surjection
<1> DEFINE Least(x, k) == \A i \in 1..k : x = f[i] \/ <<x, f[i]>> \in R
           T == {k \in Nat : k = 0 \/ k > n \/ \E x \in S : Least(x, k)}
<1>3. 0 \in T
  OBVIOUS
<1>4. ASSUME NEW k \in Nat, k \in T PROVE k + 1 \in T
  <2>1. CASE k + 1 > n
    BY <2>1
  <2>2. CASE k + 1 <= n
    <3> DEFINE y == f[k + 1]
    <3>1. y \in S
      BY <1>2, <2>2
    <3>2. CASE k = 0
      <4>1. Least(y, k + 1)
        BY <3>2
      <4> QED BY <3>1, <4>1
    <3>3. CASE k # 0
      <4>1. PICK x \in S : Least(x, k)
        BY <1>4, <2>2, <3>3
      <4>2. CASE x = y \/ <<x, y>> \in R
        <5>1. Least(x, k + 1)
          BY <4>1, <4>2
        <5> QED BY <5>1
      <4>3. CASE <<y, x>> \in R
        <5>1. \A i \in 1..k : f[i] \in S
          BY <1>2, <2>2
        <5>2. \A i \in 1..k : <<y, f[i]>> \in R
          BY <3>1, <4>1, <4>3, <5>1
        <5>3. Least(y, k + 1)
          BY <5>2
        <5> QED BY <3>1, <5>3
      <4> QED BY <3>1, <4>2, <4>3
    <3> QED BY <3>2, <3>3
  <2> QED BY <2>1, <2>2
<1>5. n \in T
  <2> HIDE DEF T
  <2> QED BY <1>3, <1>4, Induction
<1>6. n # 0
  BY <1>2
<1>7. PICK x \in S : Least(x, n)
  BY <1>5, <1>6
<1> QED BY <1>2, <1>7

\* Of a finite set of records with distinct keys one is visited first.
LEMMA ForemostIsOne ==
  ASSUME NEW S, IsFiniteSet(S), S # {}, \A x \in S : x.key \in Seq(Symbols),
         \A x, y \in S : x.key = y.key => x = y
  PROVE  Foremost(S) \in S
<1> DEFINE R == {p \in S \X S : \E i \in Nat : Precedes(p[1].key, p[2].key, i)}
<1>1. \A x, y \in S : x = y \/ <<x, y>> \in R \/ <<y, x>> \in R
  BY PrecedesTotal, SMTT(30)
<1>2. \A x, y, z \in S : <<x, y>> \in R /\ <<y, z>> \in R => <<x, z>> \in R
  BY PrecedesTransitive
<1>3. \A x, y \in S : <<x, y>> \in R => Before(x.key, y.key)
  BY PrecedingIsBefore
<1>4. \E x \in S : \A y \in S : x = y \/ <<x, y>> \in R
  <2> HIDE DEF R
  <2> QED BY <1>1, <1>2, FiniteLeast, ZenonT(40)
<1>5. \E x \in S : \A y \in S : x = y \/ Before(x.key, y.key)
  BY <1>3, <1>4
<1> QED BY <1>5 DEF Foremost

-----------------------------------------------------------------------------
(* Names and paths                                                         *)

\* The symbols of a sub-sequence.
LEMMA Slice ==
  ASSUME NEW s \in Seq(Symbols), NEW i \in 1..(Len(s) + 1), NEW j \in (i - 1)..Len(s)
  PROVE  /\ SubSeq(s, i, j) \in Seq(Symbols) /\ Len(SubSeq(s, i, j)) = j - i + 1
         /\ \A k \in 1..(j - i + 1) : SubSeq(s, i, j)[k] = s[i + k - 1]
<1>1. Len(s) \in Nat /\ i \in Int /\ j \in Int
  BY LenProperties
<1>2. \A k \in i..j : s[k] \in Symbols
  BY <1>1, ElementOfSeq
<1> QED BY <1>1, <1>2, SubSeqProperties

\* What is left behind the first n symbols.
LEMMA Rest ==
  ASSUME NEW s \in Seq(Symbols), NEW n \in 0..Len(s)
  PROVE  /\ From(s, n + 1) \in Seq(Symbols) /\ Len(From(s, n + 1)) = Len(s) - n
         /\ \A i \in 1..(Len(s) - n) : From(s, n + 1)[i] = s[n + i]
<1>1. Len(s) \in Nat /\ Len(s) \in ((n + 1) - 1)..Len(s) /\ n + 1 \in 1..(Len(s) + 1)
      /\ Len(s) - (n + 1) + 1 = Len(s) - n
  BY LenProperties
<1>2. /\ SubSeq(s, n + 1, Len(s)) \in Seq(Symbols)
      /\ Len(SubSeq(s, n + 1, Len(s))) = Len(s) - (n + 1) + 1
      /\ \A k \in 1..(Len(s) - (n + 1) + 1) :
           SubSeq(s, n + 1, Len(s))[k] = s[(n + 1) + k - 1]
  BY <1>1, Slice
<1>3. \A i \in 1..(Len(s) - n) : (n + 1) + i - 1 = n + i
  BY <1>1
<1> QED BY <1>1, <1>2, <1>3 DEF From

\* The first m symbols.
LEMMA Beginning ==
  ASSUME NEW s \in Seq(Symbols), NEW m \in 0..Len(s)
  PROVE  /\ SubSeq(s, 1, m) \in Seq(Symbols) /\ Len(SubSeq(s, 1, m)) = m
         /\ \A i \in 1..m : SubSeq(s, 1, m)[i] = s[i]
<1>1. Len(s) \in Nat /\ m \in (1 - 1)..Len(s) /\ 1 \in 1..(Len(s) + 1) /\ m - 1 + 1 = m
  BY LenProperties
<1>2. /\ SubSeq(s, 1, m) \in Seq(Symbols) /\ Len(SubSeq(s, 1, m)) = m - 1 + 1
      /\ \A k \in 1..(m - 1 + 1) : SubSeq(s, 1, m)[k] = s[1 + k - 1]
  BY <1>1, Slice
<1>3. \A i \in 1..m : 1 + i - 1 = i
  BY <1>1
<1> QED BY <1>1, <1>2, <1>3

\* What stands behind the first n symbols, up to the m-th.
LEMMA Piece ==
  ASSUME NEW s \in Seq(Symbols), NEW n \in Nat, NEW m \in Nat, NEW i, i = n + 1,
         n <= m, m <= Len(s)
  PROVE  /\ SubSeq(s, i, m) \in Seq(Symbols) /\ Len(SubSeq(s, i, m)) = m - n
         /\ \A k \in 1..(m - n) : SubSeq(s, i, m)[k] = s[n + k]
<1>1. i \in 1..(Len(s) + 1) /\ m \in (i - 1)..Len(s) /\ m - i + 1 = m - n
  BY LenProperties
<1>2. SubSeq(s, i, m) \in Seq(Symbols) /\ Len(SubSeq(s, i, m)) = m - i + 1
      /\ \A k \in 1..(m - i + 1) : SubSeq(s, i, m)[k] = s[i + k - 1]
  BY <1>1, Slice
<1>3. \A k \in 1..(m - n) : i + k - 1 = n + k
  OBVIOUS
<1>4. Len(SubSeq(s, i, m)) = m - n /\ \A k \in 1..(m - n) : SubSeq(s, i, m)[k] = s[n + k]
  BY <1>1, <1>2, <1>3
<1> QED BY <1>2, <1>4

\* Trimming takes the leading slashes and nothing else.
LEMMA TrimmedFrom ==
  ASSUME NEW s \in Seq(Symbols)
  PROVE  \E n \in 0..Len(s) : /\ \A i \in 1..n : s[i] = Slash
                              /\ n = Len(s) \/ s[n + 1] # Slash
                              /\ TrimStart(s) = From(s, n + 1)
<1>1. Len(s) \in Nat /\ DOMAIN s = 1..Len(s)
  BY LenProperties
<1>2. CASE Solid(s) = {}
  <2>1. TrimStart(s) = From(s, Len(s) + 1)
    BY <1>1, <1>2, SubSeqEmpty DEF TrimStart, From
  <2>2. \A i \in 1..Len(s) : s[i] = Slash
    BY <1>1, <1>2 DEF Solid
  <2>3. Len(s) \in 0..Len(s)
    BY <1>1
  <2> QED BY <2>1, <2>2, <2>3
<1>3. CASE Solid(s) # {}
  <2> DEFINE m == Min(Solid(s))
  <2>1. Solid(s) \in SUBSET Nat
    BY <1>1 DEF Solid
  <2>2. m \in Solid(s) /\ \A i \in Solid(s) : m <= i
    BY <1>3, <2>1, LeastNatural
  <2>3. TrimStart(s) = From(s, m)
    BY <1>3 DEF TrimStart, From
  <2> HIDE DEF m
  <2>4. m \in 1..Len(s) /\ s[m] # Slash /\ \A i \in 1..(m - 1) : s[i] = Slash
    BY <1>1, <2>2 DEF Solid
  <2>5. m - 1 \in 0..Len(s) /\ m = (m - 1) + 1
    BY <1>1, <2>4
  <2> QED BY <2>3, <2>4, <2>5
<1> QED BY <1>2, <1>3

\* A key is a sequence of symbols, and empty only of a name without any.
LEMMA NormalizedKey ==
  ASSUME NEW s \in Seq(Symbols)
  PROVE  Normalize(s) \in Seq(Symbols) /\ (Normalize(s) = <<>> <=> Solid(s) = {})
<1>1. Len(s) \in Nat /\ DOMAIN s = 1..Len(s)
  BY LenProperties
<1>2. CASE Solid(s) = {}
  BY <1>2, EmptySeq DEF Normalize
<1>3. CASE Solid(s) # {}
  <2> DEFINE m == Min(Solid(s))  x == Max(Solid(s))
  <2>1. Solid(s) \in SUBSET Nat /\ Solid(s) \in SUBSET (1..Len(s))
    BY <1>1 DEF Solid
  <2>2. m \in Solid(s) /\ \A i \in Solid(s) : m <= i
    BY <1>3, <2>1, LeastNatural
  <2>3. x \in Solid(s)
    BY <1>1, <1>3, <2>1, GreatestNatural
  <2>4. Normalize(s) = SubSeq(s, m, x)
    BY <1>3 DEF Normalize
  <2> HIDE DEF m, x
  <2>5. m \in 1..(Len(s) + 1) /\ x \in (m - 1)..Len(s) /\ m <= x
    BY <1>1, <2>1, <2>2, <2>3
  <2>6. SubSeq(s, m, x) \in Seq(Symbols) /\ Len(SubSeq(s, m, x)) = x - m + 1
    BY <2>5, Slice
  <2>7. x - m + 1 # 0
    BY <1>1, <2>5
  <2> QED BY <1>3, <2>4, <2>6, <2>7, EmptySeq
<1> QED BY <1>2, <1>3

\* The first segment ends before the first slash.
LEMMA SegmentEnd ==
  ASSUME NEW t \in Seq(Symbols)
  PROVE  \E m \in 0..Len(t) : /\ FirstSegment(t) = SubSeq(t, 1, m)
                              /\ \A i \in 1..m : t[i] # Slash
                              /\ m = Len(t) \/ t[m + 1] = Slash
<1> DEFINE D == Slashes(t) \cup {Len(t) + 1}
           e == Min(D)
<1>1. Len(t) \in Nat /\ DOMAIN t = 1..Len(t)
  BY LenProperties
<1>2. D \in SUBSET Nat /\ D # {}
  BY <1>1 DEF Slashes
<1>3. e \in D /\ \A i \in D : e <= i
  BY <1>2, LeastNatural
<1>4. FirstSegment(t) = SubSeq(t, 1, e - 1)
  BY DEF FirstSegment
<1> HIDE DEF e
<1>5. \A i \in DOMAIN t : t[i] = Slash <=> i \in Slashes(t)
  BY DEF Slashes, Solid
<1>6. e \in Nat /\ e <= Len(t) + 1 /\ e >= 1
  BY <1>1, <1>2, <1>3 DEF Slashes
<1>7. \A i \in 1..(e - 1) : t[i] # Slash
  BY <1>1, <1>3, <1>5, <1>6
<1>8. e - 1 = Len(t) \/ t[(e - 1) + 1] = Slash
  BY <1>1, <1>3, <1>5, <1>6
<1>9. e - 1 \in 0..Len(t)
  BY <1>1, <1>6
<1> QED BY <1>4, <1>7, <1>8, <1>9

\* What resolve_route looks up is the first name of the path, and no other is.
LEMMA FirstName ==
  ASSUME NEW p \in Seq(Symbols), NEW k \in Seq(Symbols)
  PROVE  Names(p, k) <=> k = FirstSegment(TrimStart(p))
<1>1. PICK n \in 0..Len(p) : /\ \A i \in 1..n : p[i] = Slash
                             /\ n = Len(p) \/ p[n + 1] # Slash
                             /\ TrimStart(p) = From(p, n + 1)
  BY TrimmedFrom
<1>2. Len(p) \in Nat /\ Len(k) \in Nat /\ DOMAIN k = 1..Len(k)
  BY LenProperties
<1>3. PICK t \in Seq(Symbols) :
         /\ t = TrimStart(p) /\ Len(t) = Len(p) - n
         /\ \A i \in 1..(Len(p) - n) : t[i] = p[n + i]
  BY <1>1, Rest
<1>4. PICK m \in 0..Len(t) : /\ FirstSegment(t) = SubSeq(t, 1, m)
                             /\ \A i \in 1..m : t[i] # Slash
                             /\ m = Len(t) \/ t[m + 1] = Slash
  BY <1>3, SegmentEnd
<1> DEFINE f == SubSeq(t, 1, m)
<1>5. f \in Seq(Symbols) /\ Len(f) = m /\ \A i \in 1..m : f[i] = t[i]
  BY <1>3, Beginning
<1>6. ASSUME k = f PROVE Names(p, k)
  <2>1. StartsWith(From(p, n + 1), k)
    BY <1>1, <1>3, <1>5, <1>6 DEF StartsWith
  <2>2. Slashes(k) = {}
    BY <1>2, <1>4, <1>5, <1>6 DEF Slashes, Solid
  <2>3. n + Len(k) = Len(p) \/ p[n + Len(k) + 1] = Slash
    <3>1. CASE m = Len(t)
      BY <1>2, <1>3, <1>5, <1>6, <3>1
    <3>2. CASE m # Len(t)
      <4>1. t[m + 1] = Slash
        BY <1>4, <3>2
      <4>2. m + 1 \in 1..(Len(p) - n) /\ n + (m + 1) = n + m + 1
        <5>1. m \in Nat /\ m <= Len(t) /\ m # Len(t)
          BY <1>2, <1>3, <3>2
        <5>2. m + 1 \in 1..Len(t)
          <6>1. \A a, b \in Nat : a <= b /\ a # b => a + 1 \in 1..b
            OBVIOUS
          <6>2. Len(t) \in Nat
            BY LenProperties
          <6> QED BY <5>1, <6>1, <6>2
        <5>3. m + 1 \in 1..(Len(p) - n)
          BY <1>3, <5>2
        <5>4. n + (m + 1) = n + m + 1
          BY <1>2, <5>1
        <5> QED BY <5>3, <5>4
      <4>3. p[n + (m + 1)] = Slash
        BY <1>3, <4>1, <4>2
      <4> QED BY <1>5, <1>6, <4>2, <4>3
    <3> QED BY <3>1, <3>2
  <2>4. k # <<>> \/ n = Len(p)
    <3> SUFFICES ASSUME k = <<>>, n # Len(p) PROVE FALSE
      OBVIOUS
    <3>1. m = 0
      BY <1>5, <1>6, EmptySeq
    <3>2. 1 \in 1..(Len(p) - n) /\ m # Len(t)
      BY <1>2, <1>3, <3>1
    <3>3. t[1] = Slash /\ t[1] = p[n + 1]
      BY <1>3, <1>4, <3>1, <3>2
    <3> QED BY <1>1, <3>3
  <2> QED BY <1>1, <2>1, <2>2, <2>3, <2>4 DEF Names
<1>7. ASSUME Names(p, k) PROVE k = f
  <2>1. PICK o \in 0..Len(p) :
           /\ \A i \in 1..o : p[i] = Slash
           /\ StartsWith(From(p, o + 1), k) /\ Slashes(k) = {}
           /\ o + Len(k) = Len(p) \/ p[o + Len(k) + 1] = Slash
           /\ k # <<>> \/ o = Len(p)
    BY <1>7 DEF Names
  <2> DEFINE u == From(p, o + 1)
  <2>2. u \in Seq(Symbols) /\ Len(u) = Len(p) - o /\ \A i \in 1..(Len(p) - o) : u[i] = p[o + i]
    BY Rest
  <2>3. Len(k) <= Len(u) /\ k = SubSeq(u, 1, Len(k))
    BY <2>1 DEF StartsWith
  <2>4. \A i \in 1..Len(k) : k[i] = u[i]
    <3> HIDE DEF u
    <3>1. Len(k) \in 0..Len(u)
      BY <1>2, <2>2, <2>3, LenProperties
    <3>2. \A i \in 1..Len(k) : SubSeq(u, 1, Len(k))[i] = u[i]
      BY <2>2, <3>1, Beginning
    <3> QED BY <2>3, <3>2
  <2> HIDE DEF u
  <2>5. \A i \in 1..Len(k) : p[o + i] = k[i] /\ k[i] # Slash
    <3>1. \A i \in 1..Len(k) : k[i] # Slash
      BY <1>2, <2>1 DEF Slashes, Solid
    <3>2. \A i \in 1..Len(k) : i \in 1..(Len(p) - o)
      BY <1>2, <2>2, <2>3
    <3> QED BY <2>2, <2>4, <3>1, <3>2
  <2>6. o = n
    <3>1. CASE k = <<>>
      <4>1. \A i \in 1..Len(p) : p[i] = Slash
        BY <2>1, <3>1
      <4>2. n = Len(p) \/ n + 1 \in 1..Len(p)
        BY <1>2
      <4> QED BY <1>1, <2>1, <3>1, <4>1, <4>2
    <3>2. CASE k # <<>>
      <4>1. Len(k) >= 1
        BY <3>2, EmptySeq
      <4>2. o < Len(p) /\ p[o + 1] # Slash
        BY <1>2, <2>2, <2>3, <2>5, <4>1
      <4>3. ~(o < n)
        <5>1. o < n => o + 1 \in 1..n
          BY <1>2
        <5> QED BY <1>1, <4>2, <5>1
      <4>4. ~(n < o)
        <5>1. n < o => n + 1 \in 1..o /\ n # Len(p)
          BY <1>2
        <5> QED BY <1>1, <2>1, <5>1
      <4> QED BY <1>2, <4>3, <4>4
    <3> QED BY <3>1, <3>2
  <2>7. u = t
    BY <1>1, <1>3, <2>6 DEF u
  <2>8. Len(k) = m
    <3>1. ~(Len(k) < m)
      <4> SUFFICES ASSUME Len(k) < m PROVE FALSE
        OBVIOUS
      <4>1. Len(k) + 1 \in 1..m /\ o + Len(k) # Len(p) /\ Len(k) + 1 \in 1..(Len(p) - n)
            /\ n + (Len(k) + 1) = o + Len(k) + 1
        BY <1>2, <1>3, <2>6
      <4>2. p[o + Len(k) + 1] = Slash /\ t[Len(k) + 1] # Slash
        BY <1>4, <2>1, <4>1
      <4> QED BY <1>3, <4>1, <4>2
    <3>2. ~(m < Len(k))
      <4> SUFFICES ASSUME m < Len(k) PROVE FALSE
        OBVIOUS
      <4>1. m + 1 \in 1..Len(k) /\ m # Len(t)
        BY <1>2, <1>3, <2>3, <2>7
      <4>2. t[m + 1] = Slash /\ k[m + 1] # Slash /\ k[m + 1] = t[m + 1]
        BY <1>4, <2>4, <2>5, <2>7, <4>1
      <4> QED BY <4>2
    <3>3. m \in Nat
      BY <1>2, <1>3, <1>4
    <3>4. \A a, b \in Nat : ~(a < b) /\ ~(b < a) => a = b
      OBVIOUS
    <3> QED BY <1>2, <3>1, <3>2, <3>3, <3>4
  <2> QED BY <2>3, <2>7, <2>8
<1> HIDE DEF f
<1> QED BY <1>3, <1>4, <1>6, <1>7 DEF f

-----------------------------------------------------------------------------
(* How a path falls into parts                                             *)

\* A path is its beginning and its rest.
LEMMA Split ==
  ASSUME NEW s \in Seq(Symbols), NEW m \in 0..Len(s)
  PROVE  s = SubSeq(s, 1, m) \o From(s, m + 1)
<1>1. Len(s) \in Nat
  BY LenProperties
<1>2. 1 \in 1..(Len(s) + 1) /\ m \in (1 - 1)..Len(s) /\ Len(s) \in m..Len(s)
  BY <1>1
<1>3. SubSeq(s, 1, m) \o SubSeq(s, m + 1, Len(s)) = SubSeq(s, 1, Len(s))
  BY <1>2, ConcatAdjacentSubSeq
<1>4. SubSeq(s, 1, Len(s)) = s
  BY SubSeqFull
<1> QED BY <1>3, <1>4 DEF From

\* A path that starts with k is k and what stands behind it.
LEMMA StartSplits ==
  ASSUME NEW s \in Seq(Symbols), NEW k \in Seq(Symbols), StartsWith(s, k)
  PROVE  s = k \o From(s, Len(k) + 1) /\ From(s, Len(k) + 1) \in Seq(Symbols)
<1>1. Len(k) \in 0..Len(s)
  BY LenProperties DEF StartsWith
<1>2. s = SubSeq(s, 1, Len(k)) \o From(s, Len(k) + 1)
  BY <1>1, Split
<1>3. SubSeq(s, 1, Len(k)) = k
  BY DEF StartsWith
<1> QED BY <1>1, <1>2, <1>3, Rest

\* A path with one leading slash is the slash, its first name and a rooted rest.
LEMMA PathParts ==
  ASSUME NEW p \in Seq(Symbols), p # <<>>, p[1] = Slash, Len(p) = 1 \/ p[2] # Slash,
         NEW k \in Seq(Symbols), Names(p, k)
  PROVE  LET rest == From(p, Len(k) + 2)
         IN  /\ rest \in Seq(Symbols) /\ p = <<Slash>> \o k \o rest
             /\ rest = <<>> \/ rest[1] = Slash
<1>1. Len(p) \in Nat \ {0} /\ Len(k) \in Nat /\ DOMAIN k = 1..Len(k)
  BY LenProperties, EmptySeq
<1>2. PICK n \in 0..Len(p) :
         /\ \A i \in 1..n : p[i] = Slash
         /\ StartsWith(From(p, n + 1), k) /\ Slashes(k) = {}
         /\ n + Len(k) = Len(p) \/ p[n + Len(k) + 1] = Slash
         /\ k # <<>> \/ n = Len(p)
  BY DEF Names
<1> DEFINE u == From(p, n + 1)
<1>3. u \in Seq(Symbols) /\ Len(u) = Len(p) - n /\ \A i \in 1..(Len(p) - n) : u[i] = p[n + i]
  BY Rest
<1>4. u = k \o From(u, Len(k) + 1) /\ From(u, Len(k) + 1) \in Seq(Symbols)
  BY <1>2, <1>3, StartSplits
<1>5. Len(k) <= Len(u)
  BY <1>2 DEF StartsWith
<1>6. n \in Nat /\ n <= Len(p)
  BY <1>1
<1>7. n # 0
  <2> SUFFICES ASSUME n = 0 PROVE FALSE
    OBVIOUS
  <2>1. Len(k) # 0
    BY <1>1, <1>2, EmptySeq
  <2>2. SubSeq(u, 1, Len(k)) = k
    BY <1>2 DEF StartsWith
  <2>3. Len(k) \in 0..Len(u) /\ 1 \in 1..Len(k)
    BY <1>1, <1>3, <1>5, <1>6, <2>1
  <2>4. SubSeq(u, 1, Len(k))[1] = u[1]
    BY <1>3, <2>3, Beginning
  <2>5. u[1] = p[1]
    BY <1>1, <1>3
  <2>6. 1 \in Slashes(k)
    BY <1>1, <2>2, <2>3, <2>4, <2>5 DEF Slashes, Solid
  <2> QED BY <1>2, <2>6
<1>8. ~(n > 1)
  BY <1>1, <1>2, <1>6
<1>9. n = 1
  BY <1>6, <1>7, <1>8
<1> DEFINE rest == From(p, Len(k) + 2)
<1>10. p = <<Slash>> \o u
  <2>1. 1 \in 0..Len(p)
    BY <1>1
  <2>2. p = SubSeq(p, 1, 1) \o u
    BY <1>9, <2>1, Split
  <2>3. SubSeq(p, 1, 1) \in Seq(Symbols) /\ Len(SubSeq(p, 1, 1)) = 1 /\ SubSeq(p, 1, 1)[1] = Slash
    BY <2>1, Beginning
  <2>4. <<Slash>> \in Seq(Symbols) /\ Len(<<Slash>>) = 1 /\ <<Slash>>[1] = Slash
    BY RoutingAssumption
  <2>5. \A x, y \in Seq(Symbols) : Len(x) = 1 /\ Len(y) = 1 /\ x[1] = y[1] => x = y
    BY SeqEqual
  <2>6. SubSeq(p, 1, 1) = <<Slash>>
    BY <2>3, <2>4, <2>5, Zenon
  <2> QED BY <2>2, <2>6
<1>11. Len(k) + 1 \in 0..Len(p) /\ (Len(k) + 1) + 1 = Len(k) + 2
  BY <1>1, <1>3, <1>5, <1>9
<1>12. rest \in Seq(Symbols) /\ Len(rest) = Len(p) - (Len(k) + 1)
       /\ \A i \in 1..(Len(p) - (Len(k) + 1)) : rest[i] = p[(Len(k) + 1) + i]
  BY <1>11, Rest
<1>13. From(u, Len(k) + 1) = rest
  <2>1. Len(k) \in 0..Len(u)
    BY <1>1, <1>5, LenProperties, <1>3
  <2> DEFINE v == From(u, Len(k) + 1)
  <2>2. v \in Seq(Symbols) /\ Len(v) = Len(u) - Len(k)
        /\ \A i \in 1..(Len(u) - Len(k)) : v[i] = u[Len(k) + i]
    BY <1>3, <2>1, Rest
  <2> HIDE DEF u, v, rest
  <2>3. Len(u) - Len(k) = Len(p) - (Len(k) + 1)
    BY <1>1, <1>3, <1>9
  <2>4. \A i \in 1..Len(v) : v[i] = rest[i]
    <3> SUFFICES ASSUME NEW i \in 1..(Len(p) - (Len(k) + 1)) PROVE v[i] = rest[i]
      BY <2>2, <2>3
    <3>1. Len(k) + i \in 1..(Len(p) - n) /\ n + (Len(k) + i) = (Len(k) + 1) + i
      BY <1>1, <1>9
    <3>2. u[Len(k) + i] = p[n + (Len(k) + i)]
      BY <1>3, <3>1
    <3> QED BY <1>12, <2>2, <2>3, <3>1, <3>2
  <2>5. \A x, y \in Seq(Symbols) :
           Len(x) = Len(y) /\ (\A i \in 1..Len(x) : x[i] = y[i]) => x = y
    BY SeqEqual
  <2>6. Len(v) = Len(rest)
    BY <1>12, <2>2, <2>3
  <2>7. v = rest
    BY <1>12, <2>2, <2>4, <2>5, <2>6, Zenon
  <2> QED BY <2>7 DEF v
<1>14. p = <<Slash>> \o k \o rest
  <2>1. <<Slash>> \in Seq(Symbols)
    BY RoutingAssumption
  <2>2. PICK s \in Seq(Symbols), r \in Seq(Symbols) : s = <<Slash>> /\ r = rest
    BY <1>12, <2>1
  <2>3. (s \o k) \o r = s \o (k \o r)
    BY ConcatAssociative, SMTT(30)
  <2> QED BY <1>4, <1>10, <1>13, <2>2, <2>3
<1>15. rest = <<>> \/ rest[1] = Slash
  <2>1. CASE n + Len(k) = Len(p)
    <3>1. Len(rest) = 0
      BY <1>1, <1>9, <1>12, <2>1
    <3> QED BY <1>12, <3>1, EmptySeq
  <2>2. CASE n + Len(k) # Len(p)
    <3>1. 1 \in 1..(Len(p) - (Len(k) + 1)) /\ (Len(k) + 1) + 1 = n + Len(k) + 1
      BY <1>1, <1>9, <1>11, <2>2
    <3>2. rest[1] = p[n + Len(k) + 1]
      BY <1>12, <3>1
    <3> QED BY <1>2, <2>2, <3>2
  <2> QED BY <2>1, <2>2
<1> QED BY <1>12, <1>14, <1>15

-----------------------------------------------------------------------------
(* The shape of git smart-HTTP                                             *)

\* Position by position: n slashes, an owner up to a, a repository up to b, a service x.
ShapeAt(p, n, a, b, x) ==
  /\ n \in Nat /\ a \in Nat /\ b \in Nat /\ n < a /\ a + 2 <= b /\ Len(p) = b + 3
  /\ \A i \in 1..n : p[i] = Slash
  /\ \A i \in (n + 1)..a : p[i] # Slash
  /\ p[a] # DotGit /\ p[a + 1] = Slash
  /\ \A i \in (a + 2)..b : p[i] # Slash
  /\ p[b + 1] = DotGit /\ p[b + 2] = Slash /\ p[b + 3] = x

Joined(p, n, a, b, x) ==
  p = SubSeq(p, 1, n) \o SubSeq(p, n + 1, a) \o <<Slash>> \o SubSeq(p, a + 2, b)
        \o <<DotGit, Slash, x>>

\* The parts at the places of the shape, put together, are the path.
LEMMA ShapeConcatenated ==
  ASSUME NEW p \in Seq(Symbols), NEW x \in GitSuffixes,
         NEW n, NEW a, NEW b, ShapeAt(p, n, a, b, x)
  PROVE  Joined(p, n, a, b, x)
<1>1. n \in Nat /\ a \in Nat /\ b \in Nat /\ n < a /\ a + 2 <= b /\ Len(p) = b + 3
  BY DEF ShapeAt
<1>2. SubSeq(p, 1, n) \o SubSeq(p, n + 1, a) = SubSeq(p, 1, a)
  <2>1. 1 \in 1..(Len(p) + 1) /\ n \in (1 - 1)..Len(p) /\ a \in n..Len(p)
    BY <1>1
  <2> QED BY <2>1, ConcatAdjacentSubSeq
<1>3. SubSeq(p, 1, a) \o SubSeq(p, a + 1, a + 1) = SubSeq(p, 1, a + 1)
  <2>1. 1 \in 1..(Len(p) + 1) /\ a \in (1 - 1)..Len(p) /\ a + 1 \in a..Len(p)
    BY <1>1
  <2> QED BY <2>1, ConcatAdjacentSubSeq
<1>4. SubSeq(p, 1, a + 1) \o SubSeq(p, (a + 1) + 1, b) = SubSeq(p, 1, b)
  <2>1. 1 \in 1..(Len(p) + 1) /\ a + 1 \in (1 - 1)..Len(p) /\ b \in (a + 1)..Len(p)
    BY <1>1
  <2> QED BY <2>1, ConcatAdjacentSubSeq
<1>5. SubSeq(p, 1, b) \o SubSeq(p, b + 1, b + 3) = SubSeq(p, 1, b + 3)
  <2>1. 1 \in 1..(Len(p) + 1) /\ b \in (1 - 1)..Len(p) /\ b + 3 \in b..Len(p)
    BY <1>1
  <2> QED BY <2>1, ConcatAdjacentSubSeq
<1>6. SubSeq(p, 1, b + 3) = p
  BY <1>1, SubSeqFull
<1>7. \A u, v \in Seq(Symbols) :
         Len(u) = Len(v) /\ (\A i \in 1..Len(u) : u[i] = v[i]) => u = v
  BY SeqEqual
<1>8. SubSeq(p, a + 1, a + 1) = <<Slash>>
  <2>1. a + 1 \in 1..(Len(p) + 1) /\ a + 1 \in ((a + 1) - 1)..Len(p)
    BY <1>1
  <2> DEFINE u == SubSeq(p, a + 1, a + 1)
  <2>2. u \in Seq(Symbols) /\ Len(u) = (a + 1) - (a + 1) + 1
        /\ \A k \in 1..((a + 1) - (a + 1) + 1) : u[k] = p[(a + 1) + k - 1]
    BY <2>1, Slice
  <2>3. (a + 1) - (a + 1) + 1 = 1 /\ (a + 1) + 1 - 1 = a + 1
    BY <1>1
  <2>4. u \in Seq(Symbols) /\ Len(u) = 1 /\ u[1] = Slash
    BY <2>2, <2>3 DEF ShapeAt
  <2>5. <<Slash>> \in Seq(Symbols) /\ Len(<<Slash>>) = 1 /\ <<Slash>>[1] = Slash
    BY RoutingAssumption
  <2> HIDE DEF u
  <2>6. \A i \in 1..1 : u[i] = <<Slash>>[i]
    BY <2>4, <2>5
  <2>7. u = <<Slash>>
    BY <1>7, <2>4, <2>5, <2>6, Zenon
  <2> QED BY <2>7 DEF u
<1>9. SubSeq(p, b + 1, b + 3) = <<DotGit, Slash, x>>
  <2>1. b + 1 \in 1..(Len(p) + 1) /\ b + 3 \in ((b + 1) - 1)..Len(p)
    BY <1>1
  <2> DEFINE u == SubSeq(p, b + 1, b + 3)
             w == <<DotGit, Slash, x>>
  <2>2. u \in Seq(Symbols) /\ Len(u) = (b + 3) - (b + 1) + 1
        /\ \A k \in 1..((b + 3) - (b + 1) + 1) : u[k] = p[(b + 1) + k - 1]
    BY <2>1, Slice
  <2>3. (b + 3) - (b + 1) + 1 = 3 /\ \A k \in 1..3 : (b + 1) + k - 1 = b + k
    BY <1>1
  <2>4. u \in Seq(Symbols) /\ Len(u) = 3 /\ \A k \in 1..3 : u[k] = p[b + k]
    BY <2>2, <2>3
  <2>5. w \in Seq(Symbols) /\ Len(w) = 3 /\ w[1] = DotGit /\ w[2] = Slash /\ w[3] = x
    BY RoutingAssumption
  <2> HIDE DEF u, w
  <2>6. p[b + 1] = DotGit /\ p[b + 2] = Slash /\ p[b + 3] = x
    BY DEF ShapeAt
  <2>7. \A i \in 1..3 : u[i] = w[i]
    <3>1. \A i \in 1..3 : i = 1 \/ i = 2 \/ i = 3
      OBVIOUS
    <3> QED BY <2>4, <2>5, <2>6, <3>1
  <2>8. u = w
    BY <1>7, <2>4, <2>5, <2>7, Zenon
  <2> QED BY <2>8 DEF u, w
<1>10. (a + 1) + 1 = a + 2
  BY <1>1
<1> QED BY <1>2, <1>3, <1>4, <1>5, <1>6, <1>8, <1>9, <1>10, Zenon DEF Joined

\* The places of a shape give GitShape its parts.
LEMMA ShapeIsGitShape ==
  ASSUME NEW p \in Seq(Symbols), NEW x \in GitSuffixes,
         NEW n, NEW a, NEW b, ShapeAt(p, n, a, b, x)
  PROVE  GitShape(p)
<1>1. n \in Nat /\ a \in Nat /\ b \in Nat /\ n < a /\ a + 2 <= b /\ Len(p) = b + 3
  BY DEF ShapeAt
<1>2. n \in 0..Len(p) /\ a \in 1..Len(p) /\ b \in 1..Len(p)
  BY <1>1
<1> DEFINE owner == SubSeq(p, n + 1, a)
           repo == SubSeq(p, a + 2, b)
<1>3. owner \in Seq(Symbols) /\ Len(owner) = a - n /\ \A k \in 1..(a - n) : owner[k] = p[n + k]
  <2>1. n + 1 \in 1..(Len(p) + 1) /\ a \in ((n + 1) - 1)..Len(p) /\ a - (n + 1) + 1 = a - n
        /\ \A k \in 1..(a - n) : (n + 1) + k - 1 = n + k
    BY <1>1
  <2>2. owner \in Seq(Symbols) /\ Len(owner) = a - (n + 1) + 1
        /\ \A k \in 1..(a - (n + 1) + 1) : owner[k] = p[(n + 1) + k - 1]
    BY <2>1, Slice
  <2> QED BY <2>1, <2>2
<1>4. /\ repo \in Seq(Symbols) /\ Len(repo) = b - a - 1
      /\ \A k \in 1..(b - a - 1) : repo[k] = p[a + 1 + k]
  <2>1. a + 2 \in 1..(Len(p) + 1) /\ b \in ((a + 2) - 1)..Len(p) /\ b - (a + 2) + 1 = b - a - 1
        /\ \A k \in 1..(b - a - 1) : (a + 2) + k - 1 = a + 1 + k
    BY <1>1
  <2>2. repo \in Seq(Symbols) /\ Len(repo) = b - (a + 2) + 1
        /\ \A k \in 1..(b - (a + 2) + 1) : repo[k] = p[(a + 2) + k - 1]
    BY <2>1, Slice
  <2> QED BY <2>1, <2>2
<1>5. Joined(p, n, a, b, x)
  BY ShapeConcatenated
<1> HIDE DEF owner, repo
<1>6. owner # <<>> /\ repo # <<>>
  BY <1>1, <1>3, <1>4, EmptySeq
<1>7. Slashes(owner) = {}
  <2>1. DOMAIN owner = 1..(a - n)
    BY <1>3, LenProperties
  <2>2. \A k \in 1..(a - n) : n + k \in (n + 1)..a
    BY <1>1
  <2>3. \A k \in 1..(a - n) : owner[k] # Slash
    BY <1>3, <2>2 DEF ShapeAt
  <2> QED BY <2>1, <2>3 DEF Slashes, Solid
<1>8. Slashes(repo) = {}
  <2>1. DOMAIN repo = 1..(b - a - 1)
    BY <1>4, LenProperties
  <2>2. \A k \in 1..(b - a - 1) : a + 1 + k \in (a + 2)..b
    BY <1>1
  <2>3. \A k \in 1..(b - a - 1) : repo[k] # Slash
    BY <1>4, <2>2 DEF ShapeAt
  <2> QED BY <2>1, <2>3 DEF Slashes, Solid
<1>9. owner[Len(owner)] # DotGit
  <2>1. a - n \in 1..(a - n) /\ n + (a - n) = a
    BY <1>1
  <2> QED BY <1>3, <2>1 DEF ShapeAt
<1>10. \A i \in 1..n : p[i] = Slash
  BY DEF ShapeAt
<1> QED BY <1>2, <1>5, <1>6, <1>7, <1>8, <1>9, <1>10, Zenon DEF GitShape, Joined, owner, repo

\* The parts of GitShape have their places in the path.
LEMMA GitShapeIsShape ==
  ASSUME NEW p \in Seq(Symbols), GitShape(p)
  PROVE  \E n, a, b : \E x \in GitSuffixes : ShapeAt(p, n, a, b, x)
<1>1. PICK n \in 0..Len(p), a \in 1..Len(p), b \in 1..Len(p), x \in GitSuffixes :
         LET owner == SubSeq(p, n + 1, a)
             repo == SubSeq(p, a + 2, b)
         IN  /\ \A i \in 1..n : p[i] = Slash
             /\ owner # <<>> /\ repo # <<>> /\ Slashes(owner) = {} /\ Slashes(repo) = {}
             /\ owner[Len(owner)] # DotGit
             /\ p = SubSeq(p, 1, n) \o owner \o <<Slash>> \o repo \o <<DotGit, Slash, x>>
  BY DEF GitShape
<1>2. PICK l \in Nat : l = Len(p)
  BY LenProperties
<1>3. n \in Nat /\ a \in Nat /\ b \in Nat /\ n <= l /\ a <= l /\ b <= l
  BY <1>2
<1>4. n + 1 <= a
  <2> SUFFICES ASSUME ~(n + 1 <= a) PROVE FALSE
    OBVIOUS
  <2>1. n + 1 \in Int /\ a \in Int /\ a < n + 1
    BY <1>3
  <2>2. SubSeq(p, n + 1, a) = <<>>
    BY <2>1, SubSeqEmpty
  <2> QED BY <1>1, <2>2
<1>5. a + 2 <= b
  <2> SUFFICES ASSUME ~(a + 2 <= b) PROVE FALSE
    OBVIOUS
  <2>1. a + 2 \in Int /\ b \in Int /\ b < a + 2
    BY <1>3
  <2>2. SubSeq(p, a + 2, b) = <<>>
    BY <2>1, SubSeqEmpty
  <2> QED BY <1>1, <2>2
<1>6. PICK owner \in Seq(Symbols) :
         /\ owner = SubSeq(p, n + 1, a) /\ Len(owner) = a - n
         /\ \A k \in 1..(a - n) : owner[k] = p[n + k]
  <2> DEFINE w == SubSeq(p, n + 1, a)
  <2>1. n <= a /\ a <= Len(p)
    BY <1>2, <1>3, <1>4
  <2>2. w \in Seq(Symbols) /\ Len(w) = a - n /\ \A k \in 1..(a - n) : w[k] = p[n + k]
    BY <1>3, <2>1, Piece
  <2> QED BY <2>2, Zenon
<1>7. PICK repo \in Seq(Symbols) :
         /\ repo = SubSeq(p, a + 2, b) /\ Len(repo) = b - (a + 1)
         /\ \A k \in 1..(b - (a + 1)) : repo[k] = p[(a + 1) + k]
  <2>1. PICK j : j = a + 2 /\ j \in 1..(Len(p) + 1) /\ b \in (j - 1)..Len(p)
    BY <1>2, <1>3, <1>5
  <2>2. PICK w \in Seq(Symbols) :
           /\ w = SubSeq(p, j, b) /\ Len(w) = b - j + 1
           /\ \A k \in 1..(b - j + 1) : w[k] = p[j + k - 1]
    BY <2>1, Slice
  <2>3. b - j + 1 = b - (a + 1)
    BY <1>3, <2>1
  <2>4. \A k \in 1..(b - (a + 1)) : j + k - 1 = (a + 1) + k
    BY <1>3, <2>1
  <2>5. /\ w = SubSeq(p, a + 2, b) /\ Len(w) = b - (a + 1)
        /\ \A k \in 1..(b - (a + 1)) : w[k] = p[(a + 1) + k]
    BY <2>1, <2>2, <2>3, <2>4, Zenon
  <2> QED BY <2>5, Zenon
<1>8. SubSeq(p, 1, n) \o owner = SubSeq(p, 1, a)
  <2>1. 1 \in 1..(Len(p) + 1) /\ n \in (1 - 1)..Len(p) /\ a \in n..Len(p)
    BY <1>2, <1>3, <1>4
  <2>2. SubSeq(p, 1, n) \o SubSeq(p, n + 1, a) = SubSeq(p, 1, a)
    BY <2>1, ConcatAdjacentSubSeq
  <2>3. owner = SubSeq(p, n + 1, a)
    BY <1>6
  <2> QED BY <2>2, <2>3, Zenon
<1>9. PICK s \in Seq(Symbols) : s = SubSeq(p, 1, a) /\ Len(s) = a
  <2>1. a \in 0..Len(p)
    BY <1>2, <1>3
  <2> QED BY <2>1, Beginning
<1>10. PICK d \in Seq(Symbols) : d = <<DotGit, Slash, x>> /\ Len(d) = 3
                                  /\ d[1] = DotGit /\ d[2] = Slash /\ d[3] = x
  <2> DEFINE w == <<DotGit, Slash, x>>
  <2>1. w \in Seq(Symbols) /\ Len(w) = 3 /\ w[1] = DotGit /\ w[2] = Slash /\ w[3] = x
    BY RoutingAssumption
  <2> QED BY <2>1, Zenon
<1>11. PICK o \in Seq(Symbols) : o = <<Slash>> /\ Len(o) = 1 /\ o[1] = Slash
  <2>1. <<Slash>> \in Seq(Symbols) /\ Len(<<Slash>>) = 1 /\ <<Slash>>[1] = Slash
    BY RoutingAssumption
  <2> QED BY <2>1, Zenon
<1>12. p = ((s \o o) \o repo) \o d
  BY <1>1, <1>6, <1>7, <1>8, <1>9, <1>10, <1>11, Zenon
<1>13. PICK u \in Seq(Symbols) : u = s \o o /\ Len(u) = a + 1 /\ u[a + 1] = Slash
  <2>1. /\ s \o o \in Seq(Symbols) /\ Len(s \o o) = Len(s) + Len(o)
        /\ \A i \in 1..(Len(s) + Len(o)) : (s \o o)[i] = IF i <= Len(s) THEN s[i] ELSE o[i - Len(s)]
    BY ConcatProperties
  <2>2. a + 1 \in 1..(a + 1) /\ ~(a + 1 <= a) /\ (a + 1) - a = 1
    BY <1>3
  <2>3. (s \o o)[a + 1] = Slash
    BY <1>9, <1>11, <2>1, <2>2
  <2> QED BY <1>9, <1>11, <2>1, <2>3
<1>14. PICK v \in Seq(Symbols) : v = u \o repo /\ Len(v) = b /\ v[a + 1] = Slash
  <2>1. /\ u \o repo \in Seq(Symbols) /\ Len(u \o repo) = Len(u) + Len(repo)
        /\ \A i \in 1..(Len(u) + Len(repo)) :
             (u \o repo)[i] = IF i <= Len(u) THEN u[i] ELSE repo[i - Len(u)]
    BY ConcatProperties
  <2>2. a + 1 \in 1..((a + 1) + (b - (a + 1))) /\ a + 1 <= a + 1 /\ (a + 1) + (b - (a + 1)) = b
    BY <1>3, <1>5
  <2>3. (u \o repo)[a + 1] = Slash
    BY <1>7, <1>13, <2>1, <2>2
  <2> QED BY <1>7, <1>13, <2>1, <2>2, <2>3
<1>15. p = v \o d
  BY <1>12, <1>13, <1>14, Zenon
<1>16. Len(p) = b + 3 /\ p[a + 1] = Slash /\ p[b + 1] = DotGit /\ p[b + 2] = Slash /\ p[b + 3] = x
  <2>1. /\ Len(v \o d) = Len(v) + Len(d)
        /\ \A i \in 1..(Len(v) + Len(d)) : (v \o d)[i] = IF i <= Len(v) THEN v[i] ELSE d[i - Len(v)]
    BY ConcatProperties
  <2>2. \A i \in 1..(b + 3) : p[i] = IF i <= b THEN v[i] ELSE d[i - b]
    BY <1>10, <1>14, <1>15, <2>1
  <2>3. a + 1 \in 1..(b + 3) /\ a + 1 <= b
    BY <1>3, <1>5
  <2>4. \A k \in 1..3 : b + k \in 1..(b + 3) /\ ~(b + k <= b) /\ (b + k) - b = k
    BY <1>3
  <2>5. \A k \in 1..3 : p[b + k] = d[k]
    BY <2>2, <2>4
  <2>6. Len(p) = b + 3
    BY <1>10, <1>14, <1>15, <2>1
  <2>7. p[b + 1] = d[1] /\ p[b + 2] = d[2] /\ p[b + 3] = d[3]
    BY <2>5
  <2>8. p[a + 1] = v[a + 1]
    BY <2>2, <2>3
  <2> QED BY <1>10, <1>14, <2>6, <2>7, <2>8
<1>17. \A i \in (n + 1)..a : p[i] # Slash
  <2> SUFFICES ASSUME NEW i \in (n + 1)..a PROVE p[i] # Slash
    OBVIOUS
  <2>1. i - n \in 1..(a - n) /\ n + (i - n) = i
    BY <1>3
  <2>2. i - n \in DOMAIN owner /\ owner[i - n] = p[i]
    BY <1>6, <2>1, LenProperties
  <2> QED BY <1>1, <1>6, <2>2 DEF Slashes, Solid
<1>18. \A i \in (a + 2)..b : p[i] # Slash
  <2> SUFFICES ASSUME NEW i \in (a + 2)..b PROVE p[i] # Slash
    OBVIOUS
  <2>1. i - (a + 1) \in 1..(b - (a + 1)) /\ (a + 1) + (i - (a + 1)) = i
    BY <1>3
  <2>2. i - (a + 1) \in DOMAIN repo /\ repo[i - (a + 1)] = p[i]
    BY <1>7, <2>1, LenProperties
  <2> QED BY <1>1, <1>7, <2>2 DEF Slashes, Solid
<1>19. p[a] # DotGit
  <2>1. a - n \in 1..(a - n) /\ n + (a - n) = a
    BY <1>3, <1>4
  <2>2. owner[Len(owner)] = p[a]
    BY <1>6, <2>1
  <2> QED BY <1>1, <1>6, <2>2
<1>20. n < a /\ \A i \in 1..n : p[i] = Slash
  BY <1>1, <1>3, <1>4
<1>21. ShapeAt(p, n, a, b, x)
  BY <1>3, <1>5, <1>16, <1>17, <1>18, <1>19, <1>20 DEF ShapeAt
<1> QED BY <1>21

\* A path behind its leading slashes: t is what is left of p after n of them.
Trimmed(p, n, t) ==
  /\ n \in Nat /\ n <= Len(p) /\ t \in Seq(Symbols) /\ t = TrimStart(p)
  /\ Len(p) = n + Len(t)
  /\ \A i \in 1..n : p[i] = Slash
  /\ \A i \in 1..Len(t) : t[i] = p[n + i]
  /\ t # <<>> => t[1] # Slash

\* A path has a trimmed form, behind some number of slashes.
LEMMA TrimmedExists ==
  ASSUME NEW p \in Seq(Symbols)
  PROVE  \E n, t : Trimmed(p, n, t)
<1>1. PICK n \in 0..Len(p) : /\ \A i \in 1..n : p[i] = Slash
                             /\ n = Len(p) \/ p[n + 1] # Slash
                             /\ TrimStart(p) = From(p, n + 1)
  BY TrimmedFrom
<1>2. PICK l \in Nat : l = Len(p)
  BY LenProperties
<1>3. n \in Nat /\ n <= l
  BY <1>1, <1>2
<1>4. PICK t \in Seq(Symbols) :
         t = TrimStart(p) /\ Len(t) = l - n /\ \A i \in 1..(l - n) : t[i] = p[n + i]
  <2>1. /\ From(p, n + 1) \in Seq(Symbols) /\ Len(From(p, n + 1)) = l - n
        /\ \A i \in 1..(l - n) : From(p, n + 1)[i] = p[n + i]
    BY <1>2, Rest
  <2> QED BY <1>1, <2>1, Zenon
<1>5. t # <<>> => t[1] # Slash
  <2> SUFFICES ASSUME t # <<>> PROVE t[1] # Slash
    OBVIOUS
  <2>1. Len(t) # 0
    BY EmptySeq
  <2>2. 1 \in 1..(l - n) /\ n # l
    BY <1>2, <1>3, <1>4, <2>1
  <2> QED BY <1>1, <1>2, <1>4, <2>2
<1>6. l = n + (l - n)
  BY <1>2, <1>3
<1>7. Trimmed(p, n, t)
  BY <1>1, <1>2, <1>3, <1>4, <1>5, <1>6 DEF Trimmed
<1> QED BY <1>7

Cuts(t) == {i \in 1..(Len(t) - 1) : t[i] = DotGit /\ t[i + 1] = Slash}

\* Where is_git_smart_http agrees, its first cut and its only slash are the places.
LEMMA ShapeFound ==
  ASSUME NEW p \in Seq(Symbols), IsGitSmartHttp(p)
  PROVE  \E n, a, b : \E x \in GitSuffixes : ShapeAt(p, n, a, b, x)
<1>1. PICK n, t : Trimmed(p, n, t)
  BY TrimmedExists
<1>2. t \in Seq(Symbols) /\ Len(t) \in Nat /\ n \in Nat /\ t = TrimStart(p)
  BY <1>1, LenProperties DEF Trimmed
<1>3. PICK m \in Nat : m = Len(t) /\ Len(p) = n + m
  BY <1>1, <1>2 DEF Trimmed
<1>4. PICK c \in Nat : c = Min(Cuts(t)) /\ c \in Cuts(t) /\ \A i \in Cuts(t) : c <= i
  <2>1. Cuts(t) # {} /\ Cuts(t) \in SUBSET Nat
    BY <1>2 DEF Cuts, IsGitSmartHttp
  <2>2. Min(Cuts(t)) \in Cuts(t) /\ \A i \in Cuts(t) : Min(Cuts(t)) <= i
    BY <2>1, LeastNatural
  <2> QED BY <2>1, <2>2
<1>5. c >= 1 /\ c + 1 <= m /\ t[c] = DotGit /\ t[c + 1] = Slash
  BY <1>3, <1>4 DEF Cuts
<1>6. PICK x \in GitSuffixes : From(t, c + 2) = <<x>>
  BY <1>2, <1>4 DEF Cuts, IsGitSmartHttp
<1>7. \E i \in 2..(Len(SubSeq(t, 1, c - 1)) - 1) : Slashes(SubSeq(t, 1, c - 1)) = {i}
  BY <1>2, <1>4 DEF Cuts, IsGitSmartHttp
<1>8. PICK repo \in Seq(Symbols) :
         repo = SubSeq(t, 1, c - 1) /\ Len(repo) = c - 1 /\ \A k \in 1..(c - 1) : repo[k] = t[k]
  <2>1. c - 1 \in 0..Len(t)
    BY <1>3, <1>4, <1>5
  <2>2. /\ SubSeq(t, 1, c - 1) \in Seq(Symbols) /\ Len(SubSeq(t, 1, c - 1)) = c - 1
        /\ \A k \in 1..(c - 1) : SubSeq(t, 1, c - 1)[k] = t[k]
    BY <1>2, <2>1, Beginning
  <2> QED BY <2>2, Zenon
<1>9. PICK i \in Nat : i >= 2 /\ i <= c - 2 /\ Slashes(repo) = {i}
  BY <1>4, <1>5, <1>7, <1>8
<1>10. \A k \in 1..(c - 1) : t[k] = Slash <=> k = i
  <2>1. DOMAIN repo = 1..(c - 1)
    BY <1>8, LenProperties
  <2>2. \A k \in 1..(c - 1) : repo[k] = Slash <=> k \in Slashes(repo)
    BY <2>1 DEF Slashes, Solid
  <2> QED BY <1>8, <1>9, <2>2
<1>11. m = c + 2 /\ t[c + 2] = x
  <2>1. PICK d \in Nat : d = c + 1 /\ d \in 0..Len(t)
    BY <1>3, <1>4, <1>5
  <2>2. /\ Len(From(t, d + 1)) = Len(t) - d
        /\ \A k \in 1..(Len(t) - d) : From(t, d + 1)[k] = t[d + k]
    BY <1>2, <2>1, Rest
  <2>3. d + 1 = c + 2
    BY <1>4, <2>1
  <2>4. Len(<<x>>) = 1 /\ <<x>>[1] = x
    OBVIOUS
  <2>5. 1 = m - d /\ \A k \in 1..(m - d) : <<x>>[k] = t[d + k]
    BY <1>3, <1>6, <2>2, <2>3, <2>4
  <2>6. x = t[d + 1]
    BY <2>4, <2>5
  <2>7. t[c + 2] = x
    BY <2>3, <2>6
  <2>8. 1 = m - d
    BY <2>5
  <2>9. m = c + 2
    <3>1. m \in Nat /\ c \in Nat /\ d = c + 1
      BY <1>3, <1>4, <2>1
    <3> QED BY <2>8, <3>1
  <2> QED BY <2>7, <2>9
<1> DEFINE a == n + i - 1
           b == n + c - 1
<1>12. \A k \in 1..m : t[k] = p[n + k]
  BY <1>1, <1>3 DEF Trimmed
<1>13. p[a] # DotGit
  <2>1. i - 1 \in 1..m /\ n + (i - 1) = a /\ i - 1 < c /\ i - 1 \in 1..(m - 1) /\ (i - 1) + 1 = i
    BY <1>2, <1>3, <1>4, <1>5, <1>9
  <2>2. i - 1 \notin Cuts(t)
    BY <1>4, <1>9, <2>1
  <2>3. t[i] = Slash
    BY <1>4, <1>9, <1>10
  <2>4. t[i - 1] # DotGit
    BY <1>3, <2>1, <2>2, <2>3 DEF Cuts
  <2> QED BY <1>12, <2>1, <2>4
<1>14. p[a + 1] = Slash
  <2>1. i \in 1..m /\ n + i = a + 1 /\ i \in 1..(c - 1)
    BY <1>2, <1>3, <1>4, <1>5, <1>9
  <2> QED BY <1>10, <1>12, <2>1
<1>15. \A k \in (n + 1)..a : p[k] # Slash
  <2> SUFFICES ASSUME NEW k \in (n + 1)..a PROVE p[k] # Slash
    OBVIOUS
  <2>1. /\ n \in Nat /\ m \in Nat /\ c \in Nat /\ i \in Nat
        /\ i >= 2 /\ i <= c - 2 /\ c + 1 <= m
    BY <1>2, <1>3, <1>4, <1>5, <1>9
  <2>2. k - n \in 1..(c - 1) /\ k - n # i /\ n + (k - n) = k
    BY <2>1
  <2>3. k - n \in 1..m
    BY <2>1, <2>2
  <2> QED BY <1>10, <1>12, <2>2, <2>3
<1>16. \A k \in (a + 2)..b : p[k] # Slash
  <2> SUFFICES ASSUME NEW k \in (a + 2)..b PROVE p[k] # Slash
    OBVIOUS
  <2>1. /\ n \in Nat /\ m \in Nat /\ c \in Nat /\ i \in Nat
        /\ i >= 2 /\ i <= c - 2 /\ c + 1 <= m
    BY <1>2, <1>3, <1>4, <1>5, <1>9
  <2>2. k - n \in 1..(c - 1) /\ k - n # i /\ n + (k - n) = k
    BY <2>1
  <2>3. k - n \in 1..m
    BY <2>1, <2>2
  <2> QED BY <1>10, <1>12, <2>2, <2>3
<1>17. p[b + 1] = DotGit /\ p[b + 2] = Slash /\ p[b + 3] = x
  <2>1. n \in Nat /\ c \in Nat /\ m = c + 2 /\ c >= 1
    BY <1>2, <1>4, <1>5, <1>11
  <2>2. /\ c \in 1..m /\ c + 1 \in 1..m /\ c + 2 \in 1..m
        /\ n + c = b + 1 /\ n + (c + 1) = b + 2 /\ n + (c + 2) = b + 3
    BY <2>1
  <2> QED BY <1>5, <1>11, <1>12, <2>2
<1>18. /\ n \in Nat /\ a \in Nat /\ b \in Nat /\ n < a /\ a + 2 <= b /\ Len(p) = b + 3
       /\ \A k \in 1..n : p[k] = Slash
  <2>1. a \in Nat /\ b \in Nat /\ n < a /\ a + 2 <= b /\ Len(p) = b + 3
    <3>1. n \in Nat /\ c \in Nat /\ i \in Nat /\ i >= 2 /\ i <= c - 2
      BY <1>2, <1>4, <1>9
    <3>2. Len(p) = n + m /\ m = c + 2
      BY <1>3, <1>11
    <3>3. n + (c + 2) = b + 3 /\ a \in Nat /\ b \in Nat /\ n < a /\ a + 2 <= b
      BY <3>1
    <3> QED BY <3>2, <3>3
  <2> QED BY <1>1, <1>2, <2>1 DEF Trimmed
<1> HIDE DEF a, b
<1>19. ShapeAt(p, n, a, b, x)
  BY <1>13, <1>14, <1>15, <1>16, <1>17, <1>18 DEF ShapeAt
<1> QED BY <1>19

\* With parts at such places is_git_smart_http finds them: the first cut is the last,
\* since the owner does not end in it.
LEMMA ShapeRecognised ==
  ASSUME NEW p \in Seq(Symbols), NEW x \in GitSuffixes,
         NEW n, NEW a, NEW b, ShapeAt(p, n, a, b, x)
  PROVE  IsGitSmartHttp(p)
<1>1. PICK o, t : Trimmed(p, o, t)
  BY TrimmedExists
<1>2. t \in Seq(Symbols) /\ Len(t) \in Nat /\ o \in Nat /\ t = TrimStart(p)
  BY <1>1, LenProperties DEF Trimmed
<1>3. PICK m \in Nat : m = Len(t) /\ Len(p) = o + m /\ \A k \in 1..m : t[k] = p[o + k]
  BY <1>1, <1>2 DEF Trimmed
<1>4. n \in Nat /\ a \in Nat /\ b \in Nat /\ n < a /\ a + 2 <= b /\ Len(p) = b + 3
  BY DEF ShapeAt
<1>5. o = n
  <2>1. \A k \in 1..o : p[k] = Slash
    BY <1>1 DEF Trimmed
  <2>2. \A k \in 1..n : p[k] = Slash
    BY DEF ShapeAt
  <2>3. ~(n < o)
    <3> SUFFICES ASSUME n < o PROVE FALSE
      OBVIOUS
    <3>1. n + 1 \in 1..o /\ n + 1 \in (n + 1)..a
      BY <1>2, <1>4
    <3> QED BY <2>1, <3>1 DEF ShapeAt
  <2>4. ~(o < n)
    <3> SUFFICES ASSUME o < n PROVE FALSE
      OBVIOUS
    <3>1. o + 1 \in 1..n /\ 1 \in 1..m /\ m # 0
      BY <1>2, <1>3, <1>4
    <3>2. t[1] = Slash
      BY <1>3, <2>2, <3>1
    <3>3. t # <<>>
      BY <1>3, <3>1, EmptySeq
    <3> QED BY <1>1, <3>2, <3>3 DEF Trimmed
  <2> QED BY <1>2, <1>4, <2>3, <2>4
<1>6. PICK i \in Nat : n + i = a + 1 /\ i >= 2
  <2>1. a + 1 - n \in Nat /\ n + (a + 1 - n) = a + 1 /\ a + 1 - n >= 2
    BY <1>4
  <2> QED BY <2>1
<1>7. PICK c \in Nat : n + c = b + 1 /\ i <= c - 2 /\ m = c + 2
  <2>1. b + 1 - n \in Nat /\ n + (b + 1 - n) = b + 1 /\ i <= (b + 1 - n) - 2 /\ m = (b + 1 - n) + 2
    <3>1. Len(p) = o + m /\ o = n /\ m \in Nat
      BY <1>3, <1>5
    <3>2. n + m = b + 3
      BY <1>4, <3>1
    <3> QED BY <1>4, <1>6, <3>1, <3>2
  <2> QED BY <2>1
<1>8. \A k \in 1..m : t[k] = p[n + k]
  BY <1>3, <1>5
<1>9. t[c] = DotGit /\ t[c + 1] = Slash /\ t[c + 2] = x
  <2>1. /\ c \in 1..m /\ c + 1 \in 1..m /\ c + 2 \in 1..m
        /\ n + c = b + 1 /\ n + (c + 1) = b + 2 /\ n + (c + 2) = b + 3
    BY <1>4, <1>6, <1>7
  <2> QED BY <1>8, <2>1 DEF ShapeAt
<1>10. \A k \in 1..(c - 1) : t[k] = Slash <=> k = i
  <2> SUFFICES ASSUME NEW k \in 1..(c - 1) PROVE t[k] = Slash <=> k = i
    OBVIOUS
  <2>1. t[k] = p[n + k]
    BY <1>6, <1>7, <1>8
  <2>2. n + k \in (n + 1)..a \/ n + k = a + 1 \/ n + k \in (a + 2)..b
    BY <1>4, <1>6, <1>7
  <2>3. n + k = a + 1 <=> k = i
    BY <1>4, <1>6
  <2>4. n + k \in (n + 1)..a \/ n + k \in (a + 2)..b => n + k # a + 1
    BY <1>4
  <2> QED BY <2>1, <2>2, <2>3, <2>4 DEF ShapeAt
<1>11. Cuts(t) = {c}
  <2>1. c \in Cuts(t)
    BY <1>3, <1>6, <1>7, <1>9 DEF Cuts
  <2>2. ASSUME NEW k \in Cuts(t) PROVE k = c
    <3>1. k \in 1..(m - 1) /\ t[k] = DotGit /\ t[k + 1] = Slash
      BY <1>3, <2>2 DEF Cuts
    <3>2. x # Slash /\ DotGit # Slash
      BY RoutingAssumption
    <3>3. k + 1 # c + 2
      BY <1>9, <3>1, <3>2
    <3>4. k + 1 # c
      BY <1>9, <3>1, <3>2
    <3>5. k + 1 # i
      <4>1. k + 1 = i => n + k = a /\ k \in 1..m
        BY <1>3, <1>4, <1>6, <3>1
      <4>2. k + 1 = i => t[k] # DotGit
        BY <1>8, <4>1 DEF ShapeAt
      <4> QED BY <3>1, <4>2
    <3>6. ~(k + 1 \in 1..(c - 1))
      BY <1>10, <3>1, <3>5
    <3> QED BY <1>3, <1>6, <1>7, <3>1, <3>3, <3>4, <3>6
  <2> QED BY <2>1, <2>2
<1>12. Min(Cuts(t)) = c
  <2>1. {c} \in SUBSET Nat /\ {c} # {}
    OBVIOUS
  <2> QED BY <1>11, <2>1, LeastNatural
<1>13. PICK repo \in Seq(Symbols) :
         repo = SubSeq(t, 1, c - 1) /\ Len(repo) = c - 1 /\ \A k \in 1..(c - 1) : repo[k] = t[k]
  <2>1. c - 1 \in 0..Len(t)
    BY <1>3, <1>6, <1>7
  <2>2. /\ SubSeq(t, 1, c - 1) \in Seq(Symbols) /\ Len(SubSeq(t, 1, c - 1)) = c - 1
        /\ \A k \in 1..(c - 1) : SubSeq(t, 1, c - 1)[k] = t[k]
    BY <1>2, <2>1, Beginning
  <2> QED BY <2>2, Zenon
<1>14. Slashes(repo) = {i} /\ i \in 2..(Len(repo) - 1)
  <2>1. DOMAIN repo = 1..(c - 1)
    BY <1>13, LenProperties
  <2>2. \A k \in 1..(c - 1) : k \in Slashes(repo) <=> k = i
    BY <1>10, <1>13, <2>1 DEF Slashes, Solid
  <2>3. Slashes(repo) \subseteq 1..(c - 1) /\ i \in 1..(c - 1)
    BY <1>6, <1>7, <2>1 DEF Slashes
  <2>4. i \in 2..(Len(repo) - 1)
    BY <1>6, <1>7, <1>13
  <2> QED BY <2>2, <2>3, <2>4
<1>15. From(t, c + 2) = <<x>>
  <2>1. PICK d \in Nat : d = c + 1 /\ d \in 0..Len(t)
    BY <1>3, <1>7
  <2>2. /\ From(t, d + 1) \in Seq(Symbols) /\ Len(From(t, d + 1)) = Len(t) - d
        /\ \A k \in 1..(Len(t) - d) : From(t, d + 1)[k] = t[d + k]
    BY <1>2, <2>1, Rest
  <2>3. d + 1 = c + 2 /\ m - d = 1
    BY <1>7, <2>1
  <2>4. PICK u \in Seq(Symbols) : u = From(t, c + 2) /\ Len(u) = 1 /\ u[1] = x
    <3>1. Len(t) - d = 1 /\ 1 \in 1..1
      BY <1>3, <2>3
    <3>2. From(t, d + 1)[1] = t[d + 1]
      BY <2>2, <3>1
    <3>3. From(t, c + 2) \in Seq(Symbols) /\ Len(From(t, c + 2)) = 1 /\ From(t, c + 2)[1] = x
      BY <1>9, <2>2, <2>3, <3>1, <3>2
    <3> QED BY <3>3, Zenon
  <2>5. <<x>> \in Seq(Symbols) /\ Len(<<x>>) = 1 /\ <<x>>[1] = x
    BY RoutingAssumption
  <2>6. \A v, w \in Seq(Symbols) : Len(v) = 1 /\ Len(w) = 1 /\ v[1] = w[1] => v = w
    BY SeqEqual
  <2>7. u = <<x>>
    BY <2>4, <2>5, <2>6, Zenon
  <2> QED BY <2>4, <2>7
<1>16. Cuts(t) # {} /\ SubSeq(t, 1, Min(Cuts(t)) - 1) = repo /\ From(t, Min(Cuts(t)) + 2) = <<x>>
  BY <1>11, <1>12, <1>13, <1>15
<1> QED BY <1>2, <1>14, <1>16, Zenon DEF IsGitSmartHttp, Cuts

\* is_git_smart_http takes the paths of that shape and no others.
LEMMA GitShapeRecognised ==
  ASSUME NEW p \in Seq(Symbols)
  PROVE  IsGitSmartHttp(p) <=> GitShape(p)
<1>1. ASSUME IsGitSmartHttp(p) PROVE GitShape(p)
  BY <1>1, ShapeFound, ShapeIsGitShape
<1>2. ASSUME GitShape(p) PROVE IsGitSmartHttp(p)
  BY <1>2, GitShapeIsShape, ShapeRecognised
<1> QED BY <1>1, <1>2

-----------------------------------------------------------------------------
(* The entries of a profile                                                *)

RouteEntry(p) == [key |-> p.key, canonical |-> p.key, strip |-> None, matcher |-> "prefix"]
AliasEntry(p, j) ==
  [key |-> Normalize(p.file.aliases[j].prefix), canonical |-> p.key,
   strip |-> p.file.aliases[j].strip, matcher |-> "prefix"]
GitEntry(p) ==
  [key |-> GitKey(p.key), canonical |-> p.key, strip |-> None, matcher |-> "git"]

Profile == [key : Seq(Symbols), file : RouteFile]

\* The three kinds of entry are entries.
LEMMA EntriesTyped ==
  ASSUME NEW p \in Profile
  PROVE  /\ Len(p.file.aliases) \in Nat /\ DOMAIN p.file.aliases = 1..Len(p.file.aliases)
         /\ RouteEntry(p) \in Entry /\ GitEntry(p) \in Entry
         /\ \A j \in DOMAIN p.file.aliases : AliasEntry(p, j) \in Entry
<1>1. p.key \in Seq(Symbols) /\ p.file.aliases \in Seq(Alias)
  BY DEF Profile, RouteFile
<1>2. Len(p.file.aliases) \in Nat /\ DOMAIN p.file.aliases = 1..Len(p.file.aliases)
  BY <1>1, LenProperties
<1>3. RouteEntry(p) \in Entry
  BY <1>1 DEF RouteEntry, Entry
<1>4. GitEntry(p) \in Entry
  <2>1. <<GitMark>> \in Seq(Symbols)
    BY RoutingAssumption
  <2>2. GitKey(p.key) \in Seq(Symbols)
    BY <1>1, <2>1, ConcatProperties DEF GitKey
  <2> QED BY <1>1, <2>2 DEF GitEntry, Entry
<1>5. ASSUME NEW j \in DOMAIN p.file.aliases PROVE AliasEntry(p, j) \in Entry
  <2>1. p.file.aliases[j] \in Alias
    BY <1>1, <1>2, ElementOfSeq
  <2>2. p.file.aliases[j].prefix \in Seq(Symbols)
        /\ p.file.aliases[j].strip \in Seq(Symbols) \cup {None}
    BY <2>1 DEF Alias
  <2>3. Normalize(p.file.aliases[j].prefix) \in Seq(Symbols)
    BY <2>2, NormalizedKey
  <2> QED BY <1>1, <2>2, <2>3 DEF AliasEntry, Entry
<1> QED BY <1>2, <1>3, <1>4, <1>5

\* Where the elements of a concatenation stand.
LEMMA Juxtaposed ==
  ASSUME NEW S, NEW a \in Seq(S), NEW b \in Seq(S)
  PROVE  /\ a \o b \in Seq(S) /\ Len(a \o b) = Len(a) + Len(b)
         /\ \A i \in 1..Len(a) : (a \o b)[i] = a[i]
         /\ \A i \in 1..Len(b) : (a \o b)[Len(a) + i] = b[i]
<1>1. /\ a \o b \in Seq(S) /\ Len(a \o b) = Len(a) + Len(b)
      /\ \A i \in 1..(Len(a) + Len(b)) :
           (a \o b)[i] = IF i <= Len(a) THEN a[i] ELSE b[i - Len(a)]
  BY ConcatProperties
<1>2. PICK m \in Nat, n \in Nat : m = Len(a) /\ n = Len(b)
  BY LenProperties
<1>3. ASSUME NEW i \in 1..m PROVE (a \o b)[i] = a[i]
  <2>1. i \in 1..(m + n) /\ i <= m
    OBVIOUS
  <2> QED BY <1>1, <1>2, <2>1
<1>4. ASSUME NEW i \in 1..n PROVE (a \o b)[m + i] = b[i]
  <2>1. m + i \in 1..(m + n) /\ ~(m + i <= m) /\ (m + i) - m = i
    OBVIOUS
  <2> QED BY <1>1, <1>2, <2>1
<1> QED BY <1>1, <1>2, <1>3, <1>4

\* The positions of an expansion: the route, its aliases, its companion.
LEMMA ExpansionByPosition ==
  ASSUME NEW p \in Profile, NEW m \in Nat, m = Len(p.file.aliases)
  PROVE  /\ Expansion(p) \in Seq(Entry)
         /\ DOMAIN Expansion(p) = 1..(m + (IF p.file.git THEN 2 ELSE 1))
         /\ Expansion(p)[1] = RouteEntry(p)
         /\ \A j \in 1..m : Expansion(p)[j + 1] = AliasEntry(p, j)
         /\ p.file.git => Expansion(p)[m + 2] = GitEntry(p)
<1> DEFINE A == <<RouteEntry(p)>>
           B == [j \in DOMAIN p.file.aliases |-> AliasEntry(p, j)]
           C == IF p.file.git THEN <<GitEntry(p)>> ELSE <<>>
<1>1. DOMAIN p.file.aliases = 1..m
  BY EntriesTyped
<1>2. A \in Seq(Entry) /\ Len(A) = 1 /\ A[1] = RouteEntry(p)
  BY EntriesTyped
<1>3. B \in Seq(Entry) /\ Len(B) = m /\ \A j \in 1..m : B[j] = AliasEntry(p, j)
  <2>1. B \in [1..m -> Entry]
    BY <1>1, EntriesTyped
  <2>2. B \in Seq(Entry) /\ DOMAIN B = 1..m
    BY <1>1, <2>1, SeqDef
  <2>3. Len(B) = m
    BY <2>2, LenProperties
  <2> QED BY <1>1, <2>2, <2>3
<1>4. PICK c \in Nat : /\ C \in Seq(Entry) /\ Len(C) = c /\ c = (IF p.file.git THEN 1 ELSE 0)
                       /\ p.file.git => C[1] = GitEntry(p)
  <2>1. CASE p.file.git
    BY <2>1, EntriesTyped
  <2>2. CASE ~p.file.git
    BY <2>2
  <2> QED BY <2>1, <2>2
<1>5. Expansion(p) = A \o (B \o C)
  <2>1. Expansion(p) = (A \o B) \o C
    BY Zenon DEF Expansion, RouteEntry, AliasEntry, GitEntry
  <2>2. PICK u \in Seq(Entry), v \in Seq(Entry), w \in Seq(Entry) : u = A /\ v = B /\ w = C
    BY <1>2, <1>3, <1>4
  <2>3. (u \o v) \o w = u \o (v \o w)
    BY ConcatAssociative, SMTT(30)
  <2> QED BY <2>1, <2>2, <2>3, Zenon
<1>6. PICK u \in Seq(Entry), v \in Seq(Entry), w \in Seq(Entry) : u = A /\ v = B /\ w = C
  BY <1>2, <1>3, <1>4
<1>7. Len(u) = 1 /\ u[1] = RouteEntry(p)
  BY <1>6, <1>2
<1>8. Len(v) = m /\ \A j \in 1..m : v[j] = AliasEntry(p, j)
  BY <1>6, <1>3
<1>9. Len(w) = c /\ c = (IF p.file.git THEN 1 ELSE 0) /\ (p.file.git => w[1] = GitEntry(p))
  BY <1>6, <1>4
<1>10. Expansion(p) = u \o (v \o w)
  BY <1>6, <1>5
<1> HIDE DEF A, B, C
<1>11. /\ v \o w \in Seq(Entry) /\ Len(v \o w) = m + c
       /\ \A i \in 1..m : (v \o w)[i] = v[i]
       /\ \A i \in 1..c : (v \o w)[m + i] = w[i]
  <2>1. v \in Seq(Entry) /\ w \in Seq(Entry)
    OBVIOUS
  <2>2. /\ v \o w \in Seq(Entry) /\ Len(v \o w) = Len(v) + Len(w)
        /\ \A i \in 1..Len(v) : (v \o w)[i] = v[i]
        /\ \A i \in 1..Len(w) : (v \o w)[Len(v) + i] = w[i]
    BY <2>1, Juxtaposed
  <2> QED BY <1>8, <1>9, <2>2, Zenon
<1>12. PICK x \in Seq(Entry) : x = v \o w /\ Len(x) = m + c
  BY <1>11
<1>13. m + c \in Nat /\ 1 \in Nat
  OBVIOUS
<1>14. /\ u \o x \in Seq(Entry) /\ Len(u \o x) = 1 + (m + c)
       /\ \A i \in 1..1 : (u \o x)[i] = u[i]
       /\ \A i \in 1..(m + c) : (u \o x)[1 + i] = x[i]
  <2>1. /\ u \o x \in Seq(Entry) /\ Len(u \o x) = Len(u) + Len(x)
        /\ \A i \in 1..Len(u) : (u \o x)[i] = u[i]
        /\ \A i \in 1..Len(x) : (u \o x)[Len(u) + i] = x[i]
    BY Juxtaposed
  <2> QED BY <1>7, <1>12, <2>1, Zenon
<1>15. DOMAIN (u \o x) = 1..(1 + (m + c))
  BY <1>14, LenProperties
<1>16. 1 + (m + c) = m + (IF p.file.git THEN 2 ELSE 1)
  <2>1. CASE p.file.git
    <3>1. c = 1
      BY <1>9, <2>1
    <3>2. 1 + (m + c) = m + 2
      BY <3>1
    <3> QED BY <2>1, <3>2
  <2>2. CASE ~p.file.git
    <3>1. c = 0
      BY <1>9, <2>2
    <3>2. 1 + (m + c) = m + 1
      BY <3>1
    <3> QED BY <2>2, <3>2
  <2> QED BY <2>1, <2>2
<1>17. ASSUME NEW j \in 1..m PROVE Expansion(p)[j + 1] = AliasEntry(p, j)
  <2>1. j \in 1..(m + c) /\ 1 + j = j + 1
    OBVIOUS
  <2>2. (u \o x)[j + 1] = x[j]
    BY <1>14, <2>1
  <2> QED BY <1>8, <1>10, <1>11, <1>12, <2>2
<1>18. ASSUME p.file.git PROVE Expansion(p)[m + 2] = GitEntry(p)
  <2>1. c = 1 /\ w[1] = GitEntry(p)
    BY <1>9, <1>18
  <2>2. m + 1 \in 1..(m + c) /\ 1 + (m + 1) = m + 2 /\ 1 \in 1..c
    BY <2>1
  <2>3. (u \o x)[m + 2] = x[m + 1]
    BY <1>14, <2>2
  <2>4. x[m + 1] = w[1]
    BY <1>11, <1>12, <2>2
  <2> QED BY <1>10, <1>12, <2>1, <2>3, <2>4
<1>19. Expansion(p) = u \o x
  BY <1>10, <1>12
<1>20. 1 \in 1..1
  OBVIOUS
<1>21. Expansion(p)[1] = RouteEntry(p)
  BY <1>7, <1>14, <1>19, <1>20
<1>22. DOMAIN Expansion(p) = 1..(m + (IF p.file.git THEN 2 ELSE 1))
  BY <1>15, <1>16, <1>19
<1> QED BY <1>14, <1>17, <1>18, <1>19, <1>21, <1>22

\* Every position is one of the three, and its entry is for the route of its profile.
LEMMA PositionCases ==
  ASSUME NEW p \in Profile, NEW m \in Nat, m = Len(p.file.aliases),
         NEW k \in DOMAIN Expansion(p)
  PROVE  /\ Expansion(p)[k] \in Entry /\ Expansion(p)[k].canonical = p.key
         /\ k \in Nat /\ k >= 1 /\ k <= m + 2
         /\ \/ k = 1 /\ Expansion(p)[k] = RouteEntry(p)
            \/ k - 1 \in 1..m /\ Expansion(p)[k] = AliasEntry(p, k - 1)
            \/ k = m + 2 /\ p.file.git /\ Expansion(p)[k] = GitEntry(p)
<1>1. k \in 1..(m + (IF p.file.git THEN 2 ELSE 1)) /\ DOMAIN p.file.aliases = 1..m
  BY EntriesTyped, ExpansionByPosition
<1>2. k \in 1..(m + 1) \/ (k \in 1..(m + 2) /\ p.file.git)
  BY <1>1
<1>3. /\ k \in Nat /\ k >= 1 /\ k <= m + 2
      /\ k = 1 \/ k - 1 \in 1..m \/ (k = m + 2 /\ p.file.git)
  <2>1. ASSUME k \in 1..(m + 1)
        PROVE  k \in Nat /\ k >= 1 /\ k <= m + 2 /\ (k = 1 \/ k - 1 \in 1..m)
    BY <2>1
  <2>2. ASSUME k \in 1..(m + 2)
        PROVE  k \in Nat /\ k >= 1 /\ k <= m + 2 /\ (k = 1 \/ k - 1 \in 1..m \/ k = m + 2)
    BY <2>2
  <2> QED BY <1>2, <2>1, <2>2
<1>4. CASE k = 1
  <2>1. Expansion(p)[k] = RouteEntry(p)
    BY <1>4, ExpansionByPosition
  <2>2. RouteEntry(p) \in Entry /\ RouteEntry(p).canonical = p.key
    BY EntriesTyped DEF RouteEntry
  <2> QED BY <1>3, <1>4, <2>1, <2>2
<1>5. CASE k - 1 \in 1..m
  <2>1. PICK j \in 1..m : j = k - 1 /\ j + 1 = k
    BY <1>3, <1>5
  <2>2. Expansion(p)[j + 1] = AliasEntry(p, j)
    BY ExpansionByPosition
  <2>3. AliasEntry(p, j) \in Entry /\ AliasEntry(p, j).canonical = p.key
    BY <1>1, EntriesTyped DEF AliasEntry
  <2> QED BY <1>3, <1>5, <2>1, <2>2, <2>3
<1>6. CASE k = m + 2 /\ p.file.git
  <2>1. Expansion(p)[k] = GitEntry(p)
    BY <1>6, ExpansionByPosition
  <2>2. GitEntry(p) \in Entry /\ GitEntry(p).canonical = p.key
    BY EntriesTyped DEF GitEntry
  <2> QED BY <1>3, <1>6, <2>1, <2>2
<1> QED BY <1>3, <1>4, <1>5, <1>6

EntriesOf(p) == {Expansion(p)[k] : k \in DOMAIN Expansion(p)}

\* A profile has finitely many entries.
LEMMA EntriesFinite ==
  ASSUME NEW p \in Profile
  PROVE  IsFiniteSet(EntriesOf(p))
<1>1. PICK m \in Nat : m = Len(p.file.aliases)
  BY EntriesTyped
<1>2. PICK n \in Nat : DOMAIN Expansion(p) = 1..n
  <2>1. m + (IF p.file.git THEN 2 ELSE 1) \in Nat
    OBVIOUS
  <2> QED BY <1>1, <2>1, ExpansionByPosition
<1> DEFINE f == [k \in 1..n |-> Expansion(p)[k]]
<1>3. f \in Surjection(1..n, EntriesOf(p))
  BY <1>2 DEF Surjection, EntriesOf
<1>4. IsFiniteSet(1..n)
  BY FS_Interval
<1> QED BY <1>3, <1>4, FS_Surjection

-----------------------------------------------------------------------------
(* The claims of the files                                                 *)

\* The profile that file i is read into.
FileAt(i) == [key |-> Normalize(build[i].name), file |-> build[i]]

RouteClaim(i) == [file |-> i, matcher |-> "prefix", key |-> Normalize(build[i].name),
                  strip |-> None, n |-> 0]
AliasClaim(i, j) == [file |-> i, matcher |-> "prefix", key |-> Normalize(build[i].aliases[j].prefix),
                     strip |-> build[i].aliases[j].strip, n |-> j]
GitClaim(i) == [file |-> i, matcher |-> "git", key |-> GitKey(Normalize(build[i].name)),
                strip |-> None, n |-> 0]

\* What file i claims with the entry at position k of its expansion.
ClaimAt(i, k) ==
  IF k = 1 THEN RouteClaim(i)
  ELSE IF k = Len(build[i].aliases) + 2 THEN GitClaim(i) ELSE AliasClaim(i, k - 1)

\* The entry that such a claim is for.
EntryOf(c) == [key |-> c.key, canonical |-> Normalize(build[c.file].name),
               strip |-> c.strip, matcher |-> c.matcher]

\* The files of a build are route files, each with a profile it would be read into.
LEMMA FilesTyped ==
  ASSUME build \in Builds
  PROVE  /\ Len(build) \in Nat /\ DOMAIN build = 1..Len(build)
         /\ \A i \in DOMAIN build : build[i] \in RouteFile /\ FileAt(i) \in Profile
<1>1. build \in Seq(RouteFile)
  BY RoutingAssumption
<1>2. Len(build) \in Nat /\ DOMAIN build = 1..Len(build)
  BY <1>1, LenProperties
<1>3. ASSUME NEW i \in DOMAIN build PROVE build[i] \in RouteFile /\ FileAt(i) \in Profile
  <2>1. build[i] \in RouteFile
    BY <1>1, <1>2, ElementOfSeq
  <2>2. Normalize(build[i].name) \in Seq(Symbols)
    BY <2>1, NormalizedKey DEF RouteFile
  <2> QED BY <2>1, <2>2 DEF FileAt, Profile
<1> QED BY <1>2, <1>3

\* A claim is for a route, an alias or a companion of some file.
LEMMA ClaimCases ==
  ASSUME NEW c
  PROVE  c \in Claims <=>
           \E i \in DOMAIN build :
             \/ c = RouteClaim(i)
             \/ \E j \in DOMAIN build[i].aliases : c = AliasClaim(i, j)
             \/ build[i].git /\ c = GitClaim(i)
<1> DEFINE R(i) == {RouteClaim(i)}
           A(i) == {AliasClaim(i, j) : j \in DOMAIN build[i].aliases}
           G(i) == {GitClaim(i) : g \in {x \in {TRUE} : build[i].git}}
<1>1. Claims = UNION {R(i) \cup A(i) \cup G(i) : i \in DOMAIN build}
  BY DEF Claims, ClaimsOf, RouteClaim, AliasClaim, GitClaim
<1>2. ASSUME NEW i PROVE c \in G(i) <=> build[i].git /\ c = GitClaim(i)
  OBVIOUS
<1>3. ASSUME NEW i PROVE c \in A(i) <=> \E j \in DOMAIN build[i].aliases : c = AliasClaim(i, j)
  OBVIOUS
<1>4. ASSUME NEW i PROVE c \in R(i) <=> c = RouteClaim(i)
  OBVIOUS
<1> HIDE DEF R, A, G
<1>5. c \in Claims <=> \E i \in DOMAIN build : c \in R(i) \/ c \in A(i) \/ c \in G(i)
  BY <1>1
<1> QED BY <1>2, <1>3, <1>4, <1>5

\* A position and its claim: they are for the same entry.
LEMMA ClaimOfPosition ==
  ASSUME build \in Builds, NEW i \in DOMAIN build, NEW m \in Nat, m = Len(build[i].aliases),
         NEW k \in DOMAIN Expansion(FileAt(i))
  PROVE  /\ ClaimAt(i, k) \in Claims /\ EntryOf(ClaimAt(i, k)) = Expansion(FileAt(i))[k]
         /\ ClaimAt(i, k).file = i
         /\ \/ k = 1 /\ ClaimAt(i, k) = RouteClaim(i)
            \/ k = m + 2 /\ ClaimAt(i, k) = GitClaim(i)
            \/ k - 1 \in 1..m /\ ClaimAt(i, k) = AliasClaim(i, k - 1)
<1> DEFINE p == FileAt(i)
<1>1. p \in Profile /\ p.key = Normalize(build[i].name) /\ p.file = build[i]
  BY FilesTyped DEF FileAt
<1>2. m = Len(p.file.aliases) /\ DOMAIN build[i].aliases = 1..m
  BY <1>1, EntriesTyped
<1>3. /\ k \in Nat
      /\ \/ k = 1 /\ Expansion(p)[k] = RouteEntry(p)
         \/ k - 1 \in 1..m /\ Expansion(p)[k] = AliasEntry(p, k - 1)
         \/ k = m + 2 /\ p.file.git /\ Expansion(p)[k] = GitEntry(p)
  BY <1>1, <1>2, PositionCases
<1> HIDE DEF p
<1>4. CASE k = 1 /\ Expansion(p)[k] = RouteEntry(p)
  <2>1. ClaimAt(i, k) = RouteClaim(i) /\ ClaimAt(i, k) \in Claims
    BY <1>4, ClaimCases DEF ClaimAt
  <2>2. RouteClaim(i).file = i /\ EntryOf(RouteClaim(i)) = RouteEntry(p)
    BY <1>1 DEF RouteClaim, EntryOf, RouteEntry
  <2> QED BY <1>4, <2>1, <2>2 DEF p
<1>5. CASE k - 1 \in 1..m /\ Expansion(p)[k] = AliasEntry(p, k - 1)
  <2>1. PICK j \in 1..m : j = k - 1
    BY <1>5
  <2>2. k # 1 /\ k # m + 2
    BY <1>3, <2>1
  <2>3. ClaimAt(i, k) = AliasClaim(i, j)
    BY <2>1, <2>2 DEF ClaimAt
  <2>4. ClaimAt(i, k) \in Claims
    BY <1>2, <2>3, ClaimCases
  <2>5. AliasClaim(i, j).file = i /\ EntryOf(AliasClaim(i, j)) = AliasEntry(p, j)
    BY <1>1 DEF AliasClaim, EntryOf, AliasEntry
  <2> QED BY <1>5, <2>1, <2>3, <2>4, <2>5 DEF p
<1>6. CASE k = m + 2 /\ p.file.git /\ Expansion(p)[k] = GitEntry(p)
  <2>1. k # 1
    BY <1>6
  <2>2. ClaimAt(i, k) = GitClaim(i) /\ ClaimAt(i, k) \in Claims
    BY <1>1, <1>6, <2>1, ClaimCases DEF ClaimAt
  <2>3. GitClaim(i).file = i /\ EntryOf(GitClaim(i)) = GitEntry(p)
    BY <1>1 DEF GitClaim, EntryOf, GitEntry
  <2> QED BY <1>6, <2>2, <2>3 DEF p
<1> QED BY <1>3, <1>4, <1>5, <1>6

\* Every claim is for an entry at some position.
LEMMA PositionOfClaim ==
  ASSUME build \in Builds, NEW c \in Claims
  PROVE  \E i \in DOMAIN build : \E k \in DOMAIN Expansion(FileAt(i)) : c = ClaimAt(i, k)
<1>1. PICK i \in DOMAIN build : \/ c = RouteClaim(i)
                                \/ \E j \in DOMAIN build[i].aliases : c = AliasClaim(i, j)
                                \/ build[i].git /\ c = GitClaim(i)
  BY ClaimCases
<1> DEFINE p == FileAt(i)
<1>2. p \in Profile /\ p.file = build[i]
  BY FilesTyped DEF FileAt
<1>3. PICK m \in Nat : m = Len(build[i].aliases) /\ DOMAIN build[i].aliases = 1..m
  BY <1>2, EntriesTyped
<1>4. DOMAIN Expansion(p) = 1..(m + (IF build[i].git THEN 2 ELSE 1))
  BY <1>2, <1>3, ExpansionByPosition
<1> HIDE DEF p
<1>5. 1..(m + 1) \subseteq DOMAIN Expansion(p) /\ (build[i].git => m + 2 \in DOMAIN Expansion(p))
  BY <1>4
<1>6. CASE c = RouteClaim(i)
  <2>1. 1 \in 1..(m + 1)
    OBVIOUS
  <2>2. c = ClaimAt(i, 1)
    BY <1>6 DEF ClaimAt
  <2> QED BY <1>5, <2>1, <2>2 DEF p
<1>7. CASE \E j \in DOMAIN build[i].aliases : c = AliasClaim(i, j)
  <2>1. PICK j \in 1..m : c = AliasClaim(i, j)
    BY <1>3, <1>7
  <2>2. PICK k \in 1..(m + 1) : k = j + 1 /\ k # 1 /\ k # m + 2 /\ k - 1 = j
    OBVIOUS
  <2>3. c = ClaimAt(i, k)
    BY <1>3, <2>1, <2>2 DEF ClaimAt
  <2> QED BY <1>5, <2>2, <2>3 DEF p
<1>8. CASE build[i].git /\ c = GitClaim(i)
  <2>1. m + 2 # 1
    OBVIOUS
  <2>2. c = ClaimAt(i, m + 2)
    BY <1>3, <1>8, <2>1 DEF ClaimAt
  <2> QED BY <1>5, <1>8, <2>2 DEF p
<1> QED BY <1>1, <1>6, <1>7, <1>8

\* Different positions are different claims.
LEMMA ClaimsApart ==
  ASSUME build \in Builds,
         NEW i \in DOMAIN build, NEW k \in DOMAIN Expansion(FileAt(i)),
         NEW j \in DOMAIN build, NEW l \in DOMAIN Expansion(FileAt(j)),
         ClaimAt(i, k) = ClaimAt(j, l)
  PROVE  i = j /\ k = l
<1>1. FileAt(i) \in Profile /\ FileAt(j) \in Profile
      /\ FileAt(i).file = build[i] /\ FileAt(j).file = build[j]
  BY FilesTyped DEF FileAt
<1>2. PICK m \in Nat : m = Len(build[i].aliases)
  BY <1>1, EntriesTyped
<1>3. PICK n \in Nat : n = Len(build[j].aliases)
  BY <1>1, EntriesTyped
<1>4. i = j
  BY <1>2, <1>3, ClaimOfPosition
<1>5. m = n
  BY <1>2, <1>3, <1>4
<1>6. \/ k = 1 /\ ClaimAt(i, k).matcher = "prefix" /\ ClaimAt(i, k).n = 0
      \/ k = m + 2 /\ ClaimAt(i, k).matcher = "git"
      \/ k - 1 \in 1..m /\ ClaimAt(i, k).matcher = "prefix" /\ ClaimAt(i, k).n = k - 1
  BY <1>2, ClaimOfPosition DEF RouteClaim, AliasClaim, GitClaim
<1>7. \/ l = 1 /\ ClaimAt(j, l).matcher = "prefix" /\ ClaimAt(j, l).n = 0
      \/ l = m + 2 /\ ClaimAt(j, l).matcher = "git"
      \/ l - 1 \in 1..m /\ ClaimAt(j, l).matcher = "prefix" /\ ClaimAt(j, l).n = l - 1
  BY <1>3, <1>5, ClaimOfPosition DEF RouteClaim, AliasClaim, GitClaim
<1>8. k \in Nat /\ l \in Nat
  BY <1>1, <1>2, <1>3, PositionCases
<1>9. k = l
  BY <1>6, <1>7, <1>8
<1> QED BY <1>4, <1>9

-----------------------------------------------------------------------------
(* The inductive invariant                                                 *)

\* The files read so far, in the order of the build, none under the key of another.
FilesRead ==
  /\ IsFiniteSet(profile) /\ Cardinality(profile) \in 0..Len(build)
  /\ profile = {FileAt(i) : i \in 1..Cardinality(profile)}
  /\ \A i, j \in 1..Cardinality(profile) : FileAt(i).key = FileAt(j).key => i = j

\* The keys of an expansion differ.
KeysApart(p) ==
  \A k, l \in DOMAIN Expansion(p) : Expansion(p)[k].key = Expansion(p)[l].key => k = l

\* The table holds the entries of the profiles that are expanded, whole, and nothing
\* else, each under a key of its own.
TableGrown ==
  /\ IsFiniteSet(routes)
  /\ \A p \in profile : Expanded(p) => EntriesOf(p) \subseteq routes /\ KeysApart(p)
  /\ \A e \in routes : \E p \in profile : Expanded(p) /\ e \in EntriesOf(p)
  /\ \A d, e \in routes : d.key = e.key => d = e

\* How far the start is, and what a request found.
Progress ==
  /\ phase \in {"env", "tokens", "reading", "expanding", "serving", "refused", "unbound"}
  /\ setting \in Settings /\ build \in Builds
  /\ phase \in {"env", "tokens", "reading"} => routes = {}
  /\ phase \in {"expanding", "serving"} => Cardinality(profile) = Len(build)
  /\ phase = "serving" => \A p \in profile : Expanded(p)
  /\ path = None => resolved = None
  /\ path # None => phase = "serving" /\ path \in Paths /\ resolved = Resolve(path)

IInv == FilesRead /\ TableGrown /\ Progress

\* A profile that was read is that of a file, and has its key to itself.
LEMMA ProfilesRead ==
  ASSUME FilesRead, build \in Builds
  PROVE  /\ \A p \in profile : p \in Profile /\ \E i \in DOMAIN build : p = FileAt(i)
         /\ \A p, q \in profile : p.key = q.key => p = q
<1>1. 1..Cardinality(profile) \subseteq DOMAIN build
  BY FilesTyped DEF FilesRead
<1>2. \A p \in profile : \E i \in 1..Cardinality(profile) : p = FileAt(i)
  BY DEF FilesRead
<1>3. \A i, j \in 1..Cardinality(profile) : FileAt(i).key = FileAt(j).key => i = j
  BY DEF FilesRead
<1>4. \A p, q \in profile : p.key = q.key => p = q
  BY <1>2, <1>3
<1>5. \A p \in profile : p \in Profile /\ \E i \in DOMAIN build : p = FileAt(i)
  BY <1>1, <1>2, FilesTyped
<1> QED BY <1>4, <1>5

\* With every file read, each has its profile.
LEMMA AllProfilesRead ==
  ASSUME FilesRead, build \in Builds, Cardinality(profile) = Len(build)
  PROVE  /\ \A i \in DOMAIN build : FileAt(i) \in profile
         /\ \A i, j \in DOMAIN build : FileAt(i).key = FileAt(j).key => i = j
BY FilesTyped DEF FilesRead

\* The route of a profile is among its entries, and they are all for its route.
LEMMA RouteAmongEntries ==
  ASSUME NEW p \in Profile
  PROVE  /\ RouteEntry(p) \in EntriesOf(p)
         /\ \A e \in EntriesOf(p) : e \in Entry /\ e.canonical = p.key
<1>1. PICK m \in Nat : m = Len(p.file.aliases)
  BY EntriesTyped
<1>2. DOMAIN Expansion(p) = 1..(m + (IF p.file.git THEN 2 ELSE 1)) /\ Expansion(p)[1] = RouteEntry(p)
  BY <1>1, ExpansionByPosition
<1>3. 1 \in DOMAIN Expansion(p)
  BY <1>2
<1>4. \A k \in DOMAIN Expansion(p) : Expansion(p)[k] \in Entry /\ Expansion(p)[k].canonical = p.key
  BY <1>1, PositionCases
<1> QED BY <1>2, <1>3, <1>4 DEF EntriesOf

\* The invariant holds before anything was read.
LEMMA InitIInv == Init => IInv
<1> SUFFICES ASSUME Init PROVE IInv
  OBVIOUS
<1>1. IsFiniteSet({}) /\ Cardinality({}) = 0
  BY FS_EmptySet
<1>2. build \in Builds /\ Len(build) \in Nat
  BY FilesTyped DEF Init
<1>3. FilesRead
  <2>1. profile = {}
    BY DEF Init
  <2>2. 0 \in 0..Len(build) /\ 1..0 = {}
    BY <1>2
  <2> QED BY <1>1, <2>1, <2>2 DEF FilesRead
<1>4. TableGrown
  BY <1>1 DEF Init, TableGrown, Expanded
<1>5. Progress
  BY DEF Init, Progress
<1> QED BY <1>3, <1>4, <1>5 DEF IInv

\* Reading a file keeps the files in order.
LEMMA ReadFileKeepsOrder ==
  ASSUME IInv, ReadFile
  PROVE  FilesRead'
<1>1. FilesRead /\ build \in Builds /\ build' = build
  BY DEF IInv, Progress, ReadFile
<1>2. \A i : FileAt(i)' = FileAt(i)
  BY <1>1 DEF FileAt
<1>3. CASE profile' = profile
  BY <1>1, <1>2, <1>3 DEF FilesRead
<1>4. CASE profile' # profile
  <2> DEFINE c == Cardinality(profile)
  <2>1. c \in Nat /\ c < Len(build) /\ Len(build) \in Nat
    BY <1>1, FilesTyped DEF ReadFile, FilesRead
  <2>2. profile' = profile \cup {FileAt(c + 1)} /\ FileAt(c + 1).key \notin Keys(profile)
    BY <1>4 DEF ReadFile, FileAt
  <2>3. FileAt(c + 1) \notin profile
    BY <2>2 DEF Keys
  <2>4. IsFiniteSet(profile') /\ Cardinality(profile') = c + 1
    BY <1>1, <2>2, <2>3, FS_AddElement DEF FilesRead
  <2>5. profile = {FileAt(i) : i \in 1..c}
        /\ \A i, j \in 1..c : FileAt(i).key = FileAt(j).key => i = j
    BY <1>1 DEF FilesRead
  <2>6. \A i \in 1..c : FileAt(i).key # FileAt(c + 1).key
    BY <2>2, <2>5 DEF Keys
  <2> HIDE DEF c
  <2>7. c + 1 \in 0..Len(build) /\ 1..(c + 1) = 1..c \cup {c + 1}
    BY <2>1
  <2>8. profile' = {FileAt(i) : i \in 1..(c + 1)}
    BY <2>2, <2>5, <2>7
  <2>9. \A i, j \in 1..(c + 1) : FileAt(i).key = FileAt(j).key => i = j
    BY <2>5, <2>6, <2>7
  <2> QED BY <1>1, <1>2, <2>4, <2>7, <2>8, <2>9 DEF FilesRead
<1> QED BY <1>3, <1>4

\* The profile that is expanded next, and what its expansion adds.
LEMMA NextExpanded ==
  ASSUME IInv, ExpandRoute
  PROVE  \E p \in profile :
           /\ ~Expanded(p) /\ p \in Profile
           /\ \/ Collides(Expansion(p)) /\ phase' = "refused" /\ routes' = routes
              \/ ~Collides(Expansion(p)) /\ phase' = phase /\ routes' = routes \cup EntriesOf(p)
<1> DEFINE S == {p \in profile : ~Expanded(p)}
<1>1. FilesRead /\ build \in Builds
  BY DEF IInv, Progress
<1>2. \A p, q \in profile : p.key = q.key => p = q
  BY <1>1, ProfilesRead
<1>3. \A p \in profile : p \in Profile /\ p.key \in Seq(Symbols)
  BY <1>1, ProfilesRead DEF Profile
<1>4. IsFiniteSet(S)
  BY <1>1, FS_Subset DEF FilesRead
<1>5. S # {}
  BY DEF ExpandRoute
<1>6. Foremost(S) \in S
  BY <1>2, <1>3, <1>4, <1>5, ForemostIsOne
<1>7. PICK p \in profile : p = Foremost(S) /\ ~Expanded(p)
  BY <1>6
<1>8. IF Collides(Expansion(p)) THEN phase' = "refused" /\ routes' = routes
      ELSE routes' = routes \cup {Expansion(p)[i] : i \in DOMAIN Expansion(p)} /\ phase' = phase
  BY <1>7 DEF ExpandRoute, Goto
<1> QED BY <1>3, <1>7, <1>8 DEF EntriesOf

\* An expansion that collides with nothing adds keys that are new and all different.
LEMMA NothingCollides ==
  ASSUME NEW p \in Profile, ~Collides(Expansion(p))
  PROVE  KeysApart(p) /\ \A e \in EntriesOf(p), d \in routes : e.key # d.key
<1>1. PICK n \in Nat : DOMAIN Expansion(p) = 1..n
  <2>1. PICK m \in Nat : m = Len(p.file.aliases)
    BY EntriesTyped
  <2>2. m + (IF p.file.git THEN 2 ELSE 1) \in Nat
    OBVIOUS
  <2> QED BY <2>1, <2>2, ExpansionByPosition
<1>2. \A i \in 1..n : /\ Expansion(p)[i].key \notin Keys(routes)
                      /\ \A j \in 1..(i - 1) : Expansion(p)[j].key # Expansion(p)[i].key
  BY <1>1 DEF Collides
<1>3. ASSUME NEW k \in 1..n, NEW l \in 1..n, Expansion(p)[k].key = Expansion(p)[l].key
      PROVE  k = l
  <2>1. k \in 1..(l - 1) \/ l \in 1..(k - 1) \/ k = l
    OBVIOUS
  <2> QED BY <1>2, <1>3, <2>1
<1> QED BY <1>1, <1>2, <1>3 DEF KeysApart, EntriesOf, Keys

\* Expanding a profile adds all of it or none of it.
LEMMA ExpandRouteGrowsTable ==
  ASSUME IInv, ExpandRoute
  PROVE  TableGrown'
<1>1. PICK p \in profile :
         /\ ~Expanded(p) /\ p \in Profile
         /\ \/ Collides(Expansion(p)) /\ phase' = "refused" /\ routes' = routes
            \/ ~Collides(Expansion(p)) /\ phase' = phase /\ routes' = routes \cup EntriesOf(p)
  BY NextExpanded
<1>2. TableGrown /\ FilesRead /\ build \in Builds /\ profile' = profile
  BY DEF IInv, Progress, ExpandRoute
<1>3. CASE routes' = routes
  BY <1>2, <1>3 DEF TableGrown, Expanded
<1>4. CASE ~Collides(Expansion(p)) /\ routes' = routes \cup EntriesOf(p)
  <2>1. KeysApart(p) /\ \A e \in EntriesOf(p), d \in routes : e.key # d.key
    BY <1>1, <1>4, NothingCollides
  <2>2. RouteEntry(p) \in EntriesOf(p) /\ \A e \in EntriesOf(p) : e.canonical = p.key
    BY <1>1, RouteAmongEntries
  <2>3. Expanded(p)'
    BY <1>4, <2>2 DEF Expanded, RouteEntry
  <2>4. \A q \in profile : Expanded(q) => Expanded(q)'
    BY <1>4 DEF Expanded
  <2>5. \A q, r \in profile : q.key = r.key => q = r
    BY <1>2, ProfilesRead
  <2>6. ASSUME NEW q \in profile, Expanded(q)', q # p PROVE Expanded(q)
    BY <1>4, <2>2, <2>5, <2>6 DEF Expanded
  <2>7. IsFiniteSet(routes')
    BY <1>1, <1>2, <1>4, EntriesFinite, FS_Union DEF TableGrown
  <2>8. ASSUME NEW q \in profile', Expanded(q)' PROVE EntriesOf(q) \subseteq routes' /\ KeysApart(q)
    <3>1. CASE q = p
      BY <1>4, <2>1, <3>1
    <3>2. CASE q # p
      <4>1. Expanded(q) /\ q \in profile
        BY <1>2, <2>6, <2>8, <3>2
      <4> QED BY <1>2, <1>4, <4>1 DEF TableGrown
    <3> QED BY <3>1, <3>2
  <2>9. ASSUME NEW e \in routes' PROVE \E q \in profile' : Expanded(q)' /\ e \in EntriesOf(q)
    <3>1. CASE e \in routes
      BY <1>2, <2>4, <3>1 DEF TableGrown
    <3>2. CASE e \in EntriesOf(p)
      BY <1>2, <2>3, <3>2
    <3> QED BY <1>4, <3>1, <3>2
  <2>10. \A d, e \in routes : d.key = e.key => d = e
    BY <1>2 DEF TableGrown
  <2>11. \A d, e \in EntriesOf(p) : d.key = e.key => d = e
    BY <2>1 DEF KeysApart, EntriesOf
  <2>12. \A d, e \in routes' : d.key = e.key => d = e
    BY <1>4, <2>1, <2>10, <2>11
  <2> QED BY <2>7, <2>8, <2>9, <2>12 DEF TableGrown
<1> QED BY <1>1, <1>3, <1>4

\* Every step keeps the invariant.
LEMMA NextIInv == IInv /\ [Next]_vars => IInv'
<1> SUFFICES ASSUME IInv, [Next]_vars PROVE IInv'
  OBVIOUS
<1>1. FilesRead /\ TableGrown /\ Progress
  BY DEF IInv
<1>3. ASSUME build' = build, profile' = profile PROVE FilesRead'
  BY <1>1, <1>3 DEF FilesRead, FileAt
<1>4. ASSUME profile' = profile, routes' = routes PROVE TableGrown'
  BY <1>1, <1>4 DEF TableGrown, Expanded
<1>2. ASSUME UNCHANGED vars PROVE IInv'
  <2>1. Resolve(path)' = Resolve(path)
    BY <1>2 DEF vars, Resolve
  <2>2. Progress'
    BY <1>1, <1>2, <2>1 DEF vars, Progress, Expanded
  <2> QED BY <1>2, <1>3, <1>4, <2>2 DEF vars, IInv
<1>5. CASE CheckEnv
  <2>1. Progress'
    BY <1>1, <1>5 DEF CheckEnv, Goto, Progress
  <2> QED BY <1>3, <1>4, <1>5, <2>1 DEF CheckEnv, IInv
<1>6. CASE LoadTokens
  <2>1. Progress'
    BY <1>1, <1>6 DEF LoadTokens, Goto, Progress
  <2> QED BY <1>3, <1>4, <1>6, <2>1 DEF LoadTokens, IInv
<1>7. CASE ReadFile
  <2>1. FilesRead'
    BY <1>7, ReadFileKeepsOrder
  <2>2. routes = {} /\ routes' = {} /\ path = None /\ path' = None /\ resolved' = resolved
    BY <1>1, <1>7 DEF ReadFile, Progress
  <2>3. TableGrown'
    <3>1. IsFiniteSet({})
      BY FS_EmptySet
    <3> QED BY <2>2, <3>1 DEF TableGrown, Expanded
  <2>4. Progress'
    BY <1>1, <1>7, <2>2 DEF ReadFile, Goto, Progress
  <2> QED BY <2>1, <2>3, <2>4 DEF IInv
<1>8. CASE AllRead
  <2>1. Progress'
    BY <1>1, <1>8 DEF AllRead, Goto, Progress
  <2> QED BY <1>3, <1>4, <1>8, <2>1 DEF AllRead, IInv
<1>9. CASE ExpandRoute
  <2>1. TableGrown'
    BY <1>9, ExpandRouteGrowsTable
  <2>2. phase = "expanding" /\ path' = path /\ resolved' = resolved /\ profile' = profile
        /\ build' = build /\ setting' = setting
    BY <1>9 DEF ExpandRoute
  <2>3. phase' = "refused" \/ phase' = phase
    BY <1>9, NextExpanded
  <2>4. Progress'
    BY <1>1, <2>2, <2>3 DEF Progress
  <2> QED BY <1>3, <2>1, <2>2, <2>4 DEF IInv
<1>10. CASE Bind
  <2>1. Progress'
    BY <1>1, <1>10 DEF Bind, Goto, Progress, Expanded
  <2> QED BY <1>3, <1>4, <1>10, <2>1 DEF Bind, IInv
<1>11. ASSUME NEW p \in Paths, Request(p) PROVE IInv'
  <2>1. Resolve(path)' = Resolve(p)
    BY <1>11 DEF Request, Resolve
  <2>2. path' = p /\ resolved' = Resolve(path)' /\ phase' = "serving"
    BY <1>11, <2>1 DEF Request
  <2>3. /\ phase = "serving" /\ setting' = setting /\ build' = build /\ profile' = profile
        /\ routes' = routes /\ p \in Paths /\ path' # None
    BY <1>11, RoutingAssumption DEF Request
  <2>4. Progress'
    BY <1>1, <2>2, <2>3 DEF Progress, Expanded
  <2> QED BY <1>3, <1>4, <1>11, <2>4 DEF Request, IInv
<1> QED BY <1>2, <1>5, <1>6, <1>7, <1>8, <1>9, <1>10, <1>11 DEF Next, Start, Done

\* The invariant holds of every reachable state.
LEMMA Sound == Spec => []IInv
BY InitIInv, NextIInv, PTL DEF Spec

-----------------------------------------------------------------------------
(* The table that is served, and the reasons to refuse                     *)

\* The table holds entries, each for the route of a profile that was read.
LEMMA RoutesTyped ==
  ASSUME IInv
  PROVE  \A e \in routes : e \in Entry /\ \E p \in profile : e.canonical = p.key
<1>1. \A e \in routes : \E p \in profile : e \in EntriesOf(p)
  BY DEF IInv, TableGrown
<1>2. \A p \in profile : p \in Profile
  BY ProfilesRead DEF IInv, Progress
<1> QED BY <1>1, <1>2, RouteAmongEntries

\* When the gateway serves, the entries of the table are those of the claims, each
\* claim with an entry of its own.
LEMMA EntriesOfClaims ==
  ASSUME IInv, phase = "serving"
  PROVE  /\ \A c \in Claims : EntryOf(c) \in routes
         /\ \A e \in routes : \E c \in Claims : e = EntryOf(c)
         /\ \A c, d \in Claims : EntryOf(c) = EntryOf(d) => c = d
<1>1. FilesRead /\ TableGrown /\ build \in Builds /\ Cardinality(profile) = Len(build)
      /\ \A p \in profile : Expanded(p)
  BY DEF IInv, Progress
<1>2. /\ \A i \in DOMAIN build : FileAt(i) \in profile
      /\ \A i, j \in DOMAIN build : FileAt(i).key = FileAt(j).key => i = j
  BY <1>1, AllProfilesRead
<1>3. \A i \in DOMAIN build : \A k \in DOMAIN Expansion(FileAt(i)) :
        ClaimAt(i, k) \in Claims /\ EntryOf(ClaimAt(i, k)) = Expansion(FileAt(i))[k]
  <2> SUFFICES ASSUME NEW i \in DOMAIN build, NEW k \in DOMAIN Expansion(FileAt(i))
               PROVE  /\ ClaimAt(i, k) \in Claims
                      /\ EntryOf(ClaimAt(i, k)) = Expansion(FileAt(i))[k]
    OBVIOUS
  <2>1. FileAt(i) \in Profile /\ FileAt(i).file = build[i]
    BY <1>1, FilesTyped DEF FileAt
  <2>2. PICK m \in Nat : m = Len(build[i].aliases)
    BY <2>1, EntriesTyped
  <2> QED BY <1>1, <2>2, ClaimOfPosition
<1>4. \A c \in Claims : \E i \in DOMAIN build : \E k \in DOMAIN Expansion(FileAt(i)) :
        c = ClaimAt(i, k)
  BY <1>1, PositionOfClaim
<1>5. ASSUME NEW i \in DOMAIN build, NEW k \in DOMAIN Expansion(FileAt(i))
      PROVE  Expansion(FileAt(i))[k] \in routes
             /\ Expansion(FileAt(i))[k].canonical = FileAt(i).key
  <2>1. FileAt(i) \in Profile
    BY <1>1, FilesTyped
  <2>2. Expansion(FileAt(i))[k] \in EntriesOf(FileAt(i))
    BY DEF EntriesOf
  <2> QED BY <1>1, <1>2, <2>1, <2>2, RouteAmongEntries DEF TableGrown
<1>6. \A c \in Claims : EntryOf(c) \in routes
  BY <1>3, <1>4, <1>5
<1>7. ASSUME NEW e \in routes PROVE \E c \in Claims : e = EntryOf(c)
  <2>1. PICK p \in profile : e \in EntriesOf(p)
    BY <1>1 DEF TableGrown
  <2>2. PICK i \in DOMAIN build : p = FileAt(i)
    BY <1>1, ProfilesRead
  <2>3. PICK k \in DOMAIN Expansion(FileAt(i)) : e = Expansion(FileAt(i))[k]
    BY <2>1, <2>2 DEF EntriesOf
  <2> QED BY <1>3, <2>3
<1>8. ASSUME NEW c \in Claims, NEW d \in Claims, EntryOf(c) = EntryOf(d) PROVE c = d
  <2>1. PICK i \in DOMAIN build :
         \E k \in DOMAIN Expansion(FileAt(i)) : c = ClaimAt(i, k)
    BY <1>4
  <2>2. PICK k \in DOMAIN Expansion(FileAt(i)) : c = ClaimAt(i, k)
    BY <2>1
  <2>3. PICK j \in DOMAIN build :
         \E l \in DOMAIN Expansion(FileAt(j)) : d = ClaimAt(j, l)
    BY <1>4
  <2>4. PICK l \in DOMAIN Expansion(FileAt(j)) : d = ClaimAt(j, l)
    BY <2>3
  <2>5. Expansion(FileAt(i))[k] = Expansion(FileAt(j))[l]
    BY <1>3, <1>8, <2>2, <2>4
  <2>6. i = j
    BY <1>2, <1>5, <2>5
  <2>7. KeysApart(FileAt(i))
    BY <1>1, <1>2 DEF TableGrown
  <2>8. k = l
    BY <2>5, <2>6, <2>7 DEF KeysApart
  <2> QED BY <2>2, <2>4, <2>6, <2>8
<1> QED BY <1>6, <1>7, <1>8

\* The entries of the claims are the table, one for one.
LEMMA TableServed == IInv => ServesEveryProfile
<1> SUFFICES ASSUME IInv, phase = "serving"
             PROVE  /\ Cardinality(routes) = Cardinality(Claims)
                    /\ \A c \in Claims : EntryOf(c) \in routes
  BY DEF ServesEveryProfile, EntryOf
<1>1. /\ \A c \in Claims : EntryOf(c) \in routes
      /\ \A e \in routes : \E c \in Claims : e = EntryOf(c)
      /\ \A c, d \in Claims : EntryOf(c) = EntryOf(d) => c = d
  BY EntriesOfClaims
<1> DEFINE f == [c \in Claims |-> EntryOf(c)]
<1>2. f \in Injection(Claims, routes)
  BY <1>1 DEF Injection, IsInjective
<1>3. f \in Surjection(Claims, routes)
  BY <1>1 DEF Surjection
<1>4. IsFiniteSet(routes)
  BY DEF IInv, TableGrown
<1> HIDE DEF f
<1>5. Cardinality(routes) = Cardinality(Claims)
  BY <1>2, <1>3, <1>4, FS_Injection
<1> QED BY <1>1, <1>5

\* What RefusedForCause names.
Cause ==
  \/ setting.admin # "set" \/ setting.phantom = "empty" \/ setting.tokens = "unreadable"
  \/ setting.phantom = "unset" /\ setting.tokens = "missing" /\ ~setting.named
  \/ build = <<>>
  \/ \E i \in DOMAIN build : Solid(build[i].name) = {} \/ ~build[i].parses
  \/ \E c, d \in Claims : c # d /\ c.key = d.key

\* A file that is refused has no key, does not parse, or has the key of another.
LEMMA FileRefused ==
  ASSUME IInv, ReadFile, phase' = "refused"
  PROVE  Cause
<1> DEFINE c == Cardinality(profile)
<1>1. FilesRead /\ build \in Builds
  BY DEF IInv, Progress
<1>2. c \in Nat /\ c < Len(build) /\ c + 1 \in DOMAIN build /\ 1..c \subseteq DOMAIN build
      /\ Len(build) \in Nat
  BY <1>1, FilesTyped DEF FilesRead, ReadFile
<1>3. build[c + 1] \in RouteFile /\ FileAt(c + 1) \in Profile
  BY <1>1, <1>2, FilesTyped
<1>4. \/ Normalize(build[c + 1].name) = <<>>
      \/ FileAt(c + 1).key \in Keys(profile)
      \/ ~build[c + 1].parses
  BY DEF ReadFile, FileAt
<1>5. CASE Normalize(build[c + 1].name) = <<>>
  <2>1. build[c + 1].name \in Seq(Symbols)
    BY <1>3 DEF RouteFile
  <2>2. Solid(build[c + 1].name) = {}
    BY <1>5, <2>1, NormalizedKey
  <2> QED BY <1>2, <2>2 DEF Cause
<1>6. CASE ~build[c + 1].parses
  BY <1>2, <1>6 DEF Cause
<1>7. CASE FileAt(c + 1).key \in Keys(profile)
  <2>1. PICK i \in 1..c : FileAt(i).key = FileAt(c + 1).key
    BY <1>1, <1>7 DEF FilesRead, Keys
  <2>2. i \in DOMAIN build /\ i # c + 1
    BY <1>2
  <2>3. RouteClaim(i) \in Claims /\ RouteClaim(c + 1) \in Claims
    BY <1>2, <2>2, ClaimCases
  <2>4. RouteClaim(i) # RouteClaim(c + 1) /\ RouteClaim(i).key = RouteClaim(c + 1).key
    BY <2>1, <2>2 DEF RouteClaim, FileAt
  <2> QED BY <2>3, <2>4 DEF Cause
<1> QED BY <1>4, <1>5, <1>6, <1>7

\* A profile that collides has a claim to the key of another claim.
LEMMA ProfileRefused ==
  ASSUME IInv, ExpandRoute, phase' = "refused"
  PROVE  Cause
<1>1. FilesRead /\ TableGrown /\ build \in Builds /\ phase = "expanding"
  BY DEF IInv, Progress, ExpandRoute
<1>2. PICK p \in profile : ~Expanded(p) /\ p \in Profile /\ Collides(Expansion(p))
  BY <1>1, NextExpanded
<1>3. PICK i \in DOMAIN build : p = FileAt(i)
  BY <1>1, ProfilesRead
<1>4. PICK m \in Nat : m = Len(build[i].aliases)
  BY <1>2, <1>3, EntriesTyped DEF FileAt
<1>5. ASSUME NEW j \in DOMAIN build, NEW l \in DOMAIN Expansion(FileAt(j))
      PROVE  ClaimAt(j, l) \in Claims /\ ClaimAt(j, l).key = Expansion(FileAt(j))[l].key
  <2>1. FileAt(j) \in Profile /\ FileAt(j).file = build[j]
    BY <1>1, FilesTyped DEF FileAt
  <2>2. PICK n \in Nat : n = Len(build[j].aliases)
    BY <2>1, EntriesTyped
  <2>3. ClaimAt(j, l) \in Claims /\ EntryOf(ClaimAt(j, l)) = Expansion(FileAt(j))[l]
    BY <1>1, <2>2, ClaimOfPosition
  <2> QED BY <2>3 DEF EntryOf
<1>6. PICK k \in DOMAIN Expansion(p) :
        \/ Expansion(p)[k].key \in Keys(routes)
        \/ \E l \in 1..(k - 1) : Expansion(p)[l].key = Expansion(p)[k].key
  BY <1>2 DEF Collides
<1>7. CASE Expansion(p)[k].key \in Keys(routes)
  <2>1. PICK e \in routes : e.key = Expansion(p)[k].key
    BY <1>7 DEF Keys
  <2>2. PICK q \in profile : Expanded(q) /\ e \in EntriesOf(q)
    BY <1>1 DEF TableGrown
  <2>3. PICK j \in DOMAIN build : q = FileAt(j)
    BY <1>1, ProfilesRead
  <2>4. PICK l \in DOMAIN Expansion(q) : e = Expansion(q)[l]
    BY <2>2 DEF EntriesOf
  <2>5. i # j
    BY <1>2, <1>3, <2>2, <2>3
  <2>6. ClaimAt(i, k) # ClaimAt(j, l)
    BY <1>1, <1>3, <2>3, <2>4, <2>5, ClaimsApart
  <2> QED BY <1>3, <1>5, <2>1, <2>3, <2>4, <2>6 DEF Cause
<1>8. CASE \E l \in 1..(k - 1) : Expansion(p)[l].key = Expansion(p)[k].key
  <2>1. PICK l \in 1..(k - 1) : Expansion(p)[l].key = Expansion(p)[k].key
    BY <1>8
  <2>2. PICK n \in Nat : DOMAIN Expansion(p) = 1..n
    <3>1. m + (IF p.file.git THEN 2 ELSE 1) \in Nat
      OBVIOUS
    <3> QED BY <1>2, <1>3, <1>4, <3>1, ExpansionByPosition DEF FileAt
  <2>3. l \in DOMAIN Expansion(p) /\ l # k
    BY <2>2
  <2>4. ClaimAt(i, k) # ClaimAt(i, l)
    BY <1>1, <1>3, <2>3, ClaimsApart
  <2> QED BY <1>3, <1>5, <2>1, <2>3, <2>4 DEF Cause
<1> QED BY <1>6, <1>7, <1>8

\* Every step that ends in a refusal has a cause, and a cause stays one.
LEMMA RefusedOnlyForCause == IInv /\ RefusedForCause /\ [Next]_vars => RefusedForCause'
<1> SUFFICES ASSUME IInv, RefusedForCause, [Next]_vars, phase' = "refused"
             PROVE  Cause'
  BY DEF RefusedForCause, Cause
<1>1. ASSUME setting' = setting, build' = build, Cause PROVE Cause'
  <2>1. Claims' = Claims
    BY <1>1 DEF Claims
  <2> QED BY <1>1, <2>1 DEF Cause
<1>2. setting' = setting /\ build' = build
  BY DEF Next, Start, CheckEnv, LoadTokens, ReadFile, AllRead, ExpandRoute, Bind, Request, Done, vars
<1>3. phase = "refused" => Cause
  BY DEF RefusedForCause, Cause
<1>4. CASE UNCHANGED vars
  BY <1>1, <1>2, <1>3, <1>4 DEF vars
<1>5. CASE CheckEnv
  <2>1. setting.admin # "set" \/ setting.phantom = "empty"
    BY <1>5 DEF CheckEnv, Goto
  <2> QED BY <1>1, <1>2, <2>1 DEF Cause
<1>6. CASE LoadTokens
  <2>1. setting \in Setting
    BY RoutingAssumption DEF IInv, Progress
  <2>2. \/ setting.tokens = "unreadable"
        \/ setting.phantom = "unset" /\ setting.tokens = "missing" /\ ~setting.named
    BY <1>6, <2>1 DEF LoadTokens, Goto, HasRegistry, Setting
  <2> QED BY <1>1, <1>2, <2>2 DEF Cause
<1>7. CASE ReadFile
  BY <1>1, <1>2, <1>7, FileRefused
<1>8. CASE AllRead
  <2>1. build = <<>>
    BY <1>8 DEF AllRead, Goto
  <2> QED BY <1>1, <1>2, <2>1 DEF Cause
<1>9. CASE ExpandRoute
  BY <1>1, <1>2, <1>9, ProfileRefused
<1>10. CASE Bind
  BY <1>10 DEF Bind, Goto
<1>11. CASE \E p \in Paths : Request(p)
  BY <1>11 DEF Request
<1> QED BY <1>4, <1>5, <1>6, <1>7, <1>8, <1>9, <1>10, <1>11 DEF Next, Start, Done

-----------------------------------------------------------------------------
(* Where a request goes                                                    *)

\* A name that a path has is shorter than the path, which has a slash before it.
LEMMA NamedBehindSlash ==
  ASSUME NEW p \in Seq(Symbols), p # <<>>, p[1] = Slash,
         NEW k \in Seq(Symbols), Names(p, k)
  PROVE  Len(p) \in Nat /\ Len(k) \in Nat /\ Len(k) + 1 <= Len(p)
<1>1. PICK n \in 0..Len(p) :
         /\ StartsWith(From(p, n + 1), k) /\ Slashes(k) = {}
         /\ k # <<>> \/ n = Len(p)
  BY DEF Names
<1>2. Len(p) \in Nat \ {0} /\ Len(k) \in Nat /\ DOMAIN k = 1..Len(k)
  BY LenProperties, EmptySeq
<1>3. PICK u \in Seq(Symbols) :
         /\ u = From(p, n + 1) /\ Len(u) = Len(p) - n
         /\ \A i \in 1..(Len(p) - n) : u[i] = p[n + i]
  BY Rest
<1>4. Len(k) <= Len(p) - n /\ SubSeq(u, 1, Len(k)) = k
  BY <1>1, <1>3 DEF StartsWith
<1>5. CASE n = 0
  <2>1. k # <<>> /\ Len(k) # 0
    BY <1>1, <1>2, <1>5, EmptySeq
  <2>2. Len(k) \in 0..Len(u) /\ 1 \in 1..Len(k) /\ 1 \in 1..(Len(p) - n) /\ n + 1 = 1
    BY <1>2, <1>3, <1>4, <1>5, <2>1
  <2>3. k[1] = u[1]
    BY <1>4, <2>2, Beginning
  <2>4. u[1] = Slash
    BY <1>3, <2>2
  <2>5. 1 \in Slashes(k)
    BY <1>2, <2>2, <2>3, <2>4 DEF Slashes, Solid
  <2> QED BY <1>1, <2>5
<1>6. CASE n # 0
  BY <1>2, <1>4, <1>6
<1> QED BY <1>2, <1>5, <1>6

\* What is forwarded by prefix, with what it was before the prefix was stripped.
LEMMA Forwarded ==
  ASSUME NEW p \in Seq(Symbols), p # <<>>, p[1] = Slash,
         NEW e \in Entry, Names(p, e.key)
  PROVE  LET after == From(p, Len(e.key) + 2)
             rest == From(after, Len(e.strip) + 1)
         IN  /\ after \in Seq(Symbols) /\ UpstreamPath(p, e) \in Seq(Symbols)
             /\ \/ /\ e.strip # None /\ StartsWith(after, e.strip)
                   /\ after = e.strip \o rest /\ rest \in Seq(Symbols)
                   /\ UpstreamPath(p, e) = IF rest = <<>> THEN <<Slash>> ELSE rest
                \/ /\ e.strip # None => ~StartsWith(after, e.strip)
                   /\ UpstreamPath(p, e) = IF after = <<>> THEN <<Slash>> ELSE after
<1> DEFINE after == From(p, Len(e.key) + 2)
           rest == From(after, Len(e.strip) + 1)
<1>1. e.key \in Seq(Symbols) /\ e.strip \in Seq(Symbols) \cup {None}
  BY DEF Entry
<1>2. PICK l \in Nat : l = Len(e.key) + 1 /\ l <= Len(p) /\ l + 1 = Len(e.key) + 2 /\ Len(p) \in Nat
  BY <1>1, NamedBehindSlash
<1>3. l \in 0..Len(p)
  BY <1>2
<1>4. From(p, l + 1) \in Seq(Symbols)
  BY <1>3, Rest
<1>5. after \in Seq(Symbols)
  BY <1>2, <1>4
<1>6. <<Slash>> \in Seq(Symbols)
  BY RoutingAssumption
<1>7. UpstreamPath(p, e) =
        LET s == IF e.strip # None /\ StartsWith(after, e.strip) THEN rest ELSE after
        IN  IF s = <<>> THEN <<Slash>> ELSE s
  BY DEF UpstreamPath, AfterPrefix
<1> HIDE DEF after
<1>8. CASE e.strip # None /\ StartsWith(after, e.strip)
  <2>1. after = e.strip \o rest /\ rest \in Seq(Symbols)
    BY <1>1, <1>5, <1>8, StartSplits
  <2> HIDE DEF rest
  <2>2. UpstreamPath(p, e) = IF rest = <<>> THEN <<Slash>> ELSE rest
    BY <1>7, <1>8
  <2> QED BY <1>5, <1>6, <1>8, <2>1, <2>2 DEF after, rest
<1>9. CASE ~(e.strip # None /\ StartsWith(after, e.strip))
  <2>1. UpstreamPath(p, e) = IF after = <<>> THEN <<Slash>> ELSE after
    BY <1>7, <1>9
  <2> QED BY <1>5, <1>6, <1>9, <2>1 DEF after
<1> QED BY <1>8, <1>9

\* A path can be taken by a companion.
GitTaken(p) == IsGitSmartHttp(p) /\ \E e \in routes : e.matcher = "git"

\* The three ends of resolve_route.
LEMMA Resolved ==
  ASSUME IInv, NEW p \in Paths
  PROVE  LET k == FirstSegment(TrimStart(p))
             r == Resolve(p)
         IN  \/ /\ GitTaken(p) /\ r # None /\ r.entry \in routes
                /\ r.entry.matcher = "git" /\ r.upstream = p
             \/ /\ ~GitTaken(p) /\ r # None /\ r.entry \in routes
                /\ r.entry.matcher = "prefix" /\ r.entry.key = k
                /\ r.upstream = UpstreamPath(p, r.entry)
             \/ /\ ~GitTaken(p) /\ r = None
                /\ \A e \in routes : ~(e.matcher = "prefix" /\ e.key = k)
<1> DEFINE k == FirstSegment(TrimStart(p))
           git == {e \in routes : e.matcher = "git"}
           hits == {e \in routes : e.key = k}
<1>1. p \in Seq(Symbols) /\ p # <<>> /\ p[1] = Slash
  BY RoutingAssumption
<1>2. IsFiniteSet(routes) /\ \A d, e \in routes : d.key = e.key => d = e
  BY DEF IInv, TableGrown
<1>3. \A e \in routes : e \in Entry /\ e.key \in Seq(Symbols)
  BY RoutesTyped DEF Entry
<1>4. \A e \in Entry, u \in Seq(Symbols) : [entry |-> e, upstream |-> u] # None
  BY RoutingAssumption
<1>5. Resolve(p) = IF git # {} /\ IsGitSmartHttp(p)
                     THEN [entry |-> Foremost(git), upstream |-> p]
                   ELSE IF \E e \in hits : e.matcher = "prefix"
                     THEN [entry |-> Foremost(hits), upstream |-> UpstreamPath(p, Foremost(hits))]
                   ELSE None
  BY DEF Resolve
<1>6. GitTaken(p) <=> git # {} /\ IsGitSmartHttp(p)
  BY DEF GitTaken
<1>7. CASE git # {} /\ IsGitSmartHttp(p)
  <2>1. IsFiniteSet(git)
    BY <1>2, FS_Subset
  <2>2. Foremost(git) \in git
    BY <1>2, <1>3, <1>7, <2>1, ForemostIsOne
  <2>3. PICK e \in routes : e = Foremost(git) /\ e.matcher = "git"
    BY <2>2
  <2>4. Resolve(p) = [entry |-> e, upstream |-> p]
    BY <1>5, <1>7, <2>3
  <2>5. Resolve(p) # None
    BY <1>1, <1>3, <1>4, <2>4
  <2> QED BY <1>6, <1>7, <2>3, <2>4, <2>5
<1>8. CASE ~(git # {} /\ IsGitSmartHttp(p)) /\ \E e \in hits : e.matcher = "prefix"
  <2>1. IsFiniteSet(hits) /\ hits # {}
    BY <1>2, <1>8, FS_Subset
  <2>2. Foremost(hits) \in hits
    BY <1>2, <1>3, <2>1, ForemostIsOne
  <2>3. PICK e \in routes : e = Foremost(hits) /\ e.key = k
    BY <2>2
  <2>4. e.matcher = "prefix"
    BY <1>2, <1>8, <2>3
  <2>5. Resolve(p) = [entry |-> e, upstream |-> UpstreamPath(p, e)]
    BY <1>5, <1>8, <2>3
  <2>6. Names(p, e.key)
    BY <1>1, <1>3, <2>3, FirstName
  <2>7. UpstreamPath(p, e) \in Seq(Symbols)
    BY <1>1, <1>3, <2>6, Forwarded
  <2>8. Resolve(p) # None
    BY <1>3, <1>4, <2>5, <2>7
  <2> QED BY <1>6, <1>8, <2>3, <2>4, <2>5, <2>8
<1>9. CASE ~(git # {} /\ IsGitSmartHttp(p)) /\ ~\E e \in hits : e.matcher = "prefix"
  <2>1. Resolve(p) = None
    BY <1>5, <1>9
  <2>2. \A e \in routes : ~(e.matcher = "prefix" /\ e.key = k)
    BY <1>9
  <2> QED BY <1>6, <1>9, <2>1, <2>2
<1> QED BY <1>7, <1>8, <1>9

\* The types follow from the invariant.
LEMMA InvariantTyped == IInv => TypeOK
<1> SUFFICES ASSUME IInv PROVE TypeOK
  OBVIOUS
<1>1. \A p \in profile : p.key \in Seq(Symbols) /\ p.file \in RouteFile
  BY ProfilesRead DEF IInv, Progress, Profile
<1>2. \A e \in routes : e \in Entry /\ e.canonical \in Keys(profile)
  BY RoutesTyped DEF Keys
<1>3. path # None => path \in Seq(Symbols) /\ path[1] = Slash
  BY RoutingAssumption DEF IInv, Progress
<1>4. resolved # None => resolved.entry \in routes
  BY Resolved DEF IInv, Progress
<1> QED BY <1>1, <1>2, <1>3, <1>4 DEF TypeOK, IInv, Progress

\* What has been said of resolve_route, of the request that was made.
LEMMA RequestEnds ==
  ASSUME IInv, path # None
  PROVE  /\ path \in Seq(Symbols) /\ path # <<>> /\ path[1] = Slash
         /\ IsGitSmartHttp(path) <=> GitShape(path)
         /\ \/ /\ GitTaken(path) /\ resolved # None /\ resolved.entry \in routes
               /\ resolved.entry.matcher = "git" /\ resolved.upstream = path
            \/ /\ ~GitTaken(path) /\ resolved # None /\ resolved.entry \in routes
               /\ resolved.entry \in Entry /\ resolved.entry.matcher = "prefix"
               /\ Names(path, resolved.entry.key)
               /\ resolved.upstream = UpstreamPath(path, resolved.entry)
            \/ /\ ~GitTaken(path) /\ resolved = None
               /\ \A e \in routes : ~(e.matcher = "prefix" /\ Names(path, e.key))
<1>1. path \in Paths /\ resolved = Resolve(path)
  BY DEF IInv, Progress
<1>2. path \in Seq(Symbols) /\ path # <<>> /\ path[1] = Slash
  BY <1>1, RoutingAssumption
<1>3. \A e \in routes : e \in Entry /\ e.key \in Seq(Symbols)
  BY RoutesTyped DEF Entry
<1>4. \A e \in routes : Names(path, e.key) <=> e.key = FirstSegment(TrimStart(path))
  BY <1>2, <1>3, FirstName
<1>5. IsGitSmartHttp(path) <=> GitShape(path)
  BY <1>2, GitShapeRecognised
<1> QED BY <1>1, <1>2, <1>3, <1>4, <1>5, Resolved

\* The lookup by first segment is the route of the first name.
LEMMA FirstNameRouted == IInv => RouteOfFirstName
BY RequestEnds DEF RouteOfFirstName, ByPrefix

\* The companion is chosen by the shape alone.
LEMMA CompanionByShape == IInv => GitByShapeOnly
BY RequestEnds DEF GitByShapeOnly, GitTaken

\* Key, stripped prefix and forwarded rest make up the path.
LEMMA PrefixConsumedOnce == IInv => PlainPrefixConsumed
<1> SUFFICES ASSUME IInv, path # None, ByPrefix, OneSlash PROVE Consumed(<<Slash>>)
  BY DEF PlainPrefixConsumed
<1> DEFINE e == resolved.entry
           after == From(path, Len(e.key) + 2)
           rest == From(after, Len(e.strip) + 1)
           head == <<Slash>> \o e.key
<1>1. /\ path \in Seq(Symbols) /\ path # <<>> /\ path[1] = Slash
      /\ e \in Entry /\ Names(path, e.key) /\ resolved.upstream = UpstreamPath(path, e)
  BY RequestEnds DEF ByPrefix
<1>2. e.key \in Seq(Symbols) /\ e.strip \in Seq(Symbols) \cup {None}
  BY <1>1 DEF Entry
<1>3. path = head \o after /\ after \in Seq(Symbols)
  BY <1>1, <1>2, PathParts DEF OneSlash
<1>4. \/ /\ e.strip # None /\ StartsWith(after, e.strip)
         /\ after = e.strip \o rest /\ rest \in Seq(Symbols)
         /\ UpstreamPath(path, e) = IF rest = <<>> THEN <<Slash>> ELSE rest
      \/ /\ e.strip # None => ~StartsWith(after, e.strip)
         /\ UpstreamPath(path, e) = IF after = <<>> THEN <<Slash>> ELSE after
  BY <1>1, Forwarded
<1>5. head \in Seq(Symbols)
  <2>1. <<Slash>> \in Seq(Symbols)
    BY RoutingAssumption
  <2> QED BY <1>2, <2>1, ConcatProperties
<1> HIDE DEF after, rest, head
<1>6. CASE /\ e.strip # None /\ after = e.strip \o rest /\ rest \in Seq(Symbols)
           /\ UpstreamPath(path, e) = IF rest = <<>> THEN <<Slash>> ELSE rest
  <2>1. PICK strip \in Seq(Symbols) : strip = e.strip
    BY <1>2, <1>6
  <2>2. (head \o strip) \o rest = head \o (strip \o rest)
    <3>1. \A a, b, c \in Seq(Symbols) : (a \o b) \o c = a \o (b \o c)
      BY ConcatAssociative
    <3>2. head \in Seq(Symbols) /\ strip \in Seq(Symbols) /\ rest \in Seq(Symbols)
      BY <1>5, <1>6
    <3> QED BY <3>1, <3>2, Zenon
  <2>3. path = head \o after /\ after = strip \o rest
    BY <1>3, <1>6, <2>1
  <2>4. path = (head \o e.strip) \o rest
    BY <2>1, <2>2, <2>3
  <2>5. rest \in {resolved.upstream} \cup {r \in {<<>>} : resolved.upstream = <<Slash>>}
    BY <1>1, <1>6
  <2> QED BY <1>6, <2>4, <2>5 DEF Consumed, head
<1>7. CASE /\ e.strip # None => ~StartsWith(after, e.strip)
           /\ UpstreamPath(path, e) = IF after = <<>> THEN <<Slash>> ELSE after
  <2>1. after \in {resolved.upstream} \cup {r \in {<<>>} : resolved.upstream = <<Slash>>}
    BY <1>1, <1>7
  <2> QED BY <1>3, <1>7, <2>1 DEF Consumed, head
<1> QED BY <1>4, <1>6, <1>7

\* The rest of a path behind a whole name is empty or rooted.
LEMMA ForwardedRooted == IInv => RootedUnlessCut
<1> SUFFICES ASSUME IInv, path # None, ByPrefix, OneSlash
             PROVE  \/ resolved.upstream[1] = Slash
                    \/ /\ resolved.entry.strip # None
                       /\ path = <<Slash>> \o resolved.entry.key \o resolved.entry.strip
                                   \o resolved.upstream
  BY DEF RootedUnlessCut
<1> DEFINE e == resolved.entry
           after == From(path, Len(e.key) + 2)
           rest == From(after, Len(e.strip) + 1)
           head == <<Slash>> \o e.key
<1>1. /\ path \in Seq(Symbols) /\ path # <<>> /\ path[1] = Slash
      /\ e \in Entry /\ Names(path, e.key) /\ resolved.upstream = UpstreamPath(path, e)
  BY RequestEnds DEF ByPrefix
<1>2. e.key \in Seq(Symbols) /\ e.strip \in Seq(Symbols) \cup {None}
  BY <1>1 DEF Entry
<1>3. path = head \o after /\ after \in Seq(Symbols) /\ (after = <<>> \/ after[1] = Slash)
  BY <1>1, <1>2, PathParts DEF OneSlash
<1>4. \/ /\ e.strip # None /\ StartsWith(after, e.strip)
         /\ after = e.strip \o rest /\ rest \in Seq(Symbols)
         /\ UpstreamPath(path, e) = IF rest = <<>> THEN <<Slash>> ELSE rest
      \/ /\ e.strip # None => ~StartsWith(after, e.strip)
         /\ UpstreamPath(path, e) = IF after = <<>> THEN <<Slash>> ELSE after
  BY <1>1, Forwarded
<1>5. head \in Seq(Symbols)
  <2>1. <<Slash>> \in Seq(Symbols)
    BY RoutingAssumption
  <2> QED BY <1>2, <2>1, ConcatProperties
<1>6. <<Slash>>[1] = Slash
  OBVIOUS
<1> HIDE DEF after, rest, head
<1>7. CASE UpstreamPath(path, e) = <<Slash>>
  BY <1>1, <1>6, <1>7
<1>8. CASE e.strip # None /\ after = e.strip \o rest /\ rest \in Seq(Symbols)
           /\ UpstreamPath(path, e) = rest
  <2>1. PICK strip \in Seq(Symbols) : strip = e.strip
    BY <1>2, <1>8
  <2>2. (head \o strip) \o rest = head \o (strip \o rest)
    <3>1. \A a, b, c \in Seq(Symbols) : (a \o b) \o c = a \o (b \o c)
      BY ConcatAssociative
    <3>2. head \in Seq(Symbols) /\ strip \in Seq(Symbols) /\ rest \in Seq(Symbols)
      BY <1>5, <1>8
    <3> QED BY <3>1, <3>2, Zenon
  <2>3. path = head \o after /\ after = strip \o rest
    BY <1>3, <1>8, <2>1
  <2>4. path = (head \o e.strip) \o rest
    BY <2>1, <2>2, <2>3
  <2> QED BY <1>1, <1>8, <2>4 DEF head
<1>9. CASE after # <<>> /\ UpstreamPath(path, e) = after
  BY <1>1, <1>3, <1>9
<1> QED BY <1>4, <1>7, <1>8, <1>9

\* The canonical names in the table are the keys of the files.
LEMMA NamesKnown == IInv => KnownRoutesComplete
<1> SUFFICES ASSUME IInv, phase = "serving",
                    \A i \in DOMAIN build : ~StartsWith(Normalize(build[i].name), <<GitMark>>)
             PROVE  /\ KnownRoutes = {Normalize(build[i].name) : i \in DOMAIN build}
                    /\ resolved # None => resolved.entry.canonical \in KnownRoutes
  BY DEF KnownRoutesComplete
<1>1. FilesRead /\ TableGrown /\ build \in Builds /\ Cardinality(profile) = Len(build)
      /\ \A p \in profile : Expanded(p)
  BY DEF IInv, Progress
<1>2. \A i \in DOMAIN build : FileAt(i) \in profile /\ FileAt(i).key = Normalize(build[i].name)
  BY <1>1, AllProfilesRead DEF FileAt
<1>3. ASSUME NEW i \in DOMAIN build PROVE Normalize(build[i].name) \in KnownRoutes
  <2>1. PICK e \in routes : e.key = Normalize(build[i].name) /\ e.canonical = Normalize(build[i].name)
    BY <1>1, <1>2 DEF Expanded
  <2> QED BY <2>1 DEF KnownRoutes
<1>4. ASSUME NEW e \in routes PROVE \E i \in DOMAIN build : e.canonical = Normalize(build[i].name)
  <2>1. PICK p \in profile : e.canonical = p.key
    BY RoutesTyped
  <2>2. PICK i \in DOMAIN build : p = FileAt(i)
    BY <1>1, ProfilesRead
  <2> QED BY <1>2, <2>1, <2>2
<1>5. KnownRoutes = {Normalize(build[i].name) : i \in DOMAIN build}
  BY <1>3, <1>4 DEF KnownRoutes
<1>6. resolved # None => resolved.entry \in routes
  BY RequestEnds DEF IInv, Progress
<1> QED BY <1>4, <1>5, <1>6

-----------------------------------------------------------------------------
(* The theorems                                                            *)

\* Every reachable state of the start and of resolution is of the intended types.
THEOREM RoutingTyped == Spec => []TypeOK
BY Sound, InvariantTyped, PTL

\* A gateway that serves has the entries of every file in its table, each under a key
\* of its own and none replaced (profile.rs:205-259).
THEOREM EveryProfileServed == Spec => []ServesEveryProfile
BY Sound, TableServed, PTL

\* A gateway refuses to start only for one of the reasons the code names: its
\* environment, a file, or a key claimed twice (main.rs:33-80, profile.rs:201-259).
THEOREM RefusalsHaveCause == Spec => []RefusedForCause
<1>1. Init => RefusedForCause
  BY DEF Init, RefusedForCause
<1> QED BY <1>1, Sound, RefusedOnlyForCause, PTL DEF Spec

\* A request goes to the route that the first name of its path is a key of, and to
\* none only if there is no such route (state.rs:86-94).
THEOREM RoutedByFirstName == Spec => []RouteOfFirstName
BY Sound, FirstNameRouted, PTL

\* The git companion gets the paths of git smart-HTTP, whole, and no others
\* (profile.rs:158-176, state.rs:77-84).
THEOREM CompanionGetsGit == Spec => []GitByShapeOnly
BY Sound, CompanionByShape, PTL

\* Of a path with one leading slash exactly the key and the prefix to strip are
\* consumed (state.rs:96-102).
THEOREM PrefixesConsumed == Spec => []PlainPrefixConsumed
BY Sound, PrefixConsumedOnce, PTL

\* What such a path forwards is rooted, unless the prefix to strip ended inside one of
\* its segments (state.rs:97-102).
THEOREM UpstreamRooted == Spec => []RootedUnlessCut
BY Sound, ForwardedRooted, PTL

\* The names that scopes and credentials may use are the files' own, and a request is
\* never for a route that none of them names (state.rs:48-56).
THEOREM KnownRoutesAreFiles == Spec => []KnownRoutesComplete
BY Sound, NamesKnown, PTL
=============================================================================
