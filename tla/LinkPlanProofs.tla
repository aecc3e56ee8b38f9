--------------------------- MODULE LinkPlanProofs ---------------------------
(***************************************************************************)
(* Proofs about LinkPlan for every base list and every set of endpoints.   *)
(*                                                                         *)
(* mergeEndpointLinks is a recursive function of the UIDs.  What is proved *)
(* about it rests on the least-number principle for sets of naturals,      *)
(* which is the first-order form of induction.                             *)
(***************************************************************************)
EXTENDS FiniteSetTheorems, LinkPlan, TLAPS

-----------------------------------------------------------------------------
\* Every non-empty set of naturals has a least element.
LEMMA LeastNat ==
  ASSUME NEW T \in SUBSET Nat, T # {}
  PROVE  \E x \in T : \A y \in T : x <= y
<1>1. PICK x \in T : \A y \in T : ~ (<<y, x>> \in OpToRel(<, Nat))
  BY NatLessThanWellFounded, WFMin, Zenon
<1>2. \A y \in T : ~ (y < x)
  BY <1>1 DEF OpToRel
<1> QED BY <1>2

\* A set of naturals with 0 and every successor holds them all.
LEMMA Induction ==
  ASSUME NEW T, 0 \in T, \A n \in Nat : n \in T => n + 1 \in T
  PROVE  Nat \subseteq T
<1> SUFFICES ASSUME Nat \ T # {} PROVE FALSE
  OBVIOUS
<1>1. PICK x \in Nat \ T : \A y \in Nat \ T : x <= y
  BY LeastNat
<1>2. x # 0 /\ x - 1 \in Nat
  BY <1>1
<1>3. x - 1 \in T
  BY <1>1, <1>2
<1> QED BY <1>1, <1>2, <1>3

-----------------------------------------------------------------------------
(***************************************************************************)
(* Putting one link.                                                       *)
(***************************************************************************)

\* The least element is the one Min chooses.
LEMMA MinIs ==
  ASSUME NEW T \in SUBSET Nat, T # {}
  PROVE  Seqs!Min(T) \in T /\ \A y \in T : Seqs!Min(T) <= y
<1>1. \E x \in T : \A y \in T : x <= y
  BY LeastNat
<1> QED BY <1>1 DEF Seqs!Min

\* Position is 0, or the first place of the key.
LEMMA PositionIs ==
  ASSUME NEW S, NEW links \in Seq(S), NEW key
  PROVE  \/ Position(links, key) = 0 /\ \A j \in DOMAIN links : Key(links[j]) # key
         \/ /\ Position(links, key) \in DOMAIN links /\ Key(links[Position(links, key)]) = key
            /\ \A j \in DOMAIN links : j < Position(links, key) => Key(links[j]) # key
<1> DEFINE I == {i \in 1..Len(links) : Key(links[i]) = key}
<1>1. Position(links, key) = IF I # {} THEN Seqs!Min(I) ELSE 0
  BY DEF Position, Seqs!SelectInSeq
<1>2. DOMAIN links = 1..Len(links) /\ Len(links) \in Nat
  OBVIOUS
<1>3. CASE I = {}
  BY <1>1, <1>2, <1>3
<1>4. CASE I # {}
  <2>1. I \in SUBSET Nat /\ \A j \in I : j \in DOMAIN links /\ Key(links[j]) = key
    BY <1>2
  <2>2. Position(links, key) \in I /\ \A y \in I : Position(links, key) <= y
    BY <1>1, <1>4, <2>1, MinIs
  <2>3. ASSUME NEW j \in DOMAIN links, j < Position(links, key) PROVE Key(links[j]) # key
    <3>1. j \in Nat /\ Position(links, key) \in Nat /\ (Key(links[j]) = key => j \in I)
      BY <1>2, <2>1, <2>2
    <3> HIDE DEF I
    <3> QED BY <2>2, <2>3, <3>1
  <2> QED BY <2>1, <2>2, <2>3
<1> QED BY <1>3, <1>4

\* The link is in the list and the first of its key.
Shows(links, link) ==
    \E i \in DOMAIN links : links[i] = link /\ \A j \in DOMAIN links : j < i => Key(links[j]) # Key(link)

\* The TC scan looks at such a link.
LEMMA ShownIsVisited ==
  ASSUME NEW S, NEW links \in Seq(S), NEW link, Shows(links, link)
  PROVE  link \in Visited(links)
<1>1. PICK i \in DOMAIN links : links[i] = link /\ \A j \in DOMAIN links : j < i => Key(links[j]) # Key(link)
  BY DEF Shows
<1> DEFINE k == Position(links, Key(link))
<1>2. k \in DOMAIN links /\ Key(links[k]) = Key(link) /\ \A j \in DOMAIN links : j < k => Key(links[j]) # Key(link)
  BY <1>1, PositionIs
<1>3. DOMAIN links \subseteq Nat
  OBVIOUS
<1> HIDE DEF k
<1>4. i = k
  BY <1>1, <1>2, <1>3
<1> QED BY <1>1, <1>4 DEF Visited, k

\* q is the list of m links with the link written at the first place i of its
\* key, or at a new last place.
PutsAt(q, links, link, m, n, i) ==
    /\ DOMAIN links = 1..m /\ DOMAIN q = 1..n /\ n \in {m, m + 1} /\ i \in 1..n
    /\ q[i] = link
    /\ \A j \in 1..m : j < i => Key(links[j]) # Key(link)
    /\ \A j \in 1..n : j # i => j \in 1..m /\ q[j] = links[j]
    /\ i \in 1..m => Key(links[i]) = Key(link)

\* That is what Put does.
LEMMA PutIs ==
  ASSUME NEW S, NEW links \in Seq(S), NEW link \in S
  PROVE  /\ Put(links, link) \in Seq(S)
         /\ \E m, n, i \in Nat : PutsAt(Put(links, link), links, link, m, n, i)
<1> DEFINE p == Position(links, Key(link))
<1>1. PICK m \in Nat : m = Len(links) /\ DOMAIN links = 1..m /\ links \in [1..m -> S]
  OBVIOUS
<1>2. \/ p = 0 /\ \A j \in DOMAIN links : Key(links[j]) # Key(link)
      \/ p \in DOMAIN links /\ Key(links[p]) = Key(link) /\ \A j \in DOMAIN links : j < p => Key(links[j]) # Key(link)
  BY PositionIs
<1>3. Put(links, link) = IF p = 0 THEN Append(links, link) ELSE [links EXCEPT ![p] = link]
  BY DEF Put
<1> HIDE DEF p
<1>4. CASE p = 0
  <2> DEFINE q == Append(links, link)
  <2>1. /\ q \in Seq(S) /\ DOMAIN q = 1..(m + 1) /\ q[m + 1] = link
        /\ \A j \in 1..m : q[j] = links[j]
    BY <1>1
  <2>2. Put(links, link) = q
    BY <1>3, <1>4
  <2> HIDE DEF q
  <2>3. \A j \in 1..m : Key(links[j]) # Key(link)
    BY <1>1, <1>2, <1>4
  <2>4. m + 1 \in Nat /\ m + 1 \in 1..(m + 1) /\ m + 1 \notin 1..m /\ \A j \in 1..(m + 1) : j # m + 1 => j \in 1..m
    BY <1>1
  <2>5. PutsAt(q, links, link, m, m + 1, m + 1)
    BY <1>1, <2>1, <2>3, <2>4 DEF PutsAt
  <2> QED BY <2>1, <2>2, <2>4, <2>5
<1>5. CASE p # 0
  <2> DEFINE q == [links EXCEPT ![p] = link]
  <2>1. p \in 1..m /\ Key(links[p]) = Key(link) /\ \A j \in 1..m : j < p => Key(links[j]) # Key(link)
    BY <1>1, <1>2, <1>5
  <2>2. /\ q \in [1..m -> S] /\ DOMAIN q = 1..m /\ q[p] = link
        /\ \A j \in 1..m : j # p => q[j] = links[j]
    BY <1>1, <2>1
  <2>3. Put(links, link) = q
    BY <1>3, <1>5
  <2> HIDE DEF q
  <2>4. q \in Seq(S)
    BY <1>1, <2>2
  <2>5. PutsAt(q, links, link, m, m, p) /\ p \in Nat
    BY <1>1, <2>1, <2>2 DEF PutsAt
  <2> QED BY <2>3, <2>4, <2>5
<1> QED BY <1>4, <1>5

\* A link that is put shows, and so does every link of another key that did.
LEMMA PutShows ==
  ASSUME NEW S, NEW links \in Seq(S), NEW link \in S
  PROVE  /\ Put(links, link) \in Seq(S) /\ Shows(Put(links, link), link)
         /\ \A other \in S : Key(other) # Key(link) /\ Shows(links, other) => Shows(Put(links, link), other)
<1> DEFINE q == Put(links, link)
<1>1. q \in Seq(S)
  BY PutIs
<1>2. PICK m, n, i \in Nat : PutsAt(q, links, link, m, n, i)
  BY PutIs
<1> HIDE DEF q
<1>3. Shows(q, link)
  BY <1>2 DEF Shows, PutsAt
<1>4. ASSUME NEW other \in S, Key(other) # Key(link), Shows(links, other) PROVE Shows(q, other)
  <2>1. PICK k \in 1..m : links[k] = other /\ \A j \in 1..m : j < k => Key(links[j]) # Key(other)
    BY <1>2, <1>4 DEF Shows, PutsAt
  <2>2. k # i /\ k \in 1..n /\ q[k] = other
    BY <1>2, <1>4, <2>1 DEF PutsAt
  <2>3. ASSUME NEW j \in 1..n, j < k PROVE Key(q[j]) # Key(other)
    <3>1. CASE j = i
      BY <1>2, <1>4, <3>1 DEF PutsAt
    <3>2. CASE j # i
      BY <1>2, <2>1, <2>3, <3>2 DEF PutsAt
    <3> QED BY <3>1, <3>2
  <2> QED BY <1>2, <2>2, <2>3 DEF Shows, PutsAt
<1> QED BY <1>1, <1>3, <1>4 DEF q

-----------------------------------------------------------------------------
(***************************************************************************)
(* The recursive function exists, so its equations hold.                   *)
(***************************************************************************)

\* What the pod with UID n contributes.
Merge(links, el, n) == IF n \in DOMAIN el THEN PutEndpoint(links, el[n]) ELSE links

\* f has the lists that result from the UIDs below 0, ..., n.
IsPrefix(f, base, el, n) == f[0] = base /\ \A i \in 1..n : f[i] = Merge(f[i - 1], el, i - 1)

\* There is such a function for every n.
LEMMA PrefixExists ==
  ASSUME NEW base, NEW el, NEW n \in Nat
  PROVE  \E f : IsPrefix(f, base, el, n)
<1> DEFINE T == {k \in Nat : \E f : IsPrefix(f, base, el, k)}
<1>1. 0 \in T
  <2>1. IsPrefix([i \in 0..0 |-> base], base, el, 0)
    BY DEF IsPrefix
  <2> QED BY <2>1
<1>2. ASSUME NEW k \in Nat, k \in T PROVE k + 1 \in T
  <2>1. PICK f : IsPrefix(f, base, el, k)
    BY <1>2
  <2> DEFINE g == [i \in 0..(k + 1) |-> IF i = k + 1 THEN Merge(f[k], el, k) ELSE f[i]]
  <2>2. g[0] = base /\ g[k + 1] = Merge(f[k], el, k) /\ \A i \in 0..k : g[i] = f[i]
    BY <2>1 DEF IsPrefix
  <2> HIDE DEF g
  <2>3. ASSUME NEW i \in 1..(k + 1) PROVE g[i] = Merge(g[i - 1], el, i - 1)
    <3>1. CASE i = k + 1
      <4>1. i - 1 = k /\ k \in 0..k
        BY <3>1
      <4> QED BY <2>2, <3>1, <4>1
    <3>2. CASE i # k + 1
      <4>1. i \in 1..k /\ i \in 0..k /\ i - 1 \in 0..k
        BY <2>3, <3>2
      <4> QED BY <2>1, <2>2, <4>1 DEF IsPrefix
    <3> QED BY <3>1, <3>2
  <2>4. IsPrefix(g, base, el, k + 1)
    BY <2>2, <2>3 DEF IsPrefix
  <2> QED BY <2>4
<1>3. Nat \subseteq T
  <2> HIDE DEF T
  <2> QED BY <1>1, <1>2, Induction
<1> QED BY <1>3

\* Two of them agree as far as both go.
LEMMA PrefixUnique ==
  ASSUME NEW base, NEW el, NEW n \in Nat, NEW f, NEW g, IsPrefix(f, base, el, n), IsPrefix(g, base, el, n)
  PROVE  \A k \in 0..n : f[k] = g[k]
<1> DEFINE T == {k \in Nat : k <= n => f[k] = g[k]}
<1>1. 0 \in T
  BY DEF IsPrefix
<1>2. ASSUME NEW k \in Nat, k \in T PROVE k + 1 \in T
  <2>1. ASSUME k + 1 <= n PROVE f[k + 1] = g[k + 1]
    <3>1. k + 1 \in 1..n /\ (k + 1) - 1 = k /\ f[k] = g[k]
      BY <1>2, <2>1
    <3>2. f[k + 1] = Merge(f[k], el, k) /\ g[k + 1] = Merge(g[k], el, k)
      BY <3>1 DEF IsPrefix
    <3> QED BY <3>1, <3>2
  <2> QED BY <2>1
<1>3. Nat \subseteq T
  <2> HIDE DEF T
  <2> QED BY <1>1, <1>2, Induction
<1> QED BY <1>3

\* merged of mergeEndpointLinks.
Merged(base, el) ==
    CHOOSE f : f = [n \in Nat |-> IF n = 0 THEN base
                                  ELSE IF n - 1 \in DOMAIN el THEN PutEndpoint(f[n - 1], el[n - 1])
                                  ELSE f[n - 1]]

\* The equations of its definition hold.
LEMMA MergedEquations ==
  ASSUME NEW base, NEW el
  PROVE  /\ Merged(base, el)[0] = base
         /\ \A n \in Nat : Merged(base, el)[n + 1] = Merge(Merged(base, el)[n], el, n)
<1> DEFINE P(n) == CHOOSE f : IsPrefix(f, base, el, n)
           F == [n \in Nat |-> P(n)[n]]
           R(f) == [n \in Nat |-> IF n = 0 THEN base
                                  ELSE IF n - 1 \in DOMAIN el THEN PutEndpoint(f[n - 1], el[n - 1])
                                  ELSE f[n - 1]]
<1>1. \A n \in Nat : IsPrefix(P(n), base, el, n)
  BY PrefixExists
<1>2. F[0] = base
  BY <1>1 DEF IsPrefix
<1>3. ASSUME NEW n \in Nat, n # 0 PROVE F[n] = Merge(F[n - 1], el, n - 1)
  <2>1. n - 1 \in Nat /\ n \in 1..n /\ n - 1 \in 0..(n - 1)
    BY <1>3
  <2>2. IsPrefix(P(n), base, el, n) /\ IsPrefix(P(n - 1), base, el, n - 1)
    BY <1>1, <2>1
  <2>3. IsPrefix(P(n), base, el, n - 1)
    BY <2>2 DEF IsPrefix
  <2> HIDE DEF P
  <2>4. P(n)[n - 1] = P(n - 1)[n - 1]
    BY <2>1, <2>2, <2>3, PrefixUnique
  <2>5. P(n)[n] = Merge(P(n)[n - 1], el, n - 1)
    BY <2>1, <2>2 DEF IsPrefix
  <2> QED BY <2>1, <2>4, <2>5
<1>4. F = R(F)
  <2>1. ASSUME NEW n \in Nat
        PROVE  F[n] = IF n = 0 THEN base
                      ELSE IF n - 1 \in DOMAIN el THEN PutEndpoint(F[n - 1], el[n - 1])
                      ELSE F[n - 1]
    <3> HIDE DEF F
    <3>1. CASE n = 0
      BY <1>2, <3>1
    <3>2. CASE n # 0
      BY <1>3, <3>2 DEF Merge
    <3> QED BY <3>1, <3>2
  <2>2. F = [n \in Nat |-> F[n]]
    BY DEF F
  <2> HIDE DEF F
  <2> QED BY <2>1, <2>2
<1> HIDE DEF F
<1>5. Merged(base, el) = R(Merged(base, el))
  BY <1>4 DEF Merged
<1> DEFINE M == Merged(base, el)
<1> HIDE DEF M
<1>6. M = R(M)
  BY <1>5 DEF M
<1>7. M[0] = base /\ \A n \in Nat \ {0} : M[n] = Merge(M[n - 1], el, n - 1)
  BY <1>6 DEF Merge
<1>8. ASSUME NEW n \in Nat PROVE M[n + 1] = Merge(M[n], el, n)
  <2>1. n + 1 \in Nat \ {0} /\ (n + 1) - 1 = n
    OBVIOUS
  <2> QED BY <1>7, <2>1
<1> QED BY <1>7, <1>8 DEF M

-----------------------------------------------------------------------------
\* A finite set of naturals has an upper bound.
LEMMA FiniteBounded ==
  ASSUME NEW T \in SUBSET Nat, IsFiniteSet(T)
  PROVE  \E b \in Nat : T \subseteq 0..b
<1> DEFINE N == {n \in Nat : \A X \in SUBSET Nat :
                    IsFiniteSet(X) /\ Cardinality(X) = n => \E b \in Nat : X \subseteq 0..b}
<1>1. 0 \in N
  <2>1. ASSUME NEW X \in SUBSET Nat, IsFiniteSet(X), Cardinality(X) = 0 PROVE X \subseteq 0..0
    BY <2>1, FS_EmptySet
  <2> QED BY <2>1
<1>2. ASSUME NEW n \in Nat, n \in N PROVE n + 1 \in N
  <2>1. ASSUME NEW X \in SUBSET Nat, IsFiniteSet(X), Cardinality(X) = n + 1 PROVE \E b \in Nat : X \subseteq 0..b
    <3>0. X # {}
      <4>1. Cardinality({}) = 0
        BY FS_EmptySet
      <4> QED BY <2>1, <4>1
    <3>1. PICK x \in X : TRUE
      BY <3>0
    <3>2. IsFiniteSet(X \ {x}) /\ Cardinality(X \ {x}) = n
      <4>1. IsFiniteSet(X \ {x}) /\ Cardinality(X \ {x}) = Cardinality(X) - 1
        BY <2>1, <3>1, FS_RemoveElement
      <4> QED BY <2>1, <4>1
    <3>3. PICK b \in Nat : X \ {x} \subseteq 0..b
      BY <1>2, <3>2
    <3>4. X \subseteq 0..(b + x)
      BY <3>1, <3>3
    <3> QED BY <3>1, <3>4
  <2> QED BY <2>1
<1>3. Nat \subseteq N
  <2> HIDE DEF N
  <2> QED BY <1>1, <1>2, Induction
<1>4. Cardinality(T) \in Nat
  BY FS_CardinalityType
<1> QED BY <1>3, <1>4

\* A set of naturals with an upper bound has a greatest element, and Max
\* chooses it.
LEMMA MaxIs ==
  ASSUME NEW T \in SUBSET Nat, NEW b \in Nat, T \subseteq 0..b, T # {}
  PROVE  Seqs!Max(T) \in T /\ \A y \in T : Seqs!Max(T) >= y
<1> DEFINE B == {x \in Nat : \A y \in T : x >= y}
<1>1. b \in B
  OBVIOUS
<1>2. PICK x \in B : \A z \in B : x <= z
  BY <1>1, LeastNat
<1>3. x \in T
  <2> SUFFICES ASSUME x \notin T PROVE FALSE
    OBVIOUS
  <2>0. PICK y \in T : TRUE
    OBVIOUS
  <2>1. x # 0
    <3>1. x >= y /\ y \in Nat /\ x \in Nat /\ y # x
      BY <1>2
    <3> QED BY <3>1
  <2>2. x - 1 \in B
    BY <1>2, <2>1
  <2> QED BY <1>2, <2>2
<1>4. \E z \in T : \A y \in T : z >= y
  BY <1>2, <1>3
<1> QED BY <1>4 DEF Seqs!Max

\* The pairs of links that mergeEndpointLinks takes.
IsLinkMap(el, S) == \A u \in DOMAIN el : el[u] = <<>> \/ \E a, b \in S : el[u] = <<a, b>>

\* No pod but u contributes a link with this key.
OnlyOf(el, u, key) ==
    \A v \in DOMAIN el : v # u /\ el[v] # <<>> => Key(el[v][1]) # key /\ Key(el[v][2]) # key

\* Putting a pair keeps what is shown under other keys.
LEMMA MergeKeeps ==
  ASSUME NEW S, NEW links \in Seq(S), NEW el, IsLinkMap(el, S), NEW n
  PROVE  /\ Merge(links, el, n) \in Seq(S)
         /\ \A link \in S :
                /\ Shows(links, link)
                /\ n \in DOMAIN el /\ el[n] # <<>> => Key(el[n][1]) # Key(link) /\ Key(el[n][2]) # Key(link)
                => Shows(Merge(links, el, n), link)
<1>1. CASE n \notin DOMAIN el \/ el[n] = <<>>
  <2>1. Merge(links, el, n) = links
    BY <1>1 DEF Merge, PutEndpoint
  <2> QED BY <2>1
<1>2. CASE n \in DOMAIN el /\ el[n] # <<>>
  <2>1. PICK a, b \in S : el[n] = <<a, b>>
    BY <1>2 DEF IsLinkMap
  <2>2. Merge(links, el, n) = Put(Put(links, a), b) /\ el[n][1] = a /\ el[n][2] = b
    BY <1>2, <2>1 DEF Merge, PutEndpoint
  <2>3. /\ Put(links, a) \in Seq(S)
        /\ \A link \in S : Key(link) # Key(a) /\ Shows(links, link) => Shows(Put(links, a), link)
    BY PutShows
  <2>4. /\ Put(Put(links, a), b) \in Seq(S)
        /\ \A link \in S : Key(link) # Key(b) /\ Shows(Put(links, a), link) => Shows(Put(Put(links, a), b), link)
    BY <2>3, PutShows
  <2> QED BY <1>2, <2>2, <2>3, <2>4
<1> QED BY <1>1, <1>2

\* Both links of a pair are shown, if their keys differ.
LEMMA MergeAdds ==
  ASSUME NEW S, NEW links \in Seq(S), NEW el, NEW n \in DOMAIN el,
         NEW a \in S, NEW b \in S, el[n] = <<a, b>>, Key(a) # Key(b)
  PROVE  Shows(Merge(links, el, n), a) /\ Shows(Merge(links, el, n), b)
<1>1. Merge(links, el, n) = Put(Put(links, a), b)
  BY DEF Merge, PutEndpoint
<1>2. Put(links, a) \in Seq(S) /\ Shows(Put(links, a), a)
  BY PutShows
<1>3. /\ Shows(Put(Put(links, a), b), b)
      /\ \A link \in S : Key(link) # Key(b) /\ Shows(Put(links, a), link) => Shows(Put(Put(links, a), b), link)
  BY <1>2, PutShows
<1> QED BY <1>1, <1>2, <1>3

\* The plan of a run has both links of an endpoint, whatever the manifest lists
\* and whatever the other endpoints are, if no other endpoint has their keys.
LEMMA MergeVisits ==
  ASSUME NEW S, NEW base \in Seq(S), NEW el, IsLinkMap(el, S),
         NEW bound \in Nat, DOMAIN el \subseteq 0..bound,
         NEW u \in DOMAIN el, NEW a \in S, NEW b \in S, el[u] = <<a, b>>, Key(a) # Key(b),
         OnlyOf(el, u, Key(a)), OnlyOf(el, u, Key(b))
  PROVE  {a, b} \subseteq Visited(mergeEndpointLinks(base, el))
<1> DEFINE M == Merged(base, el)
           T == {n \in Nat : M[n] \in Seq(S) /\ (n > u => Shows(M[n], a) /\ Shows(M[n], b))}
<1>1. M[0] = base /\ \A n \in Nat : M[n + 1] = Merge(M[n], el, n)
  BY MergedEquations
<1> HIDE DEF M
<1>2. u \in Nat /\ DOMAIN el \in SUBSET Nat
  OBVIOUS
<1>3. 0 \in T
  <2>1. M[0] \in Seq(S)
    BY <1>1
  <2>2. ~(0 > u)
    BY <1>2
  <2> QED BY <2>1, <2>2, Zenon
<1>4. ASSUME NEW n \in Nat, n \in T PROVE n + 1 \in T
  <2>1. M[n] \in Seq(S) /\ (n > u => Shows(M[n], a) /\ Shows(M[n], b)) /\ M[n + 1] = Merge(M[n], el, n)
    BY <1>1, <1>4
  <2>2. Merge(M[n], el, n) \in Seq(S)
    BY <2>1, MergeKeeps
  <2>3. ASSUME n > u PROVE Shows(Merge(M[n], el, n), a) /\ Shows(Merge(M[n], el, n), b)
    <3>1. n # u
      BY <1>2, <2>3
    <3>2. n \in DOMAIN el /\ el[n] # <<>> =>
             Key(el[n][1]) # Key(a) /\ Key(el[n][2]) # Key(a) /\ Key(el[n][1]) # Key(b) /\ Key(el[n][2]) # Key(b)
      BY <3>1 DEF OnlyOf
    <3>3. \A link \in S :
                /\ Shows(M[n], link)
                /\ n \in DOMAIN el /\ el[n] # <<>> => Key(el[n][1]) # Key(link) /\ Key(el[n][2]) # Key(link)
                => Shows(Merge(M[n], el, n), link)
      BY <2>1, MergeKeeps
    <3> QED BY <2>1, <2>3, <3>2, <3>3
  <2>4. ASSUME n = u PROVE Shows(Merge(M[n], el, n), a) /\ Shows(Merge(M[n], el, n), b)
    BY <2>1, <2>4, MergeAdds
  <2>5. n + 1 \in Nat /\ (n + 1 > u => n > u \/ n = u)
    BY <1>2
  <2> QED BY <2>1, <2>2, <2>3, <2>4, <2>5
<1>5. Nat \subseteq T
  <2> HIDE DEF T
  <2> QED BY <1>3, <1>4, Induction
<1> DEFINE top == Seqs!Max(DOMAIN el) + 1
<1>6. top \in Nat /\ top > u
  <2>1. Seqs!Max(DOMAIN el) \in DOMAIN el /\ Seqs!Max(DOMAIN el) >= u
    BY <1>2, MaxIs
  <2> HIDE DEF Seqs!Max
  <2>2. Seqs!Max(DOMAIN el) \in Nat
    BY <1>2, <2>1
  <2> QED BY <1>2, <2>1, <2>2
<1>7. mergeEndpointLinks(base, el) = M[top]
  BY DEF mergeEndpointLinks, Merged, M
<1> HIDE DEF top
<1>8. M[top] \in Seq(S) /\ Shows(M[top], a) /\ Shows(M[top], b)
  BY <1>5, <1>6
<1> QED BY <1>7, <1>8, ShownIsVisited
==============================================================================
