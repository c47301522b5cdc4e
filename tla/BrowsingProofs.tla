--------------------------- MODULE BrowsingProofs ---------------------------
(***************************************************************************)
(* Proofs about Browsing for every corpus, reader and length of history.   *)
(***************************************************************************)
EXTENDS Browsing, FiniteSetTheorems, WellFoundedInduction, NaturalsInduction, TLAPS

-----------------------------------------------------------------------------
(***************************************************************************)
(* Sets in order                                                           *)
(***************************************************************************)

\* A set of naturals has a least element.
LEMMA LeastExists ==
    ASSUME NEW S \in SUBSET Nat, S # {}
    PROVE  \E m \in S : \A x \in S : m <= x
<1>1. PICK m \in S : \A x \in S : <<x, m>> \notin OpToRel(<, Nat)
    BY NatLessThanWellFounded, WFMin
<1>2. ASSUME NEW x \in S PROVE m <= x
    <2>1. m \in Nat /\ x \in Nat
        OBVIOUS
    <2>2. <<x, m>> \notin OpToRel(<, Nat)
        BY <1>1
    <2>3. ~(x < m)
        BY <2>1, <2>2 DEF OpToRel
    <2> QED
        BY <2>1, <2>3
<1> QED
    BY <1>2

\* The community modules' minimum, of a set that has a least element.
LEMMA MinIs ==
    ASSUME NEW S \in SUBSET Nat, S # {}
    PROVE  Min(S) \in S /\ \A x \in S : Min(S) <= x
<1> \E m \in S : \A x \in S : m <= x
    BY LeastExists
<1> QED
    BY DEF Min

\* A finite set of naturals is a subset of an initial segment, and has a maximum.
LEMMA MaxIs ==
    ASSUME NEW S \in SUBSET Nat, S # {}, NEW n \in Nat, \A x \in S : x <= n
    PROVE  Max(S) \in S /\ \A x \in S : x <= Max(S)
<1> DEFINE T == {n - x : x \in S}
<1>1. PICK s \in S : TRUE
    OBVIOUS
<1>2. \A x \in S : n - x \in Nat
    OBVIOUS
<1>3. T \in SUBSET Nat /\ T # {}
    BY <1>1, <1>2
<1>4. PICK m \in T : \A x \in T : m <= x
    <2> HIDE DEF T
    <2> QED
        BY <1>3, LeastExists
<1>5. PICK t \in S : m = n - t
    BY <1>4
<1>6. \A x \in S : x <= t
    BY <1>4, <1>5
<1> QED
    BY <1>5, <1>6 DEF Max

\* What it is to list a set by place.
Lists(s, S, place) ==
    /\ s \in [1..Cardinality(S) -> S]
    /\ \A i, j \in 1..Cardinality(S) : i < j => place[s[i]] < place[s[j]]
    /\ \A x \in S : \E i \in 1..Cardinality(S) : s[i] = x

\* A set has a listing: the member with `i` members up to it is the `i`th.
LEMMA InOrderLists ==
    ASSUME NEW S, IsFiniteSet(S), NEW place,
           \A x \in S : place[x] \in Nat, \A x, y \in S : place[x] = place[y] => x = y
    PROVE  Lists(InOrder(S, place), S, place) /\ Cardinality(S) \in Nat
<1> DEFINE n == Cardinality(S)
           Before(x) == {y \in S : place[y] <= place[x]}
           rank == [x \in S |-> Cardinality(Before(x))]
<1>1. n \in Nat
    BY FS_CardinalityType
<1>2. ASSUME NEW x \in S PROVE rank[x] \in 1..n
    <2>1. IsFiniteSet(Before(x)) /\ Cardinality(Before(x)) <= n
        BY FS_Subset, Before(x) \in SUBSET S
    <2>2. Cardinality(Before(x)) \in Nat
        BY <2>1, FS_CardinalityType
    <2>3. x \in Before(x)
        OBVIOUS
    <2>4. Cardinality(Before(x)) # 0
        BY <2>1, <2>3, FS_EmptySet
    <2> QED
        BY <1>1, <2>1, <2>2, <2>4
<1>3. ASSUME NEW x \in S, NEW y \in S, place[x] < place[y] PROVE rank[x] < rank[y]
    <2>1. Before(x) \in SUBSET Before(y)
        BY <1>3
    <2>2. IsFiniteSet(Before(y))
        BY FS_Subset, Before(y) \in SUBSET S
    <2>3. y \in Before(y) /\ y \notin Before(x)
        BY <1>3
    <2>4. Cardinality(Before(x)) <= Cardinality(Before(y)) /\ Cardinality(Before(x)) # Cardinality(Before(y))
        BY <2>1, <2>2, <2>3, FS_Subset
    <2> QED
        BY <1>2, <2>4
<1>4. \A x, y \in S : rank[x] = rank[y] => x = y
    <2> SUFFICES ASSUME NEW x \in S, NEW y \in S, rank[x] = rank[y], x # y PROVE FALSE
        OBVIOUS
    <2>1. place[x] < place[y] \/ place[y] < place[x]
        OBVIOUS
    <2>2. rank[x] \in Nat /\ rank[y] \in Nat
        BY <1>1, <1>2
    <2> HIDE DEF rank
    <2> QED
        BY <1>3, <2>1, <2>2
<1>5. rank \in Injection(S, 1..n)
    <2> HIDE DEF n
    <2> rank \in [S -> 1..n]
        BY <1>2
    <2> HIDE DEF rank
    <2> QED
        BY <1>4 DEF Injection, IsInjective
<1>6. IsFiniteSet(1..n) /\ Cardinality(1..n) = n
    BY <1>1, FS_Interval
<1>7. rank \in Surjection(S, 1..n)
    <2> HIDE DEF rank
    <2> QED
        BY <1>5, <1>6, FS_Injection
<1>8. \A i \in 1..n : \E x \in S : rank[x] = i
    <2> HIDE DEF rank, n
    <2> QED
        BY <1>7 DEF Surjection
<1> DEFINE s == InOrder(S, place)
           Ith(i) == CHOOSE x \in S : Cardinality(Before(x)) = i
<1>0. s = [i \in 1..n |-> Ith(i)]
    BY DEF InOrder
<1>9. \A i \in 1..n : s[i] \in S /\ rank[s[i]] = i
    <2> SUFFICES ASSUME NEW i \in 1..n PROVE s[i] \in S /\ rank[s[i]] = i
        OBVIOUS
    <2>1. s[i] = CHOOSE x \in S : Cardinality(Before(x)) = i
        <3> HIDE DEF s, n
        <3> QED
            BY <1>0
    <2>2. \E x \in S : Cardinality(Before(x)) = i
        BY <1>8
    <2>3. s[i] \in S /\ Cardinality(Before(s[i])) = i
        <3> HIDE DEF Before, s
        <3> QED
            BY <2>1, <2>2
    <2> QED
        BY <2>3
<1>10. s \in [1..n -> S]
    <2> HIDE DEF s, n, Ith
    <2> QED
        BY <1>0, <1>9
<1>11. \A i, j \in 1..n : i < j => place[s[i]] < place[s[j]]
    <2> SUFFICES ASSUME NEW i \in 1..n, NEW j \in 1..n, i < j, ~(place[s[i]] < place[s[j]]) PROVE FALSE
        OBVIOUS
    <2> HIDE DEF s, rank
    <2>1. s[i] # s[j]
        BY <1>9
    <2>2. place[s[j]] < place[s[i]]
        BY <1>9, <2>1
    <2> QED
        BY <1>3, <1>9, <2>2
<1>12. \A x \in S : \E i \in 1..n : s[i] = x
    <2> HIDE DEF s, rank
    <2> QED
        BY <1>2, <1>4, <1>9
<1>13. Lists(s, S, place)
    <2> HIDE DEF s
    <2> QED
        BY <1>10, <1>11, <1>12 DEF Lists
<1> QED
    BY <1>1, <1>13

\* And it has no other.
LEMMA ListsOnce ==
    ASSUME NEW S, Cardinality(S) \in Nat, NEW place, \A x \in S : place[x] \in Nat,
           NEW s, NEW t, Lists(s, S, place), Lists(t, S, place)
    PROVE  s = t
<1> DEFINE n == Cardinality(S)
           off == {i \in 1..n : s[i] # t[i]}
<1>1. off = {}
    <2> SUFFICES ASSUME off # {} PROVE FALSE
        OBVIOUS
    <2>1. off \in SUBSET Nat
        OBVIOUS
    <2>2. PICK i \in off : \A j \in off : i <= j
        <3> HIDE DEF off
        <3> QED
            BY <2>1, LeastExists
    <2>3. \A j \in 1..n : j < i => s[j] = t[j]
        BY <2>2
    <2>4. i \in 1..n /\ s[i] \in S /\ t[i] \in S /\ s[i] # t[i]
        BY <2>2 DEF Lists
    <2>5. PICK j \in 1..n : t[j] = s[i]
        BY <2>4 DEF Lists
    <2>6. PICK k \in 1..n : s[k] = t[i]
        BY <2>4 DEF Lists
    <2>7. i < j
        <3>1. ~(j < i)
            BY <2>3, <2>4, <2>5 DEF Lists
        <3> QED
            BY <2>4, <2>5, <3>1
    <2>8. i < k
        <3>1. ~(k < i)
            BY <2>3, <2>4, <2>6 DEF Lists
        <3> QED
            BY <2>4, <2>6, <3>1
    <2>9. place[t[i]] < place[s[i]] /\ place[s[i]] < place[t[i]]
        BY <2>4, <2>5, <2>6, <2>7, <2>8 DEF Lists
    <2> QED
        BY <2>4, <2>9
<1> QED
    BY <1>1 DEF Lists


\* What is known of a set in ascending order.
LEMMA AscendingIs ==
    ASSUME NEW S \in SUBSET Nat, IsFiniteSet(S)
    PROVE  /\ Cardinality(S) \in Nat
           /\ Ascending(S) \in [1..Cardinality(S) -> S]
           /\ \A i, j \in 1..Cardinality(S) : i < j => Ascending(S)[i] < Ascending(S)[j]
           /\ \A x \in S : \E i \in 1..Cardinality(S) : Ascending(S)[i] = x
<1> DEFINE place == [x \in S |-> x]
<1>1. /\ \A x \in S : place[x] = x /\ place[x] \in Nat
      /\ \A x, y \in S : place[x] = place[y] => x = y
    OBVIOUS
<1> HIDE DEF place
<1>2. Lists(InOrder(S, place), S, place) /\ Cardinality(S) \in Nat
    BY <1>1, InOrderLists
<1>3. Ascending(S) = InOrder(S, place)
    BY DEF Ascending, place
<1> DEFINE a == Ascending(S)
           n == Cardinality(S)
<1>4. Lists(a, S, place)
    BY <1>2, <1>3
<1> HIDE DEF a
<1>5. a \in [1..n -> S] /\ \A x \in S : \E i \in 1..n : a[i] = x
    BY <1>4 DEF Lists
<1>6. ASSUME NEW i \in 1..n, NEW j \in 1..n, i < j PROVE a[i] < a[j]
    <2>1. a[i] \in S /\ a[j] \in S
        BY <1>5
    <2>2. place[a[i]] < place[a[j]]
        BY <1>4, <1>6 DEF Lists
    <2> QED
        BY <1>1, <2>1, <2>2
<1> QED
    BY <1>2, <1>5, <1>6 DEF a

\* A listing in ascending order is that one.
LEMMA AscendingOnce ==
    ASSUME NEW S \in SUBSET Nat, IsFiniteSet(S), NEW t \in [1..Cardinality(S) -> S],
           \A i, j \in 1..Cardinality(S) : i < j => t[i] < t[j],
           \A x \in S : \E i \in 1..Cardinality(S) : t[i] = x
    PROVE  t = Ascending(S)
<1> DEFINE place == [x \in S |-> x]
<1>1. /\ \A x \in S : place[x] = x /\ place[x] \in Nat
      /\ \A x, y \in S : place[x] = place[y] => x = y
    OBVIOUS
<1> HIDE DEF place
<1>2. Lists(t, S, place)
    <2>1. ASSUME NEW i \in 1..Cardinality(S), NEW j \in 1..Cardinality(S), i < j
          PROVE  place[t[i]] < place[t[j]]
        BY <1>1, <2>1, t[i] \in S, t[j] \in S
    <2> QED
        BY <2>1 DEF Lists
<1>3. Ascending(S) = InOrder(S, place)
    BY DEF Ascending, place
<1>4. Lists(InOrder(S, place), S, place) /\ Cardinality(S) \in Nat
    BY <1>1, InOrderLists
<1> QED
    BY <1>1, <1>2, <1>3, <1>4, ListsOnce

\* Its ends, and it as a sequence.
LEMMA AscendingEnds ==
    ASSUME NEW S \in SUBSET Nat, IsFiniteSet(S), S # {}
    PROVE  /\ Ascending(S) \in Seq(S) /\ Len(Ascending(S)) = Cardinality(S)
           /\ Cardinality(S) \in Nat \ {0}
           /\ ToSet(Ascending(S)) = S
           /\ Min(S) \in S /\ \A x \in S : Min(S) <= x
           /\ Max(S) \in S /\ \A x \in S : x <= Max(S)
           /\ Head(Ascending(S)) = Min(S)
           /\ Last(Ascending(S)) = Max(S)
<1> DEFINE a == Ascending(S)
           n == Cardinality(S)
<1>1. /\ n \in Nat /\ a \in [1..n -> S]
      /\ \A i, j \in 1..n : i < j => a[i] < a[j]
      /\ \A x \in S : \E i \in 1..n : a[i] = x
    BY AscendingIs
<1> HIDE DEF a, n
<1>2. n # 0
    <2> PICK x \in S : TRUE
        OBVIOUS
    <2>1. PICK i \in 1..n : a[i] = x
        BY <1>1
    <2> QED
        BY <1>1, <2>1
<1>3. a \in Seq(S) /\ Len(a) = n
    BY <1>1
<1>4. ToSet(a) = S
    BY <1>1 DEF ToSet
<1>5. \A i \in 1..n : a[i] \in S /\ a[i] \in Nat
    BY <1>1
<1>6. /\ a[1] \in S /\ \A x \in S : a[1] <= x
      /\ a[n] \in S /\ \A x \in S : x <= a[n]
    <2>1. 1 \in 1..n /\ n \in 1..n
        BY <1>1, <1>2
    <2>2. ASSUME NEW x \in S PROVE a[1] <= x /\ x <= a[n]
        <3>1. PICK i \in 1..n : a[i] = x
            BY <1>1
        <3>2. (1 < i => a[1] < a[i]) /\ (i < n => a[i] < a[n])
            BY <1>1, <2>1
        <3>3. i = 1 \/ 1 < i
            OBVIOUS
        <3>4. i = n \/ i < n
            BY <1>1
        <3> QED
            BY <1>5, <2>1, <3>1, <3>2, <3>3, <3>4
    <2> QED
        BY <1>5, <2>1, <2>2
<1>7. Min(S) \in S /\ \A x \in S : Min(S) <= x
    BY MinIs
<1>8. Max(S) \in S /\ \A x \in S : x <= Max(S)
    BY <1>6 DEF Max
<1>9. Head(a) = Min(S)
    <2>1. Head(a) = a[1]
        BY <1>2, <1>3
    <2>2. Min(S) <= a[1] /\ a[1] <= Min(S) /\ Min(S) \in Nat /\ a[1] \in Nat
        BY <1>6, <1>7
    <2> QED
        BY <2>1, <2>2
<1>10. Last(a) = Max(S)
    <2>1. Last(a) = a[n]
        BY <1>2, <1>3 DEF Last
    <2>2. Max(S) <= a[n] /\ a[n] <= Max(S) /\ Max(S) \in Nat /\ a[n] \in Nat
        BY <1>6, <1>8
    <2> QED
        BY <2>1, <2>2
<1> QED
    BY <1>1, <1>2, <1>3, <1>4, <1>7, <1>8, <1>9, <1>10 DEF a, n

-----------------------------------------------------------------------------
(***************************************************************************)
(* The versions of a history                                               *)
(***************************************************************************)

Arrival(h, text) == Min(Carrying(h, text))
Latest(h, text) == Max(Carrying(h, text))

\* Where a text of the history stands.
LEMMA TextStands ==
    ASSUME NEW h \in Seq(Text \cup {Absent}), NEW r \in Published(h)
    PROVE  /\ Published(h) \in SUBSET (1..Len(h)) /\ IsFiniteSet(Published(h))
           /\ Carrying(h, h[r]) \in SUBSET Published(h) /\ Carrying(h, h[r]) \in SUBSET Nat
           /\ IsFiniteSet(Carrying(h, h[r])) /\ r \in Carrying(h, h[r])
           /\ \A q \in Carrying(h, h[r]) : h[q] = h[r]
           /\ Arrival(h, h[r]) \in Carrying(h, h[r]) /\ Latest(h, h[r]) \in Carrying(h, h[r])
           /\ \A q \in Carrying(h, h[r]) : Arrival(h, h[r]) <= q /\ q <= Latest(h, h[r])
<1>1. Published(h) \in SUBSET (1..Len(h)) /\ IsFiniteSet(1..Len(h)) /\ Len(h) \in Nat
    BY FS_Interval DEF Published
<1>2. IsFiniteSet(Published(h))
    BY <1>1, FS_Subset
<1>3. Carrying(h, h[r]) \in SUBSET Published(h) /\ Carrying(h, h[r]) \in SUBSET Nat
    BY <1>1 DEF Carrying
<1>4. IsFiniteSet(Carrying(h, h[r])) /\ r \in Carrying(h, h[r])
    BY <1>2, <1>3, FS_Subset DEF Carrying
<1> QED
    BY <1>1, <1>2, <1>3, <1>4, AscendingEnds DEF Arrival, Latest, Carrying

\* One version of each text, in the order of their arrivals.
LEMMA GroupsAre ==
    ASSUME NEW h \in Seq(Text \cup {Absent})
    PROVE  \E n \in Nat :
              /\ GroupsOf(h) \in [1..n -> {h[r] : r \in Published(h)}]
              /\ \A r \in Published(h) : \E i \in 1..n : GroupsOf(h)[i] = h[r]
              /\ \A i, j \in 1..n :
                    i < j => Arrival(h, GroupsOf(h)[i]) < Arrival(h, GroupsOf(h)[j])
<1> DEFINE texts == {h[r] : r \in Published(h)}
           firsts == {Arrival(h, h[r]) : r \in Published(h)}
           f == [q \in firsts |-> h[q]]
           n == Cardinality(texts)
           g == GroupsOf(h)
<1>1. Published(h) \in SUBSET Nat /\ IsFiniteSet(Published(h))
    <2>1. Published(h) \in SUBSET (1..Len(h)) /\ IsFiniteSet(1..Len(h)) /\ Len(h) \in Nat
        BY FS_Interval DEF Published
    <2> QED
        BY <2>1, FS_Subset
<1>2. \A r \in Published(h) : Arrival(h, h[r]) \in Published(h) /\ h[Arrival(h, h[r])] = h[r]
    BY TextStands
<1>3. firsts \in SUBSET Published(h) /\ firsts \in SUBSET Nat /\ IsFiniteSet(firsts)
    BY <1>1, <1>2, FS_Subset
<1>4. \A q \in firsts : h[q] \in texts /\ Arrival(h, h[q]) = q
    BY <1>2
<1>5. f \in Bijection(firsts, texts)
    <2>1. f \in [firsts -> texts]
        BY <1>4
    <2>2. \A p, q \in firsts : f[p] = f[q] => p = q
        BY <1>4
    <2>3. \A t \in texts : \E q \in firsts : f[q] = t
        BY <1>2
    <2> HIDE DEF f, firsts, texts
    <2> QED
        BY <2>1, <2>2, <2>3 DEF Bijection, Injection, Surjection, IsInjective
<1>6. Cardinality(firsts) = n
    <2> HIDE DEF f, firsts, texts
    <2> QED
        BY <1>3, <1>5, FS_Bijection DEF ExistsBijection
<1> DEFINE a == Ascending(firsts)
<1>7. /\ n \in Nat /\ a \in [1..n -> firsts]
      /\ \A i, j \in 1..n : i < j => a[i] < a[j]
      /\ \A x \in firsts : \E i \in 1..n : a[i] = x
    <2> HIDE DEF firsts, texts
    <2> QED
        BY <1>3, <1>6, AscendingIs
<1>8. g = [i \in 1..n |-> h[a[i]]]
    BY DEF GroupsOf, Arrival
<1> HIDE DEF a, n, g
<1>9. g \in [1..n -> texts]
    BY <1>4, <1>7, <1>8
<1>10. \A r \in Published(h) : \E i \in 1..n : g[i] = h[r]
    <2> SUFFICES ASSUME NEW r \in Published(h) PROVE \E i \in 1..n : g[i] = h[r]
        OBVIOUS
    <2>1. PICK i \in 1..n : a[i] = Arrival(h, h[r])
        BY <1>7
    <2> QED
        BY <1>2, <1>8, <2>1
<1>11. \A i, j \in 1..n : i < j => Arrival(h, g[i]) < Arrival(h, g[j])
    BY <1>4, <1>7, <1>8
<1> QED
    BY <1>7, <1>9, <1>10, <1>11 DEF g


\* What the entries of an answer say of the history it maps: `g` are its texts, and
\* those stored since, which have no release point there.
EntryTells(h, E, g, i) ==
    /\ E[i].text = g[i]
    /\ E[i].releases \in Seq(Nat)
    /\ ToSet(E[i].releases) = Carrying(h, g[i])
    /\ Len(E[i].releases) = Cardinality(Carrying(h, g[i]))
    /\ Carrying(h, g[i]) = {} => E[i].releases = <<>>
    /\ Carrying(h, g[i]) # {} =>
          /\ E[i].releases # <<>>
          /\ Head(E[i].releases) = Arrival(h, g[i]) /\ Last(E[i].releases) = Latest(h, g[i])
    /\ E[i].kind \in {NoKind, IF i = 1 THEN "initial" ELSE KindOfChange(g[i - 1], g[i])}

Partly(h, E, g, n) ==
    /\ n \in Nat /\ DOMAIN E = 1..n /\ DOMAIN g = 1..n /\ (n = 0 => E = <<>>)
    /\ \A r \in Published(h) : \E i \in 1..n : g[i] = h[r]
    /\ \A i, j \in 1..n : i < j =>
          /\ g[i] # g[j]
          /\ Carrying(h, g[j]) # {} =>
                Carrying(h, g[i]) # {} /\ Arrival(h, g[i]) < Arrival(h, g[j])
    /\ \A i \in 1..n : EntryTells(h, E, g, i)

\* Of each text, a release point.
Tells(h, E, g, n) ==
    /\ Partly(h, E, g, n)
    /\ \A i \in 1..n : Carrying(h, g[i]) # {}
    /\ \A i \in 1..n : \E r \in Published(h) : g[i] = h[r]

\* A history as it was before.
LEMMA Earlier ==
    ASSUME NEW h \in Seq(Text \cup {Absent}), NEW p \in 0..Len(h)
    PROVE  /\ Upto(h, p) \in Seq(Text \cup {Absent}) /\ Len(Upto(h, p)) = p
           /\ \A r \in 1..p : Upto(h, p)[r] = h[r]
           /\ Published(Upto(h, p)) = {r \in Published(h) : r <= p}
           /\ \A text : Carrying(Upto(h, p), text) = {r \in Carrying(h, text) : r <= p}
<1>1. /\ Upto(h, p) \in Seq(Text \cup {Absent}) /\ Len(Upto(h, p)) = p
      /\ \A r \in 1..p : Upto(h, p)[r] = h[r]
    BY DEF Upto
<1>2. DOMAIN Upto(h, p) = 1..p /\ DOMAIN h = 1..Len(h) /\ Len(h) \in Nat
    BY <1>1
<1>3. Published(Upto(h, p)) = {r \in Published(h) : r <= p}
    BY <1>1, <1>2 DEF Published
<1>4. ASSUME NEW text
      PROVE  Carrying(Upto(h, p), text) = {r \in Carrying(h, text) : r <= p}
    BY <1>1, <1>2, <1>3 DEF Carrying, Published
<1> QED
    BY <1>1, <1>3, <1>4

\* What is left of an arrival, earlier.
LEMMA EarlierArrival ==
    ASSUME NEW h \in Seq(Text \cup {Absent}), NEW p \in 0..Len(h), NEW r \in Published(h)
    PROVE  /\ Carrying(Upto(h, p), h[r]) # {} <=> Arrival(h, h[r]) <= p
           /\ Carrying(Upto(h, p), h[r]) # {} =>
                 Arrival(Upto(h, p), h[r]) = Arrival(h, h[r])
<1> DEFINE C == Carrying(h, h[r])
           D == Carrying(Upto(h, p), h[r])
           first == Arrival(h, h[r])
<1>1. D = {q \in C : q <= p} /\ p \in Nat
    BY Earlier
<1>2. C \in SUBSET Nat /\ first \in C /\ \A q \in C : first <= q
    BY TextStands
<1>3. Arrival(Upto(h, p), h[r]) = Min(D) /\ first \in Nat
    BY <1>2 DEF Arrival
<1> HIDE DEF C, D, first
<1>4. D # {} <=> first <= p
    <2>1. ASSUME NEW q \in D PROVE first <= p
        BY <1>1, <1>2, <1>3, <2>1
    <2>2. first <= p => first \in D
        BY <1>1, <1>2
    <2> QED
        BY <2>1, <2>2
<1>5. ASSUME D # {} PROVE Min(D) = first
    <2>1. D \in SUBSET Nat /\ first \in D /\ \A q \in D : first <= q
        BY <1>1, <1>2, <1>4, <1>5
    <2>2. PICK least \in D : least = Min(D) /\ \A q \in D : least <= q
        BY <2>1, MinIs
    <2>3. least \in Nat /\ first \in Nat /\ first <= least /\ least <= first
        BY <2>1, <2>2
    <2>4. least = first
        BY <2>3
    <2> QED
        BY <2>2, <2>4
<1>6. D # {} => Arrival(Upto(h, p), h[r]) = first
    BY <1>3, <1>5
<1> QED
    BY <1>4, <1>6 DEF C, D, first

\* The versions of a history as it was are the first ones of it.
LEMMA GroupsEarlier ==
    ASSUME NEW h \in Seq(Text \cup {Absent}), NEW p \in 0..Len(h),
           NEW n \in Nat, DOMAIN GroupsOf(h) = 1..n
    PROVE  \E m \in 0..n :
              /\ DOMAIN GroupsOf(Upto(h, p)) = 1..m
              /\ \A i \in 1..m : GroupsOf(Upto(h, p))[i] = GroupsOf(h)[i]
              /\ \A i \in 1..n : Carrying(Upto(h, p), GroupsOf(h)[i]) # {} <=> i <= m
<1> DEFINE c == Upto(h, p)
           g == GroupsOf(h)
           G == GroupsOf(c)
           late(t) == Arrival(h, t)
<1>1. /\ \A i \in 1..n : \E r \in Published(h) : g[i] = h[r]
      /\ \A r \in Published(h) : \E i \in 1..n : g[i] = h[r]
      /\ \A i, j \in 1..n : i < j => late(g[i]) < late(g[j])
    <2>1. PICK k \in Nat :
            /\ g \in [1..k -> {h[r] : r \in Published(h)}]
            /\ \A r \in Published(h) : \E i \in 1..k : g[i] = h[r]
            /\ \A i, j \in 1..k : i < j => late(g[i]) < late(g[j])
        BY GroupsAre
    <2>2. 1..k = 1..n
        BY <2>1
    <2> HIDE DEF g
    <2> QED
        BY <2>1, <2>2
<1>2. c \in Seq(Text \cup {Absent})
    BY Earlier
<1>3. PICK m \in Nat :
        /\ G \in [1..m -> {c[r] : r \in Published(c)}]
        /\ \A r \in Published(c) : \E i \in 1..m : G[i] = c[r]
        /\ \A i, j \in 1..m : i < j => Arrival(c, G[i]) < Arrival(c, G[j])
    <2> HIDE DEF c
    <2> QED
        BY <1>2, GroupsAre
<1>4. /\ Published(c) = {r \in Published(h) : r <= p}
      /\ \A r \in Published(c) : c[r] = h[r]
    <2>1. Published(c) = {r \in Published(h) : r <= p} /\ \A r \in 1..p : c[r] = h[r]
        BY Earlier
    <2>2. \A r \in Published(h) : r \in Nat /\ 1 <= r
        BY DEF Published
    <2> QED
        BY <2>1, <2>2
<1>5. ASSUME NEW r \in Published(h)
      PROVE  /\ late(h[r]) \in Nat
             /\ Carrying(c, h[r]) # {} <=> late(h[r]) <= p
             /\ Carrying(c, h[r]) # {} => Arrival(c, h[r]) = late(h[r])
             /\ Carrying(c, h[r]) # {} => \E q \in Published(c) : c[q] = h[r]
    <2>1. late(h[r]) \in Nat
        BY TextStands
    <2>2. \A q \in Carrying(c, h[r]) : q \in Published(c) /\ c[q] = h[r]
        BY DEF Carrying
    <2> QED
        BY <2>1, <2>2, EarlierArrival
<1>6. ASSUME NEW r \in Published(c)
      PROVE  r \in Published(h) /\ c[r] = h[r] /\ Carrying(c, h[r]) # {}
    BY <1>4 DEF Carrying
<1> HIDE DEF c, g, G, late
<1>7. ASSUME NEW i \in 1..m
      PROVE  /\ \E r \in Published(h) : G[i] = h[r]
             /\ Carrying(c, G[i]) # {} /\ late(G[i]) \in Nat /\ late(G[i]) <= p
             /\ Arrival(c, G[i]) = late(G[i])
    <2>1. PICK r \in Published(c) : G[i] = c[r]
        BY <1>3
    <2> QED
        BY <1>5, <1>6, <2>1
<1>8. \A i, j \in 1..m : i < j => late(G[i]) < late(G[j])
    BY <1>3, <1>7
<1>9. ASSUME NEW i \in 1..n
      PROVE  /\ late(g[i]) \in Nat
             /\ Carrying(c, g[i]) # {} <=> late(g[i]) <= p
             /\ Carrying(c, g[i]) # {} => \E j \in 1..m : G[j] = g[i]
    <2>1. PICK r \in Published(h) : g[i] = h[r]
        BY <1>1
    <2> QED
        BY <1>3, <1>5, <2>1
<1> DEFINE off == {i \in 1..m : ~(i \in 1..n /\ G[i] = g[i])}
<1>10. off = {}
    <2> SUFFICES ASSUME off # {} PROVE FALSE
        OBVIOUS
    <2>1. off \in SUBSET Nat
        OBVIOUS
    <2>2. PICK i \in off : \A j \in off : i <= j
        <3> HIDE DEF off
        <3> QED
            BY <2>1, LeastExists
    <2>3. i \in 1..m /\ \A j \in 1..m : j < i => j \in 1..n /\ G[j] = g[j]
        BY <2>2
    <2>4. PICK j \in 1..n : g[j] = G[i]
        BY <1>1, <1>7, <2>3
    <2>5. ~(j < i)
        <3> SUFFICES ASSUME j < i PROVE FALSE
            OBVIOUS
        <3>1. j \in 1..m /\ G[j] = G[i] /\ late(G[j]) < late(G[i])
            BY <1>8, <2>3, <2>4
        <3> QED
            BY <1>7, <2>3, <3>1
    <2>6. i \in 1..n /\ G[i] # g[i] /\ i < j
        BY <2>2, <2>3, <2>4, <2>5
    <2>7. late(g[i]) < late(G[i]) /\ late(G[i]) <= p /\ late(g[i]) \in Nat /\ late(G[i]) \in Nat
        BY <1>1, <1>7, <1>9, <2>3, <2>4, <2>6
    <2>8. PICK l \in 1..m : G[l] = g[i]
        <3>1. late(g[i]) <= p
            BY <2>7, p \in Int
        <3>2. Carrying(c, g[i]) # {}
            BY <1>9, <2>6, <3>1
        <3> QED
            BY <1>9, <2>6, <3>2
    <2>9. CASE l < i
        <3>1. l \in 1..n /\ g[l] = g[i] /\ late(g[l]) < late(g[i])
            BY <1>1, <2>3, <2>6, <2>8, <2>9
        <3> QED
            BY <2>7, <3>1
    <2>10. CASE i < l
        <3>1. late(G[i]) < late(G[l])
            BY <1>8, <2>3, <2>8, <2>10
        <3> QED
            BY <2>7, <2>8, <3>1
    <2> QED
        BY <2>3, <2>6, <2>8, <2>9, <2>10
<1>11. \A i \in 1..m : i \in 1..n /\ G[i] = g[i]
    BY <1>10
<1>12. m \in 0..n
    <2>1. m # 0 => m \in 1..m
        BY <1>3
    <2>2. m # 0 => m <= n
        BY <1>11, <2>1
    <2> QED
        BY <1>3, <2>2
<1>13. ASSUME NEW i \in 1..n PROVE Carrying(c, g[i]) # {} <=> i <= m
    <2>1. i <= m => i \in 1..m
        BY <1>3
    <2>2. i <= m => Carrying(c, g[i]) # {}
        BY <1>7, <1>11, <2>1
    <2>3. ASSUME Carrying(c, g[i]) # {} PROVE i <= m
        <3>1. PICK l \in 1..m : G[l] = g[i]
            BY <1>9, <2>3
        <3>2. l \in 1..n /\ g[l] = g[i]
            BY <1>11, <3>1
        <3>3. ~(l < i) /\ ~(i < l)
            BY <1>1, <1>9, <3>2
        <3> QED
            BY <1>3, <3>2, <3>3
    <2> QED
        BY <2>2, <2>3
<1>14. DOMAIN G = 1..m
    BY <1>3
<1> QED
    BY <1>11, <1>12, <1>13, <1>14 DEF c, g, G

\* Earlier and earlier yet.
LEMMA EarlierYet ==
    ASSUME NEW h \in Seq(Text \cup {Absent}), NEW q \in 0..Len(h), NEW p \in 0..q
    PROVE  Upto(Upto(h, q), p) = Upto(h, p)
<1> DEFINE H == Upto(h, q)
<1>1. H \in Seq(Text \cup {Absent}) /\ Len(H) = q /\ \A r \in 1..q : H[r] = h[r]
    BY Earlier
<1>2. p \in 0..Len(h) /\ p \in Nat
    OBVIOUS
<1> HIDE DEF H
<1>3. /\ Upto(H, p) \in Seq(Text \cup {Absent}) /\ Len(Upto(H, p)) = p
      /\ \A r \in 1..p : Upto(H, p)[r] = H[r]
    BY <1>1, Earlier
<1>4. /\ Upto(h, p) \in Seq(Text \cup {Absent}) /\ Len(Upto(h, p)) = p
      /\ \A r \in 1..p : Upto(h, p)[r] = h[r]
    BY <1>2, Earlier
<1>5. \A r \in 1..p : Upto(H, p)[r] = Upto(h, p)[r]
    BY <1>1, <1>3, <1>4
<1>6. Upto(H, p) = Upto(h, p)
    BY <1>3, <1>4, <1>5
<1> QED
    BY <1>6 DEF H

\* The moments of an answer.
Moments(answer, len) ==
    answer.upto \in 0..len /\ answer.mapped \in 0..answer.upto /\ answer.computed \in 0..answer.upto

\* Where an entry has a kind, and when it is marked.
Flags(c, E, g, n) ==
    \A i \in 1..n :
        /\ E[i].kind = NoKind <=> Carrying(c, g[i]) = {}
        /\ E[i].concurrent <=> (i > 1 /\ Carrying(c, g[i]) # {} /\ Concurrent(GroupsOf(c), c, i))

LEMMA EntriesTell ==
    ASSUME NEW h \in Seq(Text \cup {Absent}), NEW answer, Moments(answer, Len(h))
    PROVE  \E n \in Nat :
              /\ Partly(Upto(h, answer.mapped), EntriesOf(h, answer), GroupsOf(Upto(h, answer.upto)), n)
              /\ Flags(Upto(h, answer.computed), EntriesOf(h, answer), GroupsOf(Upto(h, answer.upto)), n)
<1> DEFINE H == Upto(h, answer.upto)
           m == Upto(h, answer.mapped)
           c == Upto(h, answer.computed)
           g == GroupsOf(H)
           E == EntriesOf(h, answer)
           texts == {H[r] : r \in Published(H)}
           K(i) == IF i = 1 THEN "initial" ELSE KindOfChange(g[i - 1], g[i])
           late(t) == Arrival(H, t)
<1>0. /\ answer.upto \in 0..Len(h) /\ answer.mapped \in 0..answer.upto
      /\ answer.upto \in Nat /\ answer.mapped \in Nat /\ answer.mapped \in 0..Len(h)
    BY DEF Moments
<1>1. H \in Seq(Text \cup {Absent}) /\ Len(H) = answer.upto /\ m \in Seq(Text \cup {Absent})
    BY <1>0, Earlier
<1>2. m = Upto(H, answer.mapped) /\ answer.mapped \in 0..Len(H)
    BY <1>0, <1>1, EarlierYet
<1>3. E = [i \in DOMAIN g |->
            [text |-> g[i], releases |-> Ascending(Carrying(m, g[i])),
             kind |-> IF ~(Carrying(c, g[i]) # {}) THEN NoKind ELSE K(i),
             concurrent |-> i > 1 /\ Carrying(c, g[i]) # {} /\ Concurrent(GroupsOf(c), c, i)]]
    BY DEF EntriesOf
<1> HIDE DEF E, m, c
<1>4. PICK n \in Nat :
        /\ g \in [1..n -> texts]
        /\ \A r \in Published(H) : \E i \in 1..n : g[i] = H[r]
        /\ \A i, j \in 1..n : i < j => late(g[i]) < late(g[j])
    <2> HIDE DEF H
    <2> QED
        BY <1>1, GroupsAre
<1>5. /\ Published(m) = {r \in Published(H) : r <= answer.mapped}
      /\ \A r \in Published(m) : m[r] = H[r]
    <2> HIDE DEF H
    <2>1. /\ Published(m) = {r \in Published(H) : r <= answer.mapped}
          /\ \A r \in 1..answer.mapped : m[r] = H[r]
        BY <1>1, <1>2, Earlier
    <2>2. \A r \in Published(H) : r \in Nat /\ 1 <= r
        BY <1>1 DEF Published
    <2> QED
        BY <1>0, <2>1, <2>2
<1>6. ASSUME NEW r \in Published(H)
      PROVE  /\ late(H[r]) \in Nat
             /\ Carrying(m, H[r]) # {} <=> late(H[r]) <= answer.mapped
             /\ Carrying(m, H[r]) # {} => Arrival(m, H[r]) = late(H[r])
    <2> HIDE DEF H
    <2>1. late(H[r]) \in Nat
        BY <1>1, TextStands
    <2> QED
        BY <1>1, <1>2, <2>1, EarlierArrival
<1> HIDE DEF g, H, late
<1>7. DOMAIN E = 1..n /\ DOMAIN g = 1..n /\ (n = 0 => E = <<>>)
    BY <1>3, <1>4
<1>8. ASSUME NEW i \in 1..n
      PROVE  /\ E[i].text = g[i] /\ E[i].releases = Ascending(Carrying(m, g[i]))
             /\ E[i].kind = (IF Carrying(c, g[i]) # {} THEN K(i) ELSE NoKind)
             /\ E[i].concurrent =
                   (i > 1 /\ Carrying(c, g[i]) # {} /\ Concurrent(GroupsOf(c), c, i))
    BY <1>3, <1>7
<1>9. \A i \in 1..n : \E r \in Published(H) : g[i] = H[r]
    BY <1>4
<1>10. ASSUME NEW i \in 1..n, NEW j \in 1..n, i < j
       PROVE  /\ g[i] # g[j]
              /\ Carrying(m, g[j]) # {} =>
                    Carrying(m, g[i]) # {} /\ Arrival(m, g[i]) < Arrival(m, g[j])
    <2>1. PICK q \in Published(H) : g[i] = H[q]
        BY <1>9
    <2>2. PICK r \in Published(H) : g[j] = H[r]
        BY <1>9
    <2>3. late(g[i]) < late(g[j]) /\ late(g[i]) \in Nat /\ late(g[j]) \in Nat
        BY <1>4, <1>6, <1>10, <2>1, <2>2
    <2>4. g[i] # g[j]
        BY <2>3
    <2>5. ASSUME Carrying(m, g[j]) # {}
          PROVE  Carrying(m, g[i]) # {} /\ Arrival(m, g[i]) < Arrival(m, g[j])
        <3>1. late(g[j]) <= answer.mapped /\ Arrival(m, g[j]) = late(g[j])
            BY <1>6, <2>2, <2>5
        <3>2. late(g[i]) <= answer.mapped
            BY <1>0, <2>3, <3>1
        <3>3. Carrying(m, g[i]) # {} /\ Arrival(m, g[i]) = late(g[i])
            BY <1>6, <2>1, <3>2
        <3> QED
            BY <2>3, <3>1, <3>3
    <2> QED
        BY <2>4, <2>5
<1>11. ASSUME NEW i \in 1..n PROVE EntryTells(m, E, g, i)
    <2> DEFINE S == Carrying(m, g[i])
               a == Ascending(S)
    <2>1. S \in SUBSET Nat /\ IsFiniteSet(S)
        <3>0. Len(m) \in Nat /\ DOMAIN m = 1..Len(m)
            BY <1>1
        <3>1. Published(m) \in SUBSET (1..Len(m)) /\ Len(m) \in Nat /\ IsFiniteSet(1..Len(m))
            BY <3>0, FS_Interval DEF Published
        <3>2. S \in SUBSET (1..Len(m))
            BY <3>1 DEF Carrying
        <3> QED
            BY <3>1, <3>2, FS_Subset
    <2>2. /\ Arrival(m, g[i]) = Min(S) /\ Latest(m, g[i]) = Max(S)
          /\ E[i].releases = a
        BY <1>8 DEF Arrival, Latest
    <2> HIDE DEF S
    <2>3. S = {} => a \in Seq(Nat) /\ a = <<>> /\ ToSet(a) = S /\ Len(a) = Cardinality(S)
        <3> SUFFICES ASSUME S = {}
                     PROVE  a \in Seq(Nat) /\ a = <<>> /\ ToSet(a) = S /\ Len(a) = Cardinality(S)
            OBVIOUS
        <3>1. Cardinality(S) = 0
            BY FS_EmptySet
        <3>2. a \in [1..0 -> S]
            BY <2>1, <3>1, AscendingIs
        <3> HIDE DEF a
        <3>3. a = <<>>
            BY <3>2
        <3> QED
            BY <3>1, <3>3 DEF ToSet
    <2>4. S # {} => /\ a \in Seq(Nat) /\ a # <<>> /\ ToSet(a) = S /\ Len(a) = Cardinality(S)
                    /\ Head(a) = Min(S) /\ Last(a) = Max(S)
        <3> SUFFICES ASSUME S # {}
                     PROVE  /\ a \in Seq(Nat) /\ a # <<>> /\ ToSet(a) = S /\ Len(a) = Cardinality(S)
                            /\ Head(a) = Min(S) /\ Last(a) = Max(S)
            OBVIOUS
        <3>1. /\ a \in Seq(S) /\ Len(a) = Cardinality(S) /\ Cardinality(S) \in Nat \ {0}
              /\ ToSet(a) = S /\ Head(a) = Min(S) /\ Last(a) = Max(S)
            BY <2>1, AscendingEnds
        <3> HIDE DEF a
        <3>2. a \in Seq(Nat)
            <4>1. a \in Seq(S) /\ S \in SUBSET Nat
                BY <2>1, <3>1
            <4>2. Len(a) \in Nat /\ a \in [1..Len(a) -> S]
                BY <4>1
            <4>3. a \in [1..Len(a) -> Nat]
                BY <4>1, <4>2
            <4> QED
                BY <4>2, <4>3
        <3>3. a # <<>>
            BY <3>1
        <3> QED
            BY <3>1, <3>2, <3>3
    <2>5. E[i].kind \in {NoKind, K(i)}
        BY <1>8
    <2> HIDE DEF a
    <2> QED
        BY <1>8, <2>2, <2>3, <2>4, <2>5 DEF S, EntryTells
<1>12. ASSUME NEW r \in Published(m) PROVE \E i \in 1..n : g[i] = m[r]
    BY <1>4, <1>5
<1>13. Partly(m, E, g, n)
    BY <1>7, <1>10, <1>11, <1>12 DEF Partly
<1>14. ASSUME NEW i \in 1..n
       PROVE  /\ E[i].kind = NoKind <=> Carrying(c, g[i]) = {}
              /\ E[i].concurrent <=> (i > 1 /\ Carrying(c, g[i]) # {} /\ Concurrent(GroupsOf(c), c, i))
    <2>1. K(i) # NoKind
        BY TimelineAssumption DEF KindOfChange
    <2>2. E[i].kind = NoKind <=> Carrying(c, g[i]) = {}
        BY <1>8, <2>1
    <2>3. E[i].concurrent <=> (i > 1 /\ Carrying(c, g[i]) # {} /\ Concurrent(GroupsOf(c), c, i))
        BY <1>8, Zenon
    <2> QED
        BY <2>2, <2>3
<1>15. Flags(c, E, g, n)
    BY <1>14 DEF Flags
<1> QED
    BY <1>13, <1>15 DEF H, m, c, g, E

\* Each version of an answer stands from its arrival to its latest release point that
\* is mapped, and no two versions at one.
PartStand(h, g, n) ==
    /\ \A r \in Published(h) : r \in Nat /\ r \in 1..Len(h) /\ r \in Carrying(h, h[r])
    /\ \A i \in 1..n :
          /\ Carrying(h, g[i]) \in SUBSET Published(h)
          /\ Carrying(h, g[i]) # {} =>
                /\ Arrival(h, g[i]) \in Carrying(h, g[i]) /\ Latest(h, g[i]) \in Carrying(h, g[i])
                /\ Arrival(h, g[i]) \in Nat /\ Latest(h, g[i]) \in Nat
          /\ \A q \in Carrying(h, g[i]) :
                Arrival(h, g[i]) <= q /\ q <= Latest(h, g[i]) /\ h[q] = g[i]
    /\ \A i, j \in 1..n : g[i] = g[j] => i = j

LEMMA VersionsPartStand ==
    ASSUME NEW h \in Seq(Text \cup {Absent}), NEW E, NEW g, NEW n, Partly(h, E, g, n)
    PROVE  PartStand(h, g, n)
<1>1. \A r \in Published(h) : r \in Nat /\ r \in 1..Len(h) /\ r \in Carrying(h, h[r])
    BY DEF Published, Carrying
<1>2. ASSUME NEW i \in 1..n
      PROVE  /\ Carrying(h, g[i]) \in SUBSET Published(h)
             /\ Carrying(h, g[i]) # {} =>
                   /\ Arrival(h, g[i]) \in Carrying(h, g[i]) /\ Latest(h, g[i]) \in Carrying(h, g[i])
                   /\ Arrival(h, g[i]) \in Nat /\ Latest(h, g[i]) \in Nat
             /\ \A q \in Carrying(h, g[i]) :
                   Arrival(h, g[i]) <= q /\ q <= Latest(h, g[i]) /\ h[q] = g[i]
    <2>1. CASE Carrying(h, g[i]) = {}
        BY <2>1
    <2>2. CASE Carrying(h, g[i]) # {}
        <3>1. PICK r \in Published(h) : g[i] = h[r]
            BY <2>2 DEF Carrying
        <3> QED
            BY <3>1, TextStands
    <2> QED
        BY <2>1, <2>2
<1>3. ASSUME NEW i \in 1..n, NEW j \in 1..n, g[i] = g[j] PROVE i = j
    <2>1. n \in Nat /\ ~(i < j) /\ ~(j < i)
        BY <1>3 DEF Partly
    <2> QED
        BY <2>1
<1> QED
    BY <1>1, <1>2, <1>3 DEF PartStand

\* Of a whole answer, all.
Stand(h, g, n) ==
    /\ \A r \in Published(h) : r \in Nat /\ r \in 1..Len(h) /\ r \in Carrying(h, h[r])
    /\ \A i \in 1..n :
          /\ Carrying(h, g[i]) \in SUBSET Published(h)
          /\ Arrival(h, g[i]) \in Carrying(h, g[i]) /\ Latest(h, g[i]) \in Carrying(h, g[i])
          /\ Arrival(h, g[i]) \in Nat /\ Latest(h, g[i]) \in Nat
          /\ \A q \in Carrying(h, g[i]) :
                Arrival(h, g[i]) <= q /\ q <= Latest(h, g[i]) /\ h[q] = g[i]
    /\ \A i, j \in 1..n : g[i] = g[j] => i = j

LEMMA VersionsStand ==
    ASSUME NEW h \in Seq(Text \cup {Absent}), NEW E, NEW g, NEW n, Tells(h, E, g, n)
    PROVE  Stand(h, g, n)
<1>1. PartStand(h, g, n)
    BY VersionsPartStand DEF Tells
<1>2. \A i \in 1..n : Carrying(h, g[i]) # {}
    BY DEF Tells
<1> QED
    BY <1>1, <1>2 DEF PartStand, Stand

\* An answer that maps a release point of each version is whole.
LEMMA WholeTells ==
    ASSUME NEW h, NEW E, NEW g, NEW n, Partly(h, E, g, n),
           \A i \in 1..n : Carrying(h, g[i]) # {}
    PROVE  Tells(h, E, g, n)
<1>1. ASSUME NEW i \in 1..n PROVE \E r \in Published(h) : g[i] = h[r]
    BY DEF Carrying
<1> QED
    BY <1>1 DEF Tells

\* A text of the history went away and came back.
Returns(h) ==
    \E q, r, s \in Published(h) : q < r /\ r < s /\ h[q] = h[s] /\ h[q] # h[r]

\* When none did, the versions follow each other.
LEMMA VersionsFollow ==
    ASSUME NEW h \in Seq(Text \cup {Absent}), NEW E, NEW g, NEW n, Partly(h, E, g, n),
           ~Returns(h), NEW i \in 1..n, NEW j \in 1..n, i < j,
           NEW q \in Carrying(h, g[i]), NEW r \in Carrying(h, g[j])
    PROVE  q < r
<1>0. PartStand(h, g, n)
    BY VersionsPartStand
<1>1. /\ q \in Published(h) /\ r \in Published(h) /\ h[q] = g[i] /\ h[r] = g[j]
      /\ Arrival(h, g[i]) \in Published(h) /\ h[Arrival(h, g[i])] = g[i]
      /\ Arrival(h, g[j]) <= r /\ g[i] # g[j]
    BY <1>0 DEF PartStand
<1>2. Arrival(h, g[i]) < Arrival(h, g[j])
    BY DEF Partly
<1>3. /\ q \in Nat /\ r \in Nat /\ Arrival(h, g[i]) \in Nat /\ Arrival(h, g[j]) \in Nat
    BY <1>0, <1>1 DEF PartStand
<1>4. Arrival(h, g[i]) < r /\ q # r
    BY <1>1, <1>2, <1>3
<1>5. ~(r < q)
    BY <1>1, <1>4 DEF Returns
<1> QED
    BY <1>3, <1>4, <1>5

-----------------------------------------------------------------------------
(***************************************************************************)
(* The changes of the statute                                              *)
(***************************************************************************)

\* The entries that the default view folds into the one before.
Folds(E, i) == E[i].kind \in {"notes", "structure"}

\* A corpus with its change rows: a history begins with the section's entry.
Kinds(E, g, n) ==
    /\ n # 0 /\ E[1].kind = "initial"
    /\ \A i \in 1..n : i # 1 => /\ i - 1 \in 1..n
                                /\ E[i].kind = KindOfChange(g[i - 1], g[i])
                                /\ E[i].kind = "text" <=> g[i - 1].statute # g[i].statute
                                /\ Folds(E, i) <=> g[i - 1].statute = g[i].statute
    /\ \A i \in 1..n : isStatutoryEntry(E[i]) <=> ~Folds(E, i)
    /\ \A i \in 1..n : isFoldedIntoPrevious(E[i]) <=> Folds(E, i)

LEMMA AnnotatedKinds ==
    ASSUME NEW h \in Seq(Text \cup {Absent}), NEW E, NEW g, NEW n, Partly(h, E, g, n),
           isAnnotated(E)
    PROVE  Kinds(E, g, n)
<1>1. n \in Nat /\ n # 0
    BY DEF Partly, isAnnotated
<1>2. \A i \in 1..n : E[i].kind = IF i = 1 THEN "initial" ELSE KindOfChange(g[i - 1], g[i])
    BY DEF Partly, EntryTells, isAnnotated
<1>3. ASSUME NEW i \in 1..n, i # 1
      PROVE  /\ i - 1 \in 1..n
             /\ E[i].kind = KindOfChange(g[i - 1], g[i])
             /\ E[i].kind = "text" <=> g[i - 1].statute # g[i].statute
             /\ Folds(E, i) <=> g[i - 1].statute = g[i].statute
             /\ E[i].kind \in {"text", "notes", "structure"}
    BY <1>1, <1>2, <1>3 DEF KindOfChange, Folds
<1>4. E[1].kind = "initial"
    BY <1>1, <1>2
<1>5. ASSUME NEW i \in 1..n
      PROVE  /\ isStatutoryEntry(E[i]) <=> ~Folds(E, i)
             /\ isFoldedIntoPrevious(E[i]) <=> Folds(E, i)
    <2>1. E[i].kind \in {"initial", "text", "notes", "structure"}
        BY <1>3, <1>4
    <2> QED
        BY <2>1, TimelineAssumption DEF isStatutoryEntry, isFoldedIntoPrevious, Folds
<1> QED
    BY <1>1, <1>3, <1>4, <1>5 DEF Kinds

\* Folded entries have the statute of the one they are folded into.
FoldsKeep(E, g, n) ==
    \A i \in 1..n : \A k \in i..n :
        (\A j \in i + 1..k : Folds(E, j)) => g[k].statute = g[i].statute

LEMMA FoldedAlike ==
    ASSUME NEW h \in Seq(Text \cup {Absent}), NEW E, NEW g, NEW n, Partly(h, E, g, n),
           isAnnotated(E)
    PROVE  FoldsKeep(E, g, n)
<1> SUFFICES ASSUME NEW i \in 1..n, NEW k \in i..n, \A j \in i + 1..k : Folds(E, j)
             PROVE  g[k].statute = g[i].statute
    BY DEF FoldsKeep
<1> DEFINE odd == {m \in i..k : g[m].statute # g[i].statute}
<1> SUFFICES ASSUME odd # {} PROVE FALSE
    BY i \in Int, k \in i..k
<1>1. n \in Nat /\ odd \in SUBSET Nat
    BY DEF Partly
<1>2. PICK m \in odd : \A x \in odd : m <= x
    <2> HIDE DEF odd
    <2> QED
        BY <1>1, LeastExists
<1>3. m \in i + 1..k /\ m \in 1..n /\ m # 1 /\ m - 1 \in i..k
    BY <1>1, <1>2
<1>4. m - 1 \notin odd
    BY <1>2, <1>3
<1>5. g[m - 1].statute = g[m].statute
    <2>1. Kinds(E, g, n)
        BY AnnotatedKinds
    <2> QED
        BY <1>3, <2>1 DEF Kinds
<1> QED
    BY <1>2, <1>3, <1>4, <1>5

\* The last entry up to `k` that is not folded.
Stops(E, k) == {i \in 1..k : ~Folds(E, i)}

Amends(E, g, n, m, k) ==
    /\ ~Folds(E, m) /\ \A i \in Stops(E, k) : i <= m
    /\ \A j \in m + 1..k : Folds(E, j)
    /\ \A j \in m..k : g[j].statute = g[m].statute
    /\ m # 1 => m - 1 \in 1..n /\ g[m - 1].statute # g[m].statute

LEMMA LastAmendment ==
    ASSUME NEW h \in Seq(Text \cup {Absent}), NEW E, NEW g, NEW n, Partly(h, E, g, n),
           isAnnotated(E), NEW k \in 1..n
    PROVE  /\ Stops(E, k) # {} /\ Stops(E, k) \in SUBSET Nat /\ IsFiniteSet(Stops(E, k))
           /\ \E m \in 1..k : m = Max(Stops(E, k)) /\ Amends(E, g, n, m, k)
<1>9. FoldsKeep(E, g, n)
    BY FoldedAlike
<1> DEFINE stops == Stops(E, k)
           m == Max(stops)
<1>0. Kinds(E, g, n)
    BY AnnotatedKinds
<1>1. n \in Nat /\ n # 0 /\ E[1].kind = "initial" /\ k \in Nat
    BY <1>0 DEF Kinds, Partly
<1>2. 1 \in stops
    BY <1>1 DEF Folds, Stops
<1>3. stops \in SUBSET Nat /\ IsFiniteSet(stops)
    BY <1>1, FS_Interval, FS_Subset DEF Stops
<1>4. m \in stops /\ \A i \in stops : i <= m
    <2> HIDE DEF stops
    <2> QED
        BY <1>1, <1>2, <1>3, AscendingEnds
<1>5. m \in 1..k /\ ~Folds(E, m) /\ m \in 1..n
    BY <1>1, <1>4 DEF Stops
<1> HIDE DEF m
<1>6. \A j \in m + 1..k : Folds(E, j)
    BY <1>4, <1>5 DEF Stops
<1>7. ASSUME NEW j \in m..k PROVE g[j].statute = g[m].statute
    <2>1. j \in m..n /\ \A x \in m + 1..j : Folds(E, x)
        BY <1>1, <1>5, <1>6
    <2> QED
        BY <1>5, <1>9, <2>1 DEF FoldsKeep
<1>8. m # 1 => m - 1 \in 1..n /\ g[m - 1].statute # g[m].statute
    BY <1>0, <1>5 DEF Kinds
<1> QED
    BY <1>2, <1>3, <1>4, <1>5, <1>6, <1>7, <1>8 DEF m, Amends


-----------------------------------------------------------------------------
(***************************************************************************)
(* What to compare with, and a search result's line                        *)
(***************************************************************************)

\* What an answer maps, what its change rows are of, and its versions.
Mapped(answer) == Upto(history, answer.mapped)
Changed(answer) == Upto(history, answer.computed)
Versions(answer) == GroupsOf(Upto(history, answer.upto))

\* What the pages make of the corpus rests on its history and the answer's moments.
LEMMA EntriesTold ==
    ASSUME history \in Seq(Text \cup {Absent}), NEW answer \in Answers
    PROVE  /\ Moments(answer, Len(history))
           /\ \E n \in Nat : /\ Partly(Mapped(answer), entries(answer), Versions(answer), n)
                             /\ PartStand(Mapped(answer), Versions(answer), n)
                             /\ Flags(Changed(answer), entries(answer), Versions(answer), n)
<1>1. Moments(answer, Len(history))
    BY DEF Answers, Moments, Newest
<1>2. Mapped(answer) \in Seq(Text \cup {Absent})
    <2>1. answer.mapped \in 0..Len(history)
        BY <1>1 DEF Moments
    <2> QED
        BY <2>1, Earlier DEF Mapped
<1>3. PICK n \in Nat : /\ Partly(Mapped(answer), entries(answer), Versions(answer), n)
                       /\ Flags(Changed(answer), entries(answer), Versions(answer), n)
    BY <1>1, EntriesTell DEF entries, Mapped, Changed, Versions
<1>4. PartStand(Mapped(answer), Versions(answer), n)
    BY <1>2, <1>3, VersionsPartStand
<1> QED
    BY <1>1, <1>3, <1>4

\* The history up to one of its release points.
LEMMA HistoryUpto ==
    ASSUME history \in Seq(Text \cup {Absent}), NEW r \in 0..Len(history)
    PROVE  LET h == Upto(history, r) IN
           /\ h \in Seq(Text \cup {Absent}) /\ Len(h) = r
           /\ HeldUpto(r) = Published(h)
           /\ Published(h) = {q \in Published(history) : q <= r}
           /\ \A q \in Published(h) : h[q] = history[q]
           /\ Returns(h) <=> Recurs(r)
<1> DEFINE h == Upto(history, r)
<1>1. /\ h \in Seq(Text \cup {Absent}) /\ Len(h) = r
      /\ Published(h) = {q \in Published(history) : q <= r}
      /\ \A q \in 1..r : h[q] = history[q]
    BY Earlier
<1>2. Published(h) \in SUBSET (1..r)
    <2>1. DOMAIN h = 1..r
        BY <1>1
    <2> QED
        BY <2>1 DEF Published
<1>3. HeldUpto(r) = Published(h)
    BY DEF HeldUpto
<1>4. \A q \in Published(h) : h[q] = history[q]
    BY <1>1, <1>2
<1> HIDE DEF h
<1>5. Returns(h) <=> Recurs(r)
    BY <1>3, <1>4 DEF Returns, Recurs
<1> QED
    BY <1>1, <1>3, <1>4, <1>5 DEF h

\* What has another statute, and stood before.
OthersBelow(h, selected) ==
    {q \in Published(h) : q < selected /\ h[q].statute # h[selected].statute}

\* `previousChangedRelease` is the latest release point of the text before the last
\* amendment.
LEMMA ComparisonTells ==
    ASSUME NEW h \in Seq(Text \cup {Absent}), NEW E, NEW g, NEW n, Partly(h, E, g, n),
           isAnnotated(E), NEW selected \in Published(h)
    PROVE  LET previous == previousChangedRelease(E, selected)
               others == OthersBelow(h, selected) IN
           /\ previous # NoRelease =>
                 previous \in Published(h) /\ h[previous].statute # h[selected].statute
           /\ ~Returns(h) => previous = IF others = {} THEN NoRelease ELSE Max(others)
<1> DEFINE previous == previousChangedRelease(E, selected)
           others == OthersBelow(h, selected)
<1>1. Partly(h, E, g, n) /\ PartStand(h, g, n) /\ n \in Nat
    BY VersionsPartStand DEF Partly
<1>2. Kinds(E, g, n) /\ isAnnotated(E)
    BY <1>1, AnnotatedKinds
<1>3. selected \in Published(h)
    OBVIOUS
<1>4. PICK k \in 1..n : g[k] = h[selected]
    BY <1>1, <1>3 DEF Partly
<1>5. {i \in DOMAIN E : selected \in ToSet(E[i].releases)} = {k}
    <2>1. \A i \in 1..n : ToSet(E[i].releases) = Carrying(h, g[i])
        BY <1>1 DEF Partly, EntryTells
    <2>2. \A i \in 1..n : selected \in Carrying(h, g[i]) <=> i = k
        BY <1>1, <1>3, <1>4 DEF PartStand
    <2> QED
        BY <1>1, <2>1, <2>2 DEF Partly
<1>6. Min({k}) = k
    BY MinIs, k \in Nat
<1>7. {i \in 1..k : ~isFoldedIntoPrevious(E[i])} = Stops(E, k)
    BY <1>1, <1>2, <1>4 DEF Kinds, Stops
<1>8. PICK m \in 1..k : m = Max(Stops(E, k)) /\ Amends(E, g, n, m, k)
    BY <1>1, <1>2, <1>4, LastAmendment
<1>9. Stops(E, k) # {}
    BY <1>1, <1>2, <1>4, LastAmendment
<1>10. previous = IF m = 1 THEN NoRelease ELSE EndOf(E[m - 1].releases)
    BY <1>5, <1>6, <1>7, <1>8, <1>9 DEF previousChangedRelease
<1>11. g[k].statute = g[m].statute
    BY <1>8, k \in m..k DEF Amends
<1>12. m # 1 => /\ previous = Latest(h, g[m - 1])
                /\ previous \in Carrying(h, g[m - 1]) /\ h[previous] = g[m - 1]
                /\ previous \in Published(h) /\ previous \in Nat
    <2> SUFFICES ASSUME m # 1
                 PROVE  /\ previous = Latest(h, g[m - 1])
                        /\ previous \in Carrying(h, g[m - 1]) /\ h[previous] = g[m - 1]
                        /\ previous \in Published(h) /\ previous \in Nat
        OBVIOUS
    <2>1. m - 1 \in 1..n
        BY <1>8 DEF Amends
    <2>2. m - 1 < k /\ Carrying(h, g[k]) # {}
        BY <1>1, <1>3, <1>4, <2>1 DEF PartStand
    <2>3. Carrying(h, g[m - 1]) # {}
        BY <1>1, <2>1, <2>2 DEF Partly
    <2>4. previous = Latest(h, g[m - 1])
        <3>1. EntryTells(h, E, g, m - 1)
            BY <1>1, <2>1 DEF Partly
        <3> QED
            BY <1>10, <2>3, <3>1 DEF EntryTells, EndOf
    <2> QED
        BY <1>1, <2>1, <2>3, <2>4 DEF PartStand
<1>13. previous # NoRelease =>
         previous \in Published(h) /\ h[previous].statute # h[selected].statute
    BY <1>4, <1>8, <1>10, <1>11, <1>12 DEF Amends
<1>14. ASSUME ~Returns(h) PROVE previous = IF others = {} THEN NoRelease ELSE Max(others)
    <2>1. ~Returns(h)
        BY <1>14
    <2> USE DEF OthersBelow
    <2>2. ASSUME NEW q \in others PROVE m # 1 /\ q <= previous
        <3>1. q \in Published(h) /\ q < selected /\ q \in Nat /\ selected \in Nat
            BY <1>1, <1>3 DEF PartStand
        <3>2. PICK i \in 1..n : g[i] = h[q]
            BY <1>1, <3>1 DEF Partly
        <3>3. q \in Carrying(h, g[i]) /\ selected \in Carrying(h, g[k])
            BY <1>1, <1>3, <1>4, <3>1, <3>2 DEF PartStand
        <3>4. i # k
            BY <1>4, <3>2
        <3>5. ~(k < i)
            BY <1>1, <2>1, <3>1, <3>3, VersionsFollow
        <3>6. ~(i \in m..k)
            BY <1>4, <1>8, <1>11, <3>2 DEF Amends
        <3>7. i < m /\ m # 1 /\ i <= m - 1
            BY <1>8, <3>5, <3>6
        <3>8. q <= previous
            <4>1. CASE i = m - 1
                BY <1>1, <1>12, <3>3, <3>7, <4>1 DEF PartStand
            <4>2. CASE i < m - 1
                <5>1. m - 1 \in 1..n
                    BY <1>8, <3>7 DEF Amends
                <5>2. q < previous
                    BY <1>1, <1>12, <2>1, <3>3, <3>7, <4>2, <5>1, VersionsFollow
                <5> QED
                    BY <1>12, <3>1, <3>7, <5>2
            <4> QED
                BY <3>7, <4>1, <4>2
        <3> QED
            BY <3>7, <3>8
    <2>3. CASE m = 1
        <3>1. others = {}
            BY <2>2, <2>3
        <3> QED
            BY <1>10, <2>3, <3>1
    <2>4. CASE m # 1
        <3>1. m - 1 \in 1..n /\ m - 1 < k
            BY <1>8, <2>4 DEF Amends
        <3>2. selected \in Carrying(h, g[k])
            BY <1>1, <1>3, <1>4 DEF PartStand
        <3>3. previous < selected
            BY <1>1, <1>12, <2>1, <2>4, <3>1, <3>2, VersionsFollow
        <3>4. previous \in others
            BY <1>12, <1>13, <2>4, <3>3, TimelineAssumption
        <3>5. others \in SUBSET Nat
            BY <1>1 DEF PartStand
        <3>6. Max(others) = previous
            <4> HIDE DEF others
            <4>1. Max(others) \in others /\ \A q \in others : q <= Max(others)
                BY <1>12, <2>2, <2>4, <3>4, <3>5, MaxIs
            <4>2. /\ Max(others) <= previous /\ previous <= Max(others)
                  /\ Max(others) \in Nat /\ previous \in Nat
                BY <2>2, <3>4, <3>5, <4>1
            <4> HIDE DEF previous
            <4> QED
                BY <4>2
        <3> QED
            BY <3>4, <3>6
    <2> QED
        BY <2>3, <2>4
<1> QED
    BY <1>13, <1>14

LEMMA ComparisonSound ==
    ASSUME history \in Seq(Text \cup {Absent}), NEW answer \in Answers,
           isAnnotated(entries(answer)), NEW selected \in HeldUpto(answer.mapped)
    PROVE  ComparisonIsSound(selected, answer)
<1> DEFINE h == Mapped(answer)
           E == entries(answer)
           g == Versions(answer)
           previous == previousChangedRelease(E, selected)
<1>1. PICK n \in Nat : Partly(h, E, g, n)
    BY EntriesTold
<1>2. answer.mapped \in 0..Len(history)
    BY EntriesTold DEF Moments
<1>3. /\ h \in Seq(Text \cup {Absent})
      /\ HeldUpto(answer.mapped) = Published(h)
      /\ Published(h) = {q \in Published(history) : q <= answer.mapped}
      /\ \A q \in Published(h) : h[q] = history[q]
      /\ Returns(h) <=> Recurs(answer.mapped)
    BY <1>2, HistoryUpto DEF Mapped
<1> DEFINE others == OthersBelow(h, selected)
<1> HIDE DEF h, E, g
<1>4. isAnnotated(E) /\ selected \in Published(h)
    BY <1>3 DEF E
<1>5. /\ previous # NoRelease =>
            previous \in Published(h) /\ h[previous].statute # h[selected].statute
      /\ ~Returns(h) => previous = IF others = {} THEN NoRelease ELSE Max(others)
    <2>1. h \in Seq(Text \cup {Absent})
        BY <1>3
    <2> QED
        BY <1>1, <1>4, <2>1, ComparisonTells
<1>6. others = {q \in Published(history) : q < selected /\ history[q].statute # history[selected].statute}
    <2>1. \A q \in Published(history) : q \in Nat
        BY DEF Published
    <2>2. \A q \in Published(history) : q < selected => q \in Published(h)
        BY <1>2, <1>3, <1>4, <2>1
    <2>3. Published(h) \in SUBSET Published(history)
        BY <1>3
    <2> QED
        BY <1>3, <1>4, <2>2, <2>3 DEF OthersBelow
<1> HIDE DEF previous, others
<1>7. ~Recurs(answer.mapped) => previous = LastOther(selected)
    BY <1>3, <1>5, <1>6 DEF LastOther
<1>8. previous # NoRelease => history[previous].statute # history[selected].statute
    BY <1>3, <1>4, <1>5
<1> QED
    BY <1>7, <1>8 DEF ComparisonIsSound, E, previous

\* An answer of one moment has a release point of each version.
LEMMA WholeAnswer ==
    ASSUME history \in Seq(Text \cup {Absent}), NEW answer \in Answers, answer.mapped = answer.upto
    PROVE  \E n \in Nat : /\ Tells(Mapped(answer), entries(answer), Versions(answer), n)
                          /\ Stand(Mapped(answer), Versions(answer), n)
<1> DEFINE h == Mapped(answer)
           E == entries(answer)
           g == Versions(answer)
<1>1. PICK n \in Nat : Partly(h, E, g, n)
    BY EntriesTold
<1>2. answer.mapped \in 0..Len(history)
    BY EntriesTold DEF Moments
<1>3. h \in Seq(Text \cup {Absent}) /\ g = GroupsOf(h)
    BY <1>2, HistoryUpto DEF Mapped, Versions
<1> HIDE DEF h, E, g
<1>4. PICK k \in Nat : g \in [1..k -> {h[r] : r \in Published(h)}]
    BY <1>3, GroupsAre
<1>5. DOMAIN g = 1..n /\ DOMAIN g = 1..k
    BY <1>1, <1>4 DEF Partly
<1>6. ASSUME NEW i \in 1..n PROVE Carrying(h, g[i]) # {}
    <2>1. PICK r \in Published(h) : g[i] = h[r]
        BY <1>4, <1>5
    <2> QED
        BY <2>1 DEF Carrying
<1>7. Tells(h, E, g, n)
    BY <1>1, <1>6, WholeTells
<1>8. Stand(h, g, n)
    BY <1>3, <1>7, VersionsStand
<1> QED
    BY <1>7, <1>8 DEF h, E, g

\* A search result's line is about the last amendment before its version.
LEMMA NoteSound ==
    ASSUME history \in Seq(Text \cup {Absent}), NEW answer \in Answers,
           answer.mapped = answer.upto, isAnnotated(entries(answer)), ~Recurs(answer.mapped),
           NEW i \in DOMAIN entries(answer)
    PROVE  NoteIsSound(i, answer)
<1> DEFINE h == Mapped(answer)
           g == Versions(answer)
           E == entries(answer)
           note == resultChangeNote(E, i)
<1>1. PICK n \in Nat : Tells(h, E, g, n) /\ Partly(h, E, g, n) /\ Stand(h, g, n)
    BY WholeAnswer DEF Tells
<1>14. answer.mapped \in 0..Len(history)
    BY EntriesTold DEF Moments
<1>15. /\ h \in Seq(Text \cup {Absent}) /\ HeldUpto(answer.mapped) = Published(h)
       /\ \A q \in Published(h) : h[q] = history[q]
       /\ Returns(h) <=> Recurs(answer.mapped)
    BY <1>14, HistoryUpto DEF Mapped
<1> HIDE DEF h
<1>2. Kinds(E, g, n) /\ isAnnotated(E) /\ ~Returns(h)
    BY <1>1, <1>15, AnnotatedKinds
<1>3. i \in 1..n
    BY <1>1 DEF Partly
<1> HIDE DEF g, E
<1>4. PICK m \in 1..i : m = Max(Stops(E, i)) /\ Amends(E, g, n, m, i)
    BY <1>1, <1>2, <1>3, <1>15, LastAmendment
<1>5. \A j \in 1..n : /\ Head(E[j].releases) = Arrival(h, g[j])
                      /\ Last(E[j].releases) = Latest(h, g[j])
                      /\ E[j].text = g[j] /\ Arrival(h, g[j]) \in Nat
    BY <1>1 DEF Tells, Partly, EntryTells, Stand
<1>6. m \in 1..n /\ m \in Stops(E, i)
    BY <1>3, <1>4 DEF Stops, Amends
<1> DEFINE arrivals == {Head(E[j].releases) : j \in {k \in 1..i : isStatutoryEntry(E[k])}}
<1>7. arrivals = {Arrival(h, g[j]) : j \in Stops(E, i)}
    <2>1. \A j \in 1..i : j \in 1..n
        BY <1>3
    <2>2. {k \in 1..i : isStatutoryEntry(E[k])} = Stops(E, i)
        BY <1>2, <2>1 DEF Kinds, Stops
    <2>3. \A j \in Stops(E, i) : Head(E[j].releases) = Arrival(h, g[j])
        BY <1>5, <2>1 DEF Stops
    <2> QED
        BY <2>2, <2>3
<1>8. Max(arrivals) = Arrival(h, g[m])
    <2>1. Arrival(h, g[m]) \in arrivals
        BY <1>6, <1>7
    <2>2. ASSUME NEW a \in arrivals PROVE a <= Arrival(h, g[m]) /\ a \in Nat
        <3>1. PICK j \in Stops(E, i) : a = Arrival(h, g[j])
            BY <1>7
        <3>2. j \in 1..n /\ j <= m
            BY <1>3, <1>4, <3>1 DEF Stops, Amends
        <3>3. j < m => Arrival(h, g[j]) < Arrival(h, g[m])
            BY <1>1, <1>6, <3>2 DEF Tells, Partly
        <3> QED
            BY <1>5, <1>6, <3>1, <3>2, <3>3
    <2> HIDE DEF arrivals
    <2>3. Max(arrivals) \in arrivals /\ \A a \in arrivals : a <= Max(arrivals)
        BY <1>5, <1>6, <2>1, <2>2, MaxIs
    <2>4. /\ Max(arrivals) <= Arrival(h, g[m]) /\ Arrival(h, g[m]) <= Max(arrivals)
          /\ Max(arrivals) \in Nat /\ Arrival(h, g[m]) \in Nat
        BY <2>1, <2>2, <2>3
    <2> QED
        BY <2>4
<1>9. E[i].kind # NoKind
    BY <1>1, <1>2, <1>3 DEF isAnnotated, Partly
<1>10. /\ note.since = Arrival(h, g[m])
       /\ note.later # NoKind => Arrival(h, g[i]) # Arrival(h, g[m])
    BY <1>3, <1>5, <1>8, <1>9 DEF resultChangeNote, changePoints
<1> DEFINE until == Last(E[i].releases)
<1>11. until = Latest(h, g[i]) /\ until \in Nat /\ note.since \in Nat
    BY <1>1, <1>3, <1>5, <1>6, <1>10 DEF Stand
<1> HIDE DEF note, until
<1>12. ASSUME NEW r \in Published(h) \cap note.since..until PROVE h[r].statute = E[i].text.statute
    <2>1. r \in Published(h) /\ r \in Nat /\ note.since <= r /\ r <= until
        BY <1>1, <1>11 DEF Stand
    <2>2. PICK x \in 1..n : g[x] = h[r]
        BY <1>1, <2>1 DEF Partly
    <2>3. r \in Carrying(h, g[x])
        BY <1>1, <2>1, <2>2 DEF Stand
    <2>4. ~(x < m)
        <3>1. Arrival(h, g[m]) \in Carrying(h, g[m])
            BY <1>1, <1>6 DEF Stand
        <3>2. x < m => r < Arrival(h, g[m])
            BY <1>1, <1>2, <1>6, <2>3, <3>1, <1>15, VersionsFollow
        <3> QED
            BY <1>10, <1>11, <2>1, <3>2
    <2>5. ~(i < x)
        <3>1. Latest(h, g[i]) \in Carrying(h, g[i])
            BY <1>1, <1>3 DEF Stand
        <3>2. i < x => Latest(h, g[i]) < r
            BY <1>1, <1>2, <1>3, <2>3, <3>1, <1>15, VersionsFollow
        <3> QED
            BY <1>11, <2>1, <3>2
    <2>6. x \in m..i /\ i \in m..i
        BY <1>3, <1>6, <2>4, <2>5
    <2> QED
        BY <1>3, <1>4, <1>5, <2>2, <2>6 DEF Amends
<1>13. ASSUME note.later # NoKind PROVE \E r \in Published(h) \cap note.since..until : h[r] # E[i].text
    <2>1. m # i
        BY <1>10, <1>13
    <2>2. m < i
        BY <1>3, <1>4, <2>1
    <2>3. note.since \in Carrying(h, g[m]) /\ until \in Carrying(h, g[i])
        BY <1>1, <1>3, <1>6, <1>10, <1>11 DEF Stand
    <2>4. note.since < until
        BY <1>1, <1>2, <1>3, <1>6, <2>2, <2>3, <1>15, VersionsFollow
    <2>5. note.since \in Published(h) /\ h[note.since] = g[m]
        BY <1>1, <1>6, <2>3 DEF Stand
    <2>6. g[m] # g[i]
        BY <1>1, <1>3, <1>6, <2>1 DEF Stand
    <2>7. E[i].text = g[i] /\ note.since \in note.since..until
        BY <1>3, <1>5, <1>11, <2>4
    <2> QED
        BY <2>5, <2>6, <2>7
<1>16. until = EndOf(E[i].releases)
    BY <1>1, <1>3 DEF Tells, Partly, EntryTells, EndOf, until
<1> QED
    BY <1>12, <1>13, <1>15, <1>16 DEF NoteIsSound, E, note

-----------------------------------------------------------------------------
(***************************************************************************)
(* Sequences put together                                                  *)
(***************************************************************************)

\* What `FlattenSeq` builds, up to its `k`th part.
Builds(f, parts, k) == f = [i \in 1..k |-> IF i = 1 THEN parts[i] ELSE f[i - 1] \o parts[i]]

LEMMA BuildsExists ==
    ASSUME NEW parts, NEW m \in Nat \ {0}
    PROVE  \E f : Builds(f, parts, m)
<1> DEFINE bad == {k \in 1..m : ~\E f : Builds(f, parts, k)}
<1> SUFFICES ASSUME bad # {} PROVE FALSE
    BY m \in 1..m
<1>1. bad \in SUBSET Nat
    OBVIOUS
<1>2. PICK k \in bad : \A x \in bad : k <= x
    <2> HIDE DEF bad
    <2> QED
        BY <1>1, LeastExists
<1>3. CASE k = 1
    <2> DEFINE f == [i \in 1..1 |-> parts[1]]
    <2>1. Builds(f, parts, 1)
        BY DEF Builds
    <2> HIDE DEF f
    <2> QED
        BY <1>2, <1>3, <2>1
<1>4. CASE k # 1
    <2>1. k - 1 \in 1..m /\ k \in 1..m
        BY <1>2, <1>4
    <2>0. k - 1 \notin bad
        <3> HIDE DEF bad
        <3> QED
            BY <1>2, <2>1
    <2>2. PICK e : Builds(e, parts, k - 1)
        BY <2>0, <2>1
    <2> DEFINE f == [i \in 1..k |-> IF i = k THEN e[k - 1] \o parts[k] ELSE e[i]]
    <2>3. ASSUME NEW i \in 1..k
          PROVE  f[i] = IF i = 1 THEN parts[i] ELSE f[i - 1] \o parts[i]
        <3>1. CASE i = k
            <4>0. k \in 1..k
                BY <2>1
            <4>1. f[k] = e[k - 1] \o parts[k]
                BY <4>0, Zenon
            <4>2. k - 1 \in 1..k /\ k - 1 # k
                BY <2>1
            <4>3. f[k - 1] = e[k - 1]
                BY <4>2
            <4> HIDE DEF f
            <4> QED
                BY <1>4, <3>1, <4>1, <4>3
        <3>2. CASE i # k
            <4>1. i \in 1..k - 1 /\ f[i] = e[i]
                BY <2>1, <3>2
            <4>2. e[i] = IF i = 1 THEN parts[i] ELSE e[i - 1] \o parts[i]
                BY <2>2, <4>1 DEF Builds
            <4>3. i # 1 => i - 1 \in 1..k /\ i - 1 # k
                BY <2>1
            <4> QED
                BY <4>1, <4>2, <4>3
        <3> QED
            BY <3>1, <3>2
    <2>4. DOMAIN f = 1..k /\ f = [i \in 1..k |-> f[i]]
        OBVIOUS
    <2>5. Builds(f, parts, k)
        <3> HIDE DEF f
        <3> QED
            BY <2>3, <2>4 DEF Builds
    <2> HIDE DEF f
    <2> QED
        BY <1>2, <2>5
<1> QED
    BY <1>3, <1>4

LEMMA ConcatSet ==
    ASSUME NEW X, NEW a \in Seq(X), NEW b \in Seq(X)
    PROVE  a \o b \in Seq(X) /\ ToSet(a \o b) = ToSet(a) \cup ToSet(b)
<1>1. a \o b \in Seq(X) /\ Len(a \o b) = Len(a) + Len(b)
    OBVIOUS
<1>2. /\ \A i \in 1..Len(a) : (a \o b)[i] = a[i] /\ i \in 1..Len(a \o b)
      /\ \A i \in 1..Len(b) : (a \o b)[Len(a) + i] = b[i] /\ Len(a) + i \in 1..Len(a \o b)
    OBVIOUS
<1>3. \A i \in 1..Len(a \o b) : \/ i \in 1..Len(a) /\ (a \o b)[i] = a[i]
                                \/ i - Len(a) \in 1..Len(b) /\ (a \o b)[i] = b[i - Len(a)]
    OBVIOUS
<1>4. DOMAIN a = 1..Len(a) /\ DOMAIN b = 1..Len(b) /\ DOMAIN (a \o b) = 1..Len(a \o b)
    BY <1>1
<1> DEFINE c == a \o b
<1> HIDE DEF c
<1>5. ToSet(c) \subseteq ToSet(a) \cup ToSet(b)
    BY <1>3, <1>4 DEF ToSet, c
<1>6. ToSet(a) \subseteq ToSet(c) /\ ToSet(b) \subseteq ToSet(c)
    BY <1>2, <1>4 DEF ToSet, c
<1> QED
    BY <1>1, <1>5, <1>6 DEF c

\* The members of sequences put together are the members of each.
LEMMA FlattenIs ==
    ASSUME NEW m \in Nat \ {0}, NEW parts \in [1..m -> Seq(Nat)]
    PROVE  /\ FlattenSeq(parts) \in Seq(Nat)
           /\ ToSet(FlattenSeq(parts)) = UNION {ToSet(parts[k]) : k \in 1..m}
<1> DEFINE f == CHOOSE f : Builds(f, parts, m)
<1>1. Len(parts) = m
    OBVIOUS
<1>2. FlattenSeq(parts) = f[m]
    BY <1>1 DEF FlattenSeq, Builds
<1>3. Builds(f, parts, m)
    BY BuildsExists
<1> HIDE DEF f
<1> DEFINE Good(k) == /\ f[k] \in Seq(Nat)
                      /\ ToSet(f[k]) = UNION {ToSet(parts[j]) : j \in 1..k}
           bad == {k \in 1..m : ~Good(k)}
<1>4. bad = {}
    <2> SUFFICES ASSUME bad # {} PROVE FALSE
        OBVIOUS
    <2>1. bad \in SUBSET Nat
        OBVIOUS
    <2>2. PICK k \in bad : \A x \in bad : k <= x
        <3> HIDE DEF bad
        <3> QED
            BY <2>1, LeastExists
    <2>3. k \in 1..m /\ parts[k] \in Seq(Nat)
        BY <2>2
    <2>4. f[k] = IF k = 1 THEN parts[k] ELSE f[k - 1] \o parts[k]
        BY <1>3, <2>3 DEF Builds
    <2>5. CASE k = 1
        <3>1. {ToSet(parts[j]) : j \in 1..1} = {ToSet(parts[1])}
            OBVIOUS
        <3> QED
            BY <2>2, <2>3, <2>4, <2>5, <3>1
    <2>6. CASE k # 1
        <3>1. k - 1 \in 1..m
            BY <2>3, <2>6
        <3>0. k - 1 \notin bad
            <4> HIDE DEF bad
            <4> QED
                BY <2>2, <2>3, <3>1
        <3>2. Good(k - 1)
            <4> HIDE DEF Good
            <4> QED
                BY <3>0, <3>1
        <3>3. f[k] \in Seq(Nat) /\ ToSet(f[k]) = ToSet(f[k - 1]) \cup ToSet(parts[k])
            BY <2>3, <2>4, <2>6, <3>2, ConcatSet
        <3>4. 1..k = (1..k - 1) \cup {k}
            BY <2>3
        <3>5. UNION {ToSet(parts[j]) : j \in 1..k}
                = (UNION {ToSet(parts[j]) : j \in 1..k - 1}) \cup ToSet(parts[k])
            BY <3>4
        <3>6. Good(k)
            BY <3>2, <3>3, <3>5
        <3> QED
            BY <2>2, <3>6
    <2> QED
        BY <2>5, <2>6
<1> QED
    BY <1>2, <1>4, m \in 1..m


-----------------------------------------------------------------------------
(***************************************************************************)
(* The rows of the history page                                            *)
(***************************************************************************)

\* What is folded into an entry follows it without a gap.
LEMMA FoldedIs ==
    ASSUME NEW n \in Nat, NEW shown, DOMAIN shown = 1..n, NEW i \in 1..n
    PROVE  \E e \in i..n : /\ Folded(shown, i) = i..e
                           /\ \A k \in i + 1..e : ~shown[k]
                           /\ Cardinality(Folded(shown, i)) = e - i + 1
<1> DEFINE next == {k \in i + 1..n : shown[k]}
<1>1. next \in SUBSET Nat
    OBVIOUS
<1>2. \E e \in i..n : Folded(shown, i) = i..e /\ \A k \in i + 1..e : ~shown[k]
    <2>1. CASE next = {}
        <3>1. \A k \in i + 1..n : ~shown[k]
            BY <2>1
        <3>2. Folded(shown, i) = i..n
            BY <3>1 DEF Folded
        <3> QED
            BY <3>1, <3>2
    <2>2. CASE next # {}
        <3>1. PICK m \in next : \A k \in next : m <= k
            <4> HIDE DEF next
            <4> QED
                BY <1>1, <2>2, LeastExists
        <3>2. m \in i + 1..n /\ shown[m] /\ \A k \in i + 1..m - 1 : ~shown[k]
            BY <3>1
        <3>3. Folded(shown, i) = i..m - 1
            BY <3>2 DEF Folded
        <3> QED
            BY <3>2, <3>3
    <2> QED
        BY <2>1, <2>2
<1>3. PICK e \in i..n : Folded(shown, i) = i..e /\ \A k \in i + 1..e : ~shown[k]
    BY <1>2
<1>4. Cardinality(i..e) = e - i + 1
    BY FS_Interval
<1> QED
    BY <1>3, <1>4

\* A sorted run has the release points of the run, and is in their order when it
\* is known.
SortedRun(s, run, m) ==
    /\ ToSet(s) = ToSet(run)
    /\ ToSet(run) \subseteq 1..m => \A j, k \in DOMAIN s : j < k => s[j] < s[k]

LEMMA SortIs ==
    ASSUME NEW run \in Seq(Nat), NEW m \in Nat
    PROVE  SortedRun(sortReleases(run, releaseOrder(1..m)), run, m)
<1> DEFINE place == releaseOrder(1..m)
           S == ToSet(run)
           s == sortReleases(run, place)
<1>1. DOMAIN place = 1..m /\ \A label \in 1..m : place[label] = label
    BY DEF releaseOrder
<1> HIDE DEF place
<1>2. (\A i \in DOMAIN run : run[i] \in DOMAIN place) <=> S \subseteq 1..m
    BY <1>1 DEF ToSet
<1>3. s = IF S \subseteq 1..m THEN InOrder(S, place) ELSE run
    BY <1>2 DEF sortReleases
<1>4. ASSUME ~(S \subseteq 1..m) PROVE SortedRun(s, run, m)
    <2> HIDE DEF S
    <2>1. s = run
        BY <1>3, <1>4
    <2> HIDE DEF s
    <2> QED
        BY <1>4, <2>1 DEF SortedRun, S
<1>5. ASSUME S \subseteq 1..m PROVE SortedRun(s, run, m)
    <2> HIDE DEF S
    <2>1. IsFiniteSet(S)
        BY <1>5, FS_Interval, FS_Subset, 1 \in Int, m \in Int
    <2>2. \A x \in S : place[x] \in Nat /\ place[x] = x
        BY <1>1, <1>5
    <2>3. Lists(InOrder(S, place), S, place) /\ Cardinality(S) \in Nat
        BY <2>1, <2>2, InOrderLists
    <2>4. Lists(s, S, place)
        BY <1>3, <1>5, <2>3
    <2> HIDE DEF s
    <2>5. ToSet(s) = S
        BY <2>4 DEF Lists, ToSet
    <2>6. ASSUME NEW j \in DOMAIN s, NEW k \in DOMAIN s, j < k PROVE s[j] < s[k]
        <3>1. j \in 1..Cardinality(S) /\ k \in 1..Cardinality(S) /\ s[j] \in S /\ s[k] \in S
            BY <2>4 DEF Lists
        <3>2. place[s[j]] < place[s[k]]
            BY <2>4, <2>6, <3>1 DEF Lists
        <3> QED
            BY <2>2, <3>1, <3>2
    <2> QED
        BY <2>5, <2>6 DEF SortedRun, S
<1> QED
    BY <1>4, <1>5 DEF place

\* A row's run: the entry, and what is folded into it.
ShownOf(E) == [i \in DOMAIN E |-> ~isAnnotated(E) \/ isStatutoryEntry(E[i])]

RunOf(E, i) == IF ShownOf(E)[i] THEN Folded(ShownOf(E), i) ELSE {i}

RunReleases(E, i) ==
    IF ShownOf(E)[i]
    THEN FlattenSeq([k \in 1..Cardinality(Folded(ShownOf(E), i)) |-> E[i + k - 1].releases])
    ELSE E[i].releases

RunTells(h, E, g, i) ==
    /\ RunReleases(E, i) \in Seq(Nat)
    /\ ToSet(RunReleases(E, i)) = UNION {Carrying(h, g[j]) : j \in RunOf(E, i)}

FromOf(E, i) == IF i = 1 THEN NoRelease ELSE EndOf(E[i - 1].releases)

RowTells(h, E, g, i, row, m) ==
    LET from == FromOf(E, i)
        start == StartOf(E[i].releases)
        offered == isForward(from, start, E[i], releaseOrder(1..m)) IN
    /\ row.statutory = ShownOf(E)[i]
    /\ row.start = start
    /\ ToSet(row.effectiveReleases) = UNION {Carrying(h, g[j]) : j \in RunOf(E, i)}
    /\ ToSet(row.effectiveReleases) \subseteq 1..m =>
          \A j, k \in DOMAIN row.effectiveReleases :
             j < k => row.effectiveReleases[j] < row.effectiveReleases[k]
    /\ row.from = IF offered THEN from ELSE NoRelease
    /\ row.withheld = (i > 1 /\ ~offered)

\* The release points of a run are those of its entries, once sorted too.
LEMMA RunsTell ==
    ASSUME NEW h, NEW E, NEW g, NEW n, Partly(h, E, g, n), NEW i \in 1..n
    PROVE  RunTells(h, E, g, i)
<1> DEFINE shown == ShownOf(E)
<1>1. n \in Nat /\ DOMAIN shown = 1..n
    BY DEF Partly, ShownOf
<1>2. \A j \in 1..n : E[j].releases \in Seq(Nat) /\ ToSet(E[j].releases) = Carrying(h, g[j])
    BY DEF Partly, EntryTells
<1> HIDE DEF shown
<1>3. CASE shown[i]
    <2>1. PICK e \in i..n : Folded(shown, i) = i..e /\ Cardinality(Folded(shown, i)) = e - i + 1
        BY <1>1, FoldedIs
    <2> DEFINE m == e - i + 1
               parts == [k \in 1..m |-> E[i + k - 1].releases]
    <2>2. m \in Nat \ {0} /\ \A k \in 1..m : i + k - 1 \in 1..n
        BY <1>1
    <2>3. parts \in [1..m -> Seq(Nat)]
        BY <1>2, <2>2
    <2>4. FlattenSeq(parts) \in Seq(Nat)
        <3> HIDE DEF m, parts
        <3> QED
            BY <2>2, <2>3, FlattenIs
    <2>5. ToSet(FlattenSeq(parts)) = UNION {ToSet(parts[k]) : k \in 1..m}
        <3> HIDE DEF m, parts
        <3> QED
            BY <2>2, <2>3, FlattenIs
    <2>6. {ToSet(parts[k]) : k \in 1..m} = {Carrying(h, g[j]) : j \in i..e}
        <3>1. \A k \in 1..m : i + k - 1 \in i..e /\ ToSet(parts[k]) = Carrying(h, g[i + k - 1])
            BY <1>2, <2>2
        <3>2. ASSUME NEW j \in i..e PROVE \E k \in 1..m : Carrying(h, g[j]) = ToSet(parts[k])
            <4>1. j - i + 1 \in 1..m /\ i + (j - i + 1) - 1 = j
                BY <1>1
            <4>2. ToSet(parts[j - i + 1]) = Carrying(h, g[j])
                <5> HIDE DEF parts, m
                <5> QED
                    BY <3>1, <4>1
            <4> QED
                BY <4>1, <4>2
        <3> HIDE DEF parts, m
        <3> QED
            BY <3>1, <3>2
    <2>7. RunOf(E, i) = i..e
        BY <1>3, <2>1 DEF RunOf, shown
    <2>8. parts = [k \in 1..Cardinality(Folded(shown, i)) |-> E[i + k - 1].releases]
        BY <2>1
    <2> HIDE DEF parts
    <2> QED
        BY <1>3, <2>4, <2>5, <2>6, <2>7, <2>8 DEF shown, RunTells, RunReleases
<1>4. CASE ~shown[i]
    <2>1. RunOf(E, i) = {i} /\ {Carrying(h, g[j]) : j \in {i}} = {Carrying(h, g[i])}
        BY <1>4 DEF RunOf, shown
    <2> QED
        BY <1>2, <1>4, <2>1 DEF shown, RunTells, RunReleases
<1> QED
    BY <1>3, <1>4

LEMMA RowsTell ==
    ASSUME NEW h, NEW E, NEW g, NEW n, Partly(h, E, g, n), NEW m \in Nat
    PROVE  LET rows == timelineRows(E, releaseOrder(1..m)) IN
           /\ DOMAIN rows = 1..n
           /\ \A i \in 1..n : RowTells(h, E, g, i, rows[i], m)
<1> DEFINE shown == ShownOf(E)
           rows == timelineRows(E, releaseOrder(1..m))
           Run(i) == RunReleases(E, i)
           From(i) == FromOf(E, i)
           Start(i) == StartOf(E[i].releases)
           Offered(i) == isForward(From(i), Start(i), E[i], releaseOrder(1..m))
           Row(i) == [statutory |-> shown[i], start |-> Start(i), releases |-> E[i].releases,
                      effectiveReleases |-> sortReleases(Run(i), releaseOrder(1..m)),
                      from |-> IF Offered(i) THEN From(i) ELSE NoRelease,
                      withheld |-> i > 1 /\ ~Offered(i)]
<1>1. n \in Nat /\ DOMAIN E = 1..n
    BY DEF Partly
<1>2. rows = [i \in DOMAIN E |-> Row(i)]
    BY DEF timelineRows, RunReleases, ShownOf, FromOf
<1>3. ASSUME NEW i \in 1..n PROVE RowTells(h, E, g, i, rows[i], m)
    <2>1. rows[i] = Row(i)
        <3> HIDE DEF rows, Row
        <3> QED
            BY <1>1, <1>2
    <2>2. Run(i) \in Seq(Nat) /\ ToSet(Run(i)) = UNION {Carrying(h, g[j]) : j \in RunOf(E, i)}
        BY RunsTell DEF RunTells
    <2>5. SortedRun(sortReleases(Run(i), releaseOrder(1..m)), Run(i), m)
        <3> HIDE DEF Run
        <3> QED
            BY <2>2, SortIs
    <2>7. /\ rows[i].statutory = shown[i] /\ rows[i].start = Start(i)
          /\ rows[i].effectiveReleases = sortReleases(Run(i), releaseOrder(1..m))
          /\ rows[i].from = (IF Offered(i) THEN From(i) ELSE NoRelease)
          /\ rows[i].withheld = (i > 1 /\ ~Offered(i))
        <3> HIDE DEF rows, Run, From, Start, Offered, shown
        <3> QED
            BY <2>1
    <2> HIDE DEF rows, Run, Row
    <2> QED
        BY <2>2, <2>5, <2>7 DEF RowTells, SortedRun
<1>4. DOMAIN rows = 1..n
    <2> HIDE DEF Row, rows
    <2> QED
        BY <1>1, <1>2
<1> QED
    BY <1>3, <1>4

\* The entries that the default view shows.
Shows(E, g, n) ==
    /\ n # 0 => ShownOf(E)[1]
    /\ \A i \in 1..n : ShownOf(E)[i] \in BOOLEAN
    /\ isAnnotated(E) => \A i \in 1..n : ShownOf(E)[i] <=> ~Folds(E, i)

LEMMA EntriesShow ==
    ASSUME NEW h \in Seq(Text \cup {Absent}), NEW E, NEW g, NEW n, Partly(h, E, g, n)
    PROVE  Shows(E, g, n)
<1>1. n \in Nat /\ DOMAIN E = 1..n
    BY DEF Partly
<1>2. \A i \in 1..n : ShownOf(E)[i] = (~isAnnotated(E) \/ isStatutoryEntry(E[i]))
    BY <1>1 DEF ShownOf
<1>3. isAnnotated(E) => Kinds(E, g, n)
    BY AnnotatedKinds
<1>4. \A i \in 1..n : ShownOf(E)[i] \in BOOLEAN
    BY <1>2 DEF isStatutoryEntry
<1>5. isAnnotated(E) => \A i \in 1..n : ShownOf(E)[i] <=> ~Folds(E, i)
    BY <1>2, <1>3 DEF Kinds
<1>6. n # 0 => ShownOf(E)[1]
    <2>1. n # 0 => 1 \in 1..n
        BY <1>1
    <2>2. isAnnotated(E) => isStatutoryEntry(E[1])
        BY <1>3 DEF Kinds, isStatutoryEntry
    <2> QED
        BY <1>2, <2>1, <2>2
<1> QED
    BY <1>4, <1>5, <1>6 DEF Shows

\* A release point is in the run of one row of the default view.
LEMMA OneRun ==
    ASSUME NEW h \in Seq(Text \cup {Absent}), NEW E, NEW g, NEW n, Partly(h, E, g, n),
           NEW r \in Published(h)
    PROVE  \E only \in 1..n :
              /\ ShownOf(E)[only]
              /\ \A i \in 1..n : ShownOf(E)[i] =>
                    (r \in UNION {Carrying(h, g[j]) : j \in RunOf(E, i)} <=> i = only)
<1> DEFINE shown == ShownOf(E)
<1>1. n \in Nat /\ DOMAIN shown = 1..n
    BY DEF Partly, ShownOf
<1>2. PartStand(h, g, n) /\ Shows(E, g, n)
    BY VersionsPartStand, EntriesShow
<1>3. PICK x \in 1..n : g[x] = h[r]
    BY DEF Partly
<1>4. \A j \in 1..n : r \in Carrying(h, g[j]) <=> j = x
    BY <1>2, <1>3 DEF PartStand
<1> DEFINE upto == {i \in 1..x : shown[i]}
<1>5. 1 \in upto /\ upto \in SUBSET Nat
    BY <1>1, <1>2 DEF Shows
<1> DEFINE only == Max(upto)
<1>6. only \in upto /\ \A i \in upto : i <= only
    <2>1. upto # {} /\ x \in Nat /\ \A i \in upto : i <= x
        BY <1>5
    <2> HIDE DEF upto
    <2> QED
        BY <1>5, <2>1, MaxIs
<1> HIDE DEF only
<1>7. only \in 1..x /\ shown[only] /\ only \in 1..n
    BY <1>1, <1>6
<1>8. ASSUME NEW i \in 1..n, shown[i]
      PROVE  r \in UNION {Carrying(h, g[j]) : j \in RunOf(E, i)} <=> i = only
    <2>1. PICK e \in i..n : Folded(shown, i) = i..e /\ \A k \in i + 1..e : ~shown[k]
        <3> HIDE DEF shown
        <3> QED
            BY <1>1, FoldedIs
    <2>2. RunOf(E, i) = Folded(shown, i)
        BY <1>8 DEF RunOf
    <2>3. Folded(shown, i) = {k \in 1..n : i <= k /\ \A j \in i + 1..k : ~shown[j]}
        BY <1>1 DEF Folded
    <2>4. r \in UNION {Carrying(h, g[j]) : j \in RunOf(E, i)} <=> x \in Folded(shown, i)
        <3>1. Folded(shown, i) \in SUBSET (1..n)
            BY <2>3
        <3> HIDE DEF shown
        <3> QED
            BY <1>4, <2>2, <3>1
    <2>5. x \in Folded(shown, i) <=> i <= x /\ \A j \in i + 1..x : ~shown[j]
        BY <2>3
    <2>6. ASSUME i <= x, \A j \in i + 1..x : ~shown[j] PROVE i = only
        <3>1. i \in upto
            BY <1>8, <2>6
        <3>2. i <= only
            <4> HIDE DEF upto
            <4> QED
                BY <1>6, <3>1
        <3>3. ~(only \in i + 1..x)
            BY <1>7, <2>6
        <3> QED
            BY <1>7, <3>2, <3>3
    <2>7. ASSUME i = only PROVE i <= x /\ \A j \in i + 1..x : ~shown[j]
        <3>1. ASSUME NEW j \in i + 1..x PROVE ~shown[j]
            <4>1. j \in upto => j <= only
                <5> HIDE DEF upto
                <5> QED
                    BY <1>6
            <4> QED
                BY <2>7, <4>1
        <3> QED
            BY <1>7, <2>7, <3>1
    <2> QED
        BY <2>4, <2>5, <2>6, <2>7
<1> QED
    BY <1>7, <1>8

\* A history has versions of its own.
LEMMA OwnVersions ==
    ASSUME NEW h \in Seq(Text \cup {Absent})
    PROVE  \E E, n : Tells(h, E, GroupsOf(h), n) /\ Partly(h, E, GroupsOf(h), n)
                       /\ Stand(h, GroupsOf(h), n)
<1> DEFINE len == Len(h)
           answer == [mapped |-> len, computed |-> len, upto |-> len]
           E == EntriesOf(h, answer)
           g == GroupsOf(h)
<1>1. len \in Nat /\ len \in 0..len /\ DOMAIN h = 1..len
    OBVIOUS
<1>2. Upto(h, len) = h
    BY DEF Upto
<1>3. answer.mapped = len /\ answer.computed = len /\ answer.upto = len
    OBVIOUS
<1> HIDE DEF answer, len
<1>4. Moments(answer, Len(h))
    BY <1>1, <1>3 DEF Moments, len
<1>5. PICK n \in Nat : Partly(h, E, g, n)
    BY <1>2, <1>3, <1>4, EntriesTell
<1> HIDE DEF E, g
<1>6. PICK k \in Nat : g \in [1..k -> {h[r] : r \in Published(h)}]
    BY GroupsAre DEF g
<1>7. DOMAIN g = 1..n /\ DOMAIN g = 1..k
    BY <1>5, <1>6 DEF Partly
<1>8. ASSUME NEW i \in 1..n PROVE Carrying(h, g[i]) # {}
    <2>1. PICK r \in Published(h) : g[i] = h[r]
        BY <1>6, <1>7
    <2> QED
        BY <2>1 DEF Carrying
<1>9. Tells(h, E, g, n)
    BY <1>5, <1>8, WholeTells
<1>10. Stand(h, g, n)
    BY <1>9, VersionsStand
<1> QED
    BY <1>5, <1>9, <1>10 DEF g

\* A mark means that a text came back.
LEMMA MarksReturn ==
    ASSUME NEW h \in Seq(Text \cup {Absent}), NEW i \in DOMAIN GroupsOf(h), i > 1,
           Concurrent(GroupsOf(h), h, i)
    PROVE  Returns(h)
<1> DEFINE g == GroupsOf(h)
           from == Latest(h, g[i - 1])
           start == Arrival(h, g[i])
<1>1. PICK E, n : Partly(h, E, g, n) /\ Stand(h, g, n)
    BY OwnVersions
<1> HIDE DEF g
<1>2. n \in Nat /\ DOMAIN g = 1..n
    BY <1>1 DEF Partly
<1>3. i \in 1..n /\ i - 1 \in 1..n /\ i \in Nat
    BY <1>2 DEF g
<1>4. from \in Carrying(h, g[i - 1]) /\ start \in Carrying(h, g[i]) /\ from \in Nat /\ start \in Nat
    BY <1>1, <1>3 DEF Stand
<1>5. \/ from >= start
      \/ \E j \in 1..n \ {i - 1, i} : Arrival(h, g[j]) <= start /\ Latest(h, g[j]) >= from
    BY <1>2 DEF Concurrent, Arrival, Latest, g
<1> HIDE DEF from, start
<1> SUFFICES ASSUME ~Returns(h) PROVE FALSE
    OBVIOUS
<1>6. from < start
    BY <1>1, <1>3, <1>4, VersionsFollow
<1>7. PICK j \in 1..n \ {i - 1, i} : Arrival(h, g[j]) <= start /\ Latest(h, g[j]) >= from
    BY <1>4, <1>5, <1>6
<1>8. /\ Arrival(h, g[j]) \in Nat /\ Latest(h, g[j]) \in Nat
      /\ Latest(h, g[j]) \in Carrying(h, g[j])
    BY <1>1 DEF Stand
<1>9. ~(i < j)
    <2>1. i < j => Arrival(h, g[i]) < Arrival(h, g[j])
        BY <1>1, <1>3 DEF Partly, Stand
    <2> QED
        BY <1>4, <1>7, <1>8, <2>1 DEF start
<1>10. j < i - 1
    BY <1>3, <1>9
<1>11. Latest(h, g[j]) < from
    BY <1>1, <1>3, <1>4, <1>8, <1>10, VersionsFollow
<1> QED
    BY <1>4, <1>7, <1>8, <1>11

\* An arrival that the history maps and that is not marked: the version before it had
\* gone, and was the last to stand.
Clear(h, E, g, n) ==
    \A i \in 2..n : Carrying(h, g[i]) # {} /\ ~E[i].concurrent =>
        /\ Latest(h, g[i - 1]) < Arrival(h, g[i])
        /\ \A j \in 1..n \ {i - 1, i} :
              Carrying(h, g[j]) # {} /\ Arrival(h, g[j]) <= Arrival(h, g[i]) =>
                 Latest(h, g[j]) < Latest(h, g[i - 1])

\* Change rows that are as new as the release map mark what it needs.
LEMMA MarksClear ==
    ASSUME NEW H \in Seq(Text \cup {Absent}), NEW q \in 0..Len(H), NEW p \in 0..q,
           NEW E, NEW n, Partly(Upto(H, p), E, GroupsOf(H), n),
           Flags(Upto(H, q), E, GroupsOf(H), n)
    PROVE  Clear(Upto(H, p), E, GroupsOf(H), n)
<1> DEFINE h == Upto(H, p)
           c == Upto(H, q)
           g == GroupsOf(H)
           G == GroupsOf(c)
<1>1. h \in Seq(Text \cup {Absent}) /\ c \in Seq(Text \cup {Absent}) /\ p \in Nat /\ q \in Nat
    BY Earlier
<1>2. \A text : Carrying(h, text) = {r \in Carrying(c, text) : r <= p}
    <2>1. \A text : /\ Carrying(h, text) = {r \in Carrying(H, text) : r <= p}
                    /\ Carrying(c, text) = {r \in Carrying(H, text) : r <= q}
        BY Earlier
    <2>2. \A text : \A r \in Carrying(H, text) : r \in Nat
        BY DEF Carrying, Published
    <2> QED
        BY <1>1, <2>1, <2>2
<1>3. n \in Nat /\ DOMAIN g = 1..n
    BY DEF Partly
<1>4. PICK m \in 0..n :
        /\ DOMAIN G = 1..m
        /\ \A i \in 1..m : G[i] = g[i]
        /\ \A i \in 1..n : Carrying(c, g[i]) # {} <=> i <= m
    BY <1>3, GroupsEarlier
<1>5. PICK e, k : Partly(c, e, G, k) /\ Stand(c, G, k)
    BY <1>1, OwnVersions
<1>6. k = m
    <2>1. DOMAIN G = 1..k /\ k \in Nat
        BY <1>5 DEF Partly
    <2> QED
        BY <1>3, <1>4, <2>1
<1>7. PartStand(h, g, n) /\ Partly(h, E, g, n) /\ Flags(c, E, g, n)
    BY <1>1, VersionsPartStand
<1> HIDE DEF h, c, g, G
<1>8. ASSUME NEW i \in 1..n, Carrying(h, g[i]) # {}
      PROVE  /\ i \in 1..m
             /\ Arrival(c, g[i]) \in Nat /\ Latest(c, g[i]) \in Nat
             /\ Arrival(h, g[i]) \in Nat /\ Latest(h, g[i]) \in Nat
             /\ Arrival(h, g[i]) = Arrival(c, g[i]) /\ Arrival(h, g[i]) <= p
             /\ Latest(h, g[i]) <= Latest(c, g[i])
             /\ Latest(c, g[i]) <= p => Latest(h, g[i]) = Latest(c, g[i])
    <2>1. Carrying(c, g[i]) # {}
        BY <1>2, <1>8
    <2>2. i \in 1..m
        BY <1>3, <1>4, <2>1
    <2>3. /\ Arrival(c, g[i]) \in Carrying(c, g[i]) /\ Latest(c, g[i]) \in Carrying(c, g[i])
          /\ Arrival(c, g[i]) \in Nat /\ Latest(c, g[i]) \in Nat
          /\ \A r \in Carrying(c, g[i]) : Arrival(c, g[i]) <= r /\ r <= Latest(c, g[i])
        BY <1>4, <1>5, <1>6, <2>2 DEF Stand
    <2>4. /\ Arrival(h, g[i]) \in Carrying(h, g[i]) /\ Latest(h, g[i]) \in Carrying(h, g[i])
          /\ Arrival(h, g[i]) \in Nat /\ Latest(h, g[i]) \in Nat
          /\ \A r \in Carrying(h, g[i]) : Arrival(h, g[i]) <= r /\ r <= Latest(h, g[i])
        BY <1>7, <1>8 DEF PartStand
    <2>5. \A r : r \in Carrying(h, g[i]) <=> r \in Carrying(c, g[i]) /\ r <= p
        BY <1>2
    <2>6. /\ Arrival(h, g[i]) \in Carrying(c, g[i]) /\ Arrival(h, g[i]) <= p
          /\ Latest(h, g[i]) \in Carrying(c, g[i])
        BY <2>4, <2>5
    <2>7. Arrival(c, g[i]) <= Arrival(h, g[i]) /\ Latest(h, g[i]) <= Latest(c, g[i])
        BY <2>3, <2>6
    <2>8. Arrival(c, g[i]) <= p
        BY <1>1, <2>3, <2>4, <2>6, <2>7
    <2>9. Arrival(h, g[i]) <= Arrival(c, g[i])
        BY <2>3, <2>4, <2>5, <2>8
    <2>10. Latest(c, g[i]) <= p => Latest(c, g[i]) <= Latest(h, g[i])
        BY <2>3, <2>4, <2>5
    <2> QED
        BY <2>2, <2>3, <2>4, <2>6, <2>7, <2>9, <2>10
<1>9. ASSUME NEW i \in 2..n, Carrying(h, g[i]) # {}, ~E[i].concurrent
      PROVE  /\ Latest(h, g[i - 1]) < Arrival(h, g[i])
             /\ \A j \in 1..n \ {i - 1, i} :
                   Carrying(h, g[j]) # {} /\ Arrival(h, g[j]) <= Arrival(h, g[i]) =>
                      Latest(h, g[j]) < Latest(h, g[i - 1])
    <2>1. i \in 1..n /\ i - 1 \in 1..n /\ i > 1 /\ i - 1 < i
        BY <1>3
    <2>2. Carrying(h, g[i - 1]) # {}
        BY <1>7, <1>9, <2>1 DEF Partly
    <2>3. Carrying(c, g[i]) # {} /\ i \in 1..m /\ i - 1 \in 1..m
        BY <1>2, <1>8, <1>9, <2>1, <2>2
    <2>4. ~Concurrent(G, c, i)
        BY <1>7, <1>9, <2>1, <2>3 DEF Flags, G
    <2>5. ~(\/ Latest(c, g[i - 1]) >= Arrival(c, g[i])
            \/ \E j \in 1..m \ {i - 1, i} :
                  Arrival(c, g[j]) <= Arrival(c, g[i]) /\ Latest(c, g[j]) >= Latest(c, g[i - 1]))
        <3>1. ~(\/ Latest(c, G[i - 1]) >= Arrival(c, G[i])
                \/ \E j \in 1..m \ {i - 1, i} :
                      Arrival(c, G[j]) <= Arrival(c, G[i]) /\ Latest(c, G[j]) >= Latest(c, G[i - 1]))
            BY <1>4, <2>4 DEF Concurrent, Arrival, Latest
        <3> QED
            BY <1>4, <2>3, <3>1
    <2>6. /\ Arrival(c, g[i]) \in Nat /\ Arrival(h, g[i]) = Arrival(c, g[i]) /\ Arrival(h, g[i]) <= p
          /\ Latest(c, g[i - 1]) \in Nat /\ Latest(h, g[i - 1]) \in Nat
          /\ Latest(c, g[i - 1]) <= p => Latest(h, g[i - 1]) = Latest(c, g[i - 1])
        BY <1>8, <1>9, <2>1, <2>2
    <2>7. Latest(c, g[i - 1]) < Arrival(c, g[i]) /\ Latest(h, g[i - 1]) = Latest(c, g[i - 1])
        BY <1>1, <2>5, <2>6
    <2>8. ASSUME NEW j \in 1..n \ {i - 1, i}, Carrying(h, g[j]) # {}, Arrival(h, g[j]) <= Arrival(h, g[i])
          PROVE  Latest(h, g[j]) < Latest(h, g[i - 1])
        <3>1. /\ j \in 1..m /\ Arrival(h, g[j]) = Arrival(c, g[j])
              /\ Latest(h, g[j]) \in Nat /\ Latest(c, g[j]) \in Nat /\ Latest(h, g[j]) <= Latest(c, g[j])
            BY <1>8, <2>8
        <3>2. Latest(c, g[j]) < Latest(c, g[i - 1])
            BY <2>5, <2>6, <2>8, <3>1
        <3> QED
            BY <2>6, <2>7, <3>1, <3>2
    <2> QED
        BY <2>6, <2>7, <2>8
<1> QED
    BY <1>9 DEF Clear, h, g

\* What the marks of an answer say.
LEMMA MarksTell ==
    ASSUME history \in Seq(Text \cup {Absent}), NEW answer \in Answers, NEW n,
           Partly(Mapped(answer), entries(answer), Versions(answer), n),
           Flags(Changed(answer), entries(answer), Versions(answer), n)
    PROVE  /\ Flagged(answer) => Clear(Mapped(answer), entries(answer), Versions(answer), n)
           /\ \A i \in 1..n : entries(answer)[i].concurrent => Returns(Changed(answer))
<1> DEFINE H == Upto(history, answer.upto)
           c == Changed(answer)
           E == entries(answer)
           g == Versions(answer)
<1>1. /\ answer.upto \in 0..Len(history) /\ answer.mapped \in 0..answer.upto
      /\ answer.computed \in 0..answer.upto
    BY EntriesTold DEF Moments
<1>2. H \in Seq(Text \cup {Absent}) /\ Len(H) = answer.upto
    BY <1>1, Earlier
<1>3. Mapped(answer) = Upto(H, answer.mapped) /\ c = Upto(H, answer.computed)
    BY <1>1, EarlierYet DEF Mapped, Changed
<1>4. g = GroupsOf(H)
    BY DEF Versions
<1> HIDE DEF H, c, E, g
<1>5. Flagged(answer) => Clear(Mapped(answer), E, g, n)
    <2> SUFFICES ASSUME Flagged(answer) PROVE Clear(Mapped(answer), E, g, n)
        OBVIOUS
    <2>1. answer.mapped \in 0..answer.computed
        BY <1>1 DEF Flagged
    <2> QED
        BY <1>1, <1>2, <1>3, <1>4, <2>1, MarksClear DEF c, E, g
<1>6. ASSUME NEW i \in 1..n, E[i].concurrent PROVE Returns(c)
    <2>1. i > 1 /\ Carrying(c, g[i]) # {} /\ Concurrent(GroupsOf(c), c, i)
        BY <1>6 DEF Flags, c, E, g
    <2>2. c \in Seq(Text \cup {Absent}) /\ answer.computed \in 0..Len(H)
        BY <1>1, <1>2, <1>3, Earlier
    <2>3. n \in Nat /\ DOMAIN g = 1..n
        BY DEF Partly, g
    <2>4. PICK m \in 0..n : /\ DOMAIN GroupsOf(c) = 1..m
                            /\ \A j \in 1..n : Carrying(c, g[j]) # {} <=> j <= m
        BY <1>2, <1>3, <1>4, <2>2, <2>3, GroupsEarlier
    <2>5. i \in DOMAIN GroupsOf(c)
        BY <2>1, <2>3, <2>4
    <2> QED
        BY <2>1, <2>2, <2>5, MarksReturn
<1> QED
    BY <1>5, <1>6 DEF c, E, g

\* What came back stays so.
LEMMA RecursLater ==
    ASSUME history \in Seq(Text \cup {Absent}), NEW q \in 0..Len(history), NEW p \in 0..q
    PROVE  Returns(Upto(history, p)) => Recurs(q)
<1>1. p \in 0..Len(history) /\ p \in Nat /\ q \in Nat
    OBVIOUS
<1>2. /\ HeldUpto(p) = {r \in Published(history) : r <= p}
      /\ HeldUpto(q) = {r \in Published(history) : r <= q}
      /\ Returns(Upto(history, p)) <=> Recurs(p)
    BY <1>1, HistoryUpto
<1>3. \A r \in Published(history) : r \in Nat
    BY DEF Published
<1>4. HeldUpto(p) \subseteq HeldUpto(q)
    BY <1>1, <1>2, <1>3
<1> QED
    BY <1>2, <1>4 DEF Recurs

\* A redline goes from one version to the next, forwards when the order is known, or
\* the marks are, or no text came back.
LEMMA RedlineIs ==
    ASSUME NEW h \in Seq(Text \cup {Absent}), NEW E, NEW g, NEW n, Partly(h, E, g, n),
           NEW m \in Nat, NEW i \in 1..n
    PROVE  LET from == FromOf(E, i)
               start == StartOf(E[i].releases)
               forward == isForward(from, start, E[i], releaseOrder(1..m)) IN
           /\ start # NoRelease => start = Arrival(h, g[i]) /\ Carrying(h, g[i]) # {}
           /\ forward =>
                 /\ i \in 2..n /\ i - 1 \in 1..n
                 /\ from \in Carrying(h, g[i - 1]) /\ start \in Carrying(h, g[i])
                 /\ ({from, start} \subseteq 1..m \/ Clear(h, E, g, n) \/ ~Returns(h)) => from < start
           /\ ~forward /\ i > 1 => start = NoRelease \/ Returns(h) \/ E[i].concurrent
<1> DEFINE from == FromOf(E, i)
           start == StartOf(E[i].releases)
           place == releaseOrder(1..m)
           forward == isForward(from, start, E[i], place)
<1>1. PartStand(h, g, n) /\ n \in Nat
    BY VersionsPartStand DEF Partly
<1>2. ASSUME NEW k \in 1..n
      PROVE  /\ E[k].releases = <<>> <=> Carrying(h, g[k]) = {}
             /\ Carrying(h, g[k]) # {} =>
                   /\ StartOf(E[k].releases) = Arrival(h, g[k]) /\ EndOf(E[k].releases) = Latest(h, g[k])
                   /\ Arrival(h, g[k]) \in Carrying(h, g[k]) /\ Latest(h, g[k]) \in Carrying(h, g[k])
                   /\ Arrival(h, g[k]) \in Nat /\ Latest(h, g[k]) \in Nat
             /\ Carrying(h, g[k]) = {} =>
                   StartOf(E[k].releases) = NoRelease /\ EndOf(E[k].releases) = NoRelease
    BY <1>1 DEF Partly, EntryTells, PartStand, StartOf, EndOf
<1>3. DOMAIN place = 1..m /\ \A label \in 1..m : place[label] = label
    BY DEF releaseOrder
<1>4. start # NoRelease => start = Arrival(h, g[i]) /\ Carrying(h, g[i]) # {}
    BY <1>2
<1>5. forward <=> /\ NoRelease \notin {from, start}
                  /\ IF {from, start} \subseteq 1..m THEN from < start ELSE ~E[i].concurrent
    <2> HIDE DEF from, start
    <2> QED
        BY <1>3 DEF isForward
<1>6. ASSUME forward
      PROVE  /\ i \in 2..n /\ i - 1 \in 1..n
             /\ from \in Carrying(h, g[i - 1]) /\ start \in Carrying(h, g[i])
             /\ ({from, start} \subseteq 1..m \/ Clear(h, E, g, n) \/ ~Returns(h)) => from < start
    <2>1. i # 1
        BY <1>5, <1>6 DEF FromOf
    <2>2. i \in 2..n /\ i - 1 \in 1..n /\ i - 1 < i /\ from = EndOf(E[i - 1].releases)
        BY <1>1, <2>1 DEF FromOf
    <2>3. Carrying(h, g[i - 1]) # {} /\ from = Latest(h, g[i - 1])
        BY <1>2, <1>5, <1>6, <2>2
    <2>4. Carrying(h, g[i]) # {} /\ start = Arrival(h, g[i])
        BY <1>4, <1>5, <1>6
    <2>5. from \in Carrying(h, g[i - 1]) /\ start \in Carrying(h, g[i]) /\ from \in Nat /\ start \in Nat
        BY <1>2, <2>2, <2>3, <2>4
    <2> HIDE DEF from, start, forward
    <2>6. ~Returns(h) => from < start
        BY <2>2, <2>5, VersionsFollow
    <2>7. Clear(h, E, g, n) /\ ~E[i].concurrent => from < start
        BY <2>2, <2>3, <2>4 DEF Clear
    <2> QED
        BY <1>5, <1>6, <2>2, <2>5, <2>6, <2>7
<1>7. ASSUME ~forward, i > 1, start # NoRelease, ~E[i].concurrent PROVE Returns(h)
    <2>1. i - 1 \in 1..n /\ i - 1 < i /\ from = EndOf(E[i - 1].releases)
        BY <1>1, <1>7 DEF FromOf
    <2>2. Carrying(h, g[i - 1]) # {}
        BY <1>4, <1>7, <2>1 DEF Partly
    <2>3. from \in Carrying(h, g[i - 1]) /\ start \in Carrying(h, g[i]) /\ from \in Nat /\ start \in Nat
        BY <1>2, <1>4, <1>7, <2>1, <2>2
    <2> HIDE DEF from, start, forward
    <2>4. from # NoRelease
        BY <2>3, TimelineAssumption
    <2>5. ~(from < start)
        BY <1>5, <1>7, <2>4
    <2> QED
        BY <2>1, <2>3, <2>5, VersionsFollow
<1> QED
    BY <1>4, <1>6, <1>7 DEF from, start, place, forward

\* `timelineRows`: every release point that is mapped is under one row, which has its
\* statute; a redline goes between different texts, and forwards.
LEMMA RowsSound ==
    ASSUME history \in Seq(Text \cup {Absent}), listed \in 0..Len(history), NEW answer \in Answers
    PROVE  RowsAreSound(answer)
<1> DEFINE h == Mapped(answer)
           g == Versions(answer)
           E == entries(answer)
           rows == timelineRows(E, releaseOrder(1..listed))
<1>1. PICK n \in Nat : Partly(h, E, g, n) /\ PartStand(h, g, n) /\ Flags(Changed(answer), E, g, n)
    BY EntriesTold
<1>2. listed \in Nat /\ Len(history) \in Nat
    OBVIOUS
<1>12. /\ answer.upto \in 0..Len(history) /\ answer.mapped \in 0..answer.upto
       /\ answer.computed \in 0..answer.upto /\ answer.mapped \in 0..Len(history)
    BY EntriesTold DEF Moments
<1>13. /\ h \in Seq(Text \cup {Absent}) /\ HeldUpto(answer.mapped) = Published(h)
       /\ \A r \in Published(h) : h[r] = history[r] /\ r <= answer.mapped
       /\ Returns(h) <=> Recurs(answer.mapped)
    BY <1>12, HistoryUpto DEF Mapped
<1>14. /\ Flagged(answer) => Clear(h, E, g, n)
       /\ \A i \in 1..n : E[i].concurrent => Returns(Changed(answer))
    BY <1>1, MarksTell
<1>15. /\ Returns(h) => Recurs(answer.upto)
       /\ Returns(Changed(answer)) => Recurs(answer.upto)
    BY <1>12, RecursLater DEF Mapped, Changed
<1> HIDE DEF g, E, h
<1>11. Shows(E, g, n)
    BY <1>1, <1>13, EntriesShow
<1>3. DOMAIN rows = 1..n /\ \A i \in 1..n : RowTells(h, E, g, i, rows[i], listed)
    BY <1>1, <1>2, RowsTell
<1> HIDE DEF rows
<1>4. \A i \in 1..n : /\ rows[i].statutory = ShownOf(E)[i]
                      /\ rows[i].start = StartOf(E[i].releases)
                      /\ ToSet(rows[i].effectiveReleases)
                           = UNION {Carrying(h, g[j]) : j \in RunOf(E, i)}
    BY <1>3 DEF RowTells
<1>5. \A i \in 1..n : RunOf(E, i) \in SUBSET (1..n) /\ i \in RunOf(E, i)
    <2> SUFFICES ASSUME NEW i \in 1..n PROVE RunOf(E, i) \in SUBSET (1..n) /\ i \in RunOf(E, i)
        OBVIOUS
    <2>1. DOMAIN ShownOf(E) = 1..n
        BY <1>1 DEF Partly, ShownOf
    <2>2. \E e \in i..n : Folded(ShownOf(E), i) = i..e
        BY <2>1, FoldedIs
    <2> QED
        BY <2>2 DEF RunOf
<1>6. ASSUME NEW r \in Published(h)
      PROVE  \E only \in {i \in DOMAIN rows : rows[i].statutory} :
                \A i \in DOMAIN rows :
                   rows[i].statutory => (r \in ToSet(rows[i].effectiveReleases) <=> i = only)
    <2>1. PICK only \in 1..n :
            /\ ShownOf(E)[only]
            /\ \A i \in 1..n : ShownOf(E)[i] =>
                  (r \in UNION {Carrying(h, g[j]) : j \in RunOf(E, i)} <=> i = only)
        BY <1>1, <1>6, <1>13, OneRun
    <2>2. only \in {i \in DOMAIN rows : rows[i].statutory}
        BY <1>3, <1>4, <2>1
    <2>3. ASSUME NEW i \in DOMAIN rows, rows[i].statutory
          PROVE  r \in ToSet(rows[i].effectiveReleases) <=> i = only
        <3>1. i \in 1..n /\ ShownOf(E)[i]
            BY <1>3, <1>4, <2>3
        <3>2. ToSet(rows[i].effectiveReleases) = UNION {Carrying(h, g[j]) : j \in RunOf(E, i)}
            BY <1>4, <3>1
        <3>3. r \in UNION {Carrying(h, g[j]) : j \in RunOf(E, i)} <=> i = only
            BY <2>1, <3>1
        <3> QED
            BY <3>2, <3>3, Zenon
    <2> QED
        BY <2>2, <2>3
<1>7. ASSUME isAnnotated(E), NEW i \in 1..n, NEW r \in ToSet(rows[i].effectiveReleases)
      PROVE  history[r].statute = E[i].text.statute
    <2>0. r \in UNION {Carrying(h, g[j]) : j \in RunOf(E, i)}
        BY <1>4
    <2>1. PICK j \in RunOf(E, i) : r \in Carrying(h, g[j])
        BY <2>0
    <2>2. j \in 1..n /\ history[r] = g[j]
        BY <1>1, <1>5, <1>13, <2>1 DEF PartStand
    <2>3. E[i].text = g[i]
        BY <1>1 DEF Partly, EntryTells
    <2>4. g[j].statute = g[i].statute
        <3>1. CASE ~ShownOf(E)[i]
            BY <2>1, <3>1 DEF RunOf
        <3>2. CASE ShownOf(E)[i]
            <4>1. DOMAIN ShownOf(E) = 1..n
                BY <1>1 DEF Partly, ShownOf
            <4>2. PICK e \in i..n : /\ Folded(ShownOf(E), i) = i..e
                                    /\ \A k \in i + 1..e : ~ShownOf(E)[k]
                BY <4>1, FoldedIs
            <4>3. j \in i..e /\ j \in i..n
                BY <2>1, <3>2, <4>2 DEF RunOf
            <4>4. \A k \in i + 1..j : k \in 1..n /\ ~ShownOf(E)[k]
                BY <4>2, <4>3
            <4>5. \A k \in i + 1..j : Folds(E, k)
                BY <1>7, <1>11, <4>4 DEF Shows
            <4>6. FoldsKeep(E, g, n)
                BY <1>1, <1>7, <1>13, FoldedAlike
            <4> QED
                BY <4>3, <4>5, <4>6 DEF FoldsKeep
        <3> QED
            BY <3>1, <3>2
    <2> QED
        BY <2>2, <2>3, <2>4
<1>8. ASSUME answer.mapped <= listed, NEW i \in 1..n
      PROVE  \A j, k \in DOMAIN rows[i].effectiveReleases :
                j < k => rows[i].effectiveReleases[j] < rows[i].effectiveReleases[k]
    <2>1. ToSet(rows[i].effectiveReleases) \subseteq Published(h)
        <3> SUFFICES ASSUME NEW r \in ToSet(rows[i].effectiveReleases) PROVE r \in Published(h)
            OBVIOUS
        <3>0. r \in UNION {Carrying(h, g[j]) : j \in RunOf(E, i)}
            BY <1>4
        <3>1. PICK j \in RunOf(E, i) : r \in Carrying(h, g[j])
            BY <3>0
        <3> QED
            BY <1>1, <1>5, <3>1 DEF PartStand
    <2>2. Published(h) \subseteq 1..listed
        <3> SUFFICES ASSUME NEW r \in Published(h) PROVE r \in 1..listed
            OBVIOUS
        <3>1. r \in Nat /\ r \in 1..Len(h) /\ r <= answer.mapped
            BY <1>1, <1>13 DEF PartStand
        <3> QED
            BY <1>2, <1>8, <1>12, <3>1
    <2> QED
        BY <1>3, <2>1, <2>2 DEF RowTells
<1>9. ASSUME NEW i \in 1..n
      PROVE  /\ rows[i].from # NoRelease =>
                   /\ history[rows[i].from] # history[rows[i].start]
                   /\ \/ {rows[i].from, rows[i].start} \subseteq 1..listed
                      \/ Flagged(answer) \/ ~Recurs(answer.mapped)
                      => rows[i].from < rows[i].start
             /\ rows[i].withheld => Recurs(answer.upto) \/ rows[i].start = NoRelease
    <2> DEFINE from == FromOf(E, i)
               start == StartOf(E[i].releases)
               forward == isForward(from, start, E[i], releaseOrder(1..listed))
    <2>1. /\ rows[i].from = (IF forward THEN from ELSE NoRelease)
          /\ rows[i].withheld = (i > 1 /\ ~forward)
          /\ rows[i].start = start
        BY <1>3, <1>4 DEF RowTells
    <2>2. /\ forward =>
                 /\ i \in 2..n /\ i - 1 \in 1..n
                 /\ from \in Carrying(h, g[i - 1]) /\ start \in Carrying(h, g[i])
                 /\ ({from, start} \subseteq 1..listed \/ Clear(h, E, g, n) \/ ~Returns(h)) => from < start
          /\ ~forward /\ i > 1 => start = NoRelease \/ Returns(h) \/ E[i].concurrent
        BY <1>1, <1>2, <1>13, RedlineIs
    <2>3. \A k \in 1..n : \A q \in Carrying(h, g[k]) : history[q] = g[k]
        BY <1>1, <1>13 DEF PartStand
    <2> HIDE DEF forward, from, start
    <2>4. ASSUME forward
          PROVE  /\ history[from] # history[start]
                 /\ {from, start} \subseteq 1..listed \/ Flagged(answer) \/ ~Recurs(answer.mapped)
                      => from < start
        <3>1. history[from] = g[i - 1] /\ history[start] = g[i]
            BY <2>2, <2>3, <2>4
        <3>2. g[i - 1] # g[i]
            <4>1. i - 1 # i
                OBVIOUS
            <4> QED
                BY <1>1, <2>2, <2>4, <4>1 DEF PartStand
        <3> QED
            BY <1>13, <1>14, <2>2, <2>4, <3>1, <3>2
    <2>5. i > 1 /\ ~forward => Recurs(answer.upto) \/ start = NoRelease
        BY <1>14, <1>15, <2>2
    <2> QED
        BY <2>1, <2>4, <2>5
<1>10. TimelineOf(answer) = rows
    BY DEF TimelineOf, order, rows, E
<1> QED
    BY <1>3, <1>6, <1>7, <1>8, <1>9, <1>10, <1>13 DEF RowsAreSound, E

-----------------------------------------------------------------------------
(***************************************************************************)
(* The counts of the history page                                          *)
(***************************************************************************)

\* What a fold by addition builds over the subsets of a domain.
Chosen(s) == CHOOSE x \in s : TRUE

Sums(f, fun, S) ==
    f = [s \in SUBSET S |-> IF s = {} THEN 0 ELSE fun[Chosen(s)] + f[s \ {Chosen(s)}]]

LEMMA FoldSums ==
    ASSUME NEW fun
    PROVE  FoldFunction(+, 0, fun) = (CHOOSE f : Sums(f, fun, DOMAIN fun))[DOMAIN fun]
BY DEF FoldFunction, FoldFunctionOnSet, MapThenFoldSet, Sums, Chosen

\* It builds one function.
LEMMA SumsOnce ==
    ASSUME NEW fun, NEW S, IsFiniteSet(S), NEW e, NEW f, Sums(e, fun, S), Sums(f, fun, S)
    PROVE  e[S] = f[S]
<1> DEFINE bad == {s \in SUBSET S : e[s] # f[s]}
           sizes == {Cardinality(s) : s \in bad}
<1> SUFFICES ASSUME bad # {} PROVE FALSE
    OBVIOUS
<1>1. \A s \in bad : IsFiniteSet(s) /\ Cardinality(s) \in Nat
    BY FS_Subset, FS_CardinalityType
<1>2. sizes \in SUBSET Nat /\ sizes # {}
    BY <1>1
<1>3. PICK k \in sizes : \A x \in sizes : k <= x
    <2> HIDE DEF sizes
    <2> QED
        BY <1>2, LeastExists
<1>4. PICK s \in bad : k = Cardinality(s)
    BY <1>3
<1> DEFINE rest == s \ {Chosen(s)}
<1>5. /\ s \in SUBSET S
      /\ e[s] = IF s = {} THEN 0 ELSE fun[Chosen(s)] + e[rest]
      /\ f[s] = IF s = {} THEN 0 ELSE fun[Chosen(s)] + f[rest]
    BY <1>4 DEF Sums
<1>6. s # {} /\ e[rest] # f[rest]
    BY <1>4, <1>5
<1>7. Chosen(s) \in s
    BY <1>6 DEF Chosen
<1>8. rest \in bad /\ Cardinality(rest) \in Nat
    BY <1>1, <1>5, <1>6
<1>9. Cardinality(rest) = Cardinality(s) - 1
    BY <1>1, <1>4, <1>7, FS_RemoveElement
<1>10. k <= Cardinality(rest)
    BY <1>3, <1>8
<1> QED
    BY <1>1, <1>4, <1>8, <1>9, <1>10

\* `versionCounts(...).releases`.
LEMMA ReleasesCounted ==
    ASSUME NEW h \in Seq(Text \cup {Absent}), NEW E, NEW g, NEW n, Partly(h, E, g, n)
    PROVE  FoldFunction(+, 0, [i \in DOMAIN E |-> Len(E[i].releases)]) = Cardinality(Published(h))
<1> DEFINE fun == [i \in DOMAIN E |-> Len(E[i].releases)]
           Under(s) == UNION {Carrying(h, g[i]) : i \in s}
           f == [s \in SUBSET (1..n) |-> Cardinality(Under(s))]
<1>1. n \in Nat /\ DOMAIN E = 1..n /\ IsFiniteSet(1..n)
    BY FS_Interval DEF Partly
<1>2. PartStand(h, g, n)
    BY VersionsPartStand
<1>3. \A i \in 1..n : fun[i] = Cardinality(Carrying(h, g[i]))
    BY <1>1 DEF Partly, EntryTells
<1>4. IsFiniteSet(Published(h))
    <2>1. Published(h) \in SUBSET (1..Len(h)) /\ IsFiniteSet(1..Len(h))
        BY FS_Interval DEF Published
    <2> QED
        BY <2>1, FS_Subset
<1>5. \A s \in SUBSET (1..n) : Under(s) \in SUBSET Published(h)
    BY <1>2 DEF PartStand
<1>6. Under(1..n) = Published(h)
    <2>1. ASSUME NEW r \in Published(h) PROVE r \in Under(1..n)
        <3>1. PICK i \in 1..n : g[i] = h[r]
            BY DEF Partly
        <3>2. r \in Carrying(h, g[i])
            BY <1>2, <3>1 DEF PartStand
        <3> QED
            BY <3>2
    <2> QED
        BY <1>5, <2>1
<1> HIDE DEF fun
<1>7. ASSUME NEW s \in SUBSET (1..n)
      PROVE  f[s] = IF s = {} THEN 0 ELSE fun[Chosen(s)] + f[s \ {Chosen(s)}]
    <2>1. f[s] = Cardinality(Under(s))
        OBVIOUS
    <2>2. CASE s = {}
        <3>1. Under(s) = {}
            BY <2>2
        <3> QED
            BY <2>1, <2>2, <3>1, FS_EmptySet
    <2>3. CASE s # {}
        <3> DEFINE x == Chosen(s)
                   rest == s \ {x}
        <3>1. x \in s /\ x \in 1..n /\ rest \in SUBSET (1..n)
            BY <2>3 DEF Chosen
        <3> HIDE DEF x
        <3>2. Under(s) = Carrying(h, g[x]) \cup Under(rest)
            BY <3>1
        <3>3. Carrying(h, g[x]) \cap Under(rest) = {}
            <4> SUFFICES ASSUME NEW r \in Carrying(h, g[x]), NEW i \in rest, r \in Carrying(h, g[i])
                         PROVE  FALSE
                OBVIOUS
            <4>1. h[r] = g[x] /\ h[r] = g[i] /\ i \in 1..n /\ i # x
                BY <1>2, <3>1 DEF PartStand
            <4> QED
                BY <1>2, <3>1, <4>1 DEF PartStand
        <3>4. IsFiniteSet(Carrying(h, g[x])) /\ IsFiniteSet(Under(rest))
            <4>1. Carrying(h, g[x]) \in SUBSET Published(h) /\ Under(rest) \in SUBSET Published(h)
                BY <1>2, <1>5, <3>1 DEF PartStand
            <4> HIDE DEF Under
            <4> QED
                BY <1>4, <4>1, FS_Subset
        <3> DEFINE a == Carrying(h, g[x])
                   b == Under(rest)
        <3>5. Cardinality(Under(s)) = Cardinality(a) + Cardinality(b)
            <4> HIDE DEF a, b
            <4>1. /\ IsFiniteSet(a) /\ IsFiniteSet(b) /\ a \cap b = {} /\ Under(s) = a \cup b
                BY <3>2, <3>3, <3>4 DEF a, b
            <4> HIDE DEF Under
            <4>2. /\ Cardinality(a \cup b) = Cardinality(a) + Cardinality(b) - Cardinality(a \cap b)
                  /\ Cardinality(a) \in Nat /\ Cardinality(b) \in Nat
                BY <4>1, FS_Union, FS_CardinalityType
            <4>3. Cardinality(a \cap b) = 0
                BY <4>1, FS_EmptySet
            <4> QED
                BY <4>1, <4>2, <4>3
        <3>6. fun[x] = Cardinality(a) /\ f[rest] = Cardinality(b)
            BY <1>3, <3>1
        <3> HIDE DEF a, b, f, Under
        <3> QED
            BY <2>1, <2>3, <3>5, <3>6 DEF x
    <2> QED
        BY <2>2, <2>3
<1>8. Sums(f, fun, 1..n)
    <2> f = [s \in SUBSET (1..n) |-> f[s]]
        OBVIOUS
    <2> HIDE DEF f
    <2> QED
        BY <1>7 DEF Sums
<1>9. f[1..n] = Cardinality(Published(h))
    BY <1>6
<1> DEFINE built == CHOOSE e : Sums(e, fun, 1..n)
<1> HIDE DEF f
<1>10. Sums(built, fun, 1..n)
    BY <1>8
<1>11. DOMAIN fun = 1..n
    BY <1>1 DEF fun
<1>12. FoldFunction(+, 0, fun) = built[1..n]
    BY <1>11, FoldSums
<1> HIDE DEF built
<1>13. built[1..n] = f[1..n]
    BY <1>1, <1>8, <1>10, SumsOnce
<1> QED
    BY <1>9, <1>12, <1>13 DEF fun

\* The release points at which the statute changed.
AmendedAt(answer) ==
    {r \in HeldUpto(answer.upto) :
        LastOther(r) # NoRelease /\ \A q \in HeldUpto(answer.upto) : q < r => q <= LastOther(r)}

\* They are the arrivals of the entries that say so.
LEMMA AmendedAtArrivals ==
    ASSUME history \in Seq(Text \cup {Absent}), NEW answer \in Answers, answer.mapped = answer.upto,
           isAnnotated(entries(answer)), ~Recurs(answer.upto),
           NEW n, Tells(Mapped(answer), entries(answer), Versions(answer), n)
    PROVE  /\ \A r \in AmendedAt(answer) : \E i \in 1..n :
                 entries(answer)[i].kind = "text" /\ r = Arrival(Mapped(answer), Versions(answer)[i])
           /\ \A i \in 1..n : entries(answer)[i].kind = "text" =>
                 Arrival(Mapped(answer), Versions(answer)[i]) \in AmendedAt(answer)
<1> DEFINE E == entries(answer)
           h == Mapped(answer)
           g == Versions(answer)
           H == Published(h)
           others(r) == OthersBelow(h, r)
<1>9. answer.upto \in 0..Len(history)
    BY EntriesTold DEF Moments
<1>10. /\ h \in Seq(Text \cup {Absent}) /\ HeldUpto(answer.upto) = H
       /\ H = {q \in Published(history) : q <= answer.upto}
       /\ \A q \in H : h[q] = history[q]
       /\ Returns(h) <=> Recurs(answer.upto)
    BY <1>9, HistoryUpto DEF Mapped
<1>11. Partly(h, E, g, n)
    BY DEF Tells
<1> HIDE DEF h, g, E
<1>1. Partly(h, E, g, n) /\ Tells(h, E, g, n) /\ Stand(h, g, n) /\ Kinds(E, g, n)
    BY <1>10, <1>11, VersionsStand, AnnotatedKinds DEF h, g, E
<1>2. ~Returns(h) /\ h \in Seq(Text \cup {Absent})
    BY <1>10
<1>3. \A r \in H : r \in Nat /\ r <= answer.upto
    BY <1>1, <1>10 DEF Stand
<1>4. \A r \in H : LastOther(r) = IF others(r) = {} THEN NoRelease ELSE Max(others(r))
    <2> SUFFICES ASSUME NEW r \in H
                 PROVE  LastOther(r) = IF others(r) = {} THEN NoRelease ELSE Max(others(r))
        OBVIOUS
    <2>1. \A q \in Published(history) : q \in Nat
        BY DEF Published
    <2>2. {q \in Published(history) : q < r /\ history[q].statute # history[r].statute} = others(r)
        BY <1>3, <1>9, <1>10, <2>1 DEF OthersBelow
    <2> QED
        BY <2>2 DEF LastOther
<1>5. ASSUME NEW r \in H, others(r) # {}
      PROVE  Max(others(r)) \in others(r) /\ \A q \in others(r) : q <= Max(others(r))
    <2>1. others(r) \in SUBSET Nat /\ r \in Nat /\ \A q \in others(r) : q <= r
        BY <1>3 DEF OthersBelow
    <2> HIDE DEF others
    <2> QED
        BY <1>5, <2>1, MaxIs
<1>6. ASSUME NEW r \in H
      PROVE  \E y \in 1..n : g[y] = h[r] /\ r \in Carrying(h, g[y])
    <2>1. PICK y \in 1..n : g[y] = h[r]
        BY <1>1 DEF Partly
    <2> QED
        BY <1>1, <2>1 DEF Stand
<1>7. ASSUME NEW r \in AmendedAt(answer)
      PROVE  \E i \in 1..n : E[i].kind = "text" /\ r = Arrival(h, g[i])
    <2> DEFINE m == LastOther(r)
    <2>1. r \in H /\ m # NoRelease /\ \A q \in H : q < r => q <= m
        BY <1>10 DEF AmendedAt
    <2>2. m \in H /\ m < r /\ h[m].statute # h[r].statute
        BY <1>4, <1>5, <2>1, TimelineAssumption DEF OthersBelow
    <2> HIDE DEF m
    <2>3. PICK x \in 1..n : g[x] = h[r] /\ r \in Carrying(h, g[x])
        BY <1>6, <2>1
    <2>4. PICK y \in 1..n : g[y] = h[m] /\ m \in Carrying(h, g[y])
        BY <1>6, <2>2
    <2>5. r \in Nat /\ m \in Nat /\ y # x /\ n \in Nat
        BY <1>1, <1>3, <2>1, <2>2, <2>3, <2>4 DEF Partly
    <2>6. y < x
        <3>1. ~(x < y)
            BY <1>1, <1>2, <2>2, <2>3, <2>4, <2>5, VersionsFollow
        <3> QED
            BY <2>5, <3>1
    <2>7. r = Arrival(h, g[x])
        <3> DEFINE a == Arrival(h, g[x])
        <3>1. a \in Carrying(h, g[x]) /\ a \in H /\ a <= r /\ a \in Nat
            BY <1>1, <2>3 DEF Stand
        <3> HIDE DEF a
        <3>2. m < a
            BY <1>1, <1>2, <2>3, <2>4, <2>6, <3>1, VersionsFollow
        <3>3. ~(a < r)
            BY <2>1, <2>5, <3>1, <3>2
        <3> QED
            BY <2>5, <3>1, <3>3 DEF a
    <2>8. x # 1 /\ x - 1 \in 1..n
        BY <2>5, <2>6
    <2>9. y = x - 1
        <3> DEFINE p == Latest(h, g[x - 1])
        <3>1. p \in Carrying(h, g[x - 1]) /\ p \in H /\ p \in Nat
            BY <1>1, <2>8 DEF Stand
        <3> HIDE DEF p
        <3>2. p < r
            BY <1>1, <1>2, <2>3, <2>8, <3>1, VersionsFollow, x - 1 < x
        <3>3. p <= m
            BY <2>1, <3>1, <3>2
        <3>4. y < x - 1 => m < p
            BY <1>1, <1>2, <2>4, <2>8, <3>1, VersionsFollow
        <3> QED
            BY <2>5, <2>6, <3>1, <3>3, <3>4
    <2>10. g[x - 1].statute # g[x].statute
        BY <2>2, <2>3, <2>4, <2>9
    <2> QED
        BY <1>1, <2>7, <2>8, <2>10 DEF Kinds
<1>8. ASSUME NEW i \in 1..n, E[i].kind = "text"
      PROVE  Arrival(h, g[i]) \in AmendedAt(answer)
    <2> DEFINE r == Arrival(h, g[i])
               p == Latest(h, g[i - 1])
    <2>1. i # 1 /\ i - 1 \in 1..n /\ g[i - 1].statute # g[i].statute /\ n \in Nat
        BY <1>1, <1>8 DEF Kinds, Partly
    <2>2. r \in Carrying(h, g[i]) /\ r \in H /\ r \in Nat /\ h[r] = g[i]
        BY <1>1 DEF Stand
    <2>3. /\ p \in Carrying(h, g[i - 1]) /\ p \in H /\ p \in Nat /\ h[p] = g[i - 1]
          /\ \A q \in Carrying(h, g[i - 1]) : q <= p
        BY <1>1, <2>1 DEF Stand
    <2> HIDE DEF r, p
    <2>4. p < r
        BY <1>1, <1>2, <2>1, <2>2, <2>3, VersionsFollow, i - 1 < i
    <2>5. p \in others(r)
        BY <2>1, <2>2, <2>3, <2>4 DEF OthersBelow
    <2>6. /\ LastOther(r) = Max(others(r)) /\ Max(others(r)) \in Nat /\ p <= Max(others(r))
        <3>1. Max(others(r)) \in others(r) /\ \A q \in others(r) : q <= Max(others(r))
            BY <1>5, <2>2, <2>5
        <3> QED
            BY <1>3, <1>4, <2>2, <2>5, <3>1 DEF OthersBelow
    <2>7. ASSUME NEW q \in H, q < r PROVE q <= p
        <3>1. PICK y \in 1..n : g[y] = h[q] /\ q \in Carrying(h, g[y])
            BY <1>6
        <3>2. q \in Nat
            BY <1>3
        <3>3. y # i
            BY <1>1, <2>2, <2>7, <3>1, <3>2 DEF Stand, r
        <3>4. ~(i < y)
            BY <1>1, <1>2, <2>2, <2>7, <3>1, <3>2, VersionsFollow
        <3>5. y < i - 1 => q < p
            BY <1>1, <1>2, <2>1, <2>3, <3>1, VersionsFollow
        <3>6. y = i - 1 => q <= p
            BY <2>3, <3>1
        <3> QED
            BY <2>1, <2>3, <3>2, <3>3, <3>4, <3>5, <3>6
    <2>8. LastOther(r) # NoRelease
        BY <2>6, TimelineAssumption
    <2>9. ASSUME NEW q \in H, q < r PROVE q <= LastOther(r)
        <3>1. q \in Nat /\ q <= p
            BY <1>3, <2>7, <2>9
        <3> HIDE DEF H
        <3> QED
            BY <2>3, <2>6, <3>1
    <2>10. r \in AmendedAt(answer)
        BY <1>10, <2>2, <2>8, <2>9 DEF AmendedAt
    <2> QED
        BY <2>10 DEF r
<1> QED
    BY <1>7, <1>8 DEF E, h, g

\* The kinds are those of an answer that maps all its versions.
LEMMA SameKinds ==
    ASSUME NEW answer \in Answers
    PROVE  \E whole \in Answers :
              /\ whole.mapped = whole.upto /\ whole.upto = answer.upto
              /\ DOMAIN entries(whole) = DOMAIN entries(answer)
              /\ \A i \in DOMAIN entries(answer) : entries(whole)[i].kind = entries(answer)[i].kind
<1> DEFINE whole == [mapped |-> answer.upto, computed |-> answer.computed, upto |-> answer.upto]
<1>1. whole.mapped = answer.upto /\ whole.computed = answer.computed /\ whole.upto = answer.upto
    OBVIOUS
<1>2. /\ answer \in [mapped : 0..Newest, computed : 0..Newest, upto : 0..Newest]
      /\ answer.computed <= answer.upto /\ Newest - answer.upto <= MaxLag
      /\ MaxLag \in Nat
    BY BrowsingAssumption DEF Answers
<1>3. whole \in [mapped : 0..Newest, computed : 0..Newest, upto : 0..Newest]
    BY <1>2
<1>4. whole \in Answers
    <2> HIDE DEF whole
    <2>1. answer.upto \in Int
        BY <1>2
    <2> QED
        BY <1>1, <1>2, <1>3, <2>1 DEF Answers
<1> HIDE DEF whole
<1>5. DOMAIN entries(whole) = DOMAIN entries(answer)
    BY <1>1 DEF entries, EntriesOf
<1>6. \A i \in DOMAIN entries(answer) : entries(whole)[i].kind = entries(answer)[i].kind
    BY <1>1 DEF entries, EntriesOf
<1> QED
    BY <1>1, <1>4, <1>5, <1>6

LEMMA CountsSound ==
    ASSUME history \in Seq(Text \cup {Absent}), NEW answer \in Answers
    PROVE  CountsAreSound(answer)
<1> DEFINE E == entries(answer)
<1>1. PICK n \in Nat : Partly(Mapped(answer), E, Versions(answer), n)
    BY EntriesTold
<1>6. answer.mapped \in 0..Len(history)
    BY EntriesTold DEF Moments
<1>7. Mapped(answer) \in Seq(Text \cup {Absent}) /\ HeldUpto(answer.mapped) = Published(Mapped(answer))
    BY <1>6, HistoryUpto DEF Mapped
<1>2. DOMAIN E = 1..n
    BY <1>1 DEF Partly
<1> HIDE DEF E
<1>3. versionCounts(E).releases = Cardinality(HeldUpto(answer.mapped))
    <2>1. FoldFunction(+, 0, [i \in DOMAIN E |-> Len(E[i].releases)]) = Cardinality(Published(Mapped(answer)))
        BY <1>1, <1>7, ReleasesCounted
    <2> QED
        BY <1>7, <2>1 DEF versionCounts
<1> DEFINE texts == {i \in 1..n : E[i].kind = "text"}
<1>4. versionCounts(E).amendments = Cardinality(texts)
    BY <1>2 DEF versionCounts
<1>5. ASSUME isAnnotated(E), ~Recurs(answer.upto) PROVE Cardinality(texts) = Cardinality(AmendedAt(answer))
    <2>10. PICK whole \in Answers :
              /\ whole.mapped = whole.upto /\ whole.upto = answer.upto
              /\ DOMAIN entries(whole) = DOMAIN E
              /\ \A i \in DOMAIN E : entries(whole)[i].kind = E[i].kind
        BY SameKinds DEF E
    <2> DEFINE h == Mapped(whole)
               g == Versions(whole)
    <2>11. PICK k \in Nat : Tells(h, entries(whole), g, k) /\ Partly(h, entries(whole), g, k) /\ Stand(h, g, k)
        BY <2>10, WholeAnswer DEF Tells
    <2>12. k = n
        <3>1. 1..n = 1..k
            BY <1>2, <2>10, <2>11 DEF Partly
        <3> QED
            BY <3>1
    <2>13. isAnnotated(entries(whole)) /\ ~Recurs(whole.upto) /\ AmendedAt(whole) = AmendedAt(answer)
        <3>1. n # 0
            BY <1>1, <1>5 DEF isAnnotated, Partly, E
        <3>2. entries(whole) # <<>>
            BY <1>2, <2>10, <3>1
        <3> QED
            BY <1>5, <2>10, <3>2 DEF isAnnotated, AmendedAt
    <2>1. /\ \A r \in AmendedAt(answer) : \E i \in 1..n : E[i].kind = "text" /\ r = Arrival(h, g[i])
          /\ \A i \in 1..n : E[i].kind = "text" => Arrival(h, g[i]) \in AmendedAt(answer)
        <3>1. /\ \A r \in AmendedAt(whole) : \E i \in 1..n :
                    entries(whole)[i].kind = "text" /\ r = Arrival(h, g[i])
              /\ \A i \in 1..n : entries(whole)[i].kind = "text" => Arrival(h, g[i]) \in AmendedAt(whole)
            BY <2>10, <2>11, <2>12, <2>13, AmendedAtArrivals
        <3> HIDE DEF h, g
        <3> QED
            BY <1>2, <2>10, <2>13, <3>1
    <2> HIDE DEF h, g
    <2> DEFINE f == [i \in texts |-> Arrival(h, g[i])]
    <2>2. f \in [texts -> AmendedAt(answer)]
        BY <2>1
    <2>3. \A i, j \in texts : f[i] = f[j] => i = j
        <3> SUFFICES ASSUME NEW i \in texts, NEW j \in texts, f[i] = f[j] PROVE i = j
            OBVIOUS
        <3>1. Arrival(h, g[i]) = Arrival(h, g[j]) /\ Arrival(h, g[i]) \in Nat
            BY <2>11, <2>12 DEF Stand
        <3>2. (i < j => Arrival(h, g[i]) < Arrival(h, g[j]))
              /\ (j < i => Arrival(h, g[j]) < Arrival(h, g[i]))
            BY <2>11, <2>12 DEF Tells, Partly
        <3> QED
            BY <3>1, <3>2
    <2>4. \A r \in AmendedAt(answer) : \E i \in texts : f[i] = r
        BY <2>1
    <2>5. IsFiniteSet(texts)
        BY FS_Interval, FS_Subset, 1 \in Int, n \in Int, texts \in SUBSET (1..n)
    <2> HIDE DEF f, texts
    <2>6. f \in Bijection(texts, AmendedAt(answer))
        BY <2>2, <2>3, <2>4 DEF Bijection, Injection, Surjection, IsInjective
    <2> QED
        BY <2>5, <2>6, FS_Bijection DEF ExistsBijection
<1> QED
    BY <1>3, <1>4, <1>5 DEF CountsAreSound, AmendedAt, E

-----------------------------------------------------------------------------
(***************************************************************************)
(* The texts that stood in a window                                        *)
(***************************************************************************)

\* What a window stops at, what follows what there, and where the text turns.
At(S, start, end) ==
    {q \in S : start < q /\ q <= end} \cup {Max(b) : b \in {{q \in S : q <= start}} \ {{}}}

Follows(S, p, q) == p < q /\ \A r \in S : r <= p \/ q <= r

Turning(h, S) == {q \in S : \A p \in S : Follows(S, p, q) => h[p] # h[q]}

TextsAlong(h, S) ==
    [i \in 1..Cardinality(Turning(h, S)) |-> h[Ascending(Turning(h, S))[i]]]

\* Every stop but the first follows one.
LEMMA OneBefore ==
    ASSUME NEW S \in SUBSET Nat, IsFiniteSet(S), NEW q \in S, NEW r \in S, r < q
    PROVE  \E p \in S : Follows(S, p, q) /\ r <= p
<1> DEFINE below == {x \in S : x < q}
<1>0. \A x \in S : x \in Nat
    OBVIOUS
<1>1. below \in SUBSET Nat /\ below # {} /\ r \in below /\ q \in Nat /\ \A x \in below : x <= q
    <2>1. r \in below /\ below \in SUBSET Nat
        OBVIOUS
    <2>2. \A x \in below : x <= q
        BY <1>0
    <2> QED
        BY <1>0, <2>1, <2>2
<1> DEFINE p == Max(below)
<1>2. p \in below /\ \A x \in below : x <= p
    <2> HIDE DEF below
    <2> QED
        BY <1>1, MaxIs
<1> HIDE DEF p
<1>3. p \in S /\ p < q /\ r <= p
    BY <1>1, <1>2
<1>4. \A x \in S : x <= p \/ q <= x
    BY <1>2
<1> QED
    BY <1>3, <1>4 DEF Follows

\* The places where the listing turns are those of the stops where the text does.
LEMMA TurnsPlaced ==
    ASSUME NEW h, NEW S \in SUBSET Nat, IsFiniteSet(S), NEW w,
           \A i, j \in 1..Cardinality(S) :
              w[i] = w[j] <=> h[Ascending(S)[i]] = h[Ascending(S)[j]]
    PROVE  LET T == Turning(h, S)
               turns == {i \in 1..Cardinality(S) : i = 1 \/ w[i] # w[i - 1]} IN
           /\ Cardinality(turns) = Cardinality(T)
           /\ \A i \in 1..Cardinality(T) : /\ Ascending(turns)[i] \in 1..Cardinality(S)
                                           /\ Ascending(S)[Ascending(turns)[i]] = Ascending(T)[i]
<1> DEFINE a == Ascending(S)
           m == Cardinality(S)
           T == Turning(h, S)
           turns == {i \in 1..m : i = 1 \/ w[i] # w[i - 1]}
<1>1. /\ m \in Nat /\ a \in [1..m -> S]
      /\ \A i, j \in 1..m : i < j => a[i] < a[j]
      /\ \A x \in S : \E i \in 1..m : a[i] = x
    BY AscendingIs
<1>2. \A i, j \in 1..m : w[i] = w[j] <=> h[a[i]] = h[a[j]]
    OBVIOUS
<1> HIDE DEF a, m
<1>3. \A i \in 1..m : a[i] \in S /\ a[i] \in Nat
    BY <1>1
<1>4. \A i, j \in 1..m : a[i] <= a[j] <=> i <= j
    <2> SUFFICES ASSUME NEW i \in 1..m, NEW j \in 1..m PROVE a[i] <= a[j] <=> i <= j
        OBVIOUS
    <2>1. a[i] \in Nat /\ a[j] \in Nat /\ (i < j => a[i] < a[j]) /\ (j < i => a[j] < a[i])
        BY <1>1, <1>3
    <2>2. i < j \/ i = j \/ j < i
        OBVIOUS
    <2> QED
        BY <2>1, <2>2
<1>5. ASSUME NEW i \in 1..m, i # 1
      PROVE  i - 1 \in 1..m /\ \A p \in S : Follows(S, p, a[i]) <=> p = a[i - 1]
    <2>1. i - 1 \in 1..m /\ a[i - 1] \in Nat /\ a[i] \in Nat /\ a[i - 1] < a[i] /\ a[i - 1] \in S
        BY <1>1, <1>3, <1>5
    <2>2. \A r \in S : r <= a[i - 1] \/ a[i] <= r
        <3> SUFFICES ASSUME NEW r \in S PROVE r <= a[i - 1] \/ a[i] <= r
            OBVIOUS
        <3>1. PICK j \in 1..m : a[j] = r
            BY <1>1
        <3> QED
            BY <1>4, <2>1, <3>1
    <2>3. ASSUME NEW p \in S, Follows(S, p, a[i]) PROVE p = a[i - 1]
        <3>1. p \in Nat /\ p < a[i] /\ (a[i - 1] <= p \/ a[i] <= a[i - 1])
            BY <2>1, <2>3 DEF Follows
        <3> QED
            BY <2>1, <2>2, <3>1
    <2>4. Follows(S, a[i - 1], a[i])
        BY <2>1, <2>2 DEF Follows
    <2> QED
        BY <2>1, <2>3, <2>4
<1>6. ASSUME NEW i \in 1..m PROVE a[i] \in T <=> i \in turns
    <2>1. CASE i = 1
        <3>1. \A p \in S : ~(p < a[1])
            <4> SUFFICES ASSUME NEW p \in S PROVE ~(p < a[1])
                OBVIOUS
            <4>1. PICK j \in 1..m : a[j] = p
                BY <1>1
            <4> QED
                BY <1>3, <1>4, <2>1, <4>1
        <3> QED
            BY <1>3, <2>1, <3>1 DEF Turning, Follows
    <2>2. CASE i # 1
        <3>1. i - 1 \in 1..m /\ \A p \in S : Follows(S, p, a[i]) <=> p = a[i - 1]
            BY <1>5, <2>2
        <3>2. a[i] \in T <=> h[a[i - 1]] # h[a[i]]
            BY <1>3, <3>1 DEF Turning
        <3>3. i \in turns <=> w[i] # w[i - 1]
            BY <2>2
        <3> QED
            BY <1>2, <3>1, <3>2, <3>3
    <2> QED
        BY <2>1, <2>2
<1>7. T \in SUBSET S /\ T \in SUBSET Nat /\ IsFiniteSet(T)
    BY FS_Subset DEF Turning
<1>8. turns \in SUBSET (1..m) /\ turns \in SUBSET Nat /\ IsFiniteSet(turns)
    <2>1. turns \in SUBSET (1..m) /\ 1..m \in SUBSET Nat
        BY <1>1
    <2>2. IsFiniteSet(1..m)
        BY <1>1, FS_Interval
    <2> HIDE DEF turns
    <2> QED
        BY <2>1, <2>2, FS_Subset
<1> DEFINE f == [i \in turns |-> a[i]]
<1>9. f \in Bijection(turns, T)
    <2>1. f \in [turns -> T]
        BY <1>6
    <2>2. \A i, j \in turns : f[i] = f[j] => i = j
        BY <1>3, <1>4
    <2>3. \A x \in T : \E i \in turns : f[i] = x
        <3> SUFFICES ASSUME NEW x \in T PROVE \E i \in turns : f[i] = x
            OBVIOUS
        <3>1. PICK i \in 1..m : a[i] = x
            BY <1>1, <1>7
        <3>2. i \in turns
            BY <1>6, <3>1
        <3> QED
            BY <3>1, <3>2
    <2> HIDE DEF f, turns, T
    <2> QED
        BY <2>1, <2>2, <2>3 DEF Bijection, Injection, Surjection, IsInjective
<1>10. Cardinality(turns) = Cardinality(T) /\ Cardinality(T) \in Nat
    <2> HIDE DEF f, turns, T
    <2> QED
        BY <1>7, <1>8, <1>9, FS_Bijection, FS_CardinalityType DEF ExistsBijection
<1> DEFINE b == Ascending(turns)
           t == [i \in 1..Cardinality(T) |-> a[b[i]]]
           k == Cardinality(T)
<1>11. /\ b \in [1..k -> turns]
       /\ \A i, j \in 1..k : i < j => b[i] < b[j]
       /\ \A x \in turns : \E i \in 1..k : b[i] = x
    <2> HIDE DEF turns, T
    <2> QED
        BY <1>8, <1>10, AscendingIs
<1> HIDE DEF b
<1>12. \A i \in 1..k : b[i] \in turns /\ b[i] \in 1..m /\ a[b[i]] \in T
    BY <1>6, <1>8, <1>11
<1>13. t \in [1..k -> T] /\ \A i \in 1..k : t[i] = a[b[i]]
    BY <1>12
<1>14. ASSUME NEW i \in 1..k, NEW j \in 1..k, i < j PROVE t[i] < t[j]
    <2>1. b[i] \in 1..m /\ b[j] \in 1..m /\ b[i] < b[j]
        BY <1>11, <1>12, <1>14
    <2> HIDE DEF t
    <2> QED
        BY <1>1, <1>13, <2>1
<1>15. ASSUME NEW x \in T PROVE \E i \in 1..k : t[i] = x
    <2>1. PICK j \in turns : f[j] = x
        <3> HIDE DEF f, turns, T
        <3> QED
            BY <1>9 DEF Bijection, Surjection
    <2>2. PICK i \in 1..k : b[i] = j
        BY <1>11
    <2> HIDE DEF t
    <2> QED
        BY <1>13, <2>1, <2>2
<1>16. t = Ascending(T)
    <2> HIDE DEF t, T
    <2> QED
        BY <1>7, <1>13, <1>14, <1>15, AscendingOnce
<1> HIDE DEF t
<1> QED
    BY <1>10, <1>12, <1>13, <1>16 DEF a, b, m

\* The stop before the window, and then those inside.
StopsTell(K, start, end) ==
    LET before == {q \in K : q <= start}
        S == At(K, start, end) IN
    /\ S \in SUBSET K /\ IsFiniteSet(S) /\ Inside(K, start, end) \in SUBSET S
    /\ before = {} => S = Inside(K, start, end)
    /\ before # {} => /\ Max(before) \in before /\ \A q \in before : q <= Max(before)
                      /\ S = Inside(K, start, end) \cup {Max(before)}
                      /\ Ascending(S) = <<Max(before)>> \o Ascending(Inside(K, start, end))

LEMMA StopsAre ==
    ASSUME NEW K \in SUBSET Nat, IsFiniteSet(K), NEW start \in Int, NEW end \in Int
    PROVE  StopsTell(K, start, end)
<1> DEFINE before == {q \in K : q <= start}
           S == At(K, start, end)
           inside == Inside(K, start, end)
           most == Max(before)
<1>0. \A q \in K : q \in Nat
    OBVIOUS
<1>1. /\ before \in SUBSET K /\ before \in SUBSET Nat /\ IsFiniteSet(before)
      /\ inside \in SUBSET K /\ inside \in SUBSET Nat /\ IsFiniteSet(inside)
    BY FS_Subset DEF Inside
<1>2. before # {} => most \in before /\ \A q \in before : q <= most
    <2> HIDE DEF before
    <2> QED
        BY <1>1, AscendingEnds
<1>3. S = inside \cup {Max(b) : b \in {before} \ {{}}}
    BY DEF At, Inside
<1>4. before = {} => S = inside
    BY <1>3
<1>5. before # {} => S = inside \cup {most}
    BY <1>3
<1> HIDE DEF most, S
<1>6. S \in SUBSET K /\ S \in SUBSET Nat /\ inside \in SUBSET S
    BY <1>1, <1>2, <1>4, <1>5
<1>7. IsFiniteSet(S)
    BY <1>6, FS_Subset
<1>8. ASSUME before # {} PROVE Ascending(S) = <<most>> \o Ascending(inside)
    <2> DEFINE b == Ascending(inside)
               c == Cardinality(inside)
               t == [i \in 1..c + 1 |-> IF i = 1 THEN most ELSE b[i - 1]]
    <2>1. /\ c \in Nat /\ b \in [1..c -> inside]
          /\ \A i, j \in 1..c : i < j => b[i] < b[j]
          /\ \A x \in inside : \E i \in 1..c : b[i] = x
        BY <1>1, AscendingIs
    <2>2. most \in Nat /\ most <= start /\ most \in S /\ most \notin inside
        <3>1. most \in K /\ most <= start
            BY <1>2, <1>8
        <3> QED
            BY <1>0, <1>5, <1>8, <3>1 DEF Inside
    <2>3. Cardinality(S) = c + 1
        BY <1>1, <1>5, <1>8, <2>2, FS_AddElement
    <2>4. \A x \in inside : x \in Nat /\ most < x
        <3> SUFFICES ASSUME NEW x \in inside PROVE x \in Nat /\ most < x
            OBVIOUS
        <3>1. x \in Nat /\ start < x
            BY <1>1 DEF Inside
        <3> QED
            BY <2>2, <3>1
    <2> HIDE DEF b, c
    <2>5. \A i \in 1..c + 1 : t[i] \in S /\ (i = 1 => t[i] = most) /\ (i # 1 => i - 1 \in 1..c /\ t[i] = b[i - 1])
        BY <1>6, <2>1, <2>2
    <2>6. t \in [1..Cardinality(S) -> S]
        BY <2>3, <2>5
    <2>9. t = <<most>> \o b
        BY <2>1
    <2> HIDE DEF t
    <2>7. ASSUME NEW i \in 1..c + 1, NEW j \in 1..c + 1, i < j PROVE t[i] < t[j]
        <3>1. j # 1 /\ j - 1 \in 1..c /\ t[j] = b[j - 1] /\ b[j - 1] \in inside
            BY <2>1, <2>5, <2>7
        <3>2. CASE i = 1
            BY <2>4, <2>5, <3>1, <3>2
        <3>3. CASE i # 1
            <4>1. i - 1 \in 1..c /\ t[i] = b[i - 1] /\ i - 1 < j - 1
                BY <2>5, <2>7, <3>3
            <4> QED
                BY <2>1, <3>1, <4>1
        <3> QED
            BY <3>2, <3>3
    <2>8. ASSUME NEW x \in S PROVE \E i \in 1..c + 1 : t[i] = x
        <3>1. CASE x = most
            BY <2>1, <2>5, <3>1, 1 \in 1..c + 1
        <3>2. CASE x # most
            <4>1. x \in inside
                BY <1>5, <1>8, <3>2
            <4>2. PICK i \in 1..c : b[i] = x
                BY <2>1, <4>1
            <4>3. i + 1 \in 1..c + 1 /\ i + 1 # 1 /\ (i + 1) - 1 = i
                BY <2>1
            <4> QED
                BY <2>5, <4>2, <4>3
        <3> QED
            BY <3>1, <3>2
    <2>10. t = Ascending(S)
        BY <1>6, <1>7, <2>3, <2>6, <2>7, <2>8, AscendingOnce
    <2> QED
        BY <2>9, <2>10 DEF b
<1> QED
    BY <1>2, <1>4, <1>5, <1>6, <1>7, <1>8 DEF most, S, StopsTell

\* The parts of `versionsInWindow`.
KnownTo(E, m, i) == ToSet(E[i].releases) \cap DOMAIN releaseOrder(1..m)

BySeqOf(E, m, q) ==
    CHOOSE i \in DOMAIN E : \E label \in KnownTo(E, m, i) : releaseOrder(1..m)[label] = q

SeqsOf(E, m) == UNION {{releaseOrder(1..m)[label] : label \in KnownTo(E, m, i)} : i \in DOMAIN E}

BaselineOf(E, m, start) ==
    LET before == {q \in SeqsOf(E, m) : q <= start} IN
    IF before = {} THEN <<>> ELSE <<BySeqOf(E, m, Max(before))>>

WalkOf(E, m, start, end) ==
    LET inside == Ascending(Inside(SeqsOf(E, m), start, end)) IN
    BaselineOf(E, m, start) \o [i \in DOMAIN inside |-> BySeqOf(E, m, inside[i])]

SequenceOf(E, walk) ==
    LET turns == {i \in DOMAIN walk : i = 1 \/ walk[i] # walk[i - 1]} IN
    [i \in 1..Cardinality(turns) |-> E[walk[Ascending(turns)[i]]]]

LEMMA WindowUnfolds ==
    ASSUME NEW E, NEW m, NEW start, NEW end
    PROVE  LET cut == versionsInWindow(E, start, end, releaseOrder(1..m))
               sequence == SequenceOf(E, WalkOf(E, m, start, end))
               arrivals == IF BaselineOf(E, m, start) = <<>> THEN sequence ELSE Tail(sequence) IN
           /\ cut.versions = sequence
           /\ cut.kinds = ({arrivals[i].kind : i \in DOMAIN arrivals} \ {NoKind})
                             \cup {k \in {"initial"} :
                                      BaselineOf(E, m, start) = <<>> /\ sequence # <<>>}
           /\ cut.complete = \A i \in DOMAIN E : KnownTo(E, m, i) # {}
BY DEF versionsInWindow, KnownTo, BySeqOf, SeqsOf, BaselineOf, WalkOf, SequenceOf

\* The version of a text.
VersionOf(g, n, text) == CHOOSE i \in 1..n : g[i] = text

LEMMA VersionIs ==
    ASSUME NEW h, NEW E, NEW g, NEW n, Tells(h, E, g, n), NEW r \in Published(h)
    PROVE  VersionOf(g, n, h[r]) \in 1..n /\ g[VersionOf(g, n, h[r])] = h[r]
<1> \E i \in 1..n : g[i] = h[r]
    BY DEF Tells, Partly
<1> QED
    BY DEF VersionOf

\* What the list knows.
LEMMA SeqsAre ==
    ASSUME NEW h \in Seq(Text \cup {Absent}), NEW E, NEW g, NEW n, Tells(h, E, g, n),
           NEW m \in Nat
    PROVE  /\ \A i \in 1..n : KnownTo(E, m, i) = Carrying(h, g[i]) \cap 1..m
           /\ SeqsOf(E, m) = Published(h) \cap 1..m
           /\ \A q \in Published(h) \cap 1..m : BySeqOf(E, m, q) = VersionOf(g, n, h[q])
<1>1. Stand(h, g, n) /\ DOMAIN E = 1..n
    BY VersionsStand DEF Tells, Partly
<1>2. DOMAIN releaseOrder(1..m) = 1..m /\ \A label \in 1..m : releaseOrder(1..m)[label] = label
    BY DEF releaseOrder
<1>3. \A i \in 1..n : KnownTo(E, m, i) = Carrying(h, g[i]) \cap 1..m
    BY <1>2 DEF KnownTo, Tells, Partly, EntryTells
<1>4. \A i \in 1..n : {releaseOrder(1..m)[label] : label \in KnownTo(E, m, i)}
                         = Carrying(h, g[i]) \cap 1..m
    <2> SUFFICES ASSUME NEW i \in 1..n
                 PROVE  {releaseOrder(1..m)[label] : label \in KnownTo(E, m, i)}
                           = Carrying(h, g[i]) \cap 1..m
        OBVIOUS
    <2>1. KnownTo(E, m, i) = Carrying(h, g[i]) \cap 1..m
        BY <1>3
    <2> QED
        BY <1>2, <2>1
<1>5. SeqsOf(E, m) = Published(h) \cap 1..m
    <2>1. SeqsOf(E, m) = UNION {Carrying(h, g[i]) \cap 1..m : i \in 1..n}
        BY <1>1, <1>4 DEF SeqsOf
    <2>2. \A r \in Published(h) : \E i \in 1..n : r \in Carrying(h, g[i])
        <3> SUFFICES ASSUME NEW r \in Published(h) PROVE \E i \in 1..n : r \in Carrying(h, g[i])
            OBVIOUS
        <3>1. PICK i \in 1..n : g[i] = h[r]
            BY DEF Tells, Partly
        <3> QED
            BY <1>1, <3>1 DEF Stand
    <2>3. \A i \in 1..n : Carrying(h, g[i]) \subseteq Published(h)
        BY <1>1 DEF Stand
    <2> QED
        BY <2>1, <2>2, <2>3
<1>6. ASSUME NEW q \in Published(h) \cap 1..m PROVE BySeqOf(E, m, q) = VersionOf(g, n, h[q])
    <2>1. PICK i \in 1..n : g[i] = h[q]
        BY DEF Tells, Partly
    <2>2. q \in KnownTo(E, m, i)
        BY <1>1, <1>3, <2>1 DEF Stand
    <2> DEFINE b == BySeqOf(E, m, q)
    <2>3. b \in 1..n /\ \E label \in KnownTo(E, m, b) : releaseOrder(1..m)[label] = q
        <3>1. \E x \in DOMAIN E : \E label \in KnownTo(E, m, x) : releaseOrder(1..m)[label] = q
            BY <1>1, <1>2, <2>2
        <3> QED
            BY <1>1, <3>1 DEF BySeqOf
    <2> HIDE DEF b
    <2>4. q \in Carrying(h, g[b])
        BY <1>2, <1>3, <2>3
    <2>5. g[b] = h[q]
        BY <1>1, <2>3, <2>4 DEF Stand
    <2>6. VersionOf(g, n, h[q]) \in 1..n /\ g[VersionOf(g, n, h[q])] = h[q]
        BY VersionIs
    <2> QED
        BY <1>1, <2>3, <2>5, <2>6 DEF Stand, b
<1> QED
    BY <1>3, <1>5, <1>6

\* The window's walk is over the stops that the list knows.
LEMMA WalkIs ==
    ASSUME NEW h \in Seq(Text \cup {Absent}), NEW E, NEW g, NEW n, Tells(h, E, g, n),
           NEW m \in Nat, NEW start \in Int, NEW end \in Int
    PROVE  LET K == Published(h) \cap 1..m
               S == At(K, start, end) IN
           /\ WalkOf(E, m, start, end) =
                [i \in 1..Cardinality(S) |-> VersionOf(g, n, h[Ascending(S)[i]])]
           /\ BaselineOf(E, m, start) = <<>> <=> {q \in K : q <= start} = {}
<1> DEFINE K == Published(h) \cap 1..m
           S == At(K, start, end)
           before == {q \in K : q <= start}
           ins == Inside(K, start, end)
           b == Ascending(ins)
           By(q) == VersionOf(g, n, h[q])
           walk == WalkOf(E, m, start, end)
           baseline == BaselineOf(E, m, start)
<1>1. SeqsOf(E, m) = K /\ \A q \in K : BySeqOf(E, m, q) = By(q)
    BY SeqsAre
<1>2. K \in SUBSET Nat /\ IsFiniteSet(K)
    <2>1. K \in SUBSET (1..m) /\ K \in SUBSET Nat /\ IsFiniteSet(1..m)
        BY FS_Interval
    <2> QED
        BY <2>1, FS_Subset
<1> HIDE DEF K
<1>3. /\ S \in SUBSET K /\ IsFiniteSet(S) /\ ins \in SUBSET S
      /\ before = {} => S = ins
      /\ before # {} => Max(before) \in before /\ Ascending(S) = <<Max(before)>> \o b
    <2>1. StopsTell(K, start, end)
        BY <1>2, StopsAre
    <2> QED
        BY <2>1 DEF StopsTell
<1>4. /\ Cardinality(ins) \in Nat /\ b \in [1..Cardinality(ins) -> ins]
    <2>1. ins \in SUBSET Nat /\ IsFiniteSet(ins)
        BY <1>2, <1>3, FS_Subset
    <2> HIDE DEF ins
    <2> QED
        BY <2>1, AscendingIs
<1>5. Cardinality(S) \in Nat /\ Ascending(S) \in [1..Cardinality(S) -> S]
    <2>1. S \in SUBSET Nat
        BY <1>2, <1>3
    <2> HIDE DEF S
    <2> QED
        BY <1>3, <2>1, AscendingIs
<1> DEFINE tail == [i \in DOMAIN b |-> BySeqOf(E, m, b[i])]
<1>6. /\ walk = baseline \o tail
      /\ baseline = IF before = {} THEN <<>> ELSE <<BySeqOf(E, m, Max(before))>>
    BY <1>1 DEF WalkOf, BaselineOf
<1> HIDE DEF b, S, before, ins, walk, baseline
<1>7. DOMAIN b = 1..Cardinality(ins) /\ \A i \in DOMAIN b : b[i] \in K
    BY <1>3, <1>4
<1>8. tail = [i \in 1..Cardinality(ins) |-> By(b[i])]
    BY <1>1, <1>7
<1> HIDE DEF tail
<1> DEFINE all == [i \in 1..Cardinality(S) |-> By(Ascending(S)[i])]
<1>9. CASE before = {}
    <2>1. tail = all
        BY <1>3, <1>8, <1>9 DEF b
    <2>2. tail \in Seq({By(q) : q \in K})
        BY <1>4, <1>7, <1>8
    <2>3. <<>> \o tail = tail
        BY <2>2
    <2> QED
        BY <1>6, <1>9, <2>1, <2>3 DEF S, before, walk, baseline, K
<1>10. CASE before # {}
    <2> DEFINE first == Max(before)
               k == Cardinality(ins)
    <2>1. first \in K
        BY <1>3, <1>10 DEF before
    <2> HIDE DEF first
    <2>2. baseline = <<By(first)>>
        BY <1>1, <1>6, <1>10, <2>1 DEF first
    <2>3. Ascending(S) = <<first>> \o b
        BY <1>3, <1>10 DEF first
    <2>4. b \in Seq(K) /\ Len(b) = k
        BY <1>4, <1>7
    <2> HIDE DEF k
    <2>5. /\ <<first>> \o b \in Seq(K) /\ Len(<<first>> \o b) = k + 1
          /\ (<<first>> \o b)[1] = first
          /\ \A i \in 2..k + 1 : (<<first>> \o b)[i] = b[i - 1]
        BY <1>4, <2>1, <2>4 DEF k
    <2>6. Cardinality(S) = k + 1
        BY <1>5, <2>3, <2>5
    <2> DEFINE V == {By(q) : q \in K}
    <2>7. tail \in Seq(V) /\ Len(tail) = k /\ By(first) \in V
        BY <1>4, <1>7, <1>8, <2>1 DEF k
    <2> HIDE DEF V
    <2>8. /\ <<By(first)>> \o tail \in Seq(V) /\ Len(<<By(first)>> \o tail) = k + 1
          /\ (<<By(first)>> \o tail)[1] = By(first)
          /\ \A i \in 2..k + 1 : (<<By(first)>> \o tail)[i] = tail[i - 1]
        <3> DEFINE v == By(first)
        <3> HIDE DEF v
        <3>1. v \in V
            BY <2>7 DEF v
        <3>2. /\ <<v>> \o tail \in Seq(V) /\ Len(<<v>> \o tail) = k + 1
              /\ (<<v>> \o tail)[1] = v
              /\ \A i \in 2..k + 1 : (<<v>> \o tail)[i] = tail[i - 1]
            BY <1>4, <2>7, <3>1 DEF k
        <3> QED
            BY <3>2 DEF v
    <2> DEFINE w == <<By(first)>> \o tail
               a == <<first>> \o b
    <2>9. k \in Nat
        BY <1>4 DEF k
    <2> HIDE DEF w, a
    <2>10. ASSUME NEW i \in 1..k + 1 PROVE w[i] = By(a[i])
        <3>1. CASE i = 1
            BY <2>5, <2>8, <3>1 DEF w, a
        <3>2. CASE i # 1
            <4>1. i \in 2..k + 1 /\ i - 1 \in 1..Cardinality(ins)
                BY <2>9, <3>2 DEF k
            <4>2. w[i] = tail[i - 1] /\ a[i] = b[i - 1]
                BY <2>5, <2>8, <4>1 DEF w, a
            <4>3. tail[i - 1] = By(b[i - 1])
                BY <1>8, <4>1
            <4> QED
                BY <4>2, <4>3
        <3> QED
            BY <3>1, <3>2
    <2>11. w = [i \in 1..k + 1 |-> w[i]]
        BY <2>8 DEF w
    <2>12. w = all
        <3>1. w = [i \in 1..k + 1 |-> By(a[i])]
            BY <2>10, <2>11
        <3> QED
            BY <2>3, <2>6, <3>1 DEF a
    <2>13. walk = w
        BY <1>6, <2>2 DEF w
    <2>14. baseline # <<>>
        BY <2>2
    <2> HIDE DEF all
    <2> QED
        BY <1>10, <2>12, <2>13, <2>14 DEF S, before, walk, baseline, K, all
<1> QED
    BY <1>9, <1>10

\* The versions of a sequence of texts.
VersionsOf(E, g, n, texts) == [i \in DOMAIN texts |-> E[VersionOf(g, n, texts[i])]]

KindsIn(arrivals) == {arrivals[i].kind : i \in DOMAIN arrivals} \ {NoKind}

WindowTells(h, E, g, n, m, start, end, cut) ==
    LET K == Published(h) \cap 1..m
        first == {q \in K : q <= start} = {}
        texts == TextsAlong(h, At(K, start, end)) IN
    /\ cut.versions = VersionsOf(E, g, n, texts)
    /\ cut.kinds = IF first
                   THEN KindsIn(cut.versions) \cup {k \in {"initial"} : cut.versions # <<>>}
                   ELSE KindsIn(Tail(cut.versions))
    /\ cut.complete <=> \A i \in 1..n : Carrying(h, g[i]) \cap 1..m # {}

\* `versionsInWindow` answers with the versions of the texts along its stops.
LEMMA WindowIs ==
    ASSUME NEW h \in Seq(Text \cup {Absent}), NEW E, NEW g, NEW n, Tells(h, E, g, n),
           NEW m \in Nat, NEW start \in Int, NEW end \in Int
    PROVE  WindowTells(h, E, g, n, m, start, end, versionsInWindow(E, start, end, releaseOrder(1..m)))
<1> DEFINE K == Published(h) \cap 1..m
           S == At(K, start, end)
           T == Turning(h, S)
           a == Ascending(S)
           texts == TextsAlong(h, S)
           first == {q \in K : q <= start} = {}
           walk == WalkOf(E, m, start, end)
           baseline == BaselineOf(E, m, start)
           sequence == SequenceOf(E, walk)
           cut == versionsInWindow(E, start, end, releaseOrder(1..m))
           arrivals == IF baseline = <<>> THEN sequence ELSE Tail(sequence)
<1>1. /\ cut.versions = sequence
      /\ cut.kinds = KindsIn(arrivals)
                        \cup {k \in {"initial"} : baseline = <<>> /\ sequence # <<>>}
      /\ cut.complete = \A i \in DOMAIN E : KnownTo(E, m, i) # {}
    BY WindowUnfolds DEF KindsIn
<1>2. /\ walk = [i \in 1..Cardinality(S) |-> VersionOf(g, n, h[a[i]])]
      /\ baseline = <<>> <=> first
    BY WalkIs
<1>3. /\ S \in SUBSET K /\ S \in SUBSET Nat /\ IsFiniteSet(S) /\ S \in SUBSET Published(h)
    <2>1. K \in SUBSET (1..m) /\ K \in SUBSET Nat /\ IsFiniteSet(1..m) /\ K \in SUBSET Published(h)
        BY FS_Interval
    <2>2. IsFiniteSet(K)
        BY <2>1, FS_Subset
    <2> HIDE DEF K
    <2>3. S \in SUBSET K /\ IsFiniteSet(S)
        BY <2>1, <2>2, StopsAre DEF StopsTell
    <2> QED
        BY <2>1, <2>3
<1>4. DOMAIN E = 1..n /\ \A i \in 1..n : KnownTo(E, m, i) = Carrying(h, g[i]) \cap 1..m
    <2>1. \A i \in 1..n : KnownTo(E, m, i) = Carrying(h, g[i]) \cap 1..m
        BY SeqsAre
    <2> QED
        BY <2>1 DEF Tells, Partly
<1>5. cut.complete <=> \A i \in 1..n : Carrying(h, g[i]) \cap 1..m # {}
    <2> HIDE DEF cut
    <2> QED
        BY <1>1, <1>4
<1> HIDE DEF S, walk
<1>6. /\ Cardinality(S) \in Nat /\ a \in [1..Cardinality(S) -> S]
    BY <1>3, AscendingIs
<1>7. DOMAIN walk = 1..Cardinality(S)
    BY <1>2
<1>8. \A i, j \in 1..Cardinality(S) : walk[i] = walk[j] <=> h[a[i]] = h[a[j]]
    <2> SUFFICES ASSUME NEW i \in 1..Cardinality(S), NEW j \in 1..Cardinality(S)
                 PROVE  walk[i] = walk[j] <=> h[a[i]] = h[a[j]]
        OBVIOUS
    <2>1. a[i] \in Published(h) /\ a[j] \in Published(h)
        BY <1>3, <1>6
    <2>2. walk[i] = VersionOf(g, n, h[a[i]]) /\ walk[j] = VersionOf(g, n, h[a[j]])
        BY <1>2
    <2>3. /\ g[VersionOf(g, n, h[a[i]])] = h[a[i]] /\ g[VersionOf(g, n, h[a[j]])] = h[a[j]]
        BY <2>1, VersionIs
    <2> QED
        BY <2>2, <2>3
<1> DEFINE turns == {i \in 1..Cardinality(S) : i = 1 \/ walk[i] # walk[i - 1]}
<1>9. /\ Cardinality(turns) = Cardinality(T)
      /\ \A i \in 1..Cardinality(T) : /\ Ascending(turns)[i] \in 1..Cardinality(S)
                                      /\ a[Ascending(turns)[i]] = Ascending(T)[i]
    BY <1>3, <1>8, TurnsPlaced
<1>10. sequence = [i \in 1..Cardinality(turns) |-> E[walk[Ascending(turns)[i]]]]
    BY <1>7 DEF SequenceOf
<1>11. sequence = VersionsOf(E, g, n, texts)
    <2>1. DOMAIN texts = 1..Cardinality(T)
        BY DEF TextsAlong
    <2>2. ASSUME NEW i \in 1..Cardinality(T)
          PROVE  E[walk[Ascending(turns)[i]]] = E[VersionOf(g, n, texts[i])]
        <3>1. texts[i] = h[Ascending(T)[i]]
            BY DEF TextsAlong
        <3>2. walk[Ascending(turns)[i]] = VersionOf(g, n, h[a[Ascending(turns)[i]]])
            <4> HIDE DEF turns, a, T
            <4> QED
                BY <1>2, <1>9
        <3>3. a[Ascending(turns)[i]] = Ascending(T)[i]
            BY <1>9
        <3> HIDE DEF turns, a, T, texts
        <3> QED
            BY <3>1, <3>2, <3>3
    <2>3. sequence = [i \in 1..Cardinality(T) |-> E[VersionOf(g, n, texts[i])]]
        <3> HIDE DEF turns, T, texts, sequence
        <3> QED
            BY <1>9, <1>10, <2>2
    <2> HIDE DEF sequence, texts, T
    <2> QED
        BY <2>1, <2>3 DEF VersionsOf
<1>12. cut.kinds = IF first
                   THEN KindsIn(cut.versions) \cup {k \in {"initial"} : cut.versions # <<>>}
                   ELSE KindsIn(Tail(cut.versions))
    <2> HIDE DEF cut, sequence, baseline, first
    <2>1. CASE first
        BY <1>1, <1>2, <2>1
    <2>2. CASE ~first
        BY <1>1, <1>2, <2>2
    <2> QED
        BY <2>1, <2>2
<1>13. cut.versions = VersionsOf(E, g, n, texts)
    BY <1>1, <1>11
<1> HIDE DEF cut, texts
<1> QED
    BY <1>5, <1>12, <1>13 DEF WindowTells, S, texts, cut

\* The texts along a set of stops: from the first one's to the last one's, each
\* of another text than the stop before.
Along(h, S, texts) ==
    /\ Len(texts) \in Nat \ {0} /\ DOMAIN texts = 1..Len(texts)
    /\ texts \in Seq({h[q] : q \in S})
    /\ Head(texts) = h[Min(S)] /\ Last(texts) = h[Max(S)]
    /\ \A q \in S : \E i \in DOMAIN texts : texts[i] = h[q]
    /\ \A i \in DOMAIN texts : i # 1 =>
          \E p, q \in S : Follows(S, p, q) /\ h[p] # h[q] /\ texts[i] = h[q]
    /\ \A p, q \in S : Follows(S, p, q) /\ h[p] # h[q] =>
          \E i \in DOMAIN texts : i # 1 /\ texts[i] = h[q]

LEMMA TextsAre ==
    ASSUME NEW h, NEW S \in SUBSET Nat, IsFiniteSet(S), S # {}
    PROVE  Along(h, S, TextsAlong(h, S))
<1> DEFINE T == Turning(h, S)
           a == Ascending(T)
           k == Cardinality(T)
           texts == TextsAlong(h, S)
<1>1. /\ Min(S) \in S /\ \A x \in S : Min(S) <= x
      /\ Max(S) \in S /\ \A x \in S : x <= Max(S)
    BY AscendingEnds
<1>0. \A x \in S : x \in Nat
    OBVIOUS
<1>2. Min(S) \in T
    <2>1. ASSUME NEW p \in S, Follows(S, p, Min(S)) PROVE FALSE
        <3>1. p < Min(S) /\ Min(S) <= p /\ p \in Nat /\ Min(S) \in Nat
            BY <1>0, <1>1, <2>1 DEF Follows
        <3> QED
            BY <3>1
    <2> QED
        BY <1>1, <2>1 DEF Turning
<1>3. T \in SUBSET S /\ T \in SUBSET Nat /\ IsFiniteSet(T) /\ T # {}
    BY <1>2, FS_Subset DEF Turning
<1> HIDE DEF T
<1>4. /\ k \in Nat \ {0} /\ a \in [1..k -> T] /\ a \in Seq(T) /\ Len(a) = k
      /\ \A i, j \in 1..k : i < j => a[i] < a[j]
      /\ \A x \in T : \E i \in 1..k : a[i] = x
      /\ Head(a) = Min(T) /\ Last(a) = Max(T)
      /\ Min(T) \in T /\ \A x \in T : Min(T) <= x
      /\ Max(T) \in T /\ \A x \in T : x <= Max(T)
    BY <1>3, AscendingIs, AscendingEnds
<1> HIDE DEF a, k
<1>5. texts = [i \in 1..k |-> h[a[i]]]
    BY DEF TextsAlong, T, a, k
<1>6. \A i \in 1..k : a[i] \in T /\ a[i] \in S /\ a[i] \in Nat
    BY <1>3, <1>4
<1>7. /\ texts \in Seq({h[q] : q \in S}) /\ Len(texts) = k /\ DOMAIN texts = 1..k
    BY <1>4, <1>5, <1>6
<1> HIDE DEF texts
<1>8. \A i \in 1..k : texts[i] = h[a[i]]
    BY <1>5
<1>9. \A x \in S : \E y \in T : y <= x /\ h[y] = h[x]
    <2> DEFINE bad == {x \in S : ~\E y \in T : y <= x /\ h[y] = h[x]}
    <2> SUFFICES ASSUME bad # {} PROVE FALSE
        OBVIOUS
    <2>1. bad \in SUBSET Nat
        OBVIOUS
    <2>2. PICK x \in bad : \A y \in bad : x <= y
        <3> HIDE DEF bad
        <3> QED
            BY <2>1, LeastExists
    <2>3. x \in S /\ x \in Nat /\ ~(\E y \in T : y <= x /\ h[y] = h[x])
        BY <1>0, <2>2
    <2>4. x \notin T
        BY <2>3
    <2>5. PICK p \in S : Follows(S, p, x) /\ h[p] = h[x]
        BY <2>3, <2>4 DEF Turning, T
    <2>6. p < x /\ p \in Nat
        BY <1>0, <2>5 DEF Follows
    <2>7. p \notin bad
        <3> HIDE DEF bad
        <3> QED
            BY <2>2, <2>3, <2>6
    <2>8. PICK y \in T : y <= p /\ h[y] = h[p]
        BY <2>7
    <2>9. y \in Nat
        BY <1>3
    <2> QED
        BY <2>3, <2>5, <2>6, <2>8, <2>9
<1>10. Min(T) = Min(S)
    <2>1. Min(T) <= Min(S) /\ Min(S) <= Min(T) /\ Min(T) \in Nat /\ Min(S) \in Nat
        BY <1>0, <1>1, <1>2, <1>3, <1>4
    <2> QED
        BY <2>1
<1>11. h[Max(S)] = h[Max(T)]
    \* The turn that has the last stop's text is the last one: from a turn on, the
    \* text stays up to the next turn.
    <2> DEFINE late == {x \in S : Max(T) <= x /\ h[x] # h[Max(T)]}
    <2>1. late = {}
        <3> SUFFICES ASSUME late # {} PROVE FALSE
            OBVIOUS
        <3>1. late \in SUBSET Nat
            OBVIOUS
        <3>2. PICK x \in late : \A y \in late : x <= y
            <4> HIDE DEF late
            <4> QED
                BY <3>1, LeastExists
        <3>3. /\ x \in S /\ x \in Nat /\ Max(T) \in Nat /\ Max(T) \in S
              /\ Max(T) <= x /\ h[x] # h[Max(T)] /\ Max(T) # x
            BY <1>0, <1>3, <1>4, <3>2
        <3>4. x \notin T
            BY <1>4, <3>3
        <3>5. PICK p \in S : Follows(S, p, x) /\ h[p] = h[x]
            BY <3>3, <3>4 DEF Turning, T
        <3>6. p < x /\ p \in Nat /\ (Max(T) <= p \/ x <= Max(T))
            BY <1>0, <3>3, <3>5 DEF Follows
        <3>7. p \in late /\ x <= p
            BY <3>2, <3>3, <3>5, <3>6
        <3> QED
            BY <3>3, <3>6, <3>7
    <2>2. Max(T) <= Max(S)
        BY <1>1, <1>3, <1>4
    <2> QED
        BY <1>1, <2>1, <2>2
<1>12. Head(texts) = h[Min(S)] /\ Last(texts) = h[Max(S)]
    <2>1. Head(texts) = texts[1] /\ Head(a) = a[1] /\ 1 \in 1..k /\ k \in 1..k
        BY <1>4, <1>7
    <2>2. Last(texts) = texts[k] /\ Last(a) = a[k]
        BY <1>4, <1>7 DEF Last
    <2> QED
        BY <1>4, <1>8, <1>10, <1>11, <2>1, <2>2
<1>13. ASSUME NEW q \in S PROVE \E i \in 1..k : texts[i] = h[q]
    <2>1. PICK y \in T : h[y] = h[q]
        BY <1>9
    <2>2. PICK i \in 1..k : a[i] = y
        BY <1>4
    <2> QED
        BY <1>8, <2>1, <2>2
<1>14. ASSUME NEW i \in 1..k, i # 1
       PROVE  \E p, q \in S : Follows(S, p, q) /\ h[p] # h[q] /\ texts[i] = h[q]
    <2>1. 1 \in 1..k /\ a[1] < a[i]
        BY <1>4, <1>14
    <2>2. PICK p \in S : Follows(S, p, a[i])
        BY <1>6, <2>1, OneBefore
    <2>3. h[p] # h[a[i]]
        BY <1>6, <2>2 DEF T, Turning
    <2> QED
        BY <1>6, <1>8, <2>2, <2>3
<1>15. ASSUME NEW p \in S, NEW q \in S, Follows(S, p, q), h[p] # h[q]
       PROVE  \E i \in 1..k : i # 1 /\ texts[i] = h[q]
    <2>1. q \in T
        <3>1. ASSUME NEW r \in S, Follows(S, r, q) PROVE r = p
            <4>1. /\ r \in Nat /\ p \in Nat /\ q \in Nat /\ r < q /\ p < q
                  /\ (r <= p \/ q <= r) /\ (p <= r \/ q <= p)
                BY <1>0, <1>15, <3>1 DEF Follows
            <4> QED
                BY <4>1
        <3> QED
            BY <1>15, <3>1 DEF T, Turning
    <2>2. PICK i \in 1..k : a[i] = q
        BY <1>4, <2>1
    <2>3. a[1] = Min(S)
        <3>1. Head(a) = a[1]
            BY <1>4
        <3> QED
            BY <1>4, <1>10, <3>1
    <2>4. Min(S) <= p /\ p < q /\ p \in Nat /\ Min(S) \in Nat /\ q \in Nat
        BY <1>0, <1>1, <1>15 DEF Follows
    <2>5. i # 1
        BY <2>2, <2>3, <2>4
    <2> QED
        BY <1>8, <2>2, <2>5
<1> QED
    BY <1>4, <1>7, <1>12, <1>13, <1>14, <1>15 DEF Along, texts

\* One text, wherever the window stops.
LEMMA OneText ==
    ASSUME NEW h, NEW S \in SUBSET Nat, IsFiniteSet(S), S # {}, NEW text, \A q \in S : h[q] = text
    PROVE  TextsAlong(h, S) = <<text>>
<1> DEFINE t == TextsAlong(h, S)
<1>1. Along(h, S, t)
    BY TextsAre
<1> HIDE DEF t
<1>2. /\ Len(t) \in Nat \ {0} /\ DOMAIN t = 1..Len(t) /\ t \in Seq({h[q] : q \in S})
      /\ \A q \in S : \E i \in DOMAIN t : t[i] = h[q]
      /\ \A i \in DOMAIN t : i # 1 => \E p, q \in S : h[p] # h[q]
    BY <1>1 DEF Along
<1>3. Len(t) = 1
    <2>1. Len(t) # 1 => Len(t) \in DOMAIN t
        BY <1>2
    <2> QED
        BY <1>2, <2>1
<1>4. t[1] = text
    <2>1. PICK q \in S : TRUE
        OBVIOUS
    <2>2. PICK i \in 1..1 : t[i] = h[q]
        BY <1>2, <1>3, <2>1
    <2>3. i = 1
        OBVIOUS
    <2>4. h[q] = text
        OBVIOUS
    <2> QED
        BY <2>2, <2>3, <2>4, Zenon
<1>5. t = [i \in 1..1 |-> text]
    <2>1. t = [i \in 1..1 |-> t[i]]
        BY <1>2, <1>3
    <2> QED
        BY <1>4, <2>1
<1>6. [i \in 1..1 |-> text] = <<text>>
    OBVIOUS
<1> QED
    BY <1>5, <1>6 DEF t

\* Release points that the list lacks change nothing in a window, as long as they
\* have the text of the last one it knows.
LEMMA KnownAlong ==
    ASSUME NEW h, NEW H \in SUBSET Nat, IsFiniteSet(H), NEW K \in SUBSET H, K # {},
           \A q \in H \ K : Max(K) < q /\ h[q] = h[Max(K)],
           NEW start \in Int, NEW end \in Int
    PROVE  /\ TextsAlong(h, At(K, start, end)) = TextsAlong(h, At(H, start, end))
           /\ {q \in K : q <= start} = {} <=> {q \in H : q <= start} = {}
<1> DEFINE m == Max(K)
           S == At(K, start, end)
           R == At(H, start, end)
           kept == {q \in K : q <= start}
           held == {q \in H : q <= start}
<1>1. K \in SUBSET Nat /\ IsFiniteSet(K)
    BY FS_Subset
<1>2. m \in K /\ (\A q \in K : q <= m) /\ m \in Nat
    BY <1>1, AscendingEnds
<1>3. \A q \in H : q \in Nat /\ (q \in K \/ (m < q /\ h[q] = h[m]))
    OBVIOUS
<1> HIDE DEF m
<1>9. \A q \in K : q \in Nat /\ q <= m
    BY <1>1, <1>2
<1>4. kept = {} <=> held = {}
    <2>1. ASSUME NEW q \in held PROVE kept # {}
        <3>1. q \in K => q \in kept
            BY <2>1
        <3>2. q \notin K => m <= start
            BY <1>2, <1>3
        <3> QED
            BY <1>2, <3>1, <3>2
    <2>2. kept \in SUBSET held
        OBVIOUS
    <2> QED
        BY <2>1, <2>2
<1>5. /\ S \in SUBSET K /\ IsFiniteSet(S)
      /\ kept = {} => S = Inside(K, start, end)
      /\ kept # {} => Max(kept) \in kept /\ S = Inside(K, start, end) \cup {Max(kept)}
    <2>1. StopsTell(K, start, end)
        BY <1>1, StopsAre
    <2> QED
        BY <2>1 DEF StopsTell
<1>6. /\ R \in SUBSET H /\ IsFiniteSet(R)
      /\ held = {} => R = Inside(H, start, end)
      /\ held # {} => Max(held) \in held /\ (\A q \in held : q <= Max(held))
                      /\ R = Inside(H, start, end) \cup {Max(held)}
    <2>1. StopsTell(H, start, end)
        BY StopsAre
    <2> QED
        BY <2>1 DEF StopsTell
<1> HIDE DEF S, R
<1>7. CASE start < m
    <2>1. kept = held
        <3>1. ASSUME NEW q \in held PROVE q \in kept
            BY <1>2, <1>3, <1>7
        <3> QED
            BY <3>1
    <2> DEFINE new == {q \in H \ K : start < q /\ q <= end}
    <2>2. R = S \cup new
        <3>1. Inside(H, start, end) = Inside(K, start, end) \cup new
            BY DEF Inside
        <3> HIDE DEF kept, held, new
        <3>2. CASE held = {}
            BY <1>5, <1>6, <2>1, <3>1, <3>2
        <3>3. CASE held # {}
            BY <1>5, <1>6, <2>1, <3>1, <3>3
        <3> QED
            BY <3>2, <3>3
    <2>3. \A q \in new : m < q /\ q \notin S /\ q \in Nat /\ h[q] = h[m]
        BY <1>3, <1>5
    <2>4. \A q \in S : q <= m /\ q \in Nat
        BY <1>1, <1>2, <1>5
    <2>5. CASE new = {}
        BY <2>2, <2>5, <1>4 DEF S, R
    <2>6. CASE new # {}
        <3>1. m \in S
            <4>1. PICK q \in new : TRUE
                BY <2>6
            <4>2. m <= end
                BY <1>2, <2>3, <4>1
            <4>3. m \in Inside(K, start, end)
                BY <1>2, <1>7, <4>2 DEF Inside
            <4> QED
                BY <1>5, <4>3
        <3> HIDE DEF new
        <3>2. ASSUME NEW x \in new PROVE x \notin Turning(h, R)
            <4>1. x \in R /\ m \in R /\ m < x /\ R \in SUBSET Nat
                BY <1>6, <2>2, <2>3, <3>1
            <4>2. PICK p \in R : Follows(R, p, x) /\ m <= p
                BY <1>6, <4>1, OneBefore
            <4>3. h[p] = h[m]
                <5>1. p \in S => p = m
                    BY <1>2, <2>4, <4>2
                <5> QED
                    BY <2>2, <2>3, <4>2, <5>1
            <4> QED
                BY <2>3, <4>2, <4>3 DEF Turning
        <3>3. ASSUME NEW x \in S, NEW p \in R PROVE Follows(R, p, x) <=> p \in S /\ Follows(S, p, x)
            <4>1. x <= m /\ x \in Nat
                BY <2>4
            <4>2. p < x => p \in S
                BY <1>2, <2>2, <2>3, <4>1
            <4>3. \A r \in new : x <= r
                BY <1>2, <2>3, <4>1
            <4> QED
                BY <2>2, <4>2, <4>3 DEF Follows
        <3>4. ASSUME NEW x \in S PROVE x \in Turning(h, R) <=> x \in Turning(h, S)
            BY <2>2, <3>3 DEF Turning
        <3>5. Turning(h, R) = Turning(h, S)
            BY <2>2, <3>2, <3>4 DEF Turning
        <3> QED
            BY <1>4, <3>5 DEF TextsAlong, S, R
    <2> QED
        BY <2>5, <2>6
<1>8. CASE ~(start < m)
    <2>0. m <= start
        BY <1>2, <1>8
    <2>1. m \in kept /\ kept = K
        <3>1. \A q \in K : q <= start
            BY <1>2, <1>9, <2>0
        <3> QED
            BY <1>2, <3>1
    <2>2. ASSUME NEW q \in S PROVE h[q] = h[m]
        <3>1. q \notin Inside(K, start, end)
            <4> SUFFICES ASSUME q \in Inside(K, start, end) PROVE FALSE
                OBVIOUS
            <4>1. q \in K /\ start < q
                BY DEF Inside
            <4>2. q \in Nat /\ q <= m
                BY <1>9, <4>1
            <4> QED
                BY <1>2, <2>0, <4>1, <4>2
        <3>2. q = Max(kept)
            BY <1>5, <2>1, <3>1
        <3> QED
            BY <2>1, <3>2 DEF m
    <2>3. S # {}
        BY <1>5, <2>1
    <2>4. held # {} /\ m \in held
        BY <2>1
    <2>5. ASSUME NEW q \in R PROVE h[q] = h[m]
        <3>1. q \in H
            BY <1>6
        <3>2. CASE q \in Inside(H, start, end)
            <4>1. m < q
                BY <1>2, <1>3, <1>8, <3>2 DEF Inside
            <4>2. q \notin K
                <5> SUFFICES ASSUME q \in K PROVE FALSE
                    OBVIOUS
                <5>1. q \in Nat /\ q <= m
                    BY <1>9
                <5> QED
                    BY <1>2, <4>1, <5>1
            <4> QED
                BY <1>3, <3>1, <4>2
        <3>3. CASE q \notin Inside(H, start, end)
            <4>1. q = Max(held)
                BY <1>6, <2>4, <3>3
            <4>2. m <= q
                <5> HIDE DEF held
                <5> QED
                    BY <1>6, <2>4, <4>1
            <4>3. q \in K => q = m
                BY <1>1, <1>2, <4>2
            <4> QED
                BY <1>3, <3>1, <4>3
        <3> QED
            BY <3>2, <3>3
    <2>6. R # {}
        BY <1>6, <2>4
    <2>7. S \in SUBSET Nat /\ R \in SUBSET Nat
        BY <1>1, <1>5, <1>6
    <2>8. TextsAlong(h, S) = <<h[m]>> /\ TextsAlong(h, R) = <<h[m]>>
        BY <1>5, <1>6, <2>2, <2>3, <2>5, <2>6, <2>7, OneText
    <2> QED
        BY <1>4, <2>8 DEF S, R
<1> QED
    BY <1>7, <1>8

\* When no text came back, what the list lacks has the last text it knows, if it
\* knows a release point of every version.
Stale(h, K) == K # {} /\ \A q \in Published(h) \ K : Max(K) < q /\ h[q] = h[Max(K)]

LEMMA StaleAlike ==
    ASSUME NEW h \in Seq(Text \cup {Absent}), NEW E, NEW g, NEW n, Tells(h, E, g, n),
           ~Returns(h), NEW m \in Nat, \A i \in 1..n : Carrying(h, g[i]) \cap 1..m # {},
           Published(h) # {}
    PROVE  Stale(h, Published(h) \cap 1..m)
<1> DEFINE K == Published(h) \cap 1..m
<1>1. Stand(h, g, n)
    BY VersionsStand
<1>2. \A r \in Published(h) : r \in Nat /\ \E i \in 1..n : g[i] = h[r] /\ r \in Carrying(h, g[i])
    <2> SUFFICES ASSUME NEW r \in Published(h)
                 PROVE  r \in Nat /\ \E i \in 1..n : g[i] = h[r] /\ r \in Carrying(h, g[i])
        OBVIOUS
    <2>1. PICK i \in 1..n : g[i] = h[r]
        BY DEF Tells, Partly
    <2> QED
        BY <1>1, <2>1 DEF Stand
<1>3. \A i \in 1..n : \E k \in K : k \in Carrying(h, g[i])
    BY <1>1 DEF Stand
<1>4. K # {}
    BY <1>2, <1>3
<1>5. K \in SUBSET Nat /\ \A q \in K : q <= m
    OBVIOUS
<1> DEFINE last == Max(K)
<1>6. last \in K /\ \A q \in K : q <= last
    <2> HIDE DEF K
    <2> QED
        BY <1>4, <1>5, MaxIs
<1> HIDE DEF last
<1>7. ASSUME NEW q \in Published(h) \ K PROVE last < q /\ h[q] = h[last]
    <2>1. q \in Nat /\ m < q /\ last \in Nat /\ last <= m
        <3>1. q \in 1..Len(h) /\ q \notin 1..m
            BY <1>1 DEF Stand
        <3>2. last \in Nat /\ last <= m
            BY <1>5, <1>6
        <3> QED
            BY <3>1, <3>2
    <2>2. PICK x \in 1..n : g[x] = h[last] /\ last \in Carrying(h, g[x])
        BY <1>2, <1>6
    <2>3. PICK y \in 1..n : g[y] = h[q] /\ q \in Carrying(h, g[y])
        BY <1>2
    <2>4. PICK k \in K : k \in Carrying(h, g[y])
        BY <1>3
    <2>5. k \in Nat /\ k <= last
        BY <1>5, <1>6
    <2>6. n \in Nat /\ Partly(h, E, g, n)
        BY DEF Tells, Partly
    <2>7. ~(y < x)
        <3>1. y < x => q < last
            BY <2>2, <2>3, <2>6, VersionsFollow
        <3> QED
            BY <2>1, <3>1
    <2>8. ~(x < y)
        <3>1. x < y => last < k
            BY <2>2, <2>4, <2>6, VersionsFollow
        <3> QED
            BY <2>1, <2>5, <3>1
    <2>9. x = y
        BY <2>6, <2>7, <2>8
    <2> QED
        BY <2>1, <2>2, <2>3, <2>9
<1> QED
    BY <1>4, <1>7 DEF last, Stale

\* A window tells what happened in it, with a list that may be behind.
LEMMA WindowFull ==
    ASSUME NEW h \in Seq(Text \cup {Absent}), NEW E, NEW g, NEW n, Tells(h, E, g, n),
           NEW m \in Nat, NEW start \in Int, NEW end \in Int,
           Len(h) <= m \/ ~Returns(h),
           versionsInWindow(E, start, end, releaseOrder(1..m)).complete
    PROVE  WindowTells(h, E, g, n, Len(h), start, end, versionsInWindow(E, start, end, releaseOrder(1..m)))
<1> DEFINE H == Published(h)
           K == H \cap 1..m
           cut == versionsInWindow(E, start, end, releaseOrder(1..m))
<1>1. WindowTells(h, E, g, n, m, start, end, cut)
    BY WindowIs
<1>2. H \cap 1..Len(h) = H /\ H \in SUBSET Nat /\ H \in SUBSET (1..Len(h))
    BY DEF Published
<1>3. IsFiniteSet(H)
    <2>1. IsFiniteSet(1..Len(h))
        BY FS_Interval
    <2> QED
        BY <1>2, <2>1, FS_Subset
<1>4. cut.complete
    OBVIOUS
<1> HIDE DEF cut
<1>5. CASE Len(h) <= m \/ H = {}
    <2>1. /\ H \cap 1..m = H \cap 1..Len(h)
          /\ \A i \in 1..n : Carrying(h, g[i]) \cap 1..m = Carrying(h, g[i]) \cap 1..Len(h)
        <3>1. Len(h) <= m => \A r \in 1..Len(h) : r \in 1..m
            OBVIOUS
        <3>2. \A text : Carrying(h, text) \in SUBSET H
            BY DEF Carrying
        <3> HIDE DEF H
        <3> QED
            BY <1>2, <1>5, <3>1, <3>2
    <2> QED
        BY <1>1, <2>1 DEF WindowTells, cut
<1>6. CASE ~Returns(h) /\ H # {}
    <2>1. \A i \in 1..n : Carrying(h, g[i]) \cap 1..m # {}
        BY <1>1, <1>4 DEF WindowTells
    <2>2. K # {} /\ \A q \in H \ K : Max(K) < q /\ h[q] = h[Max(K)]
        <3>1. Stale(h, H \cap 1..m)
            BY <1>6, <2>1, StaleAlike
        <3> QED
            BY <3>1 DEF Stale
    <2>3. K \in SUBSET H
        OBVIOUS
    <2> HIDE DEF K, H
    <2>4. /\ TextsAlong(h, At(K, start, end)) = TextsAlong(h, At(H, start, end))
          /\ {q \in K : q <= start} = {} <=> {q \in H : q <= start} = {}
        BY <1>2, <1>3, <2>2, <2>3, KnownAlong
    <2>5. \A i \in 1..n : Carrying(h, g[i]) \cap 1..Len(h) # {}
        <3> SUFFICES ASSUME NEW i \in 1..n PROVE Carrying(h, g[i]) \cap 1..Len(h) # {}
            OBVIOUS
        <3>1. Carrying(h, g[i]) \cap 1..m # {} /\ Carrying(h, g[i]) \in SUBSET H
            BY <2>1, VersionsStand DEF Stand, H
        <3> QED
            BY <1>2, <3>1
    <2> QED
        BY <1>1, <1>2, <1>4, <2>4, <2>5 DEF WindowTells, cut, K, H
<1> QED
    BY <1>5, <1>6

\* Between a stop and the one before, the section was published nowhere.
LEMMA NothingBetween ==
    ASSUME NEW H \in SUBSET Nat, IsFiniteSet(H), NEW start \in Int, NEW end \in Int,
           NEW p \in At(H, start, end), NEW q \in At(H, start, end), Follows(At(H, start, end), p, q),
           NEW r \in H
    PROVE  r <= p \/ q <= r
<1> DEFINE S == At(H, start, end)
           before == {x \in H : x <= start}
<1>1. /\ S \in SUBSET H
      /\ before = {} => S = Inside(H, start, end)
      /\ before # {} => (\A x \in before : x <= Max(before)) /\ Max(before) \in before
                        /\ S = Inside(H, start, end) \cup {Max(before)}
    <2>1. StopsTell(H, start, end)
        BY StopsAre
    <2> QED
        BY <2>1 DEF StopsTell
<1> HIDE DEF S
<1>2. p \in S /\ q \in S /\ p < q /\ (r \in S => r <= p \/ q <= r)
    BY DEF S, Follows
<1>3. p \in Nat /\ q \in Nat /\ r \in Nat
    BY <1>1, <1>2
<1>4. SUFFICES ASSUME p < r, r < q PROVE FALSE
    BY <1>3
<1>5. r \notin S
    BY <1>2, <1>3, <1>4
<1>6. ~(q <= start)
    <2> SUFFICES ASSUME q <= start PROVE FALSE
        OBVIOUS
    <2>1. p \in before /\ q \in before /\ p <= start
        BY <1>1, <1>2, <1>3
    <2>2. p \notin Inside(H, start, end) /\ q \notin Inside(H, start, end)
        BY <1>3, <2>1 DEF Inside
    <2>3. p = Max(before) /\ q = Max(before)
        BY <1>1, <1>2, <2>1, <2>2
    <2> QED
        BY <1>2, <1>3, <2>3
<1>7. q <= end
    <2>1. q \in Inside(H, start, end)
        <3>1. before # {} => q # Max(before)
            BY <1>1, <1>6
        <3> QED
            BY <1>1, <1>2, <3>1
    <2> QED
        BY <2>1 DEF Inside
<1>8. CASE start < r
    <2>1. r \in Inside(H, start, end)
        BY <1>3, <1>4, <1>7, <1>8 DEF Inside
    <2> QED
        BY <1>1, <1>5, <2>1
<1>9. CASE ~(start < r)
    <2>1. r \in before
        BY <1>3, <1>9
    <2>2. r <= Max(before) /\ Max(before) \in S /\ Max(before) <= start /\ Max(before) \in Nat
        BY <1>1, <2>1
    <2>3. Max(before) <= p \/ q <= Max(before)
        BY <2>2 DEF S, Follows
    <2> QED
        BY <1>3, <1>4, <1>6, <2>2, <2>3
<1> QED
    BY <1>8, <1>9

-----------------------------------------------------------------------------
(***************************************************************************)
(* The two ends of a window                                                *)
(***************************************************************************)

\* `releaseOnOrBefore`: the last release point of those days, if there is one.
OnOrBefore(n, day, release) ==
    \/ release = NoRelease /\ \A r \in 1..n : ~(Dated[r] <= day)
    \/ /\ release \in 1..n /\ Dated[release] <= day
       /\ \A r \in 1..n : Dated[r] <= day => r <= release

LEMMA OnOrBeforeIs ==
    ASSUME NEW n \in Nat, NEW day
    PROVE  OnOrBefore(n, day, releaseOnOrBefore(1..n, Dated, day))
<1> DEFINE before == {r \in 1..n : Dated[r] <= day}
           release == releaseOnOrBefore(1..n, Dated, day)
<1>1. release = IF before = {} THEN NoRelease ELSE Max(before)
    BY DEF releaseOnOrBefore
<1>2. CASE before = {}
    <2> HIDE DEF release
    <2>1. \A r \in 1..n : ~(Dated[r] <= day)
        BY <1>2
    <2> QED
        BY <1>1, <1>2, <2>1 DEF OnOrBefore, release
<1>3. CASE before # {}
    <2>1. before \in SUBSET Nat /\ \A r \in before : r <= n
        OBVIOUS
    <2>2. Max(before) \in before /\ \A r \in before : r <= Max(before)
        <3> HIDE DEF before
        <3> QED
            BY <1>3, <2>1, MaxIs
    <2> HIDE DEF release
    <2>3. release \in before /\ \A r \in before : r <= release
        BY <1>1, <1>3, <2>2
    <2> QED
        BY <2>3 DEF OnOrBefore, release
<1> QED
    BY <1>2, <1>3

\* What was published by a release point.
HeldBy(h, x) == {q \in Published(h) : q <= x}

\* What one end shows: the text read at its release point, if it is read there, or
\* else what the list says.
EndTells(e, release, fallback) ==
    IF e.exists
    THEN /\ release # NoRelease /\ e.release = release
         /\ HeldBy(history, release) # {} /\ e.contentHash = history[Max(HeldBy(history, release))]
    ELSE /\ e.release = fallback
         /\ release = NoRelease \/ HeldBy(history, release) = {}

LEMMA EndIs ==
    ASSUME history \in Seq(Text \cup {Absent}), NEW newest \in 0..Len(history), NEW day
    PROVE  EndTells(End(day, newest), releaseOnOrBefore(1..newest, Dated, day),
                    releaseOnOrBefore(1..listed, Dated, day))
<1> DEFINE release == releaseOnOrBefore(1..newest, Dated, day)
           fallback == releaseOnOrBefore(1..listed, Dated, day)
           section == ServedAt(release)
           e == End(day, newest)
           held == HeldBy(history, release)
<1>0. newest \in Nat
    OBVIOUS
<1>1. OnOrBefore(newest, day, release)
    BY <1>0, OnOrBeforeIs
<1>2. /\ e.release = IF section = Absent THEN fallback ELSE release
      /\ e.exists = (section # Absent) /\ e.contentHash = section
    BY DEF End, windowEnd
<1> HIDE DEF release, fallback, section, e
<1>3. section = IF release = NoRelease THEN Absent
                ELSE IF held = {} THEN Absent ELSE history[Max(held)]
    BY DEF section, ServedAt, TextAt, HeldBy
<1>5. ASSUME release # NoRelease, held # {}
      PROVE  history[Max(held)] # Absent
    <2>1. release \in 1..newest /\ release \in Nat
        BY <1>0, <1>1, <1>5 DEF OnOrBefore
    <2>2. held \in SUBSET Nat /\ \A q \in held : q <= release
        BY DEF HeldBy, Published
    <2> HIDE DEF held
    <2>3. Max(held) \in held
        BY <1>5, <2>1, <2>2, MaxIs
    <2> QED
        BY <2>3 DEF held, HeldBy, Published
<1>6. CASE section = Absent
    BY <1>2, <1>3, <1>5, <1>6 DEF EndTells, e, release, fallback
<1>7. CASE section # Absent
    <2>1. e.exists /\ e.release = release /\ e.contentHash = section
        BY <1>2, <1>7
    <2>2. release # NoRelease /\ held # {} /\ section = history[Max(held)]
        BY <1>3, <1>7
    <2> QED
        BY <2>1, <2>2 DEF EndTells, e, release, fallback
<1> QED
    BY <1>6, <1>7

\* The numbers of a window's ends, and what is read there.
EndsTell(h, from, to, start, end) ==
    /\ start \in Int /\ end \in Nat /\ start <= end
    /\ to.exists /\ HeldBy(h, end) # {} /\ to.contentHash = h[Max(HeldBy(h, end))]
    /\ from.exists <=> HeldBy(h, start) # {}
    /\ from.exists => from.contentHash = h[Max(HeldBy(h, start))]

LEMMA EndsAre ==
    ASSUME history \in Seq(Text \cup {Absent}), Len(history) <= MaxRelease,
           listed \in 0..Len(history), NEW first \in Int, NEW last \in Int, first <= last,
           NEW mapped \in 0..Len(history), NEW a \in mapped..Len(history), NEW b \in mapped..Len(history),
           End(first, a).exists \/ End(last, b).exists,
           {End(first, a).release, End(last, b).release} \subseteq {NoRelease} \cup 1..mapped
    PROVE  EndsTell(Upto(history, mapped), End(first, a), End(last, b),
                    IF End(first, a).release = NoRelease THEN -1 ELSE End(first, a).release,
                    IF End(last, b).release = NoRelease THEN MaxRelease + 1 ELSE End(last, b).release)
<1> DEFINE h == Upto(history, mapped)
           from == End(first, a)
           to == End(last, b)
           start == IF from.release = NoRelease THEN -1 ELSE from.release
           end == IF to.release = NoRelease THEN MaxRelease + 1 ELSE to.release
           p == releaseOnOrBefore(1..a, Dated, first)
           f == releaseOnOrBefore(1..listed, Dated, first)
           q == releaseOnOrBefore(1..b, Dated, last)
           e == releaseOnOrBefore(1..listed, Dated, last)
<1>0. /\ mapped \in Nat /\ a \in Nat /\ b \in Nat /\ listed \in Nat /\ mapped <= a /\ mapped <= b
      /\ a <= MaxRelease /\ b <= MaxRelease /\ listed <= MaxRelease /\ MaxRelease \in Nat
      /\ a \in 0..Len(history) /\ b \in 0..Len(history)
    BY BrowsingAssumption
<1>1. \A r \in 1..MaxRelease : Dated[r] \in Int
    BY <1>0 DEF Dated
<1>2. EndTells(from, p, f) /\ EndTells(to, q, e)
    BY <1>0, EndIs
<1>3. OnOrBefore(a, first, p) /\ OnOrBefore(b, last, q) /\ OnOrBefore(listed, first, f)
    BY <1>0, OnOrBeforeIs
<1>4. from.exists \/ to.exists
    OBVIOUS
<1>5. from.release \in {NoRelease} \cup 1..mapped /\ to.release \in {NoRelease} \cup 1..mapped
    OBVIOUS
<1> HIDE DEF from, to, p, q, f, e
<1>6. \A r \in 1..MaxRelease : Dated[r] <= first => Dated[r] <= last
    BY <1>1
\* A release point that is mapped and not after the first day is not after `q`.
<1>7. ASSUME NEW r \in 1..mapped, Dated[r] <= first
      PROVE  /\ q # NoRelease /\ q \in 1..b /\ r <= q
             /\ p # NoRelease /\ p \in 1..a /\ r <= p
    <2>1. r \in 1..a /\ r \in 1..b /\ Dated[r] <= last
        BY <1>0, <1>6, <1>7
    <2>2. q \in 1..b /\ r <= q /\ p \in 1..a /\ r <= p
        BY <1>3, <1>7, <2>1 DEF OnOrBefore
    <2> QED
        BY <1>0, <2>2, TimelineAssumption
<1>8. /\ h \in Seq(Text \cup {Absent})
      /\ Published(h) = {x \in Published(history) : x <= mapped}
      /\ \A x \in Published(h) : h[x] = history[x]
    BY HistoryUpto
<1>9. \A x \in Published(history) : x \in Nat
    BY DEF Published
<1> HIDE DEF h
<1>10. \A x \in 1..mapped : HeldBy(h, x) = HeldBy(history, x)
    BY <1>0, <1>8, <1>9 DEF HeldBy
<1>11. ASSUME NEW x \in 1..mapped, HeldBy(history, x) # {}
       PROVE  h[Max(HeldBy(history, x))] = history[Max(HeldBy(history, x))]
    <2> DEFINE held == HeldBy(history, x)
    <2>1. held \in SUBSET Nat /\ x \in Nat /\ \A y \in held : y <= x
        BY <1>9 DEF HeldBy
    <2>2. held \in SUBSET Published(h)
        BY <1>10 DEF HeldBy
    <2> HIDE DEF held
    <2>3. Max(held) \in held
        BY <1>11, <2>1, MaxIs DEF held
    <2> QED
        BY <1>8, <2>2, <2>3 DEF held
<1>12. to.exists
    <2> SUFFICES ASSUME from.exists, ~to.exists PROVE FALSE
        BY <1>4
    <2>1. p # NoRelease /\ from.release = p /\ HeldBy(history, p) # {}
        BY <1>2 DEF EndTells
    <2>2. p \in 1..mapped /\ Dated[p] <= first
        BY <1>3, <1>5, <2>1 DEF OnOrBefore
    <2>3. q # NoRelease /\ q \in 1..b /\ p <= q
        BY <1>7, <2>2
    <2>4. HeldBy(history, q) = {}
        BY <1>2, <2>3 DEF EndTells
    <2>5. PICK r \in Published(history) : r <= p
        BY <2>1 DEF HeldBy
    <2>6. r <= q
        BY <1>0, <1>9, <2>2, <2>3, <2>5
    <2> QED
        BY <2>4, <2>6 DEF HeldBy
<1>13. /\ q # NoRelease /\ to.release = q
       /\ HeldBy(history, q) # {} /\ to.contentHash = history[Max(HeldBy(history, q))]
    BY <1>2, <1>12 DEF EndTells
<1>14. q \in 1..mapped
    BY <1>5, <1>13
<1>15. /\ HeldBy(h, q) # {} /\ to.contentHash = h[Max(HeldBy(h, q))]
    BY <1>10, <1>11, <1>13, <1>14
<1>16. end = q
    BY <1>13
<1>17. CASE from.exists
    <2>1. /\ p # NoRelease /\ from.release = p
          /\ HeldBy(history, p) # {} /\ from.contentHash = history[Max(HeldBy(history, p))]
        BY <1>2, <1>17 DEF EndTells
    <2>2. p \in 1..mapped /\ Dated[p] <= first
        BY <1>3, <1>5, <2>1 DEF OnOrBefore
    <2>3. p <= q
        BY <1>7, <2>2
    <2>4. HeldBy(h, p) # {} /\ from.contentHash = h[Max(HeldBy(h, p))]
        BY <1>10, <1>11, <2>1, <2>2
    <2>5. start = p
        BY <2>1
    <2> HIDE DEF start, end
    <2>6. EndsTell(h, from, to, start, end)
        BY <1>0, <1>12, <1>14, <1>15, <1>16, <1>17, <2>2, <2>3, <2>4, <2>5 DEF EndsTell
    <2> QED
        BY <2>6 DEF h, from, to, start, end
<1>18. CASE ~from.exists
    <2>0. from.release = f /\ (p = NoRelease \/ HeldBy(history, p) = {})
        BY <1>2, <1>18 DEF EndTells
    <2>1. start \in Int /\ start <= q /\ HeldBy(h, start) = {}
        <3>1. CASE f = NoRelease
            <4>1. start = -1
                BY <2>0, <3>1
            <4>2. \A r \in Published(h) : r \in Nat /\ ~(r <= -1)
                BY <1>8, <1>9
            <4> HIDE DEF start
            <4> QED
                BY <1>0, <1>14, <4>1, <4>2 DEF HeldBy
        <3>2. CASE f # NoRelease
            <4>1. start = f /\ f \in 1..mapped
                BY <1>5, <2>0, <3>2
            <4>2. Dated[f] <= first
                BY <1>3, <3>2 DEF OnOrBefore
            <4>3. p # NoRelease /\ p \in 1..a /\ f <= p /\ f <= q
                BY <1>7, <4>1, <4>2
            <4>4. HeldBy(history, p) = {}
                BY <2>0, <4>3
            <4> HIDE DEF start
            <4>5. ASSUME NEW r \in Published(h), r <= start PROVE FALSE
                <5>1. r \in Published(history) /\ r \in Nat
                    BY <1>8, <1>9
                <5>2. r <= p
                    BY <1>0, <4>1, <4>3, <4>5, <5>1
                <5> QED
                    BY <4>4, <5>1, <5>2 DEF HeldBy
            <4>6. HeldBy(h, start) = {}
                BY <4>5 DEF HeldBy
            <4> QED
                BY <4>1, <4>3, <4>6
        <3> QED
            BY <3>1, <3>2
    <2> HIDE DEF start, end
    <2>2. EndsTell(h, from, to, start, end)
        BY <1>0, <1>12, <1>14, <1>15, <1>16, <1>18, <2>1 DEF EndsTell
    <2> QED
        BY <2>2 DEF h, from, to, start, end
<1> QED
    BY <1>17, <1>18

-----------------------------------------------------------------------------
(***************************************************************************)
(* What a window says                                                      *)
(***************************************************************************)

StopsReach(H, start, end) ==
    LET S == At(H, start, end)
        before == {q \in H : q <= start} IN
    /\ S \in SUBSET H /\ IsFiniteSet(S) /\ S # {}
    /\ Max(S) = Max({q \in H : q <= end})
    /\ before # {} => Min(S) = Max(before)

\* The stops are from the text in force at the start to the one in force at the end.
LEMMA StopsEnd ==
    ASSUME NEW H \in SUBSET Nat, IsFiniteSet(H), NEW start \in Int, NEW end \in Int, start <= end,
           NEW some \in H, some <= end
    PROVE  StopsReach(H, start, end)
<1> DEFINE S == At(H, start, end)
           before == {q \in H : q <= start}
           until == {q \in H : q <= end}
<1>0. \A q \in H : q \in Nat
    OBVIOUS
<1>1. /\ S \in SUBSET H /\ IsFiniteSet(S)
      /\ before = {} => S = Inside(H, start, end)
      /\ before # {} => Max(before) \in before /\ (\A q \in before : q <= Max(before))
                        /\ S = Inside(H, start, end) \cup {Max(before)}
    <2>1. StopsTell(H, start, end)
        BY StopsAre
    <2> QED
        BY <2>1 DEF StopsTell
<1> HIDE DEF S
<1> DEFINE top == Max(until)
<1>2. top \in until /\ \A q \in until : q <= top
    <2>1. until \in SUBSET Nat /\ IsFiniteSet(until) /\ until # {}
        BY FS_Subset
    <2> HIDE DEF until
    <2> QED
        BY <2>1, AscendingEnds
<1> HIDE DEF top
<1>3. top \in H /\ top \in Nat /\ top <= end
    BY <1>2
<1>4. top \in S
    <2>1. CASE start < top
        <3>1. top \in Inside(H, start, end)
            BY <1>3, <2>1 DEF Inside
        <3> QED
            BY <1>1, <3>1
    <2>2. CASE ~(start < top)
        <3>1. top \in before
            BY <1>3, <2>2
        <3>2. Max(before) \in H /\ Max(before) <= start /\ top <= Max(before)
            BY <1>1, <3>1
        <3>3. Max(before) <= end /\ Max(before) \in Nat
            <4> DEFINE b == Max(before)
            <4>1. b \in Nat /\ b <= start
                BY <1>0, <3>2
            <4> HIDE DEF b
            <4>2. b <= end
                BY <4>1
            <4> QED
                BY <4>1, <4>2 DEF b
        <3>4. Max(before) <= top
            BY <1>2, <3>2, <3>3
        <3>5. Max(before) = top
            BY <1>3, <3>2, <3>3, <3>4
        <3> QED
            BY <1>1, <3>1, <3>5
    <2> QED
        BY <2>1, <2>2
<1>5. ASSUME NEW q \in S PROVE q <= top
    <2>1. q \in H /\ q \in Nat
        BY <1>0, <1>1
    <2>2. q <= end
        <3>1. CASE q \in Inside(H, start, end)
            BY <3>1 DEF Inside
        <3>2. CASE q \notin Inside(H, start, end)
            <4>1. q <= start
                BY <1>1, <3>2
            <4> QED
                BY <2>1, <4>1
        <3> QED
            BY <3>1, <3>2
    <2> QED
        BY <1>2, <2>1, <2>2
<1>6. /\ Max(S) \in S /\ \A q \in S : q <= Max(S)
      /\ Min(S) \in S /\ \A q \in S : Min(S) <= q
    <2>1. S \in SUBSET Nat /\ S # {}
        BY <1>0, <1>1, <1>4
    <2> QED
        BY <1>1, <2>1, AscendingEnds
<1>7. Max(S) = top
    <2>1. Max(S) <= top /\ top <= Max(S) /\ Max(S) \in Nat
        BY <1>0, <1>1, <1>4, <1>5, <1>6
    <2> QED
        BY <1>3, <2>1
<1>8. ASSUME before # {} PROVE Min(S) = Max(before)
    <2> DEFINE b == Max(before)
    <2>1. b \in before /\ b \in S /\ b \in Nat /\ b <= start
        BY <1>0, <1>1, <1>8
    <2> HIDE DEF b
    <2>2. Min(S) <= b /\ Min(S) \in Nat /\ Min(S) \in S
        BY <1>0, <1>1, <1>6, <2>1
    <2>3. b <= Min(S)
        <3>1. CASE Min(S) \in Inside(H, start, end)
            <4>1. start < Min(S)
                BY <3>1 DEF Inside
            <4> QED
                BY <2>1, <2>2, <4>1
        <3>2. CASE Min(S) \notin Inside(H, start, end)
            <4>1. Min(S) = b
                BY <1>1, <1>8, <2>2, <3>2 DEF b
            <4> QED
                BY <2>1, <4>1
        <3> QED
            BY <3>1, <3>2
    <2> QED
        BY <2>1, <2>2, <2>3 DEF b
<1>9. StopsReach(H, start, end)
    BY <1>1, <1>4, <1>7, <1>8 DEF StopsReach, S, top
<1> QED
    BY <1>9

\* When the ends differ in statute, so do two stops that follow each other.
LEMMA StatuteTurns ==
    ASSUME NEW h, NEW S \in SUBSET Nat, IsFiniteSet(S), S # {},
           h[Min(S)].statute # h[Max(S)].statute
    PROVE  \E p, q \in S : Follows(S, p, q) /\ h[p].statute # h[q].statute
<1> DEFINE first == Min(S)
           bad == {x \in S : h[x].statute # h[first].statute}
<1>0. \A x \in S : x \in Nat
    OBVIOUS
<1>1. first \in S /\ (\A x \in S : first <= x) /\ Max(S) \in S
    BY AscendingEnds
<1>2. Max(S) \in bad
    BY <1>1
<1> HIDE DEF first
<1>3. bad \in SUBSET Nat
    OBVIOUS
<1>4. PICK q \in bad : \A x \in bad : q <= x
    <2> HIDE DEF bad
    <2> QED
        BY <1>2, <1>3, LeastExists
<1>5. q \in S /\ first < q
    <2>1. q \in S /\ q # first
        BY <1>4
    <2>2. first <= q /\ first \in Nat /\ q \in Nat
        BY <1>0, <1>1, <2>1
    <2> QED
        BY <2>1, <2>2
<1>6. PICK p \in S : Follows(S, p, q)
    BY <1>1, <1>5, OneBefore
<1>7. p \notin bad
    <2>1. p < q /\ p \in Nat /\ q \in Nat
        BY <1>0, <1>5, <1>6 DEF Follows
    <2> HIDE DEF bad
    <2> QED
        BY <1>4, <2>1
<1>8. h[p].statute # h[q].statute
    BY <1>4, <1>7
<1> QED
    BY <1>5, <1>6, <1>8

\* A change of the statute from one stop to the next is named by the entry that
\* arrives, or one of the two is marked.
LEMMA TurnNamed ==
    ASSUME NEW h \in Seq(Text \cup {Absent}), NEW E, NEW g, NEW n, Tells(h, E, g, n), Clear(h, E, g, n),
           isAnnotated(E), NEW p \in Published(h), NEW q \in Published(h), p < q,
           \A r \in Published(h) : r <= p \/ q <= r,
           h[p].statute # h[q].statute,
           NEW x \in 1..n, NEW y \in 1..n, g[x] = h[q], g[y] = h[p]
    PROVE  E[x].kind \in {"text", "initial"} \/ E[x].concurrent \/ E[y].concurrent
<1>1. Stand(h, g, n) /\ Kinds(E, g, n) /\ n \in Nat /\ DOMAIN g = 1..n
    <2>1. Partly(h, E, g, n) /\ n \in Nat /\ DOMAIN g = 1..n
        BY DEF Tells, Partly
    <2> QED
        BY <2>1, VersionsStand, AnnotatedKinds
<1>2. /\ q \in Carrying(h, g[x]) /\ p \in Carrying(h, g[y])
      /\ p \in Nat /\ q \in Nat /\ x # y
    BY <1>1 DEF Stand
<1>3. \A i \in 1..n : /\ Arrival(h, g[i]) \in Nat /\ Latest(h, g[i]) \in Nat
                      /\ Latest(h, g[i]) \in Published(h) /\ Arrival(h, g[i]) <= Latest(h, g[i])
    BY <1>1 DEF Stand
<1>4. /\ Arrival(h, g[x]) <= q /\ q <= Latest(h, g[x])
      /\ Arrival(h, g[y]) <= p /\ p <= Latest(h, g[y])
    BY <1>1, <1>2 DEF Stand
<1>5. \A i, j \in 1..n : i < j => Arrival(h, g[i]) < Arrival(h, g[j])
    BY <1>1 DEF Tells, Partly
<1>6. ASSUME NEW i \in 2..n, ~E[i].concurrent
      PROVE  /\ i - 1 \in 1..n /\ Latest(h, g[i - 1]) < Arrival(h, g[i])
             /\ \A j \in 1..n \ {i - 1, i} :
                   Arrival(h, g[j]) <= Arrival(h, g[i]) => Latest(h, g[j]) < Latest(h, g[i - 1])
    <2>1. i \in 1..n /\ i - 1 \in 1..n /\ i > 1
        BY <1>1
    <2>2. \A j \in 1..n : Carrying(h, g[j]) # {}
        BY DEF Tells
    <2> QED
        BY <1>6, <2>1, <2>2 DEF Clear
<1> SUFFICES ASSUME E[x].kind \notin {"text", "initial"}, ~E[x].concurrent, ~E[y].concurrent
             PROVE  FALSE
    OBVIOUS
<1>7. x # 1 /\ x \in 2..n /\ g[x - 1].statute = g[x].statute
    <2>1. x # 1 /\ x \in 2..n
        BY <1>1 DEF Kinds
    <2> QED
        BY <1>1, <2>1 DEF Kinds
<1>8. y # x - 1
    BY <1>7
<1>9. CASE y < x
    <2>1. Latest(h, g[x - 1]) < Arrival(h, g[x]) /\ x - 1 \in 1..n
        BY <1>6, <1>7
    <2>2. Arrival(h, g[y]) <= Arrival(h, g[x])
        BY <1>3, <1>5, <1>9
    <2>3. Latest(h, g[y]) < Latest(h, g[x - 1])
        BY <1>2, <1>6, <1>7, <1>8, <2>2
    <2> DEFINE r == Latest(h, g[x - 1])
    <2>4. r \in Published(h) /\ r \in Nat
        BY <1>3, <2>1
    <2> HIDE DEF r
    <2>5. p < r /\ r < q
        <3>1. Latest(h, g[y]) \in Nat /\ Arrival(h, g[x]) \in Nat
            BY <1>3
        <3>2. Latest(h, g[y]) < r /\ r < Arrival(h, g[x])
            BY <2>1, <2>3 DEF r
        <3> QED
            BY <1>2, <1>4, <2>4, <3>1, <3>2
    <2>6. r <= p \/ q <= r
        BY <2>4
    <2> QED
        BY <1>2, <2>4, <2>5, <2>6
<1>10. CASE x < y
    <2>1. y \in 2..n
        BY <1>7, <1>10
    <2>2. Latest(h, g[y - 1]) < Arrival(h, g[y]) /\ y - 1 \in 1..n
        BY <1>6, <2>1
    <2>3. Latest(h, g[x]) <= Latest(h, g[y - 1])
        <3>1. CASE x = y - 1
            BY <1>3, <3>1
        <3>2. CASE x # y - 1
            <4>1. Arrival(h, g[x]) <= Arrival(h, g[y])
                BY <1>3, <1>5, <1>10
            <4>2. Latest(h, g[x]) < Latest(h, g[y - 1])
                BY <1>2, <1>6, <2>1, <3>2, <4>1
            <4> QED
                BY <1>3, <2>2, <4>2
        <3> QED
            BY <3>1, <3>2
    <2>4. /\ Latest(h, g[x]) \in Nat /\ Latest(h, g[y - 1]) \in Nat /\ Arrival(h, g[y]) \in Nat
        BY <1>3, <2>2
    <2> QED
        BY <1>2, <1>4, <2>2, <2>3, <2>4
<1> QED
    BY <1>2, <1>9, <1>10

-----------------------------------------------------------------------------
(***************************************************************************)
(* The answer to a window                                                  *)
(***************************************************************************)

\* The kinds the page reads: of what arrived, and of the first text when the
\* section was not there before.
Named(h, k, start, walk, versions) ==
    \/ k = "initial" /\ HeldBy(h, start) = {}
    \/ /\ k # NoKind
       /\ \E i \in DOMAIN walk : (i # 1 \/ HeldBy(h, start) = {}) /\ versions[i].kind = k

\* What a window with a whole list says, of the texts along its stops.
Says(h, E, g, n, start, end, cut) ==
    LET S == At(Published(h), start, end)
        walk == TextsAlong(h, At(Published(h), start, end)) IN
    /\ S \in SUBSET Published(h) /\ IsFiniteSet(S) /\ S # {}
    /\ Max(S) = Max(HeldBy(h, end))
    /\ HeldBy(h, start) # {} => Min(S) = Max(HeldBy(h, start))
    /\ Along(h, S, walk)
    /\ cut.versions = VersionsOf(E, g, n, walk)
    /\ DOMAIN cut.versions = DOMAIN walk
    /\ \A i \in DOMAIN walk :
          \E v \in 1..n : cut.versions[i] = E[v] /\ g[v] = walk[i]
    /\ \A k : k \in cut.kinds <=> Named(h, k, start, walk, cut.versions)

LEMMA WindowSays ==
    ASSUME NEW h \in Seq(Text \cup {Absent}), NEW E, NEW g, NEW n, Tells(h, E, g, n),
           NEW start \in Int, NEW end \in Int, start <= end, HeldBy(h, end) # {},
           NEW cut, WindowTells(h, E, g, n, Len(h), start, end, cut)
    PROVE  Says(h, E, g, n, start, end, cut)
<1> DEFINE S == At(Published(h), start, end)
           walk == TextsAlong(h, At(Published(h), start, end))
<1>1. Published(h) \in SUBSET Nat /\ IsFiniteSet(Published(h)) /\ Published(h) \cap 1..Len(h) = Published(h)
    <2>1. \A r \in Published(h) : r \in 1..Len(h)
        BY DEF Published
    <2>2. IsFiniteSet(1..Len(h))
        BY FS_Interval
    <2> QED
        BY <2>1, <2>2, FS_Subset 
<1>2. /\ S \in SUBSET Published(h) /\ IsFiniteSet(S) /\ S # {}
      /\ Max(S) = Max(HeldBy(h, end))
      /\ HeldBy(h, start) # {} => Min(S) = Max(HeldBy(h, start))
    <2> DEFINE before == {q \in Published(h) : q <= start}
               until == {q \in Published(h) : q <= end}
    <2>1. before = HeldBy(h, start) /\ until = HeldBy(h, end)
        BY DEF HeldBy
    <2>2. /\ S \in SUBSET Published(h) /\ IsFiniteSet(S) /\ S # {} /\ Max(S) = Max(until)
          /\ before # {} => Min(S) = Max(before)
        <3>1. PICK some \in Published(h) : some <= end
            BY DEF HeldBy
        <3>2. StopsReach(Published(h), start, end)
            BY <1>1, <3>1, StopsEnd
        <3> QED
            BY <3>2 DEF StopsReach
    <2> HIDE DEF S, before, until
    <2> QED
        BY <2>1, <2>2
<1>3. walk = TextsAlong(h, S)
    BY DEF TextsAlong, Turning, Follows, At
<1>4. Along(h, S, walk)
    BY <1>1, <1>2, <1>3, TextsAre
<1>5. /\ cut.versions = VersionsOf(E, g, n, walk)
      /\ cut.kinds = IF HeldBy(h, start) = {}
                     THEN KindsIn(cut.versions) \cup {k \in {"initial"} : cut.versions # <<>>}
                     ELSE KindsIn(Tail(cut.versions))
    BY <1>1, <1>3 DEF WindowTells, HeldBy
<1> HIDE DEF S, walk
<1>6. /\ DOMAIN cut.versions = DOMAIN walk
      /\ Len(walk) \in Nat \ {0} /\ DOMAIN walk = 1..Len(walk)
    BY <1>4, <1>5 DEF VersionsOf, Along
<1>7. ASSUME NEW i \in DOMAIN walk
      PROVE  \E v \in 1..n : cut.versions[i] = E[v] /\ g[v] = walk[i]
    <2>1. \E q \in S : walk[i] = h[q]
        BY <1>4, <1>6 DEF Along
    <2>2. PICK q \in Published(h) : walk[i] = h[q]
        BY <1>2, <2>1 
    <2>3. VersionOf(g, n, h[q]) \in 1..n /\ g[VersionOf(g, n, h[q])] = h[q]
        BY VersionIs
    <2>4. cut.versions[i] = E[VersionOf(g, n, walk[i])]
        BY <1>5 DEF VersionsOf
    <2> QED
        BY <2>2, <2>3, <2>4
<1>8. ASSUME NEW k PROVE k \in cut.kinds <=> Named(h, k, start, walk, cut.versions)
    <2> DEFINE versions == cut.versions
               L == Len(walk)
    <2>1. versions = [i \in 1..L |-> versions[i]] /\ L \in Nat \ {0}
        BY <1>5, <1>6 DEF VersionsOf
    <2>2. versions \in Seq({versions[i] : i \in 1..L}) /\ Len(versions) = L /\ versions # <<>>
        <3> DEFINE R == {versions[i] : i \in 1..L}
        <3> HIDE DEF versions, L
        <3>1. versions \in [1..L -> R]
            BY <2>1
        <3> HIDE DEF R
        <3>2. versions \in Seq(R) /\ Len(versions) = L
            BY <2>1, <3>1
        <3>3. Len(versions) # 0
            BY <2>1, <3>2
        <3>4. versions # <<>>
            BY <3>3
        <3> QED
            BY <3>2, <3>4 DEF R
    <2>3. CASE HeldBy(h, start) = {}
        <3>1. cut.kinds = KindsIn(versions) \cup {"initial"}
            BY <1>5, <2>2, <2>3
        <3>2. DOMAIN versions = DOMAIN walk
            BY <1>6
        <3> HIDE DEF versions
        <3>3. k \in KindsIn(versions) <=>
                 k # NoKind /\ \E i \in DOMAIN walk : versions[i].kind = k
            BY <3>2 DEF KindsIn
        <3>4. Named(h, k, start, walk, versions) <=>
                 k = "initial" \/ (k # NoKind /\ \E i \in DOMAIN walk : versions[i].kind = k)
            BY <2>3 DEF Named
        <3> QED
            BY <3>1, <3>3, <3>4 DEF versions
    <2>4. CASE HeldBy(h, start) # {}
        <3>1. cut.kinds = KindsIn(Tail(versions))
            BY <1>5, <2>4
        <3> DEFINE tail == Tail(versions)
        <3>2. DOMAIN tail = 1..L - 1 /\ \A i \in 1..L - 1 : tail[i] = versions[i + 1]
            <4> HIDE DEF versions, L
            <4> QED
                BY <2>1, <2>2
        <3>3. (\E i \in DOMAIN tail : tail[i].kind = k) <=>
                 \E i \in DOMAIN walk : i # 1 /\ versions[i].kind = k
            <4> HIDE DEF versions, tail
            <4>1. \A i \in 1..L - 1 : i + 1 \in 1..L /\ i + 1 # 1
                BY <2>1
            <4>2. \A i \in 1..L : i # 1 => i - 1 \in 1..L - 1 /\ (i - 1) + 1 = i
                BY <2>1
            <4>3. DOMAIN walk = 1..L
                BY <1>6
            <4> HIDE DEF L
            <4>4. ASSUME NEW i \in DOMAIN tail, tail[i].kind = k
                  PROVE  \E j \in DOMAIN walk : j # 1 /\ versions[j].kind = k
                BY <3>2, <4>1, <4>3, <4>4
            <4>5. ASSUME NEW i \in DOMAIN walk, i # 1, versions[i].kind = k
                  PROVE  \E j \in DOMAIN tail : tail[j].kind = k
                <5>1. i - 1 \in DOMAIN tail /\ tail[i - 1] = versions[i]
                    BY <3>2, <4>2, <4>3, <4>5
                <5> QED
                    BY <4>5, <5>1
            <4> QED
                BY <4>4, <4>5
        <3>4. k \in KindsIn(tail) <=> k # NoKind /\ \E i \in DOMAIN tail : tail[i].kind = k
            <4> HIDE DEF tail
            <4> QED
                BY DEF KindsIn
        <3>5. Named(h, k, start, walk, versions) <=>
                 k # NoKind /\ \E i \in DOMAIN walk : i # 1 /\ versions[i].kind = k
            BY <2>4 DEF Named
        <3> HIDE DEF tail
        <3> QED
            BY <3>1, <3>3, <3>4, <3>5 DEF tail
    <2> QED
        BY <2>3, <2>4
<1>9. Says(h, E, g, n, start, end, cut)
    BY <1>2, <1>4, <1>5, <1>6, <1>7, <1>8 DEF Says, S, walk
<1> QED
    BY <1>9

\* What the page makes of a window whose ends the answer has.
Truthful(h, E, g, n, window) ==
    LET cut == window.cut
        versions == cut.versions
        walk == TextsAlong(h, At(Published(h), window.start, window.end)) IN
    /\ window.from.exists => Head(walk) = window.from.contentHash
    /\ window.to.exists => Last(walk) = window.to.contentHash
    /\ window.changed => cut.kinds # {} \/ ~isAnnotated(E)
    /\ isAnnotated(E) =>
          /\ kindsSentence(cut.kinds) # {} <=> Len(walk) > 1 \/ ~window.from.exists
          /\ Clear(h, E, g, n) /\ Head(walk).statute # Last(walk).statute =>
                \/ cut.kinds \cap {"text", "initial"} # {}
                \/ \E i \in DOMAIN versions : versions[i].concurrent
          /\ ~Returns(h) => ("entered" \in kindsSentence(cut.kinds) <=> ~window.from.exists)

\* A window that says what happened along its stops is sound.
LEMMA SaysSound ==
    ASSUME NEW h \in Seq(Text \cup {Absent}), NEW E, NEW g, NEW n, Tells(h, E, g, n),
           NEW window, Says(h, E, g, n, window.start, window.end, window.cut),
           EndsTell(h, window.from, window.to, window.start, window.end),
           window.changed = (~window.from.exists \/ ~window.to.exists
                                \/ window.from.contentHash # window.to.contentHash)
    PROVE  Truthful(h, E, g, n, window)
<1> DEFINE start == window.start
           end == window.end
           cut == window.cut
           versions == cut.versions
           S == At(Published(h), start, end)
           walk == TextsAlong(h, At(Published(h), start, end))
           from == window.from
           to == window.to
<1>1. /\ S \in SUBSET Published(h) /\ IsFiniteSet(S) /\ S # {}
      /\ Max(S) = Max(HeldBy(h, end))
      /\ HeldBy(h, start) # {} => Min(S) = Max(HeldBy(h, start))
      /\ Along(h, S, walk)
      /\ DOMAIN versions = DOMAIN walk
      /\ \A i \in DOMAIN walk : \E v \in 1..n : versions[i] = E[v] /\ g[v] = walk[i]
      /\ \A k : k \in cut.kinds <=> Named(h, k, start, walk, versions)
    BY DEF Says
<1>2. /\ start \in Int /\ end \in Int /\ to.exists /\ to.contentHash = h[Max(HeldBy(h, end))]
      /\ from.exists <=> HeldBy(h, start) # {}
      /\ from.exists => from.contentHash = h[Max(HeldBy(h, start))]
    BY DEF EndsTell
<1>3. Stand(h, g, n) /\ n \in Nat /\ DOMAIN E = 1..n
    BY VersionsStand DEF Tells, Partly
<1>4. Published(h) \in SUBSET Nat /\ IsFiniteSet(Published(h))
    <2>1. \A r \in Published(h) : r \in 1..Len(h)
        BY DEF Published
    <2>2. IsFiniteSet(1..Len(h))
        <3>1. Len(h) \in Int /\ 1 \in Int
            OBVIOUS
        <3> QED
            BY <3>1, FS_Interval
    <2> QED
        BY <2>1, <2>2, FS_Subset
<1> HIDE DEF S, walk, versions
<1>5. /\ Len(walk) \in Nat \ {0} /\ DOMAIN walk = 1..Len(walk)
      /\ walk \in Seq({h[q] : q \in S})
      /\ Head(walk) = h[Min(S)] /\ Last(walk) = h[Max(S)]
    BY <1>1 DEF Along
<1>6. Head(walk) = walk[1] /\ Last(walk) = walk[Len(walk)]
    BY <1>5 DEF Last
<1>8. from.exists => Head(walk) = from.contentHash
    BY <1>1, <1>2, <1>5
<1>9. Last(walk) = to.contentHash
    BY <1>1, <1>2, <1>5
<1>10. ~from.exists => "initial" \in cut.kinds
    BY <1>1, <1>2 DEF Named
<1>11. ASSUME isAnnotated(E), NEW i \in DOMAIN walk, i # 1 PROVE versions[i].kind \in cut.kinds
    <2>1. versions[i].kind # NoKind
        BY <1>1, <1>3, <1>11 DEF isAnnotated
    <2>2. Named(h, versions[i].kind, start, walk, versions)
        BY <1>11, <2>1 DEF Named
    <2> QED
        BY <1>1, <2>2
<1>12. ASSUME isAnnotated(E), Len(walk) > 1 PROVE cut.kinds # {}
    <2>1. 2 \in DOMAIN walk
        BY <1>5, <1>12
    <2> QED
        BY <1>11, <1>12, <2>1
<1>13. window.changed => cut.kinds # {} \/ ~isAnnotated(E)
    <2>1. CASE ~from.exists
        BY <1>10, <2>1
    <2>2. ASSUME from.exists, window.changed, isAnnotated(E) PROVE cut.kinds # {}
        <3>1. Head(walk) # Last(walk)
            BY <1>2, <1>8, <1>9, <2>2
        <3>2. Len(walk) # 1
            BY <1>6, <3>1
        <3>3. Len(walk) > 1
            BY <1>5, <3>2
        <3> QED
            BY <1>12, <2>2, <3>3
    <2> QED
        BY <2>1, <2>2
<1>14. ASSUME isAnnotated(E)
       PROVE  kindsSentence(cut.kinds) # {} <=> Len(walk) > 1 \/ ~from.exists
    <2>1. kindsSentence(cut.kinds) # {} <=> cut.kinds # {}
        <3> DEFINE kinds == cut.kinds
        <3> HIDE DEF kinds
        <3>1. CASE "initial" \in kinds
            <4>1. "entered" \in kindsSentence(kinds)
                BY <3>1 DEF kindsSentence
            <4> QED
                BY <3>1, <4>1 DEF kinds
        <3>2. CASE "initial" \notin kinds
            <4>1. kindsSentence(kinds) =
                     IF kinds = {"structure"} THEN {"metadata"} ELSE kinds
                <5>1. kinds \ {"initial"} = kinds
                    BY <3>2
                <5> QED
                    BY <3>2, <5>1 DEF kindsSentence
            <4> QED
                BY <4>1 DEF kinds
        <3> QED
            BY <3>1, <3>2
    <2>2. ASSUME NEW k \in cut.kinds, from.exists PROVE Len(walk) > 1
        <3>1. Named(h, k, start, walk, versions) /\ HeldBy(h, start) # {}
            BY <1>1, <1>2, <2>2
        <3>2. \E i \in DOMAIN walk : i # 1
            BY <3>1 DEF Named
        <3> QED
            BY <1>5, <3>2
    <2> QED
        BY <1>10, <1>12, <1>14, <2>1, <2>2
<1>15. ASSUME isAnnotated(E), Clear(h, E, g, n), Head(walk).statute # Last(walk).statute
       PROVE  \/ cut.kinds \cap {"text", "initial"} # {}
              \/ \E i \in DOMAIN versions : versions[i].concurrent
    <2>1. PICK p \in S, q \in S : Follows(S, p, q) /\ h[p].statute # h[q].statute
        <3>1. h[Min(S)].statute # h[Max(S)].statute
            BY <1>5, <1>15
        <3>2. S \in SUBSET Nat
            BY <1>1, <1>4
        <3> QED
            BY <1>1, <3>1, <3>2, StatuteTurns
    <2>2. PICK i \in DOMAIN walk : i # 1 /\ walk[i] = h[q]
        BY <1>1, <2>1 DEF Along
    <2>3. PICK j \in DOMAIN walk : walk[j] = h[p]
        BY <1>1, <2>1 DEF Along
    <2>4. PICK x \in 1..n : versions[i] = E[x] /\ g[x] = h[q]
        BY <1>1, <2>2
    <2>5. PICK y \in 1..n : versions[j] = E[y] /\ g[y] = h[p]
        BY <1>1, <2>3
    <2>6. /\ p \in Published(h) /\ q \in Published(h) /\ p < q
          /\ \A r \in Published(h) : r <= p \/ q <= r
        <3>1. p < q
            BY <2>1 DEF Follows
        <3>2. p \in Published(h) /\ q \in Published(h)
            BY <1>1, <2>1
        <3>3. \A r \in Published(h) : r <= p \/ q <= r
            BY <1>2, <1>4, <2>1, NothingBetween DEF S
        <3> QED
            BY <3>1, <3>2, <3>3 
    <2>7. E[x].kind \in {"text", "initial"} \/ E[x].concurrent \/ E[y].concurrent
        BY <1>15, <2>1, <2>4, <2>5, <2>6, TurnNamed
    <2>8. versions[i].kind \in cut.kinds
        BY <1>11, <1>15, <2>2
    <2> QED
        BY <1>1, <2>2, <2>3, <2>4, <2>5, <2>7, <2>8
<1>16. ASSUME isAnnotated(E), ~Returns(h)
       PROVE  "entered" \in kindsSentence(cut.kinds) <=> ~from.exists
    <2>0. Partly(h, E, g, n)
        BY DEF Tells
    <2>1. Kinds(E, g, n)
        BY <1>16, <2>0, AnnotatedKinds
    <2>2. \A v \in 1..n : v # 1 => E[v].kind \in {"text", "notes", "structure"}
        BY <2>1 DEF Kinds, KindOfChange
    <2>3. \A v \in 1..n : E[v].kind # "entered"
        BY <2>1, <2>2 DEF Kinds
    <2>4. "entered" \notin cut.kinds
        <3>1. \A i \in DOMAIN walk : versions[i].kind # "entered"
            BY <1>1, <2>3
        <3>2. ~Named(h, "entered", start, walk, versions)
            BY <3>1 DEF Named
        <3> QED
            BY <1>1, <3>2
    <2>5. "entered" \in kindsSentence(cut.kinds) <=> "initial" \in cut.kinds
        <3> DEFINE kinds == cut.kinds
        <3> HIDE DEF kinds
        <3>1. "entered" \notin kinds
            BY <2>4 DEF kinds
        <3>2. "entered" \in kindsSentence(kinds) <=> "initial" \in kinds
            BY <3>1 DEF kindsSentence
        <3> QED
            BY <3>2 DEF kinds
    <2>6. ASSUME from.exists, "initial" \in cut.kinds PROVE FALSE
        <3>1. Named(h, "initial", start, walk, versions) /\ HeldBy(h, start) # {}
            BY <1>1, <1>2, <2>6
        <3>2. PICK i \in DOMAIN walk : i # 1 /\ versions[i].kind = "initial"
            BY <3>1 DEF Named
        <3>3. PICK p \in S, q \in S : Follows(S, p, q) /\ h[p] # h[q] /\ walk[i] = h[q]
            BY <1>1, <3>2 DEF Along
        <3>4. PICK x \in 1..n : versions[i] = E[x] /\ g[x] = h[q]
            BY <1>1, <3>2, <3>3
        <3>5. x = 1
            BY <2>2, <3>2, <3>4
        <3>6. p \in Published(h) /\ q \in Published(h) /\ p \in Nat /\ q \in Nat
            BY <1>1, <1>4, <3>3 
        <3>7. PICK y \in 1..n : g[y] = h[p]
            BY <3>6 DEF Tells, Partly
        <3>8. q \in Carrying(h, g[x]) /\ p \in Carrying(h, g[y])
            BY <3>4, <3>6, <3>7 DEF Carrying
        <3>9. x < y
            <4>1. y # x
                BY <3>3, <3>4, <3>7
            <4> QED
                BY <3>5, <4>1
        <3>10. ~Returns(h) /\ Partly(h, E, g, n)
            BY <1>16 DEF Tells
        <3>11. q < p
            BY <3>8, <3>9, <3>10, VersionsFollow
        <3> QED
            BY <3>3, <3>6, <3>11 DEF Follows
    <2> QED
        BY <1>10, <2>5, <2>6
<1> QED
    BY <1>8, <1>9, <1>13, <1>14, <1>15, <1>16 DEF Truthful, walk, versions

\* The texts of a window's versions are those along its stops.
LEMMA WalkTold ==
    ASSUME history \in Seq(Text \cup {Absent}), NEW mapped \in 0..Len(history),
           NEW E, NEW g, NEW n, Tells(Upto(history, mapped), E, g, n),
           NEW start \in Int, NEW end \in Int, NEW cut,
           WindowTells(Upto(history, mapped), E, g, n, mapped, start, end, cut)
    PROVE  LET h == Upto(history, mapped)
               walk == TextsAlong(h, At(Published(h), start, end)) IN
           /\ walk = Walk(mapped, start, end)
           /\ [i \in DOMAIN cut.versions |-> cut.versions[i].text] = walk
<1> DEFINE h == Upto(history, mapped)
           H == Published(h)
           S == At(H, start, end)
           T == Turning(h, S)
           k == Cardinality(T)
           a == Ascending(T)
           walk == TextsAlong(h, S)
<1>1. /\ h \in Seq(Text \cup {Absent}) /\ Len(h) = mapped /\ HeldUpto(mapped) = H
      /\ \A q \in H : h[q] = history[q]
    BY HistoryUpto
<1> HIDE DEF h
<1>2. H \in SUBSET Nat /\ IsFiniteSet(H) /\ H \cap 1..mapped = H
    <2>1. \A r \in H : r \in 1..Len(h)
        BY DEF Published
    <2>2. IsFiniteSet(1..Len(h)) /\ 1..Len(h) \in SUBSET Nat
        BY <1>1, FS_Interval
    <2> HIDE DEF H
    <2> QED
        BY <1>1, <2>1, <2>2, FS_Subset
<1> HIDE DEF H
<1>3. S \in SUBSET H /\ S \in SUBSET Nat /\ IsFiniteSet(S)
    BY <1>2, StopsAre DEF StopsTell
<1> HIDE DEF S
<1>4. T \in SUBSET S /\ T \in SUBSET Nat /\ IsFiniteSet(T)
    BY <1>3, FS_Subset DEF Turning
<1>5. T = {q \in S : \A p \in S : Follows(S, p, q) => history[p] # history[q]}
    BY <1>1, <1>3 DEF Turning
<1> DEFINE t == {q \in S : \A p \in S : Follows(S, p, q) => history[p] # history[q]}
<1>6. Walk(mapped, start, end) = [i \in 1..Cardinality(t) |-> history[Ascending(t)[i]]]
    BY <1>1 DEF Walk, Follows, At, S
<1> HIDE DEF T, t
<1>7. k \in Nat /\ a \in [1..k -> T]
    BY <1>4, AscendingIs
<1>8. walk = [i \in 1..k |-> h[a[i]]]
    BY DEF TextsAlong, T
<1>9. \A i \in 1..k : a[i] \in H /\ h[a[i]] = history[a[i]]
    BY <1>1, <1>3, <1>4, <1>7
<1>10. T = t
    BY <1>5 DEF t
<1>11. walk = Walk(mapped, start, end)
    <2>1. Walk(mapped, start, end) = [i \in 1..k |-> history[a[i]]]
        BY <1>6, <1>10
    <2> QED
        BY <1>8, <1>9, <2>1
<1>12. cut.versions = VersionsOf(E, g, n, walk)
    BY <1>2 DEF WindowTells, h, H, S
<1> HIDE DEF walk, a
<1>13. ASSUME NEW i \in 1..k PROVE cut.versions[i].text = walk[i]
    <2>1. VersionOf(g, n, h[a[i]]) \in 1..n /\ g[VersionOf(g, n, h[a[i]])] = h[a[i]]
        BY <1>9, VersionIs DEF h, H
    <2>2. walk[i] = h[a[i]] /\ DOMAIN walk = 1..k
        BY <1>8
    <2>3. cut.versions[i] = E[VersionOf(g, n, walk[i])]
        BY <1>12, <2>2 DEF VersionsOf
    <2>4. \A j \in 1..n : E[j].text = g[j]
        BY DEF Tells, Partly, EntryTells
    <2> QED
        BY <2>1, <2>2, <2>3, <2>4
<1>14. DOMAIN cut.versions = 1..k /\ DOMAIN walk = 1..k
    BY <1>8, <1>12 DEF VersionsOf
<1>15. [i \in DOMAIN cut.versions |-> cut.versions[i].text] = walk
    <2>1. walk = [i \in 1..k |-> walk[i]]
        BY <1>8
    <2> QED
        BY <1>13, <1>14, <2>1
<1> QED
    BY <1>11, <1>15 DEF walk, S, H, h

\* The page asks about two days in their order.
DaysAre(days) == days # <<>> => days[1] \in Int /\ days[2] \in Int /\ days[1] <= days[2]

\* Of a window that is complete, every version has a release point that is mapped.
LEMMA CompleteTells ==
    ASSUME history \in Seq(Text \cup {Absent}), listed \in 0..Len(history), NEW answer \in Answers,
           NEW start \in Int, NEW end \in Int,
           versionsInWindow(entries(answer), start, end, order).complete,
           answer.mapped <= listed \/ ~Recurs(answer.mapped)
    PROVE  \E n \in Nat :
              LET cut == versionsInWindow(entries(answer), start, end, order) IN
              /\ Tells(Mapped(answer), entries(answer), Versions(answer), n)
              /\ Flags(Changed(answer), entries(answer), Versions(answer), n)
              /\ WindowTells(Mapped(answer), entries(answer), Versions(answer), n, answer.mapped,
                             start, end, cut)
<1> DEFINE h == Mapped(answer)
           E == entries(answer)
           g == Versions(answer)
           cut == versionsInWindow(E, start, end, releaseOrder(1..listed))
<1>1. PICK n \in Nat : Partly(h, E, g, n) /\ Flags(Changed(answer), E, g, n)
    BY EntriesTold
<1>2. answer.mapped \in 0..Len(history) /\ answer.mapped \in Nat /\ listed \in Nat
    BY EntriesTold DEF Moments
<1>3. h \in Seq(Text \cup {Absent}) /\ Len(h) = answer.mapped /\ (Returns(h) <=> Recurs(answer.mapped))
    BY <1>2, HistoryUpto DEF Mapped
<1>4. cut.complete
    BY DEF order
<1> HIDE DEF h, E, g
<1>5. \A i \in DOMAIN E : KnownTo(E, listed, i) # {}
    BY <1>4, WindowUnfolds
<1>6. ASSUME NEW i \in 1..n PROVE Carrying(h, g[i]) # {}
    <2>1. i \in DOMAIN E /\ ToSet(E[i].releases) = Carrying(h, g[i])
        BY <1>1 DEF Partly, EntryTells
    <2> QED
        BY <1>5, <2>1 DEF KnownTo
<1>7. Tells(h, E, g, n)
    BY <1>1, <1>6, WholeTells
<1>8. WindowTells(h, E, g, n, Len(h), start, end, cut)
    <2>1. Len(h) <= listed \/ ~Returns(h)
        BY <1>3
    <2> QED
        BY <1>2, <1>3, <1>4, <1>7, <2>1, WindowFull
<1> QED
    BY <1>1, <1>3, <1>7, <1>8 DEF order, h, E, g

LEMMA ToldSound ==
    ASSUME history \in Seq(Text \cup {Absent}), Len(history) <= MaxRelease,
           listed \in 0..Len(history), DaysAre(WindowDays(at)),
           NEW answer \in Answers, NEW window \in WindowAnswers(at, answer)
    PROVE  WindowIsTold(window, answer)
<1> DEFINE days == WindowDays(at)
           h == Mapped(answer)
           E == entries(answer)
           g == Versions(answer)
<1>1. PICK a \in answer.upto..Newest, b \in answer.upto..Newest :
        /\ End(days[1], a).exists \/ End(days[2], b).exists
        /\ window = WindowAnswer(End(days[1], a), End(days[2], b), answer)
        /\ days # <<>>
    <2>1. /\ days # <<>>
          /\ window \in {WindowAnswer(ends[1], ends[2], answer) :
                ends \in {e \in Ends(days[1], answer) \X Ends(days[2], answer) :
                            e[1].exists \/ e[2].exists}}
        BY DEF WindowAnswers
    <2> HIDE DEF days
    <2>2. PICK ends \in Ends(days[1], answer) \X Ends(days[2], answer) :
            (ends[1].exists \/ ends[2].exists) /\ window = WindowAnswer(ends[1], ends[2], answer)
        BY <2>1
    <2>3. ends[1] \in Ends(days[1], answer) /\ ends[2] \in Ends(days[2], answer)
        BY <2>2
    <2>4. PICK a \in answer.upto..Newest : ends[1] = End(days[1], a)
        BY <2>3 DEF Ends
    <2>5. PICK b \in answer.upto..Newest : ends[2] = End(days[2], b)
        BY <2>3 DEF Ends
    <2> QED
        BY <2>1, <2>2, <2>4, <2>5
<1> DEFINE from == End(days[1], a)
           to == End(days[2], b)
           start == IF from.release = NoRelease THEN -1 ELSE from.release
           end == IF to.release = NoRelease THEN MaxRelease + 1 ELSE to.release
           cut == IF listed = 0 THEN [versions |-> <<>>, kinds |-> {}, complete |-> FALSE]
                  ELSE versionsInWindow(E, start, end, order)
<1>2. days[1] \in Int /\ days[2] \in Int /\ days[1] <= days[2]
    BY <1>1 DEF DaysAre
<1>3. /\ window.from = from /\ window.to = to /\ window.start = start /\ window.end = end
      /\ window.cut = cut
      /\ window.changed = (~from.exists \/ ~to.exists \/ from.contentHash # to.contentHash)
    <2> HIDE DEF from, to, days
    <2>1. window = [from |-> from, to |-> to, start |-> start, end |-> end, cut |-> cut,
                    changed |-> ~from.exists \/ ~to.exists \/ from.contentHash # to.contentHash]
        BY <1>1 DEF WindowAnswer, from, to
    <2> HIDE DEF cut, start, end
    <2> QED
        BY <2>1
<1>4. /\ answer.mapped \in 0..Len(history) /\ answer.upto \in 0..Len(history)
      /\ answer.mapped <= answer.upto /\ MaxRelease \in Nat
      /\ a \in answer.mapped..Len(history) /\ b \in answer.mapped..Len(history)
      /\ a \in 0..Len(history) /\ b \in 0..Len(history) /\ listed \in Nat
    BY <1>1, EntriesTold, BrowsingAssumption DEF Moments, Newest
<1>5. start \in Int /\ end \in Int
    <2>1. /\ EndTells(from, releaseOnOrBefore(1..a, Dated, days[1]), releaseOnOrBefore(1..listed, Dated, days[1]))
          /\ EndTells(to, releaseOnOrBefore(1..b, Dated, days[2]), releaseOnOrBefore(1..listed, Dated, days[2]))
        BY <1>4, EndIs
    <2>2. /\ OnOrBefore(a, days[1], releaseOnOrBefore(1..a, Dated, days[1]))
          /\ OnOrBefore(b, days[2], releaseOnOrBefore(1..b, Dated, days[2]))
          /\ OnOrBefore(listed, days[1], releaseOnOrBefore(1..listed, Dated, days[1]))
          /\ OnOrBefore(listed, days[2], releaseOnOrBefore(1..listed, Dated, days[2]))
        BY <1>4, OnOrBeforeIs
    <2> HIDE DEF from, to, days
    <2>3. from.release \in Int \cup {NoRelease} /\ to.release \in Int \cup {NoRelease}
        BY <2>1, <2>2 DEF EndTells, OnOrBefore
    <2> QED
        BY <1>4, <2>3
<1> SUFFICES ASSUME cut.complete, answer.mapped <= listed \/ ~Recurs(answer.mapped)
             PROVE  WindowIsTold(window, answer)
    BY <1>3 DEF WindowIsTold
<1>6. cut = versionsInWindow(E, start, end, order)
    <2> HIDE DEF start, end, E
    <2> QED
        OBVIOUS
<1> HIDE DEF cut, start, end
<1>7. PICK n \in Nat : /\ Tells(h, E, g, n) /\ Flags(Changed(answer), E, g, n)
                       /\ WindowTells(h, E, g, n, answer.mapped, start, end, cut)
    BY <1>5, <1>6, CompleteTells
<1> DEFINE walk == TextsAlong(h, At(Published(h), start, end))
<1>8. walk = Walk(answer.mapped, start, end) /\ [i \in DOMAIN cut.versions |-> cut.versions[i].text] = walk
    BY <1>4, <1>5, <1>7, WalkTold DEF Mapped
<1>9. ASSUME Covers(answer, window) PROVE Truthful(h, E, g, n, window)
    <2>1. {from.release, to.release} \subseteq {NoRelease} \cup 1..answer.mapped
        BY <1>3, <1>9 DEF Covers
    <2>2. EndsTell(h, from, to, start, end)
        BY <1>1, <1>2, <1>4, <2>1, EndsAre DEF start, end, Mapped
    <2>3. h \in Seq(Text \cup {Absent}) /\ Len(h) = answer.mapped
        BY <1>4, HistoryUpto DEF Mapped
    <2> HIDE DEF h, E, g, from, to
    <2>4. start \in Int /\ end \in Int /\ start <= end /\ HeldBy(h, end) # {}
        BY <2>2 DEF EndsTell
    <2>5. Says(h, E, g, n, start, end, cut)
        BY <1>7, <2>3, <2>4, WindowSays
    <2>6. /\ Says(h, E, g, n, window.start, window.end, window.cut)
          /\ EndsTell(h, window.from, window.to, window.start, window.end)
          /\ window.changed = (~window.from.exists \/ ~window.to.exists
                                 \/ window.from.contentHash # window.to.contentHash)
        BY <1>3, <2>2, <2>5
    <2> QED
        BY <1>7, <2>3, <2>6, SaysSound
<1>10. /\ Flagged(answer) => Clear(h, E, g, n)
       /\ ~Recurs(answer.mapped) => ~Returns(h)
    <2>1. Partly(h, E, g, n)
        BY <1>7 DEF Tells
    <2>2. Returns(h) <=> Recurs(answer.mapped)
        BY <1>4, HistoryUpto DEF Mapped
    <2> QED
        BY <1>7, <2>1, <2>2, MarksTell
<1> HIDE DEF h, from, to, days, walk, g
<1>11. [i \in DOMAIN window.cut.versions |-> window.cut.versions[i].text]
          = Walk(answer.mapped, window.start, window.end)
    BY <1>3, <1>8
<1>12. ASSUME Covers(answer, window)
       PROVE  LET w == Walk(answer.mapped, window.start, window.end) IN
              /\ window.from.exists => Head(w) = window.from.contentHash
              /\ window.to.exists => Last(w) = window.to.contentHash
              /\ window.changed => window.cut.kinds # {} \/ ~isAnnotated(E)
              /\ isAnnotated(E) =>
                    /\ kindsSentence(window.cut.kinds) # {} <=> Len(w) > 1 \/ ~window.from.exists
                    /\ Clear(h, E, g, n) /\ Head(w).statute # Last(w).statute =>
                          \/ window.cut.kinds \cap {"text", "initial"} # {}
                          \/ \E i \in DOMAIN window.cut.versions : window.cut.versions[i].concurrent
                    /\ ~Returns(h) => ("entered" \in kindsSentence(window.cut.kinds) <=> ~window.from.exists)
    <2>1. TextsAlong(h, At(Published(h), window.start, window.end))
             = Walk(answer.mapped, window.start, window.end)
        BY <1>3, <1>8 DEF walk
    <2>2. Truthful(h, E, g, n, window)
        BY <1>9, <1>12
    <2> QED
        BY <2>1, <2>2 DEF Truthful
<1> HIDE DEF E
<1> QED
    BY <1>10, <1>11, <1>12 DEF WindowIsTold, E

-----------------------------------------------------------------------------
(***************************************************************************)
(* What is written is read back                                            *)
(***************************************************************************)

LEMMA ReadsBack ==
    ASSUME NEW route, NEW path, NEW params
    PROVE  /\ Address(route, path, params).page = route
           /\ Address(route, path, params).path = path
           /\ \A p : Read(Address(route, path, params), p)
                        = IF p \in DOMAIN params THEN params[p] ELSE Nothing
BY DEF Address, Read, Present, Restrict

LEMMA NothingElse ==
    /\ Nothing \notin Int /\ Nothing \notin {"all", "1"}
    /\ Nothing \notin SEARCH_SORTS /\ Nothing \notin CLASSIFICATION_SORTS
    /\ Nothing \notin Orders /\ Nothing \notin Seq(Tokens) /\ Nothing \notin Lookups
    /\ Nothing \notin Tables
    /\ \A table \in Tables : /\ table = <<table[1], table[2]>> /\ table[2] \in SESSIONS
                             /\ table[1] # Nothing /\ table[2] # Nothing
<1>1. \A table \in Tables : table = <<table[1], table[2]>> /\ table[2] \in SESSIONS
    BY BrowsingAssumption
<1>2. /\ Nothing \notin Int /\ Nothing \notin {"all", "1"}
      /\ Nothing \notin SEARCH_SORTS /\ Nothing \notin CLASSIFICATION_SORTS /\ Nothing \notin SESSIONS
      /\ Nothing \notin Orders /\ Nothing \notin Seq(Tokens) /\ Nothing \notin Lookups
      /\ Nothing \notin Tables /\ Nothing \notin {table[1] : table \in Tables}
    BY BrowsingAssumption
<1> QED
    BY <1>1, <1>2

\* What a link may carry to a page, and what may be typed there.
Numbered(address) == \A p \in {"offset", "page"} : Read(address, p) \in Int \cup {Nothing}

Fit(address) ==
    /\ address.page \in {"section", "versions", "diff", "search", "classification", "data"}
    /\ address.page = "versions" => \A p \in {"from", "to"} : Read(address, p) \in Dates \cup {Nothing}
    /\ address.page = "search" => Read(address, "q") \in Seq(Tokens) \cup {Nothing} /\ Numbered(address)
    /\ address.page = "classification" =>
          /\ address.path \in Tables \cup {Nothing}
          /\ Read(address, "q") \in Lookups \cup {Nothing} /\ Numbered(address)
          /\ Read(address, "section") # Nothing => normalizeSectionKey(Read(address, "section")) # Nothing
    /\ address.page = "data" => Read(address, "sort") \in Orders \cup {Nothing}

\* Where a link leads: the address its own page writes.
Good(link) == Fit(link) /\ Written(link) = link

LEMMA SimplePages ==
    /\ \A identifier, release : Good(appHref(identifier, release))
    /\ \A identifier, from, to, provision : Good(diffHref(identifier, from, to, provision))
<1>1. \A address : address.page \in {"section", "diff"} => Good(address)
    BY DEF Good, Fit, Written
<1>2. /\ \A identifier, release : appHref(identifier, release).page = "section"
      /\ \A identifier, from, to, provision : diffHref(identifier, from, to, provision).page = "diff"
    BY ReadsBack DEF appHref, diffHref
<1> QED
    BY <1>1, <1>2

LEMMA HistoryGood ==
    ASSUME NEW identifier, NEW view, NEW window,
           window.from \in Dates \cup {Nothing}, window.to \in Dates \cup {Nothing}
    PROVE  Good(versionsHref(identifier, view, window))
<1> DEFINE params == [view |-> IF view = "all" THEN "all" ELSE Nothing,
                      from |-> window.from,
                      to |-> IF window.from = Nothing THEN Nothing ELSE window.to]
           link == versionsHref(identifier, view, window)
<1>1. link = Address("versions", identifier, params)
    BY DEF versionsHref
<1>2. /\ link.page = "versions" /\ link.path = identifier
      /\ Read(link, "view") = params.view /\ Read(link, "from") = params.from
      /\ Read(link, "to") = params.to
    <2> HIDE DEF link
    <2> QED
        BY <1>1, ReadsBack
<1> HIDE DEF link
<1>3. Fit(link)
    BY <1>2 DEF Fit
<1>4. /\ readWindowRequest(link).from = params.from
      /\ readWindowRequest(link).to = params.to
      /\ (readVersionsView(Read(link, "view")) = "all") <=> (view = "all")
    BY <1>2, NothingElse DEF readWindowRequest, readVersionsView
<1>5. versionsHref(identifier, readVersionsView(Read(link, "view")), readWindowRequest(link))
        = Address("versions", identifier, params)
    BY <1>4 DEF versionsHref
<1>6. Written(link) = link
    BY <1>1, <1>2, <1>5 DEF Written
<1> QED
    BY <1>3, <1>6 DEF Good, link

LEMMA MaxZero ==
    /\ \A x \in Int : Max({0, x}) \in Nat
    /\ \A x \in Nat : Max({0, x}) = x
<1>1. ASSUME NEW x \in Int
      PROVE  Max({0, x}) = IF x > 0 THEN x ELSE 0
    <2>1. CASE x > 0
        <3>1. Max({0, x}) \in {0, x} /\ \A y \in {0, x} : y <= Max({0, x})
            BY <2>1, x \in {0, x}, \A y \in {0, x} : y <= x DEF Max
        <3> QED
            BY <2>1, <3>1
    <2>2. CASE ~(x > 0)
        <3>1. Max({0, x}) \in {0, x} /\ \A y \in {0, x} : y <= Max({0, x})
            BY <2>2, 0 \in {0, x}, \A y \in {0, x} : y <= 0 DEF Max
        <3> QED
            BY <2>2, <3>1
    <2> QED
        BY <2>1, <2>2
<1> QED
    BY <1>1

-----------------------------------------------------------------------------
(* Search. *)

Ordered(opts) == /\ opts.sort \in SEARCH_SORTS /\ opts.offset \in Nat /\ opts.cites \in BOOLEAN

LEMMA SearchReadsBack ==
    ASSUME NEW q \in Seq(Tokens), NEW opts, Ordered(opts)
    PROVE  /\ searchHref(q, opts).page = "search"
           /\ SearchView(searchHref(q, opts), Limit)
                = [q |-> q, release |-> opts.release, date |-> opts.date, cites |-> opts.cites,
                   sort |-> opts.sort, offset |-> opts.offset]
           /\ Good(searchHref(q, opts))
<1> DEFINE params == [q |-> q, release |-> opts.release, date |-> opts.date,
                      cites |-> IF opts.cites THEN "1" ELSE Nothing,
                      sort |-> Unless(opts.sort, "relevance"), offset |-> Unless(opts.offset, 0)]
           link == searchHref(q, opts)
           view == [q |-> q, release |-> opts.release, date |-> opts.date, cites |-> opts.cites,
                    sort |-> opts.sort, offset |-> opts.offset]
<1>1. link = Address("search", Nothing, params)
    BY DEF searchHref
<1>2. /\ link.page = "search"
      /\ Read(link, "q") = q /\ Read(link, "release") = opts.release /\ Read(link, "date") = opts.date
      /\ Read(link, "cites") = IF opts.cites THEN "1" ELSE Nothing
      /\ Read(link, "sort") = IF opts.sort = "relevance" THEN Nothing ELSE opts.sort
      /\ Read(link, "offset") = IF opts.offset = 0 THEN Nothing ELSE opts.offset
      /\ Read(link, "page") = Nothing
    <2> HIDE DEF link
    <2> QED
        BY <1>1, ReadsBack DEF Unless
<1> HIDE DEF link
<1>3. pageOffset(link, Limit) = opts.offset
    BY <1>2, NothingElse, MaxZero DEF pageOffset, Ordered
<1>4. /\ q # Nothing /\ (Read(link, "cites") = "1") = opts.cites
      /\ (IF Read(link, "sort") \in SEARCH_SORTS THEN Read(link, "sort") ELSE "relevance") = opts.sort
    BY <1>2, NothingElse DEF Ordered, SEARCH_SORTS
<1>5. SearchView(link, Limit) = view
    BY <1>2, <1>3, <1>4 DEF SearchView
<1>6. Fit(link)
    BY <1>2 DEF Fit, Numbered, Ordered
<1>7. searchHref(view.q, view) = Address("search", Nothing, params)
    BY DEF searchHref
<1>8. Written(link) = link
    <2> HIDE DEF view, params
    <2> QED
        BY <1>1, <1>2, <1>5, <1>7 DEF Written
<1> QED
    BY <1>2, <1>5, <1>6, <1>8 DEF Good, link

LEMMA OffsetsNatural ==
    ASSUME NEW address, Numbered(address)
    PROVE  pageOffset(address, Limit) \in Nat
<1>1. /\ Read(address, "offset") \in Int \cup {Nothing} /\ Read(address, "page") \in Int \cup {Nothing}
      /\ Limit \in Nat
    BY BrowsingAssumption DEF Numbered
<1>2. ASSUME NEW k \in Nat, NEW l \in Nat PROVE k * l \in Nat
    BY <1>2
<1>3. Read(address, "page") \in Int /\ ~(Read(address, "page") <= 1) => Read(address, "page") - 1 \in Nat
    OBVIOUS
<1> QED
    BY <1>1, <1>2, <1>3, MaxZero DEF pageOffset

LEMMA SearchViewFits ==
    ASSUME NEW address, Fit(address), address.page = "search"
    PROVE  LET view == SearchView(address, Limit) IN view.q \in Seq(Tokens) /\ Ordered(view)
<1>1. Read(address, "q") \in Seq(Tokens) \cup {Nothing} /\ <<>> \in Seq(Tokens)
    BY DEF Fit
<1>2. pageOffset(address, Limit) \in Nat
    BY OffsetsNatural DEF Fit
<1> QED
    BY <1>1, <1>2 DEF SearchView, Ordered, SEARCH_SORTS

\* Every address of a search has the view of the one it would be written as.
LEMMA SearchWritten ==
    ASSUME NEW address, Fit(address), address.page = "search"
    PROVE  SameView(address, Written(address)) /\ Good(Written(address))
<1> DEFINE view == SearchView(address, Limit)
<1>1. view.q \in Seq(Tokens) /\ Ordered(view)
    BY SearchViewFits
<1>2. view = [q |-> view.q, release |-> view.release, date |-> view.date, cites |-> view.cites,
              sort |-> view.sort, offset |-> view.offset]
    BY DEF SearchView
<1>3. Written(address) = searchHref(view.q, view)
    BY DEF Written
<1> HIDE DEF view
<1>4. SearchView(Written(address), Limit) = view /\ Good(Written(address))
    BY <1>1, <1>2, <1>3, SearchReadsBack
<1> QED
    BY <1>4 DEF SameView, view

-----------------------------------------------------------------------------
(* The report, and the history page. *)

LEMMA ParsesSort ==
    /\ \A value \in Orders \cup {Nothing} : parseSort(value) \in SORT_KEYS \X BOOLEAN
    /\ \A sort \in SORT_KEYS \X BOOLEAN : sort \in Orders /\ parseSort(sort) = sort
    /\ parseSort(Nothing) = DEFAULT_SORT
<1>1. \A key, down : <<key, down>>[1] = key
    OBVIOUS
<1>2. "title" \in SORT_KEYS
    BY DEF SORT_KEYS
<1>3. \A value \in Orders : \E key, down : /\ value = <<key, down>> /\ down \in BOOLEAN
                                           /\ value[1] = key
    BY DEF Orders
<1>4. \A sort \in SORT_KEYS \X BOOLEAN : \E key, down : sort = <<key, down>> /\ sort[1] = key
                                                        /\ key \in SORT_KEYS /\ sort \in Orders
    BY DEF Orders
<1>5. DEFAULT_SORT \in SORT_KEYS \X BOOLEAN
    BY <1>2 DEF DEFAULT_SORT
<1> QED
    BY <1>3, <1>4, <1>5, NothingElse DEF parseSort

LEMMA ReportGood ==
    /\ \A sort \in SORT_KEYS \X BOOLEAN :
          /\ DataSort(versionDataHref(sort)) = sort
          /\ versionDataHref(sort).page = "data" /\ Good(versionDataHref(sort))
    /\ Good(versionDataHref(Nothing))
<1>1. ASSUME NEW sort \in (SORT_KEYS \X BOOLEAN) \cup {Nothing}
      PROVE  LET link == versionDataHref(sort) IN
             /\ link.page = "data" /\ Fit(link)
             /\ Read(link, "sort") = IF sort = DEFAULT_SORT THEN Nothing ELSE sort
    <2> DEFINE link == versionDataHref(sort)
    <2>1. link = Address("data", Nothing, [sort |-> Unless(sort, DEFAULT_SORT)])
        BY DEF versionDataHref
    <2>2. /\ link.page = "data"
          /\ Read(link, "sort") = IF sort = DEFAULT_SORT THEN Nothing ELSE sort
        <3> HIDE DEF link
        <3> QED
            BY <2>1, ReadsBack DEF Unless
    <2> HIDE DEF link
    <2>3. Fit(link)
        BY <2>2, ParsesSort DEF Fit
    <2> QED
        BY <2>2, <2>3 DEF link
<1>2. ASSUME NEW sort \in SORT_KEYS \X BOOLEAN
      PROVE  DataSort(versionDataHref(sort)) = sort
    BY <1>1, ParsesSort DEF DataSort
<1>3. ASSUME NEW sort \in SORT_KEYS \X BOOLEAN
      PROVE  Good(versionDataHref(sort))
    BY <1>1, <1>2 DEF Good, Written
<1>4. Good(versionDataHref(Nothing))
    <2> DEFINE link == versionDataHref(Nothing)
    <2>1. Read(link, "sort") = Nothing
        BY <1>1, ParsesSort
    <2>2. DataSort(link) = DEFAULT_SORT
        BY <2>1, ParsesSort DEF DataSort
    <2>3. DEFAULT_SORT # Nothing
        BY ParsesSort, NothingElse DEF DEFAULT_SORT, SORT_KEYS
    <2>4. versionDataHref(DEFAULT_SORT) = versionDataHref(Nothing)
        BY <2>3 DEF versionDataHref, Unless
    <2>5. Written(link) = versionDataHref(DataSort(link))
        BY <1>1 DEF Written
    <2> QED
        BY <1>1, <2>2, <2>4, <2>5 DEF Good
<1> QED
    BY <1>1, <1>2, <1>3, <1>4

LEMMA ReportWritten ==
    ASSUME NEW address, Fit(address), address.page = "data"
    PROVE  SameView(address, Written(address)) /\ Good(Written(address))
<1>1. DataSort(address) \in SORT_KEYS \X BOOLEAN
    BY ParsesSort DEF Fit, DataSort
<1>2. Written(address) = versionDataHref(DataSort(address))
    BY DEF Written
<1> QED
    BY <1>1, <1>2, ReportGood DEF SameView

LEMMA HistoryWritten ==
    ASSUME NEW address, Fit(address), address.page = "versions"
    PROVE  SameView(address, Written(address)) /\ Good(Written(address))
<1> DEFINE window == readWindowRequest(address)
           link == versionsHref(address.path, readVersionsView(Read(address, "view")), window)
<1>1. Written(address) = link
    BY DEF Written
<1>2. window.from \in Dates \cup {Nothing} /\ window.to \in Dates \cup {Nothing}
    BY DEF readWindowRequest, Fit
<1>3. Good(link)
    BY <1>2, HistoryGood
<1>4. /\ Read(link, "from") = window.from
      /\ Read(link, "to") = IF window.from = Nothing THEN Nothing ELSE window.to
    BY ReadsBack DEF versionsHref
<1>5. readWindowRequest(link) = window
    <2>1. window = [from |-> window.from, to |-> window.to]
        BY DEF readWindowRequest
    <2>2. window.from = Nothing => window.to = Nothing
        BY DEF readWindowRequest
    <2> HIDE DEF window, link
    <2> QED
        BY <1>4, <2>1, <2>2 DEF readWindowRequest
<1> QED
    BY <1>1, <1>3, <1>5 DEF SameView

-----------------------------------------------------------------------------
(* The classification tables. *)

LEMMA SortsNamed ==
    /\ CLASSIFICATION_SORTS = {"pl", "code", "pl-desc", "code-desc"}
    /\ \A sort \in CLASSIFICATION_SORTS, key \in CLASSIFICATION_SORT_KEYS :
          nextSort(sort, key) \in CLASSIFICATION_SORTS
<1>1. CLASSIFICATION_SORT_KEYS = {"pl", "code"}
    BY DEF CLASSIFICATION_SORT_KEYS
<1>2. Reversed("pl") = "pl-desc" /\ Reversed("code") = "code-desc"
    BY DEF Reversed
<1>3. CLASSIFICATION_SORTS = {"pl", "code", "pl-desc", "code-desc"}
    BY <1>1, <1>2 DEF CLASSIFICATION_SORTS
<1> QED
    BY <1>1, <1>2, <1>3 DEF nextSort

\* The options a link to the tables may be written with. What names no rows has
\* neither filter nor order.
Listing(path, opts) ==
    /\ path \in Tables \cup {Nothing}
    /\ opts.q \in Lookups \cup {Nothing} /\ opts.offset \in Nat
    /\ opts.section # Nothing => normalizeSectionKey(opts.section) # Nothing
    /\ path = Nothing => opts.pl = Nothing /\ opts.plSection = Nothing
    /\ path = Nothing /\ opts.title = Nothing =>
          opts.section = Nothing /\ opts.sort = opts.sortDefault /\ opts.offset = 0
    /\ \/ opts.sort = opts.sortDefault
       \/ opts.sort \in CLASSIFICATION_SORTS /\ opts.sortDefault = IF path = Nothing THEN "pl-desc" ELSE "pl"

\* The view it opens.
Opened(path, opts) ==
    LET default == IF path = Nothing THEN "pl-desc" ELSE "pl" IN
    [q |-> opts.q, pl |-> opts.pl, plSection |-> opts.plSection, title |-> opts.title,
     section |-> normalizeSectionKey(opts.section),
     sort |-> IF opts.sort = opts.sortDefault THEN default ELSE opts.sort,
     sortDefault |-> default, offset |-> opts.offset]

Table(path, opts) ==
    IF path = Nothing THEN classificationHref(Nothing, Nothing, opts)
    ELSE classificationHref(path[1], path[2], opts)

LEMMA KeysNormal ==
    ASSUME NEW section
    PROVE  /\ normalizeSectionKey(Nothing) = Nothing
           /\ normalizeSectionKey(section) # Nothing =>
                 normalizeSectionKey(normalizeSectionKey(section)) = normalizeSectionKey(section)
<1>1. section # Nothing =>
         normalizeSectionKey(section)
            = [f \in DOMAIN section |-> IF f = "typed" THEN FALSE ELSE section[f]]
    BY DEF normalizeSectionKey
<1> QED
    BY <1>1 DEF normalizeSectionKey

LEMMA TableReadsBack ==
    ASSUME NEW path, NEW opts, Listing(path, opts)
    PROVE  /\ Table(path, opts).page = "classification" /\ Table(path, opts).path = path
           /\ ClassificationView(Table(path, opts), Limit) = Opened(path, opts)
           /\ Good(Table(path, opts))
<1> DEFINE params == [q |-> opts.q, pl |-> opts.pl, pl_section |-> opts.plSection, title |-> opts.title,
                      section |-> normalizeSectionKey(opts.section),
                      sort |-> Unless(opts.sort, opts.sortDefault), offset |-> Unless(opts.offset, 0)]
           link == Table(path, opts)
           view == Opened(path, opts)
<1>0. path # Nothing => path = <<path[1], path[2]>> /\ path[1] # Nothing /\ path[2] # Nothing
    BY NothingElse DEF Listing
<1>1. link = Address("classification", path, params)
    BY <1>0 DEF Table, classificationHref
<1>2. /\ link.page = "classification" /\ link.path = path
      /\ Read(link, "q") = opts.q /\ Read(link, "pl") = opts.pl
      /\ Read(link, "pl_section") = opts.plSection /\ Read(link, "title") = opts.title
      /\ Read(link, "section") = normalizeSectionKey(opts.section)
      /\ Read(link, "sort") = IF opts.sort = opts.sortDefault THEN Nothing ELSE opts.sort
      /\ Read(link, "offset") = IF opts.offset = 0 THEN Nothing ELSE opts.offset
      /\ Read(link, "page") = Nothing
    <2> HIDE DEF link
    <2> QED
        BY <1>1, ReadsBack DEF Unless
<1> HIDE DEF link
<1>3. pageOffset(link, Limit) = opts.offset
    BY <1>2, NothingElse, MaxZero DEF pageOffset, Listing
<1>4. /\ opts.section = Nothing => normalizeSectionKey(opts.section) = Nothing
      /\ opts.section # Nothing => normalizeSectionKey(opts.section) # Nothing
      /\ normalizeSectionKey(normalizeSectionKey(opts.section)) = normalizeSectionKey(opts.section)
    BY KeysNormal DEF Listing
<1>5. ClassificationDefault(link) = IF path = Nothing THEN "pl-desc" ELSE "pl"
    BY <1>2 DEF ClassificationDefault
<1>6. /\ Nothing \notin CLASSIFICATION_SORTS
      /\ path # Nothing \/ opts.title # Nothing =>
           readSort(Read(link, "sort"), ClassificationDefault(link)) = view.sort
    BY <1>2, <1>5, NothingElse DEF readSort, Opened, Listing
<1>7. ClassificationView(link, Limit) = view
    <2>1. CASE path # Nothing
        BY <1>2, <1>3, <1>4, <1>5, <1>6, <2>1 DEF ClassificationView, Opened, Listing
    <2>2. CASE path = Nothing /\ opts.title # Nothing
        BY <1>2, <1>3, <1>4, <1>5, <1>6, <2>2 DEF ClassificationView, Opened, Listing
    <2>3. CASE path = Nothing /\ opts.title = Nothing
        BY <1>2, <1>3, <1>4, <1>5, <1>6, <2>3 DEF ClassificationView, Opened, Listing
    <2> QED
        BY <2>1, <2>2, <2>3
<1>8. Fit(link)
    BY <1>2, <1>4 DEF Fit, Numbered, Listing
<1>9. classificationHref(Congress(link), Session(link), view) = Address("classification", path, params)
    <2>1. Unless(view.sort, view.sortDefault) = Unless(opts.sort, opts.sortDefault)
        BY DEF Unless, Opened, Listing
    <2>2. /\ view.q = opts.q /\ view.pl = opts.pl /\ view.plSection = opts.plSection
          /\ view.title = opts.title /\ view.offset = opts.offset
          /\ view.section = normalizeSectionKey(opts.section)
        BY DEF Opened
    <2>3. (IF Congress(link) # Nothing /\ Session(link) # Nothing
           THEN <<Congress(link), Session(link)>> ELSE Nothing) = path
        BY <1>0, <1>2 DEF Congress, Session
    <2> HIDE DEF view
    <2> QED
        BY <1>4, <2>1, <2>2, <2>3 DEF classificationHref
<1>10. Written(link) = link
    BY <1>1, <1>2, <1>7, <1>9 DEF Written
<1> QED
    BY <1>2, <1>7, <1>8, <1>10 DEF Good, link

LEMMA ViewLists ==
    ASSUME NEW address, Fit(address), address.page = "classification"
    PROVE  LET view == ClassificationView(address, Limit) IN
           /\ Listing(address.path, view) /\ view.sort \in CLASSIFICATION_SORTS
           /\ view = Opened(address.path, view)
<1> DEFINE view == ClassificationView(address, Limit)
           path == address.path
           default == IF path = Nothing THEN "pl-desc" ELSE "pl"
           rows == path # Nothing \/ Read(address, "title") # Nothing
<1>1. pageOffset(address, Limit) \in Nat
    BY OffsetsNatural DEF Fit
<1>2. ClassificationDefault(address) = default /\ default \in CLASSIFICATION_SORTS
    BY SortsNamed DEF ClassificationDefault
<1>3. /\ view.q = Read(address, "q") /\ view.sortDefault = default
      /\ view.pl = IF path # Nothing THEN Read(address, "pl") ELSE Nothing
      /\ view.plSection = IF path # Nothing THEN Read(address, "pl_section") ELSE Nothing
      /\ view.title = IF rows THEN Read(address, "title") ELSE Nothing
      /\ view.section = normalizeSectionKey(IF rows THEN Read(address, "section") ELSE Nothing)
      /\ view.sort = IF rows THEN readSort(Read(address, "sort"), default) ELSE default
      /\ view.offset = IF rows THEN pageOffset(address, Limit) ELSE 0
      /\ view = [q |-> view.q, pl |-> view.pl, plSection |-> view.plSection, title |-> view.title,
                 section |-> view.section, sort |-> view.sort, sortDefault |-> view.sortDefault,
                 offset |-> view.offset]
    BY <1>2 DEF ClassificationView
<1> HIDE DEF view
<1>4. view.sort \in CLASSIFICATION_SORTS
    BY <1>2, <1>3 DEF readSort
<1>5. normalizeSectionKey(view.section) = view.section
    BY <1>3, KeysNormal DEF Fit
<1>6. Listing(path, view)
    <2>1. path \in Tables \cup {Nothing} /\ view.q \in Lookups \cup {Nothing} /\ view.offset \in Nat
        BY <1>1, <1>3 DEF Fit
    <2>2. path = Nothing => view.pl = Nothing /\ view.plSection = Nothing
        BY <1>3
    <2>3. path = Nothing /\ view.title = Nothing =>
             view.section = Nothing /\ view.sort = view.sortDefault /\ view.offset = 0
        BY <1>3, KeysNormal
    <2> QED
        BY <1>3, <1>4, <1>5, <2>1, <2>2, <2>3 DEF Listing
<1>7. view = Opened(path, view)
    BY <1>3, <1>5 DEF Opened
<1> QED
    BY <1>4, <1>6, <1>7 DEF view

\* The rows of a page with other options.
Asking(view) == [view EXCEPT !.q = Nothing]
Less(view, filter) == [view EXCEPT ![filter] = Nothing]

LEMMA RowsAre ==
    ASSUME NEW address, address.path \in Tables \cup {Nothing}, NEW view, NEW changes
    PROVE  RowsHref(address, view, changes) = Table(address.path, Spread(Asking(view), changes))
BY NothingElse DEF RowsHref, Table, Congress, Session, Asking

LEMMA ClassificationWritten ==
    ASSUME NEW address, Fit(address), address.page = "classification"
    PROVE  SameView(address, Written(address)) /\ Good(Written(address))
<1> DEFINE view == ClassificationView(address, Limit)
<1>1. /\ Listing(address.path, view) /\ view = Opened(address.path, view)
    BY ViewLists
<1>2. Written(address) = classificationHref(Congress(address), Session(address), view)
    BY DEF Written
<1>3. Written(address) = Table(address.path, view)
    BY <1>2 DEF Table, Congress, Session
<1>4. /\ ClassificationView(Written(address), Limit) = view
      /\ Written(address).page = "classification" /\ Good(Written(address))
    <2> HIDE DEF view
    <2> QED
        BY <1>1, <1>3, TableReadsBack
<1> QED
    BY <1>4 DEF SameView

LEMMA UnfilteredLists ==
    /\ \A table \in Tables : Good(classificationHref(table[1], table[2], Unfiltered("pl")))
    /\ Good(classificationHref(Nothing, Nothing, Unfiltered("pl-desc")))
    /\ ClassificationView(classificationHref(Nothing, Nothing, Unfiltered("pl-desc")), Limit)
         = Unfiltered("pl-desc")
<1>1. \A path \in Tables \cup {Nothing} : \A default : Listing(path, Unfiltered(default))
    BY DEF Listing, Unfiltered
<1>2. \A table \in Tables : Table(table, Unfiltered("pl")) = classificationHref(table[1], table[2], Unfiltered("pl"))
    BY NothingElse DEF Table
<1>3. Table(Nothing, Unfiltered("pl-desc")) = classificationHref(Nothing, Nothing, Unfiltered("pl-desc"))
    BY DEF Table
<1>4. Opened(Nothing, Unfiltered("pl-desc")) = Unfiltered("pl-desc")
    BY KeysNormal DEF Opened, Unfiltered
<1> QED
    BY <1>1, <1>2, <1>3, <1>4, TableReadsBack

\* A suggestion of the lookup.
LEMMA FilterGood ==
    ASSUME NEW query \in Lookups, NEW kind, NEW table \in Tables \cup {Nothing},
           NEW sort \in CLASSIFICATION_SORTS
    PROVE  LET link == classificationTableFilterHref(Suggestion(query, kind, table), sort) IN
           \/ link = Nothing
           \/ link.page = "classification" /\ Good(link)
<1> DEFINE s == Suggestion(query, kind, table)
           link == classificationTableFilterHref(s, sort)
           ByLaw == [[Unfiltered("pl") EXCEPT !.pl = s.pl, !.plSection = s.plSection] EXCEPT !.sort = sort]
           BySection == [[Unfiltered("pl") EXCEPT !.title = s.title, !.section = s.section] EXCEPT !.sort = sort]
           ByTitle == [[Unfiltered("pl") EXCEPT !.title = s.title] EXCEPT !.sort = sort]
<1>1. /\ s.congress = IF table = Nothing THEN Nothing ELSE table[1]
      /\ s.session = IF table = Nothing THEN Nothing ELSE table[2]
      /\ s.section # Nothing => normalizeSectionKey(s.section) # Nothing
    BY BrowsingAssumption DEF Suggestion
<1>2. CASE table = Nothing
    BY <1>1, <1>2 DEF classificationTableFilterHref
<1>3. CASE table # Nothing
    <2>1. table \in Tables /\ table[1] # Nothing /\ table[2] # Nothing
        BY <1>3, NothingElse
    <2> HIDE DEF s
    <2>2. Listing(table, ByLaw) /\ Listing(table, BySection) /\ Listing(table, ByTitle)
        BY <1>1, <1>3, <2>1 DEF Listing, Unfiltered
    <2>3. \/ link = Nothing
          \/ \E opts \in {ByLaw, BySection, ByTitle} : link = classificationHref(table[1], table[2], opts)
        BY <1>1, <2>1 DEF classificationTableFilterHref
    <2>4. \A opts : classificationHref(table[1], table[2], opts) = Table(table, opts)
        BY <1>3 DEF Table
    <2>5. \A opts \in {ByLaw, BySection, ByTitle} :
             Table(table, opts).page = "classification" /\ Good(Table(table, opts))
        BY <2>2, TableReadsBack
    <2> HIDE DEF link, ByLaw, BySection, ByTitle
    <2> QED
        BY <2>3, <2>4, <2>5 DEF link, s
<1> QED
    BY <1>2, <1>3

LEMMA SuggestionGood ==
    ASSUME NEW query \in Lookups, NEW kind, NEW table \in Tables \cup {Nothing}
    PROVE  Good(classificationSuggestionHref(Suggestion(query, kind, table)))
<1> DEFINE s == Suggestion(query, kind, table)
           filtered == classificationTableFilterHref(s, "pl")
           ByCode(section) == [Unfiltered("pl") EXCEPT !.title = s.title, !.section = section]
<1>1. filtered = Nothing \/ Good(filtered)
    BY FilterGood, SortsNamed
<1>2. /\ s.section # Nothing => normalizeSectionKey(s.section) # Nothing
      /\ s.href = appHref(Section, Nothing) /\ s.identifier = Section
    BY BrowsingAssumption DEF Suggestion
<1> HIDE DEF s
<1>3. ASSUME s.title # Nothing, NEW section \in {s.section, Nothing}
      PROVE  Good(classificationHref(Nothing, Nothing, ByCode(section)))
    <2>1. Listing(Nothing, ByCode(section))
        BY <1>2, <1>3 DEF Listing, Unfiltered
    <2>2. classificationHref(Nothing, Nothing, ByCode(section)) = Table(Nothing, ByCode(section))
        BY DEF Table
    <2> HIDE DEF ByCode
    <2> QED
        BY <2>1, <2>2, TableReadsBack
<1>4. \A identifier : Good(appHref(identifier, Nothing))
    BY SimplePages
<1>5. Good(classificationSuggestionHref(s))
    <2> HIDE DEF filtered
    <2>1. classificationSuggestionHref(s) =
            CASE filtered # Nothing -> filtered
              [] s.kind = "section-notes" /\ s.identifier # Nothing -> appHref(s.identifier, Nothing)
              [] s.kind = "section-classifications" /\ s.title # Nothing ->
                    classificationHref(Nothing, Nothing, ByCode(s.section))
              [] s.kind = "title-classifications" /\ s.title # Nothing ->
                    classificationHref(Nothing, Nothing, ByCode(Nothing))
              [] OTHER -> s.href
        BY DEF classificationSuggestionHref, filtered
    <2> HIDE DEF ByCode
    <2> QED
        BY <1>1, <1>2, <1>3, <1>4, <2>1
<1> QED
    BY <1>5 DEF s

-----------------------------------------------------------------------------
(***************************************************************************)
(* Queries                                                                 *)
(***************************************************************************)

\* What `Keep` builds, up to its `i`th element.
Keeping(f, s, kept, n) ==
    f = [i \in 0..n |-> IF i = 0 THEN <<>>
                        ELSE IF s[i] \in kept THEN Append(f[i - 1], s[i]) ELSE f[i - 1]]

LEMMA KeepingExists ==
    ASSUME NEW s, NEW kept, NEW m \in Nat
    PROVE  \E f : Keeping(f, s, kept, m)
<1> DEFINE bad == {k \in 0..m : ~\E f : Keeping(f, s, kept, k)}
<1> SUFFICES ASSUME bad # {} PROVE FALSE
    BY m \in 0..m
<1>1. bad \in SUBSET Nat
    OBVIOUS
<1>2. PICK k \in bad : \A x \in bad : k <= x
    <2> HIDE DEF bad
    <2> QED
        BY <1>1, LeastExists
<1>3. CASE k = 0
    <2> DEFINE f == [i \in 0..0 |-> <<>>]
    <2>1. Keeping(f, s, kept, 0)
        BY DEF Keeping
    <2> HIDE DEF f
    <2> QED
        BY <1>2, <1>3, <2>1
<1>4. CASE k # 0
    <2>1. k - 1 \in 0..m /\ k \in 1..m
        BY <1>2, <1>4
    <2>0. k - 1 \notin bad
        <3> HIDE DEF bad
        <3> QED
            BY <1>2, <2>1
    <2>2. PICK e : Keeping(e, s, kept, k - 1)
        BY <2>0, <2>1
    <2> DEFINE last == IF s[k] \in kept THEN Append(e[k - 1], s[k]) ELSE e[k - 1]
               f == [i \in 0..k |-> IF i = k THEN last ELSE e[i]]
    <2>3. ASSUME NEW i \in 0..k
          PROVE  f[i] = IF i = 0 THEN <<>>
                        ELSE IF s[i] \in kept THEN Append(f[i - 1], s[i]) ELSE f[i - 1]
        <3>1. CASE i = k
            <4>1. k \in 0..k /\ k - 1 \in 0..k /\ k - 1 # k /\ k # 0
                BY <2>1
            <4>2. f[k] = last /\ f[k - 1] = e[k - 1]
                <5> HIDE DEF last
                <5> QED
                    BY <4>1, Zenon
            <4> HIDE DEF f
            <4> QED
                BY <3>1, <4>1, <4>2
        <3>2. CASE i # k
            <4>1. i \in 0..k - 1
                BY <2>1, <3>2
            <4>2. e[i] = IF i = 0 THEN <<>>
                         ELSE IF s[i] \in kept THEN Append(e[i - 1], s[i]) ELSE e[i - 1]
                BY <2>2, <4>1 DEF Keeping
            <4>3. f[i] = e[i] /\ (i # 0 => f[i - 1] = e[i - 1])
                <5>1. i # 0 => i - 1 \in 0..k /\ i - 1 # k
                    BY <2>1, <4>1
                <5> HIDE DEF last
                <5> QED
                    BY <3>2, <5>1
            <4> HIDE DEF f
            <4> QED
                BY <4>2, <4>3
        <3> QED
            BY <3>1, <3>2
    <2>4. DOMAIN f = 0..k /\ f = [i \in 0..k |-> f[i]]
        OBVIOUS
    <2>5. Keeping(f, s, kept, k)
        <3> HIDE DEF f
        <3> QED
            BY <2>3, <2>4 DEF Keeping
    <2> HIDE DEF f
    <2> QED
        BY <1>2, <2>5
<1> QED
    BY <1>3, <1>4

\* `Keep` steps from element to element.
LEMMA KeepSteps ==
    ASSUME NEW s, NEW kept, Len(s) \in Nat
    PROVE  \E f : /\ Keep(s, kept) = f[Len(s)] /\ f[0] = <<>>
                  /\ \A i \in 1..Len(s) :
                        f[i] = IF s[i] \in kept THEN Append(f[i - 1], s[i]) ELSE f[i - 1]
<1> DEFINE n == Len(s)
           f == CHOOSE f : Keeping(f, s, kept, n)
<1>1. Keeping(f, s, kept, n)
    BY KeepingExists
<1>2. Keep(s, kept) = f[n]
    BY DEF Keep, Keeping
<1> HIDE DEF f
<1>3. \A i \in 0..n : f[i] = IF i = 0 THEN <<>>
                              ELSE IF s[i] \in kept THEN Append(f[i - 1], s[i]) ELSE f[i - 1]
    <2> HIDE DEF n
    <2> QED
        BY <1>1 DEF Keeping
<1>4. 0 \in 0..n /\ \A i \in 1..n : i \in 0..n /\ i # 0
    OBVIOUS
<1>5. f[0] = <<>> /\ \A i \in 1..n : f[i] = IF s[i] \in kept THEN Append(f[i - 1], s[i]) ELSE f[i - 1]
    <2> HIDE DEF n
    <2> QED
        BY <1>3, <1>4
<1> QED
    BY <1>2, <1>5

\* What is kept of a sequence: those elements.
LEMMA KeepSet ==
    ASSUME NEW X, NEW s \in Seq(X), NEW kept
    PROVE  /\ Keep(s, kept) \in Seq(X)
           /\ ToSet(Keep(s, kept)) = ToSet(s) \cap kept
<1> DEFINE n == Len(s)
<1>0. n \in Nat /\ \A i \in 1..n : s[i] \in X
    OBVIOUS
<1>1. PICK f : /\ Keep(s, kept) = f[n] /\ f[0] = <<>>
               /\ \A i \in 1..n : f[i] = IF s[i] \in kept THEN Append(f[i - 1], s[i]) ELSE f[i - 1]
    BY <1>0, KeepSteps
<1> DEFINE Right(i) == f[i] \in Seq(X) /\ ToSet(f[i]) = {s[j] : j \in 1..i} \cap kept
           bad == {i \in 0..n : ~Right(i)}
<1>2. bad = {}
    <2> SUFFICES ASSUME bad # {} PROVE FALSE
        OBVIOUS
    <2>1. bad \in SUBSET Nat
        OBVIOUS
    <2>2. PICK i \in bad : \A x \in bad : i <= x
        <3> HIDE DEF bad
        <3> QED
            BY <2>1, LeastExists
    <2>3. i \in 0..n /\ ~Right(i)
        BY <2>2
    <2>4. CASE i = 0
        <3>1. <<>> \in Seq(X) /\ ToSet(<<>>) = {} /\ 1..0 = {}
            BY DEF ToSet
        <3>2. {s[j] : j \in 1..0} = {}
            BY <3>1
        <3>3. Right(0)
            BY <1>1, <3>1, <3>2
        <3> HIDE DEF Right
        <3> QED
            BY <2>3, <2>4, <3>3
    <2>5. CASE i # 0
        <3>1. i - 1 \in 0..n /\ i \in 1..n
            BY <1>0, <2>3, <2>5
        <3>2. i - 1 \notin bad
            <4> HIDE DEF bad
            <4> QED
                BY <2>2, <3>1
        <3>3. Right(i - 1)
            <4> HIDE DEF Right
            <4> QED
                BY <3>1, <3>2
        <3>4. {s[j] : j \in 1..i} = {s[j] : j \in 1..i - 1} \cup {s[i]}
            <4>1. 1..i = (1..i - 1) \cup {i}
                BY <3>1
            <4> QED
                BY <4>1
        <3>5. \A t \in Seq(X), x \in X : Append(t, x) \in Seq(X) /\ ToSet(Append(t, x)) = ToSet(t) \cup {x}
            <4> TAKE t \in Seq(X), x \in X
            <4>1. /\ Append(t, x) \in Seq(X) /\ Len(Append(t, x)) = Len(t) + 1 /\ Len(t) \in Nat
                  /\ \A j \in 1..Len(t) : Append(t, x)[j] = t[j]
                  /\ Append(t, x)[Len(t) + 1] = x
                OBVIOUS
            <4>2. DOMAIN Append(t, x) = 1..Len(t) + 1 /\ DOMAIN t = 1..Len(t)
                BY <4>1
            <4> DEFINE u == Append(t, x)
            <4> HIDE DEF u
            <4>3. ToSet(u) = ToSet(t) \cup {x}
                BY <4>1, <4>2 DEF ToSet, u
            <4> QED
                BY <4>1, <4>3 DEF u
        <3>6. Right(i)
            <4>1. f[i] = IF s[i] \in kept THEN Append(f[i - 1], s[i]) ELSE f[i - 1]
                BY <1>1, <3>1
            <4>2. s[i] \in X
                BY <1>0, <3>1
            <4>3. s[i] \in kept => ToSet(f[i]) = ToSet(f[i - 1]) \cup {s[i]} /\ f[i] \in Seq(X)
                BY <3>3, <3>5, <4>1, <4>2
            <4>4. s[i] \notin kept => f[i] = f[i - 1]
                BY <4>1
            <4> QED
                BY <3>3, <3>4, <4>3, <4>4
        <3> QED
            BY <2>3, <3>6
    <2> QED
        BY <2>4, <2>5
<1>3. Right(n)
    <2>1. n \in 0..n
        BY <1>0
    <2> HIDE DEF Right
    <2> QED
        BY <1>2, <2>1
<1>4. ToSet(s) = {s[j] : j \in 1..n}
    BY DEF ToSet
<1> QED
    BY <1>1, <1>3, <1>4

\* What is kept of two parts, of which one is kept and the other is not.
LEMMA KeepPart ==
    ASSUME NEW X, NEW s \in Seq(X), NEW t \in Seq(X), NEW kept,
           ToSet(s) \subseteq kept, ToSet(t) \cap kept = {}
    PROVE  Keep(s \o t, kept) = s
<1> DEFINE q == s \o t
           m == Len(s)
           n == Len(q)
<1>0. /\ m \in Nat /\ n = m + Len(t) /\ Len(t) \in Nat /\ q \in Seq(X)
      /\ \A i \in 1..m : q[i] = s[i]
      /\ \A i \in m + 1..n : q[i] = t[i - m] /\ i - m \in 1..Len(t)
    OBVIOUS
<1>1. /\ \A i \in 1..m : q[i] \in kept
      /\ \A i \in m + 1..n : q[i] \notin kept
    <2>1. \A i \in 1..m : s[i] \in ToSet(s)
        BY DEF ToSet
    <2>2. \A i \in 1..Len(t) : t[i] \in ToSet(t)
        BY DEF ToSet
    <2> HIDE DEF q
    <2> QED
        BY <1>0, <2>1, <2>2
<1> HIDE DEF q
<1>2. PICK f : /\ Keep(q, kept) = f[n] /\ f[0] = <<>>
               /\ \A i \in 1..n : f[i] = IF q[i] \in kept THEN Append(f[i - 1], q[i]) ELSE f[i - 1]
    <2>1. Len(q) \in Nat
        BY <1>0
    <2> QED
        BY <2>1, KeepSteps
<1> DEFINE Right(i) == f[i] = IF i <= m THEN SubSeq(s, 1, i) ELSE s
           bad == {i \in 0..n : ~Right(i)}
<1>3. bad = {}
    <2> SUFFICES ASSUME bad # {} PROVE FALSE
        OBVIOUS
    <2>1. bad \in SUBSET Nat
        OBVIOUS
    <2>2. PICK i \in bad : \A x \in bad : i <= x
        <3> HIDE DEF bad
        <3> QED
            BY <2>1, LeastExists
    <2>3. i \in 0..n /\ ~Right(i)
        BY <2>2
    <2>4. CASE i = 0
        <3>1. SubSeq(s, 1, 0) = <<>>
            OBVIOUS
        <3>2. Right(0)
            BY <1>0, <1>2, <3>1
        <3> HIDE DEF Right
        <3> QED
            BY <2>3, <2>4, <3>2
    <2>5. CASE i # 0
        <3>1. i - 1 \in 0..n /\ i \in 1..n
            BY <1>0, <2>3, <2>5
        <3>2. i - 1 \notin bad
            <4> HIDE DEF bad
            <4> QED
                BY <2>2, <3>1
        <3>3. Right(i - 1)
            <4> HIDE DEF Right
            <4> QED
                BY <3>1, <3>2
        <3>4. f[i] = IF q[i] \in kept THEN Append(f[i - 1], q[i]) ELSE f[i - 1]
            BY <1>2, <3>1
        <3>5. CASE i <= m
            <4>1. i \in 1..m /\ q[i] = s[i] /\ q[i] \in kept /\ i - 1 <= m
                BY <1>0, <1>1, <3>1, <3>5
            <4>2. Append(SubSeq(s, 1, i - 1), s[i]) = SubSeq(s, 1, i)
                BY <4>1
            <4> QED
                BY <2>3, <3>3, <3>4, <3>5, <4>1, <4>2
        <3>6. CASE ~(i <= m)
            <4>1. q[i] \notin kept
                BY <1>0, <1>1, <3>1, <3>6
            <4>2. SubSeq(s, 1, m) = s
                OBVIOUS
            <4>3. i - 1 <= m => i - 1 = m
                BY <1>0, <3>1, <3>6
            <4> QED
                BY <2>3, <3>3, <3>4, <3>6, <4>1, <4>2, <4>3
        <3> QED
            BY <3>5, <3>6
    <2> QED
        BY <2>4, <2>5
<1>4. Right(n)
    <2>1. n \in 0..n
        BY <1>0
    <2> HIDE DEF Right
    <2> QED
        BY <1>3, <2>1
<1>5. SubSeq(s, 1, m) = s
    OBVIOUS
<1>6. n <= m => n = m
    BY <1>0
<1> QED
    BY <1>2, <1>4, <1>5, <1>6 DEF q

ScopeNames == SEARCH_SCOPES \cup TIME_SCOPES

TitleToken(word) == Scoped("title", [word |-> word, t |-> FALSE, upper |-> FALSE])

LEMMA NormalValues ==
    /\ \A value \in Values : \A name :
          normalise(name, value) = [word |-> value.word, t |-> value.t /\ name # "title", upper |-> FALSE]
    /\ \A token \in Tokens : Scoped(token.name, normalise(token.name, token.value)) \in Tokens
    /\ \A value \in Values : /\ Scoped("title", normalise("title", value)) = TitleToken(value.word)
                             /\ TitleToken(value.word) \in Tokens
<1>1. ASSUME NEW value \in Values, NEW name
      PROVE  /\ normalise(name, value)
                  = [word |-> value.word, t |-> value.t /\ name # "title", upper |-> FALSE]
             /\ value.word \in Words
    <2>1. /\ value = [word |-> value.word, t |-> value.t, upper |-> value.upper]
          /\ value.word \in Words
        BY DEF Values
    <2>2. ASSUME NEW w, NEW t, NEW u, NEW b, NEW f, NEW r,
                 r = [[word |-> w, t |-> t, upper |-> u] EXCEPT !.upper = f, !.t = b]
          PROVE  r = [word |-> w, t |-> b, upper |-> f]
        <3>1. DOMAIN r = {"word", "t", "upper"} /\ r.word = w /\ r.t = b /\ r.upper = f
            BY <2>2
        <3>2. r = [x \in DOMAIN r |-> r[x]]
            BY <2>2
        <3> QED
            BY <3>1, <3>2
    <2> DEFINE b == value.t /\ name # "title"
    <2>3. normalise(name, value) = [value EXCEPT !.upper = FALSE, !.t = b]
        BY DEF normalise
    <2> HIDE DEF b
    <2>4. normalise(name, value) = [word |-> value.word, t |-> b, upper |-> FALSE]
        BY <2>1, <2>2, <2>3
    <2> QED
        BY <2>1, <2>4 DEF b
<1>2. ASSUME NEW value \in Values, NEW name PROVE normalise(name, value) \in Values
    <2> DEFINE b == value.t /\ name # "title"
    <2>1. b \in BOOLEAN
        BY Zenon
    <2>2. normalise(name, value) = [word |-> value.word, t |-> b, upper |-> FALSE] /\ value.word \in Words
        BY <1>1
    <2> HIDE DEF b
    <2> QED
        BY <2>1, <2>2 DEF Values
<1>3. \A token \in Tokens : Scoped(token.name, normalise(token.name, token.value)) \in Tokens
    BY <1>2 DEF Tokens, Scoped
<1>4. \A value \in Values : /\ Scoped("title", normalise("title", value)) = TitleToken(value.word)
                            /\ TitleToken(value.word) \in Tokens
    <2> TAKE value \in Values
    <2>1. normalise("title", value) = [word |-> value.word, t |-> FALSE, upper |-> FALSE]
        BY <1>1
    <2>2. normalise("title", value) \in Values
        BY <1>2
    <2>3. "title" \in SEARCH_SCOPES
        BY DEF SEARCH_SCOPES
    <2> QED
        BY <2>1, <2>2, <2>3 DEF Tokens, Scoped, TitleToken
<1> QED
    BY <1>1, <1>3, <1>4

\* A query in its two parts.
LEMMA QueryParts ==
    ASSUME NEW q \in Seq(Tokens)
    PROVE  LET parsed == parseQuery(q) IN
           /\ parsed.text \in Seq(Tokens) /\ parsed.scopes \in Seq(Tokens)
           /\ parsed = [text |-> parsed.text, scopes |-> parsed.scopes]
           /\ \A token \in ToSet(parsed.text) : token.name \notin ScopeNames
           /\ \A token \in ToSet(parsed.scopes) :
                 /\ token.name \in ScopeNames
                 /\ token.name = "title" => token = TitleToken(token.value.word)
           /\ Narrowing(parsed.scopes) = Narrowing(q)
<1> DEFINE scoped == {token \in ToSet(q) : token.name \in ScopeNames}
           kept == Keep(q, scoped)
           scopes == [i \in DOMAIN kept |-> Scoped(kept[i].name, normalise(kept[i].name, kept[i].value))]
           parsed == parseQuery(q)
<1>1. parsed = [text |-> Keep(q, ToSet(q) \ scoped), scopes |-> scopes]
    BY DEF parseQuery, ScopeNames
<1>2. /\ Keep(q, ToSet(q) \ scoped) \in Seq(Tokens)
      /\ ToSet(Keep(q, ToSet(q) \ scoped)) = ToSet(q) \cap (ToSet(q) \ scoped)
      /\ kept \in Seq(Tokens) /\ ToSet(kept) = ToSet(q) \cap scoped
    <2> HIDE DEF scoped
    <2> QED
        BY KeepSet
<1>3. ToSet(kept) = scoped
    BY <1>2
<1> HIDE DEF kept
<1>4. /\ DOMAIN kept = 1..Len(kept) /\ Len(kept) \in Nat
      /\ \A i \in DOMAIN kept : kept[i] \in Tokens /\ kept[i] \in ToSet(kept)
      /\ \A token \in ToSet(kept) : \E i \in DOMAIN kept : kept[i] = token
    BY <1>2 DEF ToSet
<1> DEFINE Made(token) == Scoped(token.name, normalise(token.name, token.value))
<1>5. \A token \in Tokens : Made(token) \in Tokens
    BY NormalValues
<1>6. DOMAIN scopes = 1..Len(kept) /\ \A i \in DOMAIN kept : scopes[i] = Made(kept[i])
    BY <1>4
<1>7. scopes \in Seq(Tokens)
    <2> HIDE DEF Made
    <2>1. scopes \in [1..Len(kept) -> Tokens]
        BY <1>4, <1>5, <1>6
    <2> QED
        BY <1>4, <2>1
<1>8. ToSet(scopes) = {Made(token) : token \in scoped}
    <2> HIDE DEF Made, scopes, scoped
    <2>1. ToSet(scopes) = {scopes[i] : i \in DOMAIN kept}
        BY <1>4, <1>6 DEF ToSet
    <2>2. {scopes[i] : i \in DOMAIN kept} = {Made(kept[i]) : i \in DOMAIN kept}
        BY <1>6
    <2>3. {Made(kept[i]) : i \in DOMAIN kept} = {Made(token) : token \in ToSet(kept)}
        BY <1>4
    <2> QED
        BY <1>3, <2>1, <2>2, <2>3
<1>9. \A token \in scoped : /\ token \in Tokens /\ token.value \in Values /\ token.name \in ScopeNames
                            /\ Made(token).name = token.name
                            /\ Made(token).value.word = token.value.word
                            /\ token.name = "title" => Made(token) = TitleToken(token.value.word)
    <2> TAKE token \in scoped
    <2>1. token \in Tokens
        BY <1>3, <1>4
    <2>2. token.value \in Values /\ token.name \in ScopeNames
        BY <2>1 DEF Tokens
    <2>3. Made(token).name = token.name /\ Made(token).value = normalise(token.name, token.value)
        BY DEF Scoped
    <2>4. normalise(token.name, token.value)
            = [word |-> token.value.word, t |-> token.value.t /\ token.name # "title", upper |-> FALSE]
        BY <2>2, NormalValues
    <2>5. token.name = "title" => Made(token) = TitleToken(token.value.word)
        BY <2>2, NormalValues
    <2>6. Made(token).value.word = token.value.word
        BY <2>3, <2>4
    <2> HIDE DEF Made
    <2> QED
        BY <2>1, <2>2, <2>3, <2>5, <2>6
<1> HIDE DEF scopes
<1>10. \A token \in ToSet(scopes) :
           /\ token.name \in ScopeNames
           /\ token.name = "title" => token = TitleToken(token.value.word)
    <2> HIDE DEF Made, scoped
    <2> QED
        BY <1>8, <1>9
<1>11. Narrowing(scopes) = Narrowing(q)
    <2>1. "title" \in ScopeNames
        BY DEF ScopeNames, SEARCH_SCOPES
    <2>2. Narrowing(q) = {token.value.word : token \in {t \in scoped : t.name = "title"}}
        BY <2>1 DEF Narrowing
    <2> HIDE DEF Made, scoped
    <2>3. Narrowing(scopes) = {token.value.word : token \in {t \in ToSet(scopes) : t.name = "title"}}
        BY DEF Narrowing
    <2> QED
        BY <1>8, <1>9, <2>2, <2>3
<1>12. parsed.text = Keep(q, ToSet(q) \ scoped) /\ parsed.scopes = scopes
    BY <1>1
<1>13. \A token \in ToSet(parsed.text) : token.name \notin ScopeNames
    BY <1>2, <1>12
<1> QED
    BY <1>1, <1>2, <1>7, <1>10, <1>11, <1>12, <1>13

\* A facet taken: the text as it was, and the title in or out.
LEMMA FacetToggles ==
    ASSUME NEW q \in Seq(Tokens), NEW value \in Values
    PROVE  LET toggled == toggleScope(q, "title", value) IN
           /\ toggled \in Seq(Tokens)
           /\ parseQuery(toggled).text = parseQuery(q).text
           /\ Narrowing(toggled) = IF value.word \in Narrowing(q) THEN Narrowing(q) \ {value.word}
                                   ELSE Narrowing(q) \cup {value.word}
<1> DEFINE parsed == parseQuery(q)
           text == parsed.text
           scopes == parsed.scopes
           wanted == TitleToken(value.word)
           out == Keep(scopes, ToSet(scopes) \ {wanted})
           in == Append(scopes, wanted)
           toggled == toggleScope(q, "title", value)
<1>1. /\ text \in Seq(Tokens) /\ scopes \in Seq(Tokens)
      /\ parsed = [text |-> text, scopes |-> scopes]
      /\ \A token \in ToSet(text) : token.name \notin ScopeNames
      /\ \A token \in ToSet(scopes) : /\ token.name \in ScopeNames
                                      /\ token.name = "title" => token = TitleToken(token.value.word)
      /\ Narrowing(scopes) = Narrowing(q)
    BY QueryParts
<1>2. Scoped("title", normalise("title", value)) = wanted /\ wanted \in Tokens
    BY NormalValues
<1>3. wanted.name = "title" /\ wanted.value.word = value.word /\ "title" \in ScopeNames
    BY DEF TitleToken, Scoped, ScopeNames, SEARCH_SCOPES
<1>4. hasScope(q, "title", value) <=> wanted \in ToSet(scopes)
    BY <1>2 DEF hasScope
<1>5. toggled = IF wanted \in ToSet(scopes) THEN text \o out ELSE text \o in
    <2>0. \A t, r, x : [[text |-> t, scopes |-> r] EXCEPT !.scopes = x] = [text |-> t, scopes |-> x]
        OBVIOUS
    <2>1. withoutScope(q, "title", value) = text \o out
        <3>1. [parsed EXCEPT !.scopes = out] = [text |-> text, scopes |-> out]
            <4> HIDE DEF parsed, wanted, out, text, scopes
            <4> QED
                BY <1>1, <2>0
        <3> QED
            BY <1>2, <3>1 DEF withoutScope, unparse
    <2>2. wanted \notin ToSet(scopes) => withScope(q, "title", value) = text \o in
        <3>1. [parsed EXCEPT !.scopes = in] = [text |-> text, scopes |-> in]
            <4> HIDE DEF parsed, wanted, in, text, scopes
            <4> QED
                BY <1>1, <2>0
        <3> QED
            BY <1>2, <1>4, <3>1 DEF withScope, unparse
    <2> QED
        BY <1>4, <2>1, <2>2 DEF toggleScope
<1>6. out \in Seq(Tokens) /\ ToSet(out) = ToSet(scopes) \ {wanted}
    <2>1. ToSet(out) = ToSet(scopes) \cap (ToSet(scopes) \ {wanted}) /\ out \in Seq(Tokens)
        BY <1>1, KeepSet
    <2> QED
        BY <2>1
<1>7. in \in Seq(Tokens) /\ ToSet(in) = ToSet(scopes) \cup {wanted}
    <2>1. <<wanted>> \in Seq(Tokens) /\ ToSet(<<wanted>>) = {wanted}
        BY <1>2 DEF ToSet
    <2>2. in = scopes \o <<wanted>>
        BY <1>1, <1>2
    <2>3. /\ scopes \o <<wanted>> \in Seq(Tokens)
          /\ ToSet(scopes \o <<wanted>>) = ToSet(scopes) \cup ToSet(<<wanted>>)
        <3> HIDE DEF wanted, scopes
        <3> QED
            BY <1>1, <2>1, ConcatSet
    <2> HIDE DEF in, wanted, scopes
    <2> QED
        BY <2>1, <2>2, <2>3
<1> HIDE DEF toggled, out, in, wanted, text, scopes, parsed
<1>8. PICK part \in {out, in} :
          /\ toggled = text \o part /\ part \in Seq(Tokens)
          /\ ToSet(part) = IF wanted \in ToSet(scopes) THEN ToSet(scopes) \ {wanted}
                           ELSE ToSet(scopes) \cup {wanted}
    BY <1>5, <1>6, <1>7
<1>9. toggled \in Seq(Tokens) /\ ToSet(toggled) = ToSet(text) \cup ToSet(part)
    BY <1>1, <1>8, ConcatSet
<1>10. \A token \in ToSet(part) : /\ token.name \in ScopeNames
                                  /\ token.name = "title" => token = TitleToken(token.value.word)
    BY <1>1, <1>3, <1>8 DEF wanted
<1>11. parseQuery(toggled).text = text
    <2> DEFINE kept == ToSet(toggled) \ {token \in ToSet(toggled) : token.name \in ScopeNames}
    <2>1. parseQuery(toggled).text = Keep(toggled, kept)
        BY DEF parseQuery, ScopeNames
    <2>2. ToSet(text) \subseteq kept /\ ToSet(part) \cap kept = {}
        BY <1>1, <1>9, <1>10
    <2> HIDE DEF kept
    <2> QED
        BY <1>1, <1>8, <2>1, <2>2, KeepPart
<1>12. Narrowing(toggled) = {token.value.word : token \in {t \in ToSet(part) : t.name = "title"}}
    <2>1. {t \in ToSet(toggled) : t.name = "title"} = {t \in ToSet(part) : t.name = "title"}
        BY <1>1, <1>3, <1>9
    <2> QED
        BY <2>1 DEF Narrowing
<1>13. Narrowing(q) = {token.value.word : token \in {t \in ToSet(scopes) : t.name = "title"}}
    BY <1>1 DEF Narrowing
<1>14. \A t \in ToSet(scopes) : t.name = "title" => (t.value.word = value.word <=> t = wanted)
    BY <1>1, <1>3 DEF wanted
<1>15. value.word \in Narrowing(q) <=> wanted \in ToSet(scopes)
    BY <1>3, <1>13, <1>14
<1>16. Narrowing(toggled) = IF value.word \in Narrowing(q) THEN Narrowing(q) \ {value.word}
                            ELSE Narrowing(q) \cup {value.word}
    BY <1>3, <1>8, <1>12, <1>13, <1>14, <1>15
<1> QED
    BY <1>9, <1>11, <1>16 DEF toggled, text, parsed

LEMMA FacetsSound ==
    ASSUME NEW view, view.q \in Seq(Tokens), Ordered(view),
           view = [q |-> view.q, release |-> view.release, date |-> view.date, cites |-> view.cites,
                   sort |-> view.sort, offset |-> view.offset]
    PROVE  /\ FacetsToggle(view)
           /\ \A value \in Facets : Good(FacetHref(view, "title", value))
<1> SUFFICES ASSUME NEW value \in Facets
             PROVE  LET toggled == SearchView(FacetHref(view, "title", value), Limit) IN
                    /\ Narrowing(toggled.q) = IF value.word \in Narrowing(view.q)
                                              THEN Narrowing(view.q) \ {value.word}
                                              ELSE Narrowing(view.q) \cup {value.word}
                    /\ parseQuery(toggled.q).text = parseQuery(view.q).text
                    /\ \A kept \in {"release", "date", "sort"} : toggled[kept] = view[kept]
                    /\ Good(FacetHref(view, "title", value))
    BY DEF FacetsToggle
<1> DEFINE q == toggleScope(view.q, "title", value)
           opts == [view EXCEPT !.cites = FALSE, !.offset = 0]
<1>1. value \in Values
    BY BrowsingAssumption
<1>2. /\ q \in Seq(Tokens) /\ parseQuery(q).text = parseQuery(view.q).text
      /\ Narrowing(q) = IF value.word \in Narrowing(view.q) THEN Narrowing(view.q) \ {value.word}
                        ELSE Narrowing(view.q) \cup {value.word}
    BY <1>1, FacetToggles
<1>3. /\ opts.cites = FALSE /\ opts.offset = 0
      /\ opts.release = view.release /\ opts.date = view.date /\ opts.sort = view.sort
    <2>1. {"cites", "offset", "release", "date", "sort"} \subseteq DOMAIN view
        <3> DEFINE record == [q |-> view.q, release |-> view.release, date |-> view.date,
                              cites |-> view.cites, sort |-> view.sort, offset |-> view.offset]
        <3>1. view = record
            OBVIOUS
        <3>2. DOMAIN record = {"q", "release", "date", "cites", "sort", "offset"}
            OBVIOUS
        <3> HIDE DEF record
        <3> QED
            BY <3>1, <3>2
    <2>2. /\ \A f \in DOMAIN view : f \notin {"cites", "offset"} => opts[f] = view[f]
          /\ "cites" \in DOMAIN view => opts["cites"] = FALSE
          /\ "offset" \in DOMAIN view => opts["offset"] = 0
        OBVIOUS
    <2> HIDE DEF opts
    <2> QED
        BY <2>1, <2>2
<1>4. FacetHref(view, "title", value) = searchHref(q, opts)
    BY DEF FacetHref
<1> HIDE DEF q, opts
<1>5. /\ Ordered(opts) /\ opts.release = view.release /\ opts.date = view.date /\ opts.sort = view.sort
    <2>1. opts.cites \in BOOLEAN
        BY <1>3, Zenon
    <2>2. opts.sort \in SEARCH_SORTS /\ opts.offset \in Nat
        BY <1>3 DEF Ordered
    <2> QED
        BY <1>3, <2>1, <2>2 DEF Ordered
<1>6. /\ SearchView(searchHref(q, opts), Limit)
           = [q |-> q, release |-> opts.release, date |-> opts.date, cites |-> opts.cites,
              sort |-> opts.sort, offset |-> opts.offset]
      /\ Good(searchHref(q, opts))
    BY <1>2, <1>5, SearchReadsBack
<1>7. LET toggled == SearchView(FacetHref(view, "title", value), Limit) IN
      /\ toggled.q = q /\ toggled.release = view.release /\ toggled.date = view.date
      /\ toggled.sort = view.sort
    BY <1>4, <1>5, <1>6
<1> QED
    BY <1>2, <1>4, <1>6, <1>7

-----------------------------------------------------------------------------
(***************************************************************************)
(* Pages                                                                   *)
(***************************************************************************)

LEMMA OfTwo ==
    ASSUME NEW x \in Nat, NEW y \in Nat
    PROVE  /\ Max({x, y}) = IF x <= y THEN y ELSE x
           /\ Min({x, y}) = IF x <= y THEN x ELSE y
<1>1. Max({x, y}) \in {x, y} /\ \A z \in {x, y} : z <= Max({x, y})
    <2>1. {x, y} \in SUBSET Nat /\ {x, y} # {} /\ x + y \in Nat /\ \A z \in {x, y} : z <= x + y
        OBVIOUS
    <2> QED
        BY <2>1, MaxIs
<1>2. Min({x, y}) \in {x, y} /\ \A z \in {x, y} : Min({x, y}) <= z
    <2>1. {x, y} \in SUBSET Nat /\ {x, y} # {}
        OBVIOUS
    <2> QED
        BY <2>1, MinIs
<1> QED
    BY <1>1, <1>2

\* The quotient of a division.
LEMMA Divides ==
    ASSUME NEW x \in Nat, NEW d \in Nat \ {0}
    PROVE  x \div d \in Nat /\ (x \div d) * d <= x /\ x < (x \div d) * d + d
OBVIOUS

LEMMA Multiples ==
    ASSUME NEW x \in Nat, NEW y \in Nat, NEW d \in Nat \ {0}
    PROVE  /\ x * d \in Nat /\ (x * d) \div d = x /\ (x * d) % d = 0
           /\ x < y => x * d + d <= y * d
           /\ (x + 1) * d = x * d + d
<1>1. x * d \in Nat
    BY SMT
<1>2. (x * d) \div d = x
    BY SMT
<1>3. (x * d) % d = 0
    BY SMT
<1>4. x < y => x * d + d <= y * d
    BY SMT
<1>5. (x + 1) * d = x * d + d
    BY SMT
<1> QED
    BY <1>1, <1>2, <1>3, <1>4, <1>5

\* As many pages as the rows fill, and one when there are none.
LEMMA PagesFill ==
    ASSUME NEW total \in Nat, NEW limit \in Nat \ {0}
    PROVE  LET pages == Max({1, (total + limit - 1) \div limit}) IN
           /\ pages \in Nat \ {0}
           /\ total <= pages * limit
           /\ pages = 1 \/ (pages - 1) * limit < total
<1> DEFINE d == (total + limit - 1) \div limit
           pages == Max({1, d})
<1>1. d \in Nat /\ d * limit <= total + limit - 1 /\ total + limit - 1 < d * limit + limit
    <2>1. total + limit - 1 \in Nat
        OBVIOUS
    <2> QED
        BY <2>1, Divides
<1> HIDE DEF d
<1>2. pages = IF 1 <= d THEN d ELSE 1
    BY <1>1, OfTwo
<1> HIDE DEF pages
<1> SUFFICES /\ pages \in Nat \ {0} /\ total <= pages * limit
             /\ pages = 1 \/ (pages - 1) * limit < total
    BY DEF pages, d
<1>3. CASE 1 <= d
    <2>1. pages = d /\ d - 1 \in Nat
        BY <1>1, <1>2, <1>3
    <2>2. (d - 1) * limit + limit = d * limit /\ d * limit \in Nat /\ (d - 1) * limit \in Nat
        <3>1. (d - 1 + 1) * limit = (d - 1) * limit + limit /\ (d - 1) * limit \in Nat
            BY <2>1, Multiples
        <3>2. d - 1 + 1 = d
            BY <1>1
        <3> QED
            BY <3>1, <3>2
    <2> DEFINE whole == d * limit
               less == (d - 1) * limit
    <2>3. /\ whole \in Nat /\ less \in Nat /\ less + limit = whole
          /\ whole <= total + limit - 1 /\ total + limit - 1 < whole + limit
          /\ pages * limit = whole /\ (pages - 1) * limit = less
        BY <1>1, <2>1, <2>2
    <2> HIDE DEF whole, less
    <2> QED
        BY <1>1, <1>3, <2>1, <2>3
<1>4. CASE ~(1 <= d)
    <2>1. d = 0 /\ pages = 1
        BY <1>1, <1>2, <1>4
    <2>2. d * limit = 0 /\ pages * limit = limit
        BY <2>1
    <2>3. total + limit - 1 < limit
        BY <1>1, <2>2
    <2> QED
        BY <2>1, <2>2, <2>3
<1> QED
    BY <1>3, <1>4

\* The pages drawn: the first, the last and those about the one open.
LEMMA DrawnAre ==
    ASSUME NEW pages \in Nat \ {0}, NEW current \in 1..pages
    PROVE  LET drawn == {1, pages} \cup {page \in 1..pages : page - current \in -Window..Window} IN
           drawn \in SUBSET (1..pages) /\ {1, current, pages} \subseteq drawn /\ IsFiniteSet(drawn)
<1> DEFINE drawn == {1, pages} \cup {page \in 1..pages : page - current \in -Window..Window}
<1>1. drawn \in SUBSET (1..pages) /\ {1, current, pages} \subseteq drawn
    BY DEF Window
<1>2. IsFiniteSet(1..pages)
    BY FS_Interval
<1> HIDE DEF drawn
<1>3. IsFiniteSet(drawn)
    BY <1>1, <1>2, FS_Subset
<1> QED
    BY <1>1, <1>3 DEF drawn

\* What a pager says.
Paged(pager, total, offset, limit, shown) ==
    /\ pager.pages = Max({1, (total + limit - 1) \div limit})
    /\ pager.current = IF pager.pages <= (offset \div limit) + 1 THEN pager.pages
                       ELSE (offset \div limit) + 1
    /\ pager.pages \in Nat \ {0} /\ pager.current \in 1..pager.pages
    /\ pager.from = IF shown > 0 THEN offset + 1 ELSE 0
    /\ ToSet(pager.numbers) \ {0} \subseteq 1..pager.pages
    /\ {1, pager.current, pager.pages} \subseteq ToSet(pager.numbers)

LEMMA NumbersAre ==
    ASSUME NEW total \in Nat, NEW offset \in Nat, NEW limit \in Nat \ {0}, NEW shown
    PROVE  Paged(pagerModel(total, offset, limit, shown), total, offset, limit, shown)
<1> DEFINE pages == Max({1, (total + limit - 1) \div limit})
           quotient == offset \div limit
           current == Min({pages, quotient + 1})
           drawn == {1, pages} \cup {page \in 1..pages : page - current \in -Window..Window}
           listed0 == Ascending(drawn)
           Gap(i) == i > 1 /\ listed0[i] - listed0[i - 1] > 1
           parts == [i \in DOMAIN listed0 |-> IF Gap(i) THEN <<0, listed0[i]>> ELSE <<listed0[i]>>]
           pager == pagerModel(total, offset, limit, shown)
<1>1. /\ pager.pages = pages /\ pager.current = current
      /\ pager.from = IF shown > 0 THEN offset + 1 ELSE 0
      /\ pager.numbers = FlattenSeq(parts)
    BY DEF pagerModel
<1>2. pages \in Nat \ {0}
    BY PagesFill
<1>3. quotient \in Nat
    BY Divides
<1> HIDE DEF pages, quotient
<1>4. /\ current = IF pages <= quotient + 1 THEN pages ELSE quotient + 1
      /\ current \in 1..pages
    <2>1. current = IF pages <= quotient + 1 THEN pages ELSE quotient + 1
        BY <1>2, <1>3, OfTwo
    <2> HIDE DEF current
    <2> QED
        BY <1>2, <1>3, <2>1
<1> HIDE DEF current
<1>5. drawn \in SUBSET (1..pages) /\ {1, current, pages} \subseteq drawn /\ IsFiniteSet(drawn)
    BY <1>2, <1>4, DrawnAre
<1> HIDE DEF drawn
<1> DEFINE m == Cardinality(drawn)
<1>6. /\ drawn \in SUBSET Nat /\ drawn # {}
    BY <1>2, <1>5
<1>7. /\ m \in Nat \ {0} /\ listed0 \in [1..m -> drawn]
      /\ \A x \in drawn : \E i \in 1..m : listed0[i] = x
    <2>1. /\ m \in Nat /\ listed0 \in [1..m -> drawn]
          /\ \A x \in drawn : \E i \in 1..m : listed0[i] = x
        BY <1>5, <1>6, AscendingIs
    <2>2. m # 0
        BY <1>5, <1>6, <2>1, AscendingEnds
    <2> QED
        BY <2>1, <2>2
<1> HIDE DEF listed0, m
<1>8. /\ DOMAIN parts = 1..m
      /\ \A i \in 1..m : /\ listed0[i] \in drawn /\ listed0[i] \in Nat
                         /\ parts[i] \in {<<0, listed0[i]>>, <<listed0[i]>>}
    <2>1. DOMAIN listed0 = 1..m
        BY <1>7
    <2> HIDE DEF Gap
    <2> QED
        BY <1>6, <1>7, <2>1
<1>9. \A x \in Nat : /\ <<0, x>> \in Seq(Nat) /\ <<x>> \in Seq(Nat)
                     /\ ToSet(<<0, x>>) = {0, x} /\ ToSet(<<x>>) = {x}
    BY DEF ToSet
<1> HIDE DEF Gap
<1>0. parts = [i \in 1..m |-> parts[i]]
    BY <1>8
<1> HIDE DEF parts
<1>10. parts \in [1..m -> Seq(Nat)] /\ \A i \in 1..m : listed0[i] \in ToSet(parts[i])
                                                       /\ ToSet(parts[i]) \subseteq {0, listed0[i]}
    <2>1. ASSUME NEW i \in 1..m
          PROVE  /\ parts[i] \in Seq(Nat) /\ listed0[i] \in ToSet(parts[i])
                 /\ ToSet(parts[i]) \subseteq {0, listed0[i]}
        <3> DEFINE x == listed0[i]
                   part == parts[i]
        <3>1. x \in Nat /\ part \in {<<0, x>>, <<x>>}
            BY <1>8
        <3> HIDE DEF x, part
        <3>2. CASE part = <<0, x>>
            BY <1>9, <3>1, <3>2 DEF part, x
        <3>3. CASE part = <<x>>
            BY <1>9, <3>1, <3>3 DEF part, x
        <3> QED
            BY <3>1, <3>2, <3>3
    <2> QED
        BY <1>0, <2>1
<1>11. ToSet(FlattenSeq(parts)) = UNION {ToSet(parts[k]) : k \in 1..m}
    <2>1. m \in Nat \ {0} /\ parts \in [1..m -> Seq(Nat)]
        BY <1>7, <1>10
    <2> QED
        BY <2>1, FlattenIs
<1>12. ToSet(FlattenSeq(parts)) \ {0} \subseteq drawn /\ drawn \subseteq ToSet(FlattenSeq(parts))
    <2>1. \A k \in 1..m : ToSet(parts[k]) \subseteq {0, listed0[k]} /\ listed0[k] \in drawn
        BY <1>8, <1>10
    <2>2. \A x \in drawn : \E k \in 1..m : x \in ToSet(parts[k])
        BY <1>7, <1>10
    <2> QED
        BY <1>11, <2>1, <2>2
<1> HIDE DEF pager
<1>13. Paged(pager, total, offset, limit, shown)
    BY <1>1, <1>2, <1>4, <1>5, <1>12 DEF Paged, pages, quotient
<1> QED
    BY <1>13 DEF pager

\* Each page drawn is the page its offset opens, and the rows are the page's.
LEMMA PagesTell ==
    ASSUME NEW offset \in Nat
    PROVE  LET pager == pagerModel(Total, offset, Limit, Shown(Total, offset, Limit)) IN
           /\ {1, pager.current, pager.pages} \subseteq ToSet(pager.numbers)
           /\ \A page \in Others(pager.numbers, 0) :
                 /\ page \in Nat \ {0} /\ (page - 1) * Limit \in Nat
                 /\ pagerModel(Total, (page - 1) * Limit, Limit, 0).current = page
                 /\ ((page - 1) * Limit) % Limit = 0
                 /\ (page - 1) * Limit < Max({1, Total})
           /\ offset < Total => pager.from \in (pager.current - 1) * Limit + 1..pager.current * Limit
<1> DEFINE shown == Shown(Total, offset, Limit)
           pager == pagerModel(Total, offset, Limit, shown)
           pages == Max({1, (Total + Limit - 1) \div Limit})
<1>0. Limit \in Nat \ {0} /\ Total \in Nat
    BY BrowsingAssumption
<1>1. /\ pages \in Nat \ {0} /\ Total <= pages * Limit
      /\ pages = 1 \/ (pages - 1) * Limit < Total
    BY <1>0, PagesFill
<1>2. /\ pager.pages = pages
      /\ pager.current = IF pager.pages <= (offset \div Limit) + 1 THEN pager.pages
                         ELSE (offset \div Limit) + 1
      /\ pager.current \in 1..pager.pages
      /\ pager.from = IF shown > 0 THEN offset + 1 ELSE 0
      /\ ToSet(pager.numbers) \ {0} \subseteq 1..pager.pages
      /\ {1, pager.current, pager.pages} \subseteq ToSet(pager.numbers)
    <2> HIDE DEF shown
    <2>1. Paged(pager, Total, offset, Limit, shown)
        BY <1>0, NumbersAre
    <2> HIDE DEF pager
    <2> QED
        BY <2>1 DEF Paged
<1>3. Max({1, Total}) \in Nat /\ Max({1, Total}) >= 1 /\ Max({1, Total}) >= Total
    <2>1. Max({1, Total}) = IF 1 <= Total THEN Total ELSE 1
        BY <1>0, OfTwo
    <2> QED
        BY <1>0, <2>1
<1>4. ASSUME NEW page \in Others(pager.numbers, 0)
      PROVE  /\ page \in Nat \ {0} /\ (page - 1) * Limit \in Nat
             /\ pagerModel(Total, (page - 1) * Limit, Limit, 0).current = page
             /\ ((page - 1) * Limit) % Limit = 0
             /\ (page - 1) * Limit < Max({1, Total})
    <2> HIDE DEF pager, pages
    <2>1. page \in 1..pages
        BY <1>2 DEF Others
    <2>2. page - 1 \in Nat /\ page \in Nat \ {0} /\ page <= pages
        BY <1>1, <2>1
    <2>3. /\ (page - 1) * Limit \in Nat /\ ((page - 1) * Limit) \div Limit = page - 1
          /\ ((page - 1) * Limit) % Limit = 0
          /\ page - 1 < pages - 1 => (page - 1) * Limit + Limit <= (pages - 1) * Limit
        BY <1>0, <1>1, <2>2, pages - 1 \in Nat, Multiples
    <2> DEFINE start == (page - 1) * Limit
               other == pagerModel(Total, start, Limit, 0)
    <2>4. /\ other.pages = pages
          /\ other.current = IF other.pages <= (start \div Limit) + 1 THEN other.pages
                             ELSE (start \div Limit) + 1
        <3>1. start \in Nat
            BY <2>3
        <3> HIDE DEF start
        <3>2. Paged(other, Total, start, Limit, 0)
            BY <1>0, <3>1, NumbersAre
        <3> HIDE DEF other
        <3> QED
            BY <3>2 DEF Paged, pages
    <2>5. other.current = page
        <3>1. start \div Limit = page - 1
            BY <2>3
        <3> HIDE DEF other, start
        <3> QED
            BY <1>1, <2>2, <2>4, <3>1
    <2>6. start < Max({1, Total})
        <3>1. CASE page = 1
            <4>1. start = 0
                BY <1>0, <3>1
            <4> QED
                BY <1>3, <4>1
        <3>2. CASE page # 1
            <4>1. pages # 1 /\ (pages - 1) * Limit < Total
                BY <1>1, <2>2, <3>2
            <4>2. start <= (pages - 1) * Limit
                <5>1. page - 1 = pages - 1 \/ page - 1 < pages - 1
                    BY <1>1, <2>2
                <5>2. (pages - 1) * Limit \in Nat
                    BY <1>0, <1>1, pages - 1 \in Nat, Multiples
                <5>3. CASE page - 1 = pages - 1
                    BY <5>2, <5>3
                <5>4. CASE page - 1 < pages - 1
                    <6>1. start + Limit <= (pages - 1) * Limit
                        BY <2>3, <5>4
                    <6> HIDE DEF start
                    <6>2. start \in Nat
                        BY <2>3 DEF start
                    <6> QED
                        BY <1>0, <5>2, <6>1, <6>2
                <5> QED
                    BY <5>1, <5>3, <5>4
            <4>3. (pages - 1) * Limit \in Nat
                BY <1>0, <1>1, pages - 1 \in Nat, Multiples
            <4>4. start \in Nat
                BY <2>3
            <4> HIDE DEF start
            <4> QED
                BY <1>0, <1>3, <4>1, <4>2, <4>3, <4>4
        <3> QED
            BY <3>1, <3>2
    <2> QED
        BY <2>2, <2>3, <2>5, <2>6
<1>5. ASSUME offset < Total
      PROVE  pager.from \in (pager.current - 1) * Limit + 1..pager.current * Limit
    <2> DEFINE quotient == offset \div Limit
    <2>1. quotient \in Nat /\ quotient * Limit <= offset /\ offset < quotient * Limit + Limit
        BY <1>0, Divides
    <2>2. shown > 0
        <3>1. Total - offset \in Nat \ {0}
            BY <1>0, <1>5
        <3>2. Min({Limit, Total - offset}) = IF Limit <= Total - offset THEN Limit ELSE Total - offset
            BY <1>0, <3>1, OfTwo
        <3>3. shown = Min({Limit, Total - offset})
            BY <1>0, <1>5 DEF Shown
        <3> QED
            BY <1>0, <3>1, <3>2, <3>3
    <2> HIDE DEF quotient, pager, pages, shown
    <2>3. pager.from = offset + 1
        BY <1>2, <2>2
    <2>4. quotient + 1 <= pages
        <3> SUFFICES ASSUME pages < quotient + 1 PROVE FALSE
            BY <1>1, <2>1
        <3>1. pages <= quotient
            BY <1>1, <2>1
        <3>2. pages * Limit <= quotient * Limit
            <4>1. pages < quotient => pages * Limit + Limit <= quotient * Limit
                BY <1>0, <1>1, <2>1, Multiples
            <4>2. pages * Limit \in Nat /\ quotient * Limit \in Nat
                BY <1>0, <1>1, <2>1, Multiples
            <4> QED
                BY <1>0, <1>1, <2>1, <3>1, <4>1, <4>2
        <3>3. pages * Limit \in Nat /\ quotient * Limit \in Nat
            BY <1>0, <1>1, <2>1, Multiples
        <3> QED
            BY <1>0, <1>1, <1>5, <2>1, <3>2, <3>3
    <2>5. pager.current = quotient + 1
        BY <1>1, <1>2, <2>1, <2>4 DEF quotient
    <2>6. /\ (quotient + 1) * Limit = quotient * Limit + Limit /\ quotient * Limit \in Nat
          /\ quotient + 1 - 1 = quotient
        BY <1>0, <2>1, Multiples
    <2>7. (pager.current - 1) * Limit = quotient * Limit /\ pager.current * Limit = quotient * Limit + Limit
        <3>1. pager.current - 1 = quotient
            BY <2>1, <2>5
        <3>2. \A x : x = quotient => x * Limit = quotient * Limit
            OBVIOUS
        <3>3. pager.current * Limit = (quotient + 1) * Limit
            BY <2>5
        <3> QED
            BY <2>6, <3>1, <3>2, <3>3
    <2> DEFINE base == quotient * Limit
               low == (pager.current - 1) * Limit
               high == pager.current * Limit
    <2>8. base \in Nat /\ low = base /\ high = base + Limit /\ base <= offset /\ offset < base + Limit
        BY <2>1, <2>6, <2>7
    <2> HIDE DEF base, low, high
    <2>9. pager.from \in low + 1..high
        BY <1>0, <2>3, <2>8
    <2> QED
        BY <2>9 DEF low, high
<1> QED
    BY <1>2, <1>4, <1>5

-----------------------------------------------------------------------------
(***************************************************************************)
(* The rows of a table: their pages, their orders and their filters        *)
(***************************************************************************)

FILTERS == {"pl", "plSection", "title", "section"}

Defaulted(path) == IF path = Nothing THEN "pl-desc" ELSE "pl"

\* A page of rows keeps what its link says.
LEMMA RowsOpen ==
    ASSUME NEW path, NEW opts, Listing(path, opts), opts.sortDefault = Defaulted(path),
           normalizeSectionKey(opts.section) = opts.section
    PROVE  LET link == Table(path, opts)
               left == ClassificationView(link, Limit) IN
           /\ Good(link) /\ link.page = "classification" /\ link.path = path
           /\ left.sort = opts.sort /\ left.offset = opts.offset
           /\ \A f \in FILTERS : left[f] = opts[f]
           /\ path # Nothing => pageOffset(link, Limit) = opts.offset
<1> DEFINE link == Table(path, opts)
           left == ClassificationView(link, Limit)
<1>1. Good(link) /\ link.page = "classification" /\ link.path = path /\ left = Opened(path, opts)
    BY TableReadsBack
<1>2. /\ Opened(path, opts).sort = opts.sort /\ Opened(path, opts).offset = opts.offset
      /\ \A f \in FILTERS : Opened(path, opts)[f] = opts[f]
    BY DEF Opened, FILTERS, Defaulted
<1>3. path # Nothing => left.offset = pageOffset(link, Limit)
    <2> HIDE DEF link
    <2> QED
        BY <1>1 DEF ClassificationView
<1> HIDE DEF left, link
<1> QED
    BY <1>1, <1>2, <1>3 DEF left, link

\* The fields of a view with some of them changed.
LEMMA FieldsAre ==
    ASSUME NEW path, NEW view, view = Opened(path, view), NEW filter \in FILTERS, NEW changes
    PROVE  LET All == {"q", "pl", "plSection", "title", "section", "sort", "sortDefault", "offset"} IN
           \A f \in All :
              /\ Spread(Asking(view), changes)[f]
                   = IF f \in DOMAIN changes THEN changes[f] ELSE IF f = "q" THEN Nothing ELSE view[f]
              /\ Spread(Asking(Less(view, filter)), changes)[f]
                   = IF f \in DOMAIN changes THEN changes[f]
                     ELSE IF f \in {"q", filter} THEN Nothing ELSE view[f]
<1> DEFINE All == {"q", "pl", "plSection", "title", "section", "sort", "sortDefault", "offset"}
           opened == Opened(path, view)
           one == Asking(view)
           two == Asking(Less(view, filter))
<1>1. DOMAIN view = All
    <2>1. DOMAIN opened = All
        BY DEF Opened
    <2> HIDE DEF opened
    <2>2. view = opened
        BY DEF opened
    <2> QED
        BY <2>1, <2>2
<1> HIDE DEF opened
<1>2. /\ DOMAIN one = All /\ \A f \in All : one[f] = IF f = "q" THEN Nothing ELSE view[f]
      /\ DOMAIN two = All /\ \A f \in All : two[f] = IF f \in {"q", filter} THEN Nothing ELSE view[f]
    BY <1>1 DEF FILTERS, Asking, Less
<1>3. ASSUME NEW object, DOMAIN object = All, NEW f \in All
      PROVE  Spread(object, changes)[f] = IF f \in DOMAIN changes THEN changes[f] ELSE object[f]
    <2> HIDE DEF All
    <2> QED
        BY <1>3 DEF Spread
<1> HIDE DEF one, two
<1>4. \A f \in All : /\ Spread(one, changes)[f]
                          = IF f \in DOMAIN changes THEN changes[f] ELSE IF f = "q" THEN Nothing ELSE view[f]
                     /\ Spread(two, changes)[f]
                          = IF f \in DOMAIN changes THEN changes[f]
                            ELSE IF f \in {"q", filter} THEN Nothing ELSE view[f]
    <2> HIDE DEF All
    <2> QED
        BY <1>2, <1>3
<1> QED
    BY <1>4 DEF one, two

\* The link from a view to its rows at an offset (url.ts, classification.ts).
PageAt(address, view, offset) == RowsHref(address, view, [offset |-> offset])

\* Another page or another order, and the pages of a table.
LEMMA RowsGood ==
    ASSUME NEW address, Fit(address), address.page = "classification",
           NEW view, view = ClassificationView(address, Limit),
           address.path # Nothing \/ view.title # Nothing
    PROVE  /\ \A n \in Nat :
                 /\ Good(RowsHref(address, view, [offset |-> n]))
                 /\ address.path # Nothing => pageOffset(PageAt(address, view, n), Limit) = n
           /\ \A sort \in CLASSIFICATION_SORTS :
                 Good(RowsHref(address, view, [sort |-> sort, offset |-> 0]))
<1> DEFINE path == address.path
<1>1. Listing(path, view) /\ view.sort \in CLASSIFICATION_SORTS /\ view = Opened(path, view)
    BY ViewLists
<1>2. view.sortDefault = Defaulted(path) /\ normalizeSectionKey(view.section) = view.section
    <2>1. /\ Opened(path, view).sortDefault = Defaulted(path)
          /\ Opened(path, view).section = normalizeSectionKey(view.section)
        BY DEF Opened, Defaulted
    <2> QED
        BY <1>1, <2>1
<1>3. path \in Tables \cup {Nothing}
    BY DEF Fit
<1>4. ASSUME NEW n \in Nat, NEW sort \in CLASSIFICATION_SORTS,
             NEW changes \in {[offset |-> n], [sort |-> sort, offset |-> n]}
      PROVE  LET link == RowsHref(address, view, changes) IN
             Good(link) /\ (path # Nothing => pageOffset(link, Limit) = n)
    <2> DEFINE opts == Spread(Asking(view), changes)
    <2>1. /\ DOMAIN changes \subseteq {"sort", "offset"} /\ "offset" \in DOMAIN changes
          /\ changes["offset"] = n /\ ("sort" \in DOMAIN changes => changes["sort"] = sort)
        OBVIOUS
    <2>2. /\ opts.q = Nothing /\ opts.pl = view.pl /\ opts.plSection = view.plSection
          /\ opts.title = view.title /\ opts.section = view.section
          /\ opts.sort \in {view.sort, sort} /\ opts.sortDefault = view.sortDefault /\ opts.offset = n
        <3>1. "pl" \in FILTERS
            BY DEF FILTERS
        <3>2. view = Opened(path, view)
            BY <1>1
        <3> HIDE DEF path
        <3>3. \A f \in {"q", "pl", "plSection", "title", "section", "sort", "sortDefault", "offset"} :
                 opts[f] = IF f \in DOMAIN changes THEN changes[f] ELSE IF f = "q" THEN Nothing ELSE view[f]
            BY <3>1, <3>2, FieldsAre
        <3> HIDE DEF opts
        <3> QED
            BY <2>1, <3>3
    <2> HIDE DEF opts
    <2>3. Listing(path, opts)
        BY <1>1, <1>2, <1>3, <2>2 DEF Listing, Defaulted
    <2>4. Good(Table(path, opts)) /\ (path # Nothing => pageOffset(Table(path, opts), Limit) = n)
        BY <1>2, <2>2, <2>3, RowsOpen
    <2>5. RowsHref(address, view, changes) = Table(path, opts)
        BY <1>3, RowsAre DEF opts
    <2> HIDE DEF path
    <2> QED
        BY <2>4, <2>5
<1> HIDE DEF path
<1>5. \A n \in Nat : LET link == RowsHref(address, view, [offset |-> n]) IN
         Good(link) /\ (path # Nothing => pageOffset(link, Limit) = n)
    <2>1. "pl" \in CLASSIFICATION_SORTS
        BY SortsNamed
    <2> QED
        BY <1>4, <2>1
<1>6. \A sort \in CLASSIFICATION_SORTS : Good(RowsHref(address, view, [sort |-> sort, offset |-> 0]))
    BY <1>4
<1> QED
    BY <1>5, <1>6 DEF path, PageAt

Filtering(view) == {f \in FILTERS : view[f] # Nothing}

\* A filter's pill removes it and nothing else; the last one of the corpus's rows
\* removes them all.
LEMMA PillsSound ==
    ASSUME NEW address, Fit(address), address.page = "classification",
           NEW view, view = ClassificationView(address, Limit),
           NEW pill \in PillHrefs(address, view)
    PROVE  LET left == ClassificationView(pill, Limit) IN
           /\ Good(pill)
           /\ \A f \in Filtering(left) : left[f] = view[f]
           /\ left.offset = 0
           /\ \/ Cardinality(Filtering(left)) = Cardinality(Filtering(view)) - 1 /\ left.sort = view.sort
              \/ address.path = Nothing /\ Filtering(left) = {}
<1> DEFINE path == address.path
           Removes(link, filter) ==
              LET left == ClassificationView(link, Limit) IN
              /\ Good(link) /\ left.offset = 0 /\ left.sort = view.sort
              /\ \A f \in FILTERS : left[f] = IF f = filter THEN Nothing ELSE view[f]
<1>1. Listing(path, view) /\ view.sort \in CLASSIFICATION_SORTS /\ view = Opened(path, view)
    BY ViewLists
<1>2. view.sortDefault = Defaulted(path) /\ normalizeSectionKey(view.section) = view.section
    <2>1. /\ Opened(path, view).sortDefault = Defaulted(path)
          /\ Opened(path, view).section = normalizeSectionKey(view.section)
        BY DEF Opened, Defaulted
    <2> QED
        BY <1>1, <2>1
<1>3. path \in Tables \cup {Nothing} /\ normalizeSectionKey(Nothing) = Nothing
    BY KeysNormal DEF Fit
<1>4. ASSUME NEW opts, NEW filter \in FILTERS,
             opts.q = Nothing, opts.offset = 0, opts.sort = view.sort, opts.sortDefault = view.sortDefault,
             \A f \in FILTERS : opts[f] = IF f = filter THEN Nothing ELSE view[f],
             path = Nothing => filter = "section"
      PROVE  Removes(Table(path, opts), filter)
    <2>1. /\ opts.pl \in {view.pl, Nothing} /\ opts.plSection \in {view.plSection, Nothing}
          /\ opts.section \in {view.section, Nothing} /\ opts.title \in {view.title, Nothing}
          /\ path = Nothing => opts.title = view.title
        BY <1>4 DEF FILTERS
    <2>2. Listing(path, opts)
        BY <1>1, <1>2, <1>3, <1>4, <2>1 DEF Listing, Defaulted
    <2>3. normalizeSectionKey(opts.section) = opts.section
        BY <1>2, <1>3, <2>1
    <2> HIDE DEF path
    <2> QED
        BY <1>2, <1>4, <2>2, <2>3, RowsOpen
<1>5. ASSUME NEW filter \in FILTERS, Removes(pill, filter), view[filter] # Nothing
      PROVE  LET left == ClassificationView(pill, Limit) IN
             /\ \A f \in Filtering(left) : left[f] = view[f]
             /\ Cardinality(Filtering(left)) = Cardinality(Filtering(view)) - 1
    <2> DEFINE left == ClassificationView(pill, Limit)
    <2>0. \A f \in FILTERS : left[f] = IF f = filter THEN Nothing ELSE view[f]
        BY <1>5
    <2> HIDE DEF left
    <2>1. Filtering(left) = Filtering(view) \ {filter} /\ filter \in Filtering(view)
        BY <1>5, <2>0 DEF Filtering
    <2>2. IsFiniteSet(Filtering(view))
        <3>1. IsFiniteSet(FILTERS)
            <4>1. \A S, x : IsFiniteSet(S) => IsFiniteSet(S \cup {x})
                BY FS_AddElement
            <4>2. IsFiniteSet({"pl", "plSection"})
                <5>1. IsFiniteSet({"pl"})
                    BY FS_Singleton
                <5> QED
                    BY <4>1, <5>1, {"pl", "plSection"} = {"pl"} \cup {"plSection"}
            <4>3. IsFiniteSet({"pl", "plSection", "title"})
                BY <4>1, <4>2, {"pl", "plSection", "title"} = {"pl", "plSection"} \cup {"title"}
            <4>4. FILTERS = {"pl", "plSection", "title"} \cup {"section"}
                BY DEF FILTERS
            <4> QED
                BY <4>1, <4>3, <4>4
        <3> QED
            BY <3>1, FS_Subset DEF Filtering
    <2>3. Cardinality(Filtering(view) \ {filter}) = Cardinality(Filtering(view)) - 1
        BY <2>1, <2>2, FS_RemoveElement
    <2> QED
        BY <2>0, <2>1, <2>3 DEF left, Filtering
<1>6. CASE path # Nothing
    <2>1. PICK filter \in FILTERS :
             /\ view[filter] # Nothing
             /\ pill = RowsHref(address, Less(view, filter), [offset |-> 0])
        BY <1>6 DEF PillHrefs, FILTERS, Less
    <2> DEFINE changes == [offset |-> 0]
               opts == Spread(Asking(Less(view, filter)), changes)
    <2>2. pill = Table(path, opts)
        BY <1>3, <2>1, RowsAre
    <2>3. DOMAIN changes = {"offset"} /\ changes["offset"] = 0
        OBVIOUS
    <2>4. /\ opts.q = Nothing /\ opts.offset = 0 /\ opts.sort = view.sort /\ opts.sortDefault = view.sortDefault
          /\ \A f \in FILTERS : opts[f] = IF f = filter THEN Nothing ELSE view[f]
        <3>1. view = Opened(path, view)
            BY <1>1
        <3> HIDE DEF path, changes
        <3>2. \A f \in {"q", "pl", "plSection", "title", "section", "sort", "sortDefault", "offset"} :
                 opts[f] = IF f \in DOMAIN changes THEN changes[f]
                           ELSE IF f \in {"q", filter} THEN Nothing ELSE view[f]
            BY <3>1, FieldsAre
        <3> HIDE DEF opts
        <3> QED
            BY <2>3, <3>2 DEF FILTERS
    <2> HIDE DEF opts, changes
    <2>5. Removes(pill, filter)
        <3> HIDE DEF Removes, path
        <3> QED
            BY <1>4, <1>6, <2>2, <2>4
    <2>6. Good(pill) /\ ClassificationView(pill, Limit).offset = 0 /\ ClassificationView(pill, Limit).sort = view.sort
        BY <2>5
    <2> HIDE DEF Removes
    <2> QED
        BY <1>5, <2>1, <2>5, <2>6
<1>7. CASE path = Nothing
    <2>1. \/ pill = classificationHref(Nothing, Nothing, Unfiltered("pl-desc"))
          \/ view.section # Nothing /\ pill = RowsHref(address, view, [section |-> Nothing, offset |-> 0])
        BY <1>7 DEF PillHrefs
    <2>2. CASE pill = classificationHref(Nothing, Nothing, Unfiltered("pl-desc"))
        <3>1. Good(pill) /\ ClassificationView(pill, Limit) = Unfiltered("pl-desc")
            BY <2>2, UnfilteredLists
        <3>2. Unfiltered("pl-desc").offset = 0 /\ \A f \in FILTERS : Unfiltered("pl-desc")[f] = Nothing
            BY DEF Unfiltered, FILTERS
        <3> QED
            BY <1>7, <3>1, <3>2 DEF Filtering
    <2>3. CASE view.section # Nothing /\ pill = RowsHref(address, view, [section |-> Nothing, offset |-> 0])
        <3> DEFINE changes == [section |-> Nothing, offset |-> 0]
                   opts == Spread(Asking(view), changes)
        <3>1. pill = Table(path, opts)
            BY <1>3, <2>3, RowsAre
        <3>2. DOMAIN changes = {"section", "offset"} /\ changes["offset"] = 0 /\ changes["section"] = Nothing
            OBVIOUS
        <3>3. "section" \in FILTERS
            BY DEF FILTERS
        <3>4. /\ opts.q = Nothing /\ opts.offset = 0 /\ opts.sort = view.sort /\ opts.sortDefault = view.sortDefault
              /\ \A f \in FILTERS : opts[f] = IF f = "section" THEN Nothing ELSE view[f]
            <4>1. view = Opened(path, view)
                BY <1>1
            <4> HIDE DEF path, changes
            <4>2. \A f \in {"q", "pl", "plSection", "title", "section", "sort", "sortDefault", "offset"} :
                     opts[f] = IF f \in DOMAIN changes THEN changes[f]
                               ELSE IF f = "q" THEN Nothing ELSE view[f]
                BY <3>3, <4>1, FieldsAre
            <4> HIDE DEF opts
            <4> QED
                BY <3>2, <4>2 DEF FILTERS
        <3> HIDE DEF opts, changes
        <3>5. Removes(pill, "section")
            <4> HIDE DEF Removes, path
            <4> QED
                BY <1>4, <3>1, <3>3, <3>4
        <3>6. Good(pill) /\ ClassificationView(pill, Limit).offset = 0 /\ ClassificationView(pill, Limit).sort = view.sort
            BY <3>5
        <3>7. view["section"] # Nothing
            BY <2>3
        <3> HIDE DEF Removes
        <3> QED
            BY <1>5, <3>3, <3>5, <3>6, <3>7
    <2> QED
        BY <2>1, <2>2, <2>3
<1> QED
    BY <1>6, <1>7

-----------------------------------------------------------------------------
(***************************************************************************)
(* The report's order                                                      *)
(***************************************************************************)

\* Who is ahead of whom, when no two are level.
Precedes(S, ahead) ==
    /\ ahead \in [S -> SUBSET S]
    /\ \A x \in S : x \notin ahead[x]
    /\ \A x, y \in S : x # y => x \in ahead[y] \/ y \in ahead[x]
    /\ \A x, y, z \in S : x \in ahead[y] /\ y \in ahead[z] => x \in ahead[z]

\* To count who is ahead is to find a place.
LEMMA RankLists ==
    ASSUME NEW S, IsFiniteSet(S), NEW ahead, Precedes(S, ahead),
           NEW place, \A x \in S : place[x] = Cardinality(ahead[x])
    PROVE  LET s == InOrder(S, place) IN
           /\ Cardinality(S) \in Nat
           /\ s \in [1..Cardinality(S) -> S]
           /\ \A i, j \in 1..Cardinality(S) : i < j => s[i] \in ahead[s[j]]
           /\ \A x \in S : \E i \in 1..Cardinality(S) : s[i] = x
<1>1. \A x \in S : IsFiniteSet(ahead[x]) /\ place[x] \in Nat
    <2> TAKE x \in S
    <2>1. ahead[x] \in SUBSET S
        BY DEF Precedes
    <2>2. IsFiniteSet(ahead[x])
        BY <2>1, FS_Subset
    <2> QED
        BY <2>2, FS_CardinalityType
<1>2. ASSUME NEW x \in S, NEW y \in S, x \in ahead[y]
      PROVE  place[x] < place[y]
    <2>1. ahead[x] \subseteq ahead[y] /\ x \notin ahead[x]
        BY <1>2 DEF Precedes
    <2>2. Cardinality(ahead[x]) <= Cardinality(ahead[y])
          /\ (Cardinality(ahead[y]) = Cardinality(ahead[x]) => ahead[y] = ahead[x])
        BY <1>1, <2>1, FS_Subset
    <2>3. place[x] # place[y]
        BY <1>2, <2>1, <2>2
    <2> QED
        BY <1>1, <2>2, <2>3
<1>3. \A x, y \in S : place[x] = place[y] => x = y
    <2> SUFFICES ASSUME NEW x \in S, NEW y \in S, place[x] = place[y], x # y PROVE FALSE
        OBVIOUS
    <2>1. x \in ahead[y] \/ y \in ahead[x]
        BY DEF Precedes
    <2> QED
        BY <1>1, <1>2, <2>1
<1> DEFINE s == InOrder(S, place)
<1>4. Lists(s, S, place) /\ Cardinality(S) \in Nat
    BY <1>1, <1>3, InOrderLists
<1> HIDE DEF s
<1>5. \A i, j \in 1..Cardinality(S) : i < j => s[i] \in ahead[s[j]]
    <2> SUFFICES ASSUME NEW i \in 1..Cardinality(S), NEW j \in 1..Cardinality(S), i < j
                 PROVE  s[i] \in ahead[s[j]]
        OBVIOUS
    <2>1. s[i] \in S /\ s[j] \in S /\ place[s[i]] < place[s[j]]
        BY <1>4 DEF Lists
    <2>2. s[i] # s[j]
        BY <1>1, <2>1
    <2>3. ~(s[j] \in ahead[s[i]])
        <3> SUFFICES ASSUME s[j] \in ahead[s[i]] PROVE FALSE
            OBVIOUS
        <3>1. place[s[j]] < place[s[i]]
            BY <1>2, <2>1
        <3> QED
            BY <1>1, <2>1, <3>1
    <2> QED
        BY <2>1, <2>2, <2>3 DEF Precedes
<1> QED
    BY <1>4, <1>5 DEF Lists, s

\* The changes of a title, over all kinds, are a number.
LEMMA ChangesAdd ==
    ASSUME NEW counts \in [CHANGE_KINDS -> Nat]
    PROVE  FoldFunction(+, 0, counts) \in Nat
<1> DEFINE S == CHANGE_KINDS
           Part(s, kind) == IF kind \in s THEN counts[kind] ELSE 0
           total == [s \in SUBSET S |->
                        Part(s, "initial") + Part(s, "text") + Part(s, "notes") + Part(s, "structure")]
<1>1. S = {"initial", "text", "notes", "structure"} /\ DOMAIN counts = S
    BY DEF CHANGE_KINDS
<1>2. \A s, kind : kind \in S => Part(s, kind) \in Nat
    OBVIOUS
<1> HIDE DEF S
<1>3. ASSUME NEW s \in SUBSET S
      PROVE  total[s] = IF s = {} THEN 0 ELSE counts[Chosen(s)] + total[s \ {Chosen(s)}]
    <2>1. CASE s = {}
        BY <2>1
    <2>2. CASE s # {}
        <3> DEFINE c == Chosen(s)
        <3>1. c \in s /\ c \in S
            BY <2>2 DEF Chosen
        <3> HIDE DEF c
        <3>2. /\ Part(s, c) = counts[c] /\ Part(s \ {c}, c) = 0
              /\ \A kind \in S \ {c} : Part(s \ {c}, kind) = Part(s, kind)
            BY <3>1
        <3>3. s \ {c} \in SUBSET S
            OBVIOUS
        <3>4. /\ total[s] = Part(s, "initial") + Part(s, "text") + Part(s, "notes") + Part(s, "structure")
              /\ total[s \ {c}] = Part(s \ {c}, "initial") + Part(s \ {c}, "text")
                                    + Part(s \ {c}, "notes") + Part(s \ {c}, "structure")
            BY <3>3
        <3>5. counts[c] \in Nat
            BY <1>1, <3>1
        <3> HIDE DEF Part, total
        <3>6. c \in {"initial", "text", "notes", "structure"}
            BY <1>1, <3>1
        <3>7. total[s] = counts[c] + total[s \ {c}]
            <4>1. /\ "initial" \in S /\ "text" \in S /\ "notes" \in S /\ "structure" \in S
                  /\ \A kind \in S : Part(s, kind) \in Nat /\ Part(s \ {c}, kind) \in Nat
                BY <1>1, <1>2
            <4>2. \A kind \in S : kind # c => Part(s \ {c}, kind) = Part(s, kind)
                BY <3>2
            <4>3. Part(s, c) = counts[c] /\ Part(s \ {c}, c) = 0
                BY <3>2
            <4>8. \A p, q, r, t \in Nat : /\ p + q + r + t = p + (0 + q + r + t)
                                         /\ p + q + r + t = q + (p + 0 + r + t)
                                         /\ p + q + r + t = r + (p + q + 0 + t)
                                         /\ p + q + r + t = t + (p + q + r + 0)
                OBVIOUS
            <4>4. CASE c = "initial"
                <5>1. Part(s \ {c}, "text") = Part(s, "text") /\ Part(s \ {c}, "notes") = Part(s, "notes") /\ Part(s \ {c}, "structure") = Part(s, "structure")
                    BY <4>1, <4>2, <4>4
                <5>2. Part(s, "initial") = counts[c] /\ Part(s \ {c}, "initial") = 0
                    BY <4>3, <4>4
                <5> QED
                    BY <3>4, <4>1, <4>8, <5>1, <5>2
            <4>5. CASE c = "text"
                <5>1. Part(s \ {c}, "initial") = Part(s, "initial") /\ Part(s \ {c}, "notes") = Part(s, "notes") /\ Part(s \ {c}, "structure") = Part(s, "structure")
                    BY <4>1, <4>2, <4>5
                <5>2. Part(s, "text") = counts[c] /\ Part(s \ {c}, "text") = 0
                    BY <4>3, <4>5
                <5> QED
                    BY <3>4, <4>1, <4>8, <5>1, <5>2
            <4>6. CASE c = "notes"
                <5>1. Part(s \ {c}, "initial") = Part(s, "initial") /\ Part(s \ {c}, "text") = Part(s, "text") /\ Part(s \ {c}, "structure") = Part(s, "structure")
                    BY <4>1, <4>2, <4>6
                <5>2. Part(s, "notes") = counts[c] /\ Part(s \ {c}, "notes") = 0
                    BY <4>3, <4>6
                <5> QED
                    BY <3>4, <4>1, <4>8, <5>1, <5>2
            <4>7. CASE c = "structure"
                <5>1. Part(s \ {c}, "initial") = Part(s, "initial") /\ Part(s \ {c}, "text") = Part(s, "text") /\ Part(s \ {c}, "notes") = Part(s, "notes")
                    BY <4>1, <4>2, <4>7
                <5>2. Part(s, "structure") = counts[c] /\ Part(s \ {c}, "structure") = 0
                    BY <4>3, <4>7
                <5> QED
                    BY <3>4, <4>1, <4>8, <5>1, <5>2
            <4> QED
                BY <3>6, <4>4, <4>5, <4>6, <4>7
        <3> QED
            BY <2>2, <3>7 DEF c
    <2> QED
        BY <2>1, <2>2
<1>4. total = [s \in SUBSET S |-> total[s]]
    OBVIOUS
<1>5. total[S] \in Nat
    <2>1. S \in SUBSET S
        OBVIOUS
    <2> HIDE DEF Part
    <2>2. total[S] = Part(S, "initial") + Part(S, "text") + Part(S, "notes") + Part(S, "structure")
        BY <2>1
    <2> QED
        BY <1>1, <1>2, <2>2
<1> HIDE DEF total
<1>6. Sums(total, counts, S)
    BY <1>3, <1>4 DEF Sums
<1> DEFINE fold == CHOOSE f : Sums(f, counts, S)
<1>7. Sums(fold, counts, S)
    BY <1>6
<1> HIDE DEF fold
<1>8. IsFiniteSet(S)
    <2>1. \A T, x : IsFiniteSet(T) => IsFiniteSet(T \cup {x})
        BY FS_AddElement
    <2>2. IsFiniteSet({"initial", "text"})
        <3>1. IsFiniteSet({"initial"})
            BY FS_Singleton
        <3> QED
            BY <2>1, <3>1, {"initial", "text"} = {"initial"} \cup {"text"}
    <2>3. IsFiniteSet({"initial", "text", "notes"})
        BY <2>1, <2>2, {"initial", "text", "notes"} = {"initial", "text"} \cup {"notes"}
    <2>4. S = {"initial", "text", "notes"} \cup {"structure"}
        BY <1>1
    <2> QED
        BY <2>1, <2>3, <2>4
<1>9. fold[S] = total[S]
    BY <1>6, <1>7, <1>8, SumsOnce
<1>10. FoldFunction(+, 0, counts) = fold[S]
    BY <1>1, FoldSums DEF fold
<1> QED
    BY <1>5, <1>9, <1>10

\* What the table of the report has before it is put in order.
CodeOrder(a, b) == a.num[1] < b.num[1] \/ (a.num[1] = b.num[1] /\ a.num[2] < b.num[2])

RowsOf(rows, n) ==
    /\ n = Cardinality(DOMAIN Report) /\ n \in Nat
    /\ DOMAIN rows = 1..n /\ rows \in Seq({rows[i] : i \in 1..n})
    /\ \A i \in 1..n : /\ rows[i].num \in DOMAIN Report /\ rows[i].num \in Int \X Int
                       /\ rows[i].text \in Nat /\ rows[i].changeRows \in Nat
                       /\ rows[i].share \in Nat \cup {Nothing}
    /\ \A i, j \in 1..n : i < j => CodeOrder(rows[i], rows[j])
    /\ \A num \in DOMAIN Report : \E i \in 1..n : rows[i].num = num

LEMMA TitleRowsAre == RowsOf(titleRows(Report), Cardinality(DOMAIN Report))
<1> DEFINE S == DOMAIN Report
           n == Cardinality(S)
           Before(num) == {other \in S : compareTitles(other, num) < 0}
           ahead == [num \in S |-> Before(num)]
           place == [num \in S |-> Cardinality(Before(num))]
           nums == InOrder(S, place)
           Count(num, kind) ==
               IF kind \in DOMAIN Report[num].kinds THEN Report[num].kinds[kind] ELSE 0
           rows == titleRows(Report)
<1>1. /\ IsFiniteSet(S) /\ S \subseteq Int \X Int
      /\ \A num \in S : /\ Report[num].share \in Nat \cup {Nothing}
                        /\ Range(Report[num].kinds) \subseteq Nat
    BY BrowsingAssumption
<1>2. Precedes(S, ahead)
    <2>1. \A x, y \in S : /\ x[1] \in Int /\ x[2] \in Int
                          /\ x[1] = y[1] /\ x[2] = y[2] => x = y
                          /\ x \in ahead[y] <=> x[1] < y[1] \/ (x[1] = y[1] /\ x[2] < y[2])
        <3> TAKE x \in S, y \in S
        <3>1. x \in Int \X Int /\ y \in Int \X Int
            BY <1>1
        <3>2. x[1] \in Int /\ x[2] \in Int /\ y[1] \in Int /\ y[2] \in Int
              /\ (x[1] = y[1] /\ x[2] = y[2] => x = y)
            BY <3>1
        <3>3. x \in ahead[y] <=> compareTitles(x, y) < 0
            OBVIOUS
        <3> QED
            BY <3>2, <3>3 DEF compareTitles
    <2>2. ahead \in [S -> SUBSET S]
        OBVIOUS
    <2> HIDE DEF ahead
    <2>3. \A x \in S : x \notin ahead[x]
        BY <2>1
    <2>4. \A x, y \in S : x # y => x \in ahead[y] \/ y \in ahead[x]
        BY <2>1
    <2>5. \A x, y, z \in S : x \in ahead[y] /\ y \in ahead[z] => x \in ahead[z]
        BY <2>1
    <2> QED
        BY <2>2, <2>3, <2>4, <2>5 DEF Precedes
<1>3. \A x \in S : place[x] = Cardinality(ahead[x])
    OBVIOUS
<1>4. \A x, y \in S : x \in ahead[y] => x[1] < y[1] \/ (x[1] = y[1] /\ x[2] < y[2])
    <2> TAKE x \in S, y \in S
    <2>1. x \in Int \X Int /\ y \in Int \X Int
        BY <1>1
    <2>2. x[1] \in Int /\ x[2] \in Int /\ y[1] \in Int /\ y[2] \in Int
        BY <2>1
    <2>3. x \in ahead[y] => compareTitles(x, y) < 0
        OBVIOUS
    <2> QED
        BY <2>2, <2>3 DEF compareTitles
<1>5. /\ n \in Nat /\ nums \in [1..n -> S]
      /\ \A i, j \in 1..n : i < j => nums[i] \in ahead[nums[j]]
      /\ \A x \in S : \E i \in 1..n : nums[i] = x
    <2> HIDE DEF ahead, place, S
    <2> QED
        BY <1>1, <1>2, <1>3, RankLists
<1>6. rows = [i \in DOMAIN nums |->
                [num |-> nums[i], text |-> Count(nums[i], "text"), share |-> Report[nums[i]].share,
                 changeRows |-> FoldFunction(+, 0, [kind \in CHANGE_KINDS |-> Count(nums[i], kind)])]]
    BY DEF titleRows
<1>7. \A num \in S : \A kind : Count(num, kind) \in Nat
    BY <1>1 DEF Range
<1>8. \A num \in S : FoldFunction(+, 0, [kind \in CHANGE_KINDS |-> Count(num, kind)]) \in Nat
    <2> TAKE num \in S
    <2> HIDE DEF Count
    <2>1. [kind \in CHANGE_KINDS |-> Count(num, kind)] \in [CHANGE_KINDS -> Nat]
        BY <1>7
    <2> QED
        BY <2>1, ChangesAdd
<1> HIDE DEF nums, Count, ahead
<1>9. /\ DOMAIN rows = 1..n
      /\ \A i \in 1..n : /\ nums[i] \in S
                         /\ rows[i].num = nums[i] /\ rows[i].text = Count(nums[i], "text")
                         /\ rows[i].share = Report[nums[i]].share
                         /\ rows[i].changeRows
                              = FoldFunction(+, 0, [kind \in CHANGE_KINDS |-> Count(nums[i], kind)])
    <2>1. DOMAIN nums = 1..n
        BY <1>5
    <2> HIDE DEF n, rows
    <2> QED
        BY <1>5, <1>6, <2>1
<1> HIDE DEF rows
<1>10. \A i \in 1..n : /\ rows[i].num \in S /\ rows[i].num \in Int \X Int
                       /\ rows[i].text \in Nat /\ rows[i].changeRows \in Nat
                       /\ rows[i].share \in Nat \cup {Nothing}
    <2> TAKE i \in 1..n
    <2>1. rows[i].changeRows \in Nat
        BY <1>8, <1>9
    <2>2. /\ nums[i] \in S /\ rows[i].num = nums[i] /\ rows[i].text = Count(nums[i], "text")
          /\ rows[i].share = Report[nums[i]].share
        BY <1>9
    <2>3. rows[i].text \in Nat
        <3> HIDE DEF S
        <3> QED
            BY <1>7, <2>2
    <2>4. rows[i].share \in Nat \cup {Nothing}
        BY <1>1, <2>2
    <2> QED
        BY <1>1, <2>1, <2>2, <2>3, <2>4
<1>11. \A i, j \in 1..n : i < j => CodeOrder(rows[i], rows[j])
    BY <1>4, <1>5, <1>9 DEF CodeOrder
<1>12. \A num \in S : \E i \in 1..n : rows[i].num = num
    BY <1>5, <1>9
<1>13. rows \in Seq({rows[i] : i \in 1..n})
    <2>1. rows = [i \in 1..n |-> rows[i]]
        BY <1>6, <1>9 DEF rows
    <2> QED
        BY <1>5, <2>1
<1> HIDE DEF n
<1>14. RowsOf(rows, n)
    BY <1>5, <1>9, <1>10, <1>11, <1>12, <1>13 DEF RowsOf, n
<1> QED
    BY <1>14 DEF rows, n

\* What an order measures, the largest first.
Measured(key, row) ==
    CASE key = "rows" -> row.changeRows
      [] key = "text" -> row.text
      [] key = "classified" /\ row.share # Nothing -> row.share
      [] key = "title" -> 0
      [] OTHER -> -1

\* The rows by a key, not turned round.
SortedRows(rows, key) ==
    LET Ahead(i) == {j \in DOMAIN rows :
                        \/ SortsBefore(key, rows[j], rows[i])
                        \/ j < i /\ ~SortsBefore(key, rows[i], rows[j])}
    IN  [place \in DOMAIN rows |->
            rows[InOrder(DOMAIN rows, [i \in DOMAIN rows |-> Cardinality(Ahead(i))])[place]]]

Sorted(f, key, n) ==
    /\ f \in Seq({f[i] : i \in 1..n}) /\ DOMAIN f = 1..n /\ Len(f) = n
    /\ {row.num : row \in {f[i] : i \in 1..n}} = DOMAIN Report
    /\ \A i, j \in 1..n : i < j =>
          \/ Measured(key, f[i]) > Measured(key, f[j])
          \/ Measured(key, f[i]) = Measured(key, f[j]) /\ CodeOrder(f[i], f[j])

LEMMA SortedAre ==
    ASSUME NEW rows, NEW n, RowsOf(rows, n), NEW key \in SORT_KEYS
    PROVE  Sorted(SortedRows(rows, key), key, n)
<1> DEFINE S == DOMAIN rows
           Ahead(i) == {j \in S : \/ SortsBefore(key, rows[j], rows[i])
                                  \/ j < i /\ ~SortsBefore(key, rows[i], rows[j])}
           ahead == [i \in S |-> Ahead(i)]
           place == [i \in S |-> Cardinality(Ahead(i))]
           seq == InOrder(S, place)
           f == SortedRows(rows, key)
           M(i) == Measured(key, rows[i])
<1>1. n \in Nat /\ S = 1..n
    BY DEF RowsOf
<1>2. \A i \in 1..n : /\ rows[i].text \in Nat /\ rows[i].changeRows \in Nat
                      /\ rows[i].share \in Nat \cup {Nothing} /\ rows[i].num \in DOMAIN Report
    BY DEF RowsOf
<1>3. /\ \A i \in 1..n : M(i) \in Int
      /\ \A i, j \in 1..n : SortsBefore(key, rows[i], rows[j]) <=> M(i) > M(j)
    <2>1. CASE key = "rows"
        BY <1>2, <2>1 DEF Measured, SortsBefore
    <2>2. CASE key = "text"
        BY <1>2, <2>2 DEF Measured, SortsBefore
    <2>3. CASE key = "title"
        BY <1>2, <2>3 DEF Measured, SortsBefore
    <2>4. CASE key = "classified"
        <3>1. \A i \in 1..n : M(i) = IF rows[i].share # Nothing THEN rows[i].share ELSE -1
            BY <2>4 DEF Measured
        <3>2. \A i, j \in 1..n : SortsBefore(key, rows[i], rows[j]) <=>
                 /\ rows[i].share # Nothing
                 /\ rows[j].share = Nothing \/ rows[i].share > rows[j].share
            BY <2>4 DEF SortsBefore
        <3> HIDE DEF M
        <3>3. \A i \in 1..n : M(i) \in Int
            BY <1>2, <3>1
        <3>4. \A i, j \in 1..n : SortsBefore(key, rows[i], rows[j]) <=> M(i) > M(j)
            <4> TAKE i \in 1..n, j \in 1..n
            <4>1. /\ rows[i].share \in Nat \cup {Nothing} /\ rows[j].share \in Nat \cup {Nothing}
                  /\ M(i) = IF rows[i].share # Nothing THEN rows[i].share ELSE -1
                  /\ M(j) = IF rows[j].share # Nothing THEN rows[j].share ELSE -1
                BY <1>2, <3>1
            <4> QED
                BY <3>2, <4>1
        <3> QED
            BY <3>3, <3>4
    <2> QED
        BY <2>1, <2>2, <2>3, <2>4 DEF SORT_KEYS
<1> HIDE DEF M
<1>4. \A i, j \in 1..n : j \in ahead[i] <=> M(j) > M(i) \/ (j < i /\ M(j) = M(i))
    <2> TAKE i \in 1..n, j \in 1..n
    <2>1. j \in ahead[i] <=> \/ SortsBefore(key, rows[j], rows[i])
                             \/ j < i /\ ~SortsBefore(key, rows[i], rows[j])
        BY <1>1
    <2> HIDE DEF ahead
    <2>2. M(i) \in Int /\ M(j) \in Int
        BY <1>3
    <2> QED
        BY <1>3, <2>1, <2>2
<1>5. Precedes(S, ahead)
    <2>1. ahead \in [S -> SUBSET S]
        OBVIOUS
    <2> HIDE DEF ahead, S
    <2>2. \A i \in 1..n : i \in Nat
        OBVIOUS
    <2>3. \A x \in S : x \notin ahead[x]
        BY <1>1, <1>3, <1>4
    <2>4. \A x, y \in S : x # y => x \in ahead[y] \/ y \in ahead[x]
        BY <1>1, <1>3, <1>4, <2>2
    <2>5. \A x, y, z \in S : x \in ahead[y] /\ y \in ahead[z] => x \in ahead[z]
        BY <1>1, <1>3, <1>4, <2>2
    <2> QED
        BY <2>1, <2>3, <2>4, <2>5 DEF Precedes
<1>6. \A x \in S : place[x] = Cardinality(ahead[x])
    OBVIOUS
<1>7. IsFiniteSet(S) /\ Cardinality(S) = n
    <2>1. IsFiniteSet(1..n) /\ Cardinality(1..n) = n
        BY <1>1, FS_Interval
    <2> QED
        BY <1>1, <2>1
<1>8. /\ seq \in [1..n -> S]
      /\ \A i, j \in 1..n : i < j => seq[i] \in ahead[seq[j]]
      /\ \A x \in S : \E i \in 1..n : seq[i] = x
    <2> HIDE DEF ahead, place, S
    <2> QED
        BY <1>5, <1>6, <1>7, RankLists
<1>9. f = [p \in S |-> rows[seq[p]]]
    BY DEF SortedRows
<1> HIDE DEF f, seq, ahead
<1>10. /\ DOMAIN f = 1..n
       /\ \A i \in 1..n : seq[i] \in 1..n /\ f[i] = rows[seq[i]] /\ Measured(key, f[i]) = M(seq[i])
    BY <1>1, <1>8, <1>9 DEF M
<1>11. f \in Seq({f[i] : i \in 1..n}) /\ Len(f) = n
    <2>1. f \in [1..n -> {f[i] : i \in 1..n}]
        BY <1>1, <1>9, <1>10
    <2> QED
        BY <1>1, <2>1
<1>12. {row.num : row \in {f[i] : i \in 1..n}} = DOMAIN Report
    <2>1. \A i \in 1..n : f[i].num \in DOMAIN Report
        BY <1>2, <1>10
    <2>2. \A num \in DOMAIN Report : \E i \in 1..n : f[i].num = num
        <3> TAKE num \in DOMAIN Report
        <3>1. PICK k \in 1..n : rows[k].num = num
            BY DEF RowsOf
        <3>2. PICK i \in 1..n : seq[i] = k
            BY <1>1, <1>8
        <3> QED
            BY <1>10, <3>1, <3>2
    <2> QED
        BY <2>1, <2>2
<1>13. ASSUME NEW i \in 1..n, NEW j \in 1..n, i < j
       PROVE  \/ Measured(key, f[i]) > Measured(key, f[j])
              \/ Measured(key, f[i]) = Measured(key, f[j]) /\ CodeOrder(f[i], f[j])
    <2>1. seq[i] \in ahead[seq[j]] /\ seq[i] \in 1..n /\ seq[j] \in 1..n
        BY <1>8, <1>10, <1>13
    <2>2. M(seq[i]) > M(seq[j]) \/ (seq[i] < seq[j] /\ M(seq[i]) = M(seq[j]))
        BY <1>4, <2>1
    <2>3. seq[i] < seq[j] => CodeOrder(rows[seq[i]], rows[seq[j]])
        BY <2>1 DEF RowsOf
    <2> QED
        BY <1>10, <2>2, <2>3
<1>14. Sorted(f, key, n)
    BY <1>10, <1>11, <1>12, <1>13 DEF Sorted
<1> QED
    BY <1>14 DEF f

LEMMA TurnedTwice ==
    ASSUME NEW X, NEW f \in Seq(X)
    PROVE  /\ DOMAIN Reverse(f) = DOMAIN f /\ Len(Reverse(f)) = Len(f)
           /\ ToSet(Reverse(f)) = ToSet(f)
           /\ Reverse(Reverse(f)) = f
<1> DEFINE n == Len(f)
           r == Reverse(f)
<1>1. n \in Nat /\ DOMAIN f = 1..n /\ \A i \in 1..n : f[i] \in X
    OBVIOUS
<1>2. r = [i \in 1..n |-> f[n - i + 1]]
    BY DEF Reverse
<1>3. \A i \in 1..n : n - i + 1 \in 1..n /\ n - (n - i + 1) + 1 = i
    BY <1>1
<1>4. r \in Seq(X) /\ Len(r) = n /\ DOMAIN r = 1..n /\ \A i \in 1..n : r[i] = f[n - i + 1]
    <2>1. r \in [1..n -> X]
        BY <1>1, <1>2, <1>3
    <2> QED
        BY <1>1, <1>2, <2>1
<1> HIDE DEF r
<1>5. ToSet(r) = ToSet(f)
    <2>1. \A i \in 1..n : r[i] \in ToSet(f)
        BY <1>1, <1>3, <1>4 DEF ToSet
    <2>2. \A i \in 1..n : f[i] \in ToSet(r)
        <3> TAKE i \in 1..n
        <3>1. n - i + 1 \in 1..n /\ r[n - i + 1] = f[n - (n - i + 1) + 1]
            BY <1>3, <1>4
        <3>2. r[n - i + 1] = f[i]
            BY <1>3, <3>1
        <3> QED
            BY <1>4, <3>1, <3>2 DEF ToSet
    <2> QED
        BY <1>1, <1>4, <2>1, <2>2 DEF ToSet
<1>6. Reverse(r) = f
    <2>1. Reverse(r) = [i \in 1..n |-> r[n - i + 1]]
        BY <1>4 DEF Reverse
    <2>2. \A i \in 1..n : r[n - i + 1] = f[i]
        <3> TAKE i \in 1..n
        <3>1. n - i + 1 \in 1..n /\ r[n - i + 1] = f[n - (n - i + 1) + 1]
            BY <1>3, <1>4
        <3> QED
            BY <1>3, <3>1
    <2>3. f = [i \in 1..n |-> f[i]]
        BY <1>1
    <2> QED
        BY <2>1, <2>2, <2>3
<1> QED
    BY <1>1, <1>4, <1>5, <1>6 DEF r

\* The report's table is in the order its address says, and a heading turns it.
LEMMA ReportSound ==
    ASSUME NEW sort \in SORT_KEYS \X BOOLEAN
    PROVE  ReportIsInOrder(sort)
<1> DEFINE n == Cardinality(DOMAIN Report)
           f == SortedRows(titleRows(Report), sort[1])
           rows == sortTitleRows(titleRows(Report), sort)
           turned == <<sort[1], ~sort[2]>>
<1>0. PICK key \in SORT_KEYS, down \in BOOLEAN : sort = <<key, down>>
    OBVIOUS
<1>1. sort[1] \in SORT_KEYS /\ sort[1] = key /\ sort[2] = down
    BY <1>0
<1>2. Sorted(f, sort[1], n)
    BY <1>1, SortedAre, TitleRowsAre
<1>3. rows = IF sort[2] THEN Reverse(f) ELSE f
    BY DEF sortTitleRows, SortedRows
<1>10. f = SortedRows(titleRows(Report), key)
    BY <1>1
<1> HIDE DEF f
<1>4. /\ f \in Seq({f[i] : i \in 1..n}) /\ DOMAIN f = 1..n /\ Len(f) = n
      /\ DOMAIN Reverse(f) = DOMAIN f /\ Len(Reverse(f)) = Len(f) /\ ToSet(Reverse(f)) = ToSet(f)
      /\ Reverse(Reverse(f)) = f
    BY <1>2, TurnedTwice DEF Sorted
<1>5. ToSet(f) = {f[i] : i \in 1..n}
    BY <1>4 DEF ToSet
<1> HIDE DEF rows
<1>6. /\ Len(rows) = n /\ DOMAIN rows = 1..n /\ ToSet(rows) = {f[i] : i \in 1..n}
      /\ (IF sort[2] THEN Reverse(rows) ELSE rows) = f
    BY <1>3, <1>4, <1>5
<1>7. sortTitleRows(titleRows(Report), DataSort(headingHref(sort, sort[1]))) = Reverse(rows)
    <2>1. headingHref(sort, sort[1]) = versionDataHref(IF ~sort[2] THEN <<sort[1], TRUE>> ELSE <<sort[1], FALSE>>)
        BY DEF headingHref
    <2>2. CASE sort[2]
        <3>1. headingHref(sort, sort[1]) = versionDataHref(<<key, FALSE>>)
            BY <1>1, <2>1, <2>2
        <3>2. <<key, FALSE>> \in SORT_KEYS \X BOOLEAN
            OBVIOUS
        <3>3. DataSort(headingHref(sort, sort[1])) = <<key, FALSE>>
            BY <3>1, <3>2, ReportGood
        <3>4. sortTitleRows(titleRows(Report), <<key, FALSE>>) = f
            BY <1>10 DEF sortTitleRows, SortedRows
        <3> QED
            BY <1>3, <1>4, <2>2, <3>3, <3>4
    <2>3. CASE ~sort[2]
        <3>1. headingHref(sort, sort[1]) = versionDataHref(<<key, TRUE>>)
            BY <1>1, <2>1, <2>3
        <3>2. <<key, TRUE>> \in SORT_KEYS \X BOOLEAN
            OBVIOUS
        <3>3. DataSort(headingHref(sort, sort[1])) = <<key, TRUE>>
            BY <3>1, <3>2, ReportGood
        <3>4. sortTitleRows(titleRows(Report), <<key, TRUE>>) = Reverse(f)
            BY <1>10 DEF sortTitleRows, SortedRows
        <3> QED
            BY <1>3, <1>4, <2>3, <3>3, <3>4
    <2> QED
        BY <2>2, <2>3
<1>8. \A i, j \in 1..n : i < j =>
          \/ Measured(sort[1], f[i]) > Measured(sort[1], f[j])
          \/ Measured(sort[1], f[i]) = Measured(sort[1], f[j]) /\ CodeOrder(f[i], f[j])
    BY <1>2 DEF Sorted
<1>9. {row.num : row \in ToSet(rows)} = DOMAIN Report
    BY <1>2, <1>6 DEF Sorted
<1> QED
    BY <1>6, <1>7, <1>8, <1>9 DEF ReportIsInOrder, Measured, CodeOrder, rows

-----------------------------------------------------------------------------
(***************************************************************************)
(* Where the links and the forms of each page lead                         *)
(***************************************************************************)

LEMMA SectionLeads == \A answer \in Answers : \A link \in SectionLinks(at, answer) : Good(link)
<1>1. Good(versionsHref(Section, Nothing, [from |-> Nothing, to |-> Nothing]))
    BY HistoryGood
<1> QED
    BY <1>1, SimplePages DEF SectionLinks

LEMMA DiffLeads == \A link \in DiffLinks(at) : Good(link)
<1>1. Good(versionsHref(Section, Nothing, [from |-> Nothing, to |-> Nothing]))
    BY HistoryGood
<1> QED
    BY <1>1, SimplePages DEF DiffLinks

LEMMA VersionsLead ==
    ASSUME at.page = "versions", Fit(at)
    PROVE  \A answer \in Answers :
              /\ \A link \in VersionsLinks(at, answer) : Good(link)
              /\ \A form \in VersionsForms(at, answer) : Fit(form)
<1>1. /\ readWindowRequest(at).from \in Dates \cup {Nothing}
      /\ readWindowRequest(at).to \in Dates \cup {Nothing}
    BY DEF readWindowRequest, Fit
<1>2. \A view : Good(versionsHref(Section, view, readWindowRequest(at)))
    BY <1>1, HistoryGood
<1>3. \A answer \in Answers : \A link \in VersionsLinks(at, answer) : Good(link)
    BY <1>2, SimplePages DEF VersionsLinks
<1>4. ASSUME NEW from \in Dates \cup {Nothing}, NEW to \in Dates \cup {Nothing}, NEW view
      PROVE  Fit(Address("versions", Section, [view |-> view, from |-> from, to |-> to]))
    <2> DEFINE params == [view |-> view, from |-> from, to |-> to]
               form == Address("versions", Section, params)
    <2>1. DOMAIN params = {"view", "from", "to"} /\ params["from"] = from /\ params["to"] = to
        OBVIOUS
    <2> HIDE DEF params
    <2>2. form.page = "versions" /\ Read(form, "from") = from /\ Read(form, "to") = to
        BY <2>1, ReadsBack
    <2> HIDE DEF form
    <2>3. Fit(form)
        BY <2>2 DEF Fit
    <2> QED
        BY <2>3 DEF form, params
<1>5. ASSUME NEW answer \in Answers, NEW form \in VersionsForms(at, answer) PROVE Fit(form)
    <2> DEFINE starts == {row.start : row \in ToSet(TimelineOf(answer))} \ {NoRelease}
           view == IF VersionsView(at, answer) = "all" THEN "all" ELSE Nothing
           Under(from, to) == Address("versions", Section, [view |-> view, from |-> from, to |-> to])
           Compare(from, to) == diffHref(Section, from, to, Nothing)
    <2>1. /\ \A from, to \in Dates \cup {Nothing} : Fit(Under(from, to))
          /\ \A from, to : Fit(Compare(from, to))
        BY <1>4, SimplePages DEF Good
    <2>2. VersionsForms(at, answer) =
             {Under(from, to) : from \in Dates \cup {Nothing}, to \in Dates \cup {Nothing}}
                \cup {Compare(from, to) : from, to \in starts}
        BY DEF VersionsForms
    <2> HIDE DEF Under, Compare, starts
    <2> QED
        BY <1>5, <2>1, <2>2
<1> QED
    BY <1>3, <1>5

\* Options of a search, changed as a link changes them.
LEMMA SearchLeads ==
    ASSUME at.page = "search", Fit(at)
    PROVE  /\ \A link \in SearchLinks(at) : Good(link)
           /\ \A form \in SearchForms(at) : Fit(form)
           /\ LET view == SearchView(at, Limit) IN
              \A n \in Nat : pageOffset(SearchPageHref(view, n), Limit) = n
<1> DEFINE view == SearchView(at, Limit)
           pager == pagerModel(Total, view.offset, Limit, Shown(Total, view.offset, Limit))
<1>1. view.q \in Seq(Tokens) /\ Ordered(view)
    BY SearchViewFits
<1>2. view = [q |-> view.q, release |-> view.release, date |-> view.date, cites |-> view.cites,
              sort |-> view.sort, offset |-> view.offset]
    BY DEF SearchView
<1>3. \A page \in Others(pager.numbers, pager.current) : (page - 1) * Limit \in Nat
    <2>1. Others(pager.numbers, pager.current) \subseteq Others(pager.numbers, 0)
        BY DEF Others
    <2>2. view.offset \in Nat
        BY <1>1 DEF Ordered
    <2> HIDE DEF view
    <2> QED
        BY <2>1, <2>2, PagesTell
<1> HIDE DEF view, pager
<1>4. ASSUME NEW opts, opts.sort \in SEARCH_SORTS, opts.offset \in Nat, opts.cites = view.cites,
             opts.release = view.release, opts.date = view.date
      PROVE  /\ Good(searchHref(view.q, opts))
             /\ SearchView(searchHref(view.q, opts), Limit).offset = opts.offset
    <2>1. opts.cites \in BOOLEAN
        BY <1>1, <1>4, Zenon DEF Ordered
    <2>2. Ordered(opts)
        BY <1>4, <2>1 DEF Ordered
    <2> QED
        BY <1>1, <2>2, SearchReadsBack
<1>5. DOMAIN view = {"q", "release", "date", "cites", "sort", "offset"}
    <2> DEFINE record == [q |-> view.q, release |-> view.release, date |-> view.date,
                          cites |-> view.cites, sort |-> view.sort, offset |-> view.offset]
    <2>1. DOMAIN record = {"q", "release", "date", "cites", "sort", "offset"}
        OBVIOUS
    <2>2. view = record
        BY <1>2
    <2> HIDE DEF record
    <2> QED
        BY <2>1, <2>2
<1>6. ASSUME NEW n \in Nat
      PROVE  Good(SearchPageHref(view, n)) /\ pageOffset(SearchPageHref(view, n), Limit) = n
    <2> DEFINE opts == [view EXCEPT !.offset = n]
    <2>1. \A f \in DOMAIN view : opts[f] = IF f = "offset" THEN n ELSE view[f]
        OBVIOUS
    <2>2. SearchPageHref(view, n) = searchHref(view.q, opts)
        BY DEF SearchPageHref
    <2> HIDE DEF opts
    <2>3. /\ opts.sort = view.sort /\ opts.offset = n /\ opts.cites = view.cites
          /\ opts.release = view.release /\ opts.date = view.date
        BY <1>5, <2>1
    <2>4. opts.sort \in SEARCH_SORTS
        BY <1>1, <2>3 DEF Ordered
    <2>5. Good(searchHref(view.q, opts)) /\ SearchView(searchHref(view.q, opts), Limit).offset = n
        BY <1>4, <2>3, <2>4
    <2>6. \A link : SearchView(link, Limit).offset = pageOffset(link, Limit)
        BY DEF SearchView
    <2> QED
        BY <2>2, <2>5, <2>6
<1>7. ASSUME NEW sort \in SEARCH_SORTS PROVE Good(SearchSortHref(view, sort))
    <2> DEFINE opts == [view EXCEPT !.sort = sort, !.offset = 0]
    <2>1. \A f \in DOMAIN view : opts[f] = IF f = "offset" THEN 0 ELSE IF f = "sort" THEN sort ELSE view[f]
        OBVIOUS
    <2>2. SearchSortHref(view, sort) = searchHref(view.q, opts)
        BY DEF SearchSortHref
    <2> HIDE DEF opts
    <2>3. /\ opts.sort = sort /\ opts.offset = 0 /\ opts.cites = view.cites
          /\ opts.release = view.release /\ opts.date = view.date
        BY <1>5, <2>1
    <2>4. Good(searchHref(view.q, opts))
        BY <1>4, <2>3
    <2> QED
        BY <2>2, <2>4
<1>8. \A value \in Facets : Good(FacetHref(view, "title", value))
    BY <1>1, <1>2, FacetsSound
<1>9. Good(RowHref(view))
    BY SimplePages DEF RowHref
<1>10. ASSUME NEW link \in SearchLinks(at) PROVE Good(link)
    <2>1. \/ \E page \in Others(pager.numbers, pager.current) : link = SearchPageHref(view, (page - 1) * Limit)
          \/ \E sort \in SEARCH_SORTS : link = SearchSortHref(view, sort)
          \/ \E value \in Facets : link = FacetHref(view, "title", value)
          \/ link = RowHref(view)
        BY DEF SearchLinks, view, pager
    <2> QED
        BY <1>3, <1>6, <1>7, <1>8, <1>9, <2>1
<1> DEFINE fields == [q |-> view.q, release |-> view.release, date |-> view.date,
                      cites |-> IF view.cites THEN "1" ELSE Nothing,
                      sort |-> Unless(view.sort, "relevance")]
<1>11. ASSUME NEW params, DOMAIN params \subseteq {"q", "release", "date", "cites", "sort", "page"},
              "q" \in DOMAIN params, params["q"] \in Seq(Tokens),
              "page" \in DOMAIN params => params["page"] \in Int
       PROVE  Fit(Address("search", Nothing, params))
    <2> DEFINE form == Address("search", Nothing, params)
    <2>1. /\ form.page = "search" /\ Read(form, "q") = params["q"] /\ Read(form, "offset") = Nothing
          /\ Read(form, "page") \in Int \cup {Nothing}
        BY <1>11, ReadsBack
    <2> HIDE DEF form
    <2>2. Fit(form)
        BY <1>11, <2>1 DEF Fit, Numbered
    <2> QED
        BY <2>2 DEF form
<1>12. DOMAIN fields = {"q", "release", "date", "cites", "sort"} /\ fields["q"] = view.q
    OBVIOUS
<1>13. ASSUME NEW page \in Nat PROVE Fit(Address("search", Nothing, Spread(fields, [page |-> page])))
    <2> DEFINE paged == [page |-> page]
               params == Spread(fields, paged)
    <2>1. DOMAIN paged = {"page"} /\ paged["page"] = page
        OBVIOUS
    <2> HIDE DEF fields, paged
    <2>2. /\ DOMAIN params = {"q", "release", "date", "cites", "sort", "page"}
          /\ params["q"] = view.q /\ params["page"] = page
        BY <1>12, <2>1 DEF Spread
    <2> HIDE DEF params
    <2>3. Fit(Address("search", Nothing, params))
        BY <1>1, <1>11, <2>2
    <2> QED
        BY <2>3 DEF params, paged
<1>14. ASSUME NEW day PROVE Fit(Address("search", Nothing, [fields EXCEPT !.date = day]))
    <2> DEFINE params == [fields EXCEPT !.date = day]
    <2>1. DOMAIN params = DOMAIN fields /\ params["q"] = fields["q"]
        <3> HIDE DEF fields
        <3> QED
            BY <1>12
    <2> HIDE DEF params, fields
    <2>2. Fit(Address("search", Nothing, params))
        BY <1>1, <1>11, <1>12, <2>1
    <2> QED
        BY <2>2 DEF params
<1>15. ASSUME NEW form \in SearchForms(at) PROVE Fit(form)
    <2>0. pagerModel(Total, view.offset, Limit, 0).pages \in Nat
        <3>1. Total \in Nat /\ Limit \in Nat \ {0} /\ view.offset \in Nat
            BY <1>1, BrowsingAssumption DEF Ordered
        <3> QED
            BY <3>1, NumbersAre DEF Paged
    <2> DEFINE PageForm(page) == Address("search", Nothing, Spread(fields, [page |-> page]))
               DayForm(day) == Address("search", Nothing, [fields EXCEPT !.date = day])
               last == pagerModel(Total, view.offset, Limit, 0).pages + 1
    <2>1. (\A page \in Nat : Fit(PageForm(page))) /\ \A day : Fit(DayForm(day))
        BY <1>13, <1>14
    <2>2. SearchForms(at) = {PageForm(page) : page \in 1..last} \cup {DayForm(day) : day \in 0..Today}
        BY DEF SearchForms, view
    <2>3. \A page \in 1..last : page \in Nat
        BY <2>0
    <2> HIDE DEF PageForm, DayForm, last
    <2> QED
        BY <1>15, <2>1, <2>2, <2>3
<1> QED
    BY <1>6, <1>10, <1>15 DEF view

SUGGESTION_KINDS == {"pl", "section-in-table", "section-notes", "section-classifications",
                     "title-in-table", "title-classifications"}

\* The lookup answers a query with suggestions of tables it knows.
LEMMA AnswersAre ==
    ASSUME NEW query \in Lookups, NEW path \in Tables \cup {Nothing}
    PROVE  /\ DOMAIN Answered(query, path) \in SUBSET Nat
           /\ \A i \in DOMAIN Answered(query, path) :
                 \E kind \in SUGGESTION_KINDS, table \in Tables \cup {Nothing} :
                    Answered(query, path)[i] = Suggestion(query, kind, table)
<1> DEFINE X == {Suggestion(query, kind, table) : kind \in SUGGESTION_KINDS, table \in Tables \cup {Nothing}}
<1>1. query.table \in Tables \cup {Nothing} /\ Nothing \in Tables \cup {Nothing}
    BY BrowsingAssumption
<1>2. \A kind \in SUGGESTION_KINDS : \A table \in {Nothing, path, query.table} : Suggestion(query, kind, table) \in X
    BY <1>1
<1> HIDE DEF X
<1>3. Answered(query, path) \in Seq(X)
    <2>1. /\ <<>> \in Seq(X) /\ \A x \in X : <<x>> \in Seq(X)
          /\ \A s, t \in Seq(X) : s \o t \in Seq(X)
        OBVIOUS
    <2> QED
        BY <1>2, <2>1 DEF Answered, SUGGESTION_KINDS
<1> DEFINE a == Answered(query, path)
<1> HIDE DEF a
<1>4. a \in Seq(X)
    BY <1>3 DEF a
<1>5. DOMAIN a \in SUBSET Nat /\ \A i \in DOMAIN a : a[i] \in X
    BY <1>4
<1>6. \A s \in X : \E kind \in SUGGESTION_KINDS, table \in Tables \cup {Nothing} :
                      s = Suggestion(query, kind, table)
    BY DEF X
<1> QED
    BY <1>5, <1>6 DEF a

\* A query that names rows of a table is applied to it as a filter.
LEMMA LookedFits ==
    ASSUME NEW address, address.page = "classification", Fit(address)
    PROVE  Fit(Looked(address))
<1> DEFINE view == ClassificationView(address, Limit)
           answers == Answered(view.q, address.path)
           Filter(i) == classificationTableFilterHref(answers[i], view.sort)
           applied == {i \in DOMAIN answers : Filter(i) # Nothing}
<1>1. Looked(address) = IF view.q = Nothing \/ address.path = Nothing \/ applied = {} THEN address
                        ELSE Filter(Min(applied))
    BY DEF Looked
<1>2. /\ view.q \in Lookups \cup {Nothing} /\ view.sort \in CLASSIFICATION_SORTS
      /\ address.path \in Tables \cup {Nothing}
    BY ViewLists DEF Listing
<1> HIDE DEF view
<1>3. ASSUME view.q # Nothing, applied # {}
      PROVE  Fit(Filter(Min(applied)))
    <2>1. view.q \in Lookups
        BY <1>2, <1>3
    <2>2. /\ DOMAIN answers \in SUBSET Nat
          /\ \A i \in DOMAIN answers : \E kind \in SUGGESTION_KINDS, table \in Tables \cup {Nothing} :
                answers[i] = Suggestion(view.q, kind, table)
        BY <1>2, <2>1, AnswersAre
    <2>3. applied \in SUBSET Nat
        BY <2>2
    <2>4. Min(applied) \in applied
        <3> HIDE DEF applied
        <3> QED
            BY <1>3, <2>3, MinIs
    <2> DEFINE first == Min(applied)
    <2> HIDE DEF first
    <2>5. first \in DOMAIN answers /\ Filter(first) # Nothing
        BY <2>4 DEF first
    <2>6. PICK kind \in SUGGESTION_KINDS, table \in Tables \cup {Nothing} : answers[first] = Suggestion(view.q, kind, table)
        BY <2>2, <2>5
    <2>7. Filter(first) = classificationTableFilterHref(Suggestion(view.q, kind, table), view.sort)
        BY <2>6
    <2> HIDE DEF Filter
    <2>8. Good(Filter(first))
        BY <1>2, <2>1, <2>5, <2>7, FilterGood
    <2> QED
        BY <2>8 DEF Good, first
<1> HIDE DEF applied, Filter
<1> QED
    BY <1>1, <1>3

LEMMA ClassificationLeads ==
    ASSUME at.page = "classification", Fit(at)
    PROVE  /\ \A link \in ClassificationLinks(at) : Good(link)
           /\ \A form \in ClassificationForms(at) : Fit(form)
<1> DEFINE view == ClassificationView(at, Limit)
           pager == pagerModel(Total, view.offset, Limit, Shown(Total, view.offset, Limit))
           keys == IF at.path = Nothing /\ view.section # Nothing THEN {"pl"} ELSE CLASSIFICATION_SORT_KEYS
           listing == at.path # Nothing \/ view.title # Nothing
<1>1. /\ view.q \in Lookups \cup {Nothing} /\ view.sort \in CLASSIFICATION_SORTS
      /\ at.path \in Tables \cup {Nothing} /\ view.offset \in Nat
    BY ViewLists DEF Listing
<1>2. keys \subseteq CLASSIFICATION_SORT_KEYS
    BY DEF CLASSIFICATION_SORT_KEYS
<1>3. \A page \in Others(pager.numbers, pager.current) : (page - 1) * Limit \in Nat
    <2>1. Others(pager.numbers, pager.current) \subseteq Others(pager.numbers, 0)
        BY DEF Others
    <2> HIDE DEF view
    <2> QED
        BY <1>1, <2>1, PagesTell
<1>4. listing => /\ \A n \in Nat : Good(RowsHref(at, view, [offset |-> n]))
                 /\ \A sort \in CLASSIFICATION_SORTS : Good(RowsHref(at, view, [sort |-> sort, offset |-> 0]))
    BY RowsGood
<1>5. \A pill \in PillHrefs(at, view) : Good(pill)
    BY PillsSound
<1>6. ASSUME view.q # Nothing, NEW s \in ToSet(Answered(view.q, at.path))
      PROVE  Good(classificationSuggestionHref(s))
    <2> HIDE DEF view
    <2>1. view.q \in Lookups
        BY <1>1, <1>6
    <2>2. PICK kind \in SUGGESTION_KINDS, table \in Tables \cup {Nothing} : s = Suggestion(view.q, kind, table)
        BY <1>1, <1>6, <2>1, AnswersAre DEF ToSet
    <2> QED
        BY <2>1, <2>2, SuggestionGood
<1>7. ASSUME NEW link \in ClassificationLinks(at) PROVE Good(link)
    <2>1. \/ \E table \in Tables : link = classificationHref(table[1], table[2], Unfiltered("pl"))
          \/ link = classificationHref(Nothing, Nothing, Unfiltered("pl-desc"))
          \/ listing /\ \E key \in keys :
                link = RowsHref(at, view, [sort |-> nextSort(view.sort, key), offset |-> 0])
          \/ listing /\ \E page \in Others(pager.numbers, pager.current) :
                link = RowsHref(at, view, [offset |-> (page - 1) * Limit])
          \/ link \in PillHrefs(at, view)
          \/ view.q # Nothing /\ \E s \in ToSet(Answered(view.q, at.path)) :
                link = classificationSuggestionHref(s)
        BY DEF ClassificationLinks
    <2>2. \A key \in keys : nextSort(view.sort, key) \in CLASSIFICATION_SORTS
        BY <1>1, <1>2, SortsNamed
    <2> HIDE DEF view, pager, keys, listing
    <2> QED
        BY <1>3, <1>4, <1>5, <1>6, <2>1, <2>2, UnfilteredLists
<1>8. ASSUME NEW query \in Lookups, NEW sort
      PROVE  Fit(Looked(Address("classification", at.path, [q |-> query, sort |-> sort])))
    <2> DEFINE params == [q |-> query, sort |-> sort]
               form == Address("classification", at.path, params)
    <2>1. DOMAIN params = {"q", "sort"} /\ params["q"] = query
        OBVIOUS
    <2> HIDE DEF params
    <2>2. /\ form.page = "classification" /\ form.path = at.path /\ Read(form, "q") = query
          /\ Read(form, "offset") = Nothing /\ Read(form, "page") = Nothing /\ Read(form, "section") = Nothing
        BY <2>1, ReadsBack
    <2> HIDE DEF form
    <2>3. Fit(form)
        BY <1>1, <2>2 DEF Fit, Numbered
    <2>4. Fit(Looked(form))
        BY <2>2, <2>3, LookedFits
    <2> QED
        BY <2>4 DEF form, params
<1>9. ASSUME NEW table \in Tables
      PROVE  LET scope == parseClassificationScope(classificationScopeValue(table[1], table[2])) IN
             Fit(Looked(classificationHref(scope[1], scope[2], [Unfiltered("pl") EXCEPT !.q = view.q])))
    <2>1. table = <<table[1], table[2]>> /\ table[2] \in SESSIONS /\ table # Nothing
        BY NothingElse
    <2>2. parseClassificationScope(classificationScopeValue(table[1], table[2])) = table
        BY <2>1 DEF parseClassificationScope, classificationScopeValue
    <2> DEFINE opts == [Unfiltered("pl") EXCEPT !.q = view.q]
    <2>3. Listing(table, opts)
        <3> HIDE DEF view
        <3> QED
            BY <1>1 DEF Listing, Unfiltered
    <2> HIDE DEF opts
    <2>4. classificationHref(table[1], table[2], opts) = Table(table, opts)
        BY <2>1 DEF Table
    <2>5. Table(table, opts).page = "classification" /\ Good(Table(table, opts))
        BY <2>3, TableReadsBack
    <2>6. Fit(Looked(classificationHref(table[1], table[2], opts)))
        BY <2>4, <2>5, LookedFits DEF Good
    <2> QED
        BY <2>2, <2>6 DEF opts
<1>10. ASSUME NEW form \in ClassificationForms(at) PROVE Fit(form)
    <2> DEFINE order0 == IF at.path = Nothing THEN Nothing ELSE Unless(view.sort, "pl")
               Asks(query) == Looked(Address("classification", at.path, [q |-> query, sort |-> order0]))
               Choose(value) ==
                   LET scope == parseClassificationScope(value) IN
                   Looked(classificationHref(scope[1], scope[2], [Unfiltered("pl") EXCEPT !.q = view.q]))
               values == {classificationScopeValue(table[1], table[2])
                            : table \in {t \in Tables : at.path = Nothing}}
    <2>1. ClassificationForms(at) = {Asks(query) : query \in Lookups} \cup {Choose(value) : value \in values}
        BY DEF ClassificationForms
    <2>2. \A query \in Lookups : Fit(Asks(query))
        BY <1>8
    <2>3. \A value \in values : \E table \in Tables : value = classificationScopeValue(table[1], table[2])
        OBVIOUS
    <2>4. \A table \in Tables : Fit(Choose(classificationScopeValue(table[1], table[2])))
        BY <1>9
    <2> HIDE DEF Asks, Choose, values
    <2> QED
        BY <1>10, <2>1, <2>2, <2>3, <2>4
<1> QED
    BY <1>7, <1>10

LEMMA DataLeads ==
    ASSUME at.page = "data", Fit(at)
    PROVE  /\ \A link \in DataLinks(at) : Good(link)
           /\ \A form \in DataForms : Fit(form)
<1>1. \A key \in SORT_KEYS : /\ <<key, TRUE>> \in SORT_KEYS \X BOOLEAN
                             /\ <<key, FALSE>> \in SORT_KEYS \X BOOLEAN
    OBVIOUS
<1>2. \A sort, key : key \in SORT_KEYS => Good(headingHref(sort, key))
    BY <1>1, ReportGood DEF headingHref
<1>3. ASSUME NEW chosen \in Orders PROVE Fit(Address("data", Nothing, [sort |-> chosen]))
    <2> DEFINE params == [sort |-> chosen]
               form == Address("data", Nothing, params)
    <2>1. DOMAIN params = {"sort"} /\ params["sort"] = chosen
        OBVIOUS
    <2> HIDE DEF params
    <2>2. form.page = "data" /\ Read(form, "sort") = chosen
        BY <2>1, ReadsBack
    <2> HIDE DEF form
    <2>3. Fit(form)
        BY <2>2 DEF Fit
    <2> QED
        BY <2>3 DEF form, params
<1> QED
    BY <1>2, <1>3 DEF DataLinks, DataForms

\* Where the search box leads.
LEMMA BoxLeads ==
    ASSUME NEW entry \in Typed, goto(entry, entry.cited, Nothing) # Nothing
    PROVE  Good(goto(entry, entry.cited, Nothing))
<1>1. /\ entry.from \in Dates \cup {Nothing} /\ entry.to \in Dates \cup {Nothing}
      /\ entry.subject \in Seq(Tokens)
    BY BrowsingAssumption
<1>2. \A identifier :
         Good(versionsHref(identifier, Nothing,
                   [from |-> entry.from, to |-> IF entry.from = Nothing THEN Nothing ELSE entry.to]))
    BY <1>1, HistoryGood
<1>3. parseHistory(entry) # Nothing =>
         parseHistory(entry) = [subject |-> entry.subject, from |-> entry.from, to |-> entry.to]
    BY DEF parseHistory
<1>4. \A opts \in {Untimed, [Untimed EXCEPT !.cites = TRUE]} : Good(searchHref(entry.subject, opts))
    <2>1. Ordered(Untimed) /\ Ordered([Untimed EXCEPT !.cites = TRUE])
        BY DEF Ordered, Untimed, SEARCH_SORTS
    <2> QED
        BY <1>1, <2>1, SearchReadsBack
<1>5. parseCites(entry) # Nothing => parseCites(entry) = entry.subject
    BY DEF parseCites
<1> QED
    BY <1>2, <1>3, <1>4, <1>5, SimplePages DEF goto

-----------------------------------------------------------------------------
(***************************************************************************)
(* The pages are sound                                                     *)
(***************************************************************************)

\* A history of texts, a list no newer than the corpus, and an address of the kind
\* a link or a form leads to, which a link wrote as its page does. It is all the
\* soundness of the pages needs of a state.
AtWritten == ~typed => Written(at) = at

BrowsingInv ==
    /\ history \in Seq(Text \cup {Absent}) /\ Len(history) <= MaxRelease
    /\ listed \in 0..Len(history)
    /\ Fit(at) /\ AtWritten

LEMMA InitBrowses == Init => BrowsingInv
<1> SUFFICES ASSUME Init PROVE BrowsingInv
    OBVIOUS
<1>1. at = appHref(Section, Nothing)
    BY DEF Init
<1>2. Fit(at) /\ Written(at) = at
    BY <1>1, SimplePages DEF Good
<1>3. history \in Seq(Text \cup {Absent}) /\ Len(history) = 0 /\ listed = 0
    BY DEF Init
<1>4. MaxRelease \in Nat
    BY BrowsingAssumption
<1> QED
    BY <1>2, <1>3, <1>4 DEF BrowsingInv, AtWritten

\* The address is kept while the corpus changes.
LEMMA StayBrowses ==
    ASSUME BrowsingInv, UNCHANGED <<at, typed>>
    PROVE  (Fit(at) /\ AtWritten)'
<1> DEFINE address == at
           other == at'
<1>1. other = address /\ typed' = typed /\ Fit(address) /\ (~typed => Written(address) = address)
    BY DEF BrowsingInv, AtWritten
<1>2. Fit(other) /\ (~typed' => Written(other) = other)
    <2> HIDE DEF address, other
    <2> QED
        BY <1>1
<1>3. (Fit(at) /\ AtWritten)' = (Fit(other) /\ (~typed' => Written(other) = other))
    BY DEF AtWritten, Fit, Written, Numbered, Read
<1> QED
    BY <1>2, <1>3

LEMMA GoBrowses ==
    ASSUME BrowsingInv, NEW address, NEW byHand, Fit(address), ~byHand => Written(address) = address,
           Go(address, byHand)
    PROVE  BrowsingInv'
<1>1. at' = address /\ typed' = byHand /\ UNCHANGED <<history, listed>>
    BY DEF Go
<1> QED
    BY <1>1 DEF BrowsingInv, AtWritten

LEMMA NextBrowses == BrowsingInv /\ [Next]_vars => BrowsingInv'
<1> SUFFICES ASSUME BrowsingInv, [Next]_vars PROVE BrowsingInv'
    OBVIOUS
<1>0. /\ Fit(at) /\ history \in Seq(Text \cup {Absent}) /\ Len(history) \in Nat
      /\ \A link : Good(link) => Fit(link) /\ Written(link) = link
    BY DEF BrowsingInv, Good
<1> USE <1>0
<1>1. ASSUME NEW text \in Text \cup {Absent}, Publish(text) PROVE BrowsingInv'
    <2>1. /\ history' \in Seq(Text \cup {Absent}) /\ Len(history') = Len(history) + 1
          /\ Len(history) < MaxRelease /\ MaxRelease \in Nat
        BY <1>1, BrowsingAssumption DEF Publish, Newest
    <2>2. listed' = listed /\ UNCHANGED <<at, typed>>
        BY <1>1 DEF Publish
    <2>3. (Fit(at) /\ AtWritten)'
        BY <2>2, StayBrowses
    <2> QED
        BY <2>1, <2>2, <2>3 DEF BrowsingInv
<1>3. ASSUME NEW fetched \in {0, Newest}, List(fetched) PROVE BrowsingInv'
    <2>1. listed' = fetched /\ UNCHANGED <<history, at, typed>> /\ fetched \in 0..Len(history)
        BY <1>3 DEF List, Newest
    <2>2. (Fit(at) /\ AtWritten)'
        BY <2>1, StayBrowses
    <2> QED
        BY <2>1, <2>2 DEF BrowsingInv
<1>4. CASE FromSection
    BY <1>4, SectionLeads, GoBrowses DEF FromSection
<1>5. CASE FromVersions
    BY <1>5, VersionsLead, GoBrowses DEF FromVersions
<1>6. CASE FromDiff
    BY <1>6, DiffLeads, GoBrowses DEF FromDiff
<1>7. CASE FromSearch
    BY <1>7, SearchLeads, GoBrowses DEF FromSearch
<1>8. CASE FromClassification
    BY <1>8, ClassificationLeads, GoBrowses DEF FromClassification
<1>9. CASE FromData
    BY <1>9, DataLeads, GoBrowses DEF FromData
<1>10. CASE SubmitVersions
    BY <1>10, VersionsLead, GoBrowses DEF SubmitVersions
<1>11. CASE SubmitSearch
    BY <1>11, SearchLeads, GoBrowses DEF SubmitSearch
<1>12. CASE SubmitClassification
    BY <1>12, ClassificationLeads, GoBrowses DEF SubmitClassification
<1>13. CASE SubmitData
    BY <1>13, DataLeads, GoBrowses DEF SubmitData
<1>14. ASSUME NEW entry \in Typed, Goto(entry) PROVE BrowsingInv'
    BY <1>14, BoxLeads, GoBrowses DEF Goto
<1>15. CASE SiteCommand
    BY <1>15, UnfilteredLists, GoBrowses DEF SiteCommand
<1>16. CASE FooterLink
    BY <1>16, ReportGood, GoBrowses DEF FooterLink
<1>17. CASE UNCHANGED vars
    <2>1. UNCHANGED <<history, listed, at, typed>>
        BY <1>17 DEF vars
    <2>2. (Fit(at) /\ AtWritten)'
        BY <2>1, StayBrowses
    <2> QED
        BY <2>1, <2>2 DEF BrowsingInv
<1> QED
    BY <1>1, <1>3, <1>4, <1>5, <1>6, <1>7, <1>8, <1>9, <1>10, <1>11, <1>12, <1>13, <1>14,
       <1>15, <1>16, <1>17 DEF Next

\* The history page, "compare with" and a search result's line are about the
\* texts as they stood, whatever was published, listed and answered (versions.ts).
THEOREM TimelineSound == Spec => []TimelineIsSound
<1>1. BrowsingInv => TimelineIsSound
    <2> SUFFICES ASSUME BrowsingInv PROVE TimelineIsSound
        OBVIOUS
    <2>1. history \in Seq(Text \cup {Absent}) /\ listed \in 0..Len(history)
        BY DEF BrowsingInv
    <2>2. \A answer \in Answers : RowsAreSound(answer) /\ CountsAreSound(answer)
        BY <2>1, RowsSound, CountsSound
    <2>3. \A answer \in Answers :
             isAnnotated(entries(answer)) /\ ~Recurs(answer.mapped) /\ answer.mapped = answer.upto =>
                \A i \in DOMAIN entries(answer) : NoteIsSound(i, answer)
        BY <2>1, NoteSound
    <2>4. \A answer \in Answers :
             isAnnotated(entries(answer)) /\ Selected(at) \in HeldUpto(answer.mapped) =>
                ComparisonIsSound(Selected(at), answer)
        BY <2>1, ComparisonSound
    <2> QED
        BY <2>2, <2>3, <2>4 DEF TimelineIsSound
<1> QED
    BY <1>1, InitBrowses, NextBrowses, PTL DEF Spec

\* The days a typed window stands for are in order.
LEMMA DaysAsked ==
    ASSUME BrowsingInv, at.page = "versions" PROVE DaysAre(WindowDays(at))
<1> DEFINE request == readWindowRequest(at)
           from == IF request.from = Nothing THEN NoDate ELSE isoDate(request.from)
           to == IF request.to = Nothing THEN Today ELSE isoDate(request.to)
<1>1. request.from \in Dates \cup {Nothing} /\ request.to \in Dates \cup {Nothing}
    BY DEF readWindowRequest, BrowsingInv, Fit
<1>2. \A date \in Dates : isoDate(date) \in Int \cup {NoDate}
    BY BrowsingAssumption
<1>3. Today \in Int
    BY BrowsingAssumption DEF Today, Dated
<1>4. WindowDays(at) = IF NoDate \in {from, to} \/ from > to THEN <<>> ELSE <<from, to>>
    BY DEF WindowDays
<1>5. from \in Int \cup {NoDate} /\ to \in Int \cup {NoDate}
    BY <1>1, <1>2, <1>3
<1> HIDE DEF from, to
<1>6. CASE NoDate \in {from, to} \/ from > to
    BY <1>4, <1>6 DEF DaysAre
<1>7. CASE ~(NoDate \in {from, to} \/ from > to)
    <2>1. from \in Int /\ to \in Int /\ from <= to
        BY <1>5, <1>7
    <2> QED
        BY <1>4, <1>7, <2>1 DEF DaysAre
<1> QED
    BY <1>6, <1>7

\* What the page says happened between two dates is what happened, or it says
\* that the window could not be read (versions.ts).
THEOREM WindowSound == Spec => []WindowIsSound
<1>1. BrowsingInv => WindowIsSound
    BY DaysAsked, ToldSound DEF BrowsingInv, WindowIsSound
<1> QED
    BY <1>1, InitBrowses, NextBrowses, PTL DEF Spec

\* Each number of a pager opens its page, when a link opens its row.
LEMMA PagersOpen ==
    ASSUME NEW links, \A n \in Nat : pageOffset(links[n], Limit) = n, NEW offset \in Nat
    PROVE  LET pager == pagerModel(Total, offset, Limit, Shown(Total, offset, Limit)) IN
           /\ {1, pager.current, pager.pages} \subseteq ToSet(pager.numbers)
           /\ \A page \in Others(pager.numbers, 0) :
                 LET opened == pageOffset(links[(page - 1) * Limit], Limit) IN
                 /\ (page - 1) * Limit \in Nat
                 /\ pagerModel(Total, opened, Limit, 0).current = page
                 /\ opened % Limit = 0 /\ opened < Max({1, Total})
           /\ offset < Total => pager.from \in (pager.current - 1) * Limit + 1..pager.current * Limit
<1> DEFINE pager == pagerModel(Total, offset, Limit, Shown(Total, offset, Limit))
<1>1. /\ {1, pager.current, pager.pages} \subseteq ToSet(pager.numbers)
      /\ offset < Total => pager.from \in (pager.current - 1) * Limit + 1..pager.current * Limit
      /\ \A page \in Others(pager.numbers, 0) :
            /\ page \in Nat \ {0} /\ (page - 1) * Limit \in Nat
            /\ pagerModel(Total, (page - 1) * Limit, Limit, 0).current = page
            /\ ((page - 1) * Limit) % Limit = 0
            /\ (page - 1) * Limit < Max({1, Total})
    BY PagesTell
<1> HIDE DEF pager
<1>2. ASSUME NEW page \in Others(pager.numbers, 0)
      PROVE  LET opened == pageOffset(links[(page - 1) * Limit], Limit) IN
             /\ (page - 1) * Limit \in Nat
             /\ pagerModel(Total, opened, Limit, 0).current = page
             /\ opened % Limit = 0 /\ opened < Max({1, Total})
    <2> DEFINE start == (page - 1) * Limit
    <2>1. /\ start \in Nat /\ pagerModel(Total, start, Limit, 0).current = page
          /\ start % Limit = 0 /\ start < Max({1, Total})
        BY <1>1
    <2> HIDE DEF start
    <2>2. pageOffset(links[start], Limit) = start
        BY <2>1
    <2> QED
        BY <2>1, <2>2 DEF start
<1> QED
    BY <1>1, <1>2 DEF pager

LEMMA SearchesSound ==
    ASSUME Fit(at), at.page = "search", NEW view, view = SearchView(at, Limit)
    PROVE  FacetsToggle(view) /\ PagesOpen(LAMBDA offset : SearchPageHref(view, offset), view.offset)
<1>1. view.q \in Seq(Tokens) /\ Ordered(view)
    BY SearchViewFits
<1>2. view = [q |-> view.q, release |-> view.release, date |-> view.date, cites |-> view.cites,
              sort |-> view.sort, offset |-> view.offset]
    BY DEF SearchView
<1>3. FacetsToggle(view)
    BY <1>1, <1>2, FacetsSound
<1> DEFINE links == [n \in Nat |-> SearchPageHref(view, n)]
           pager == pagerModel(Total, view.offset, Limit, Shown(Total, view.offset, Limit))
<1>4. \A n \in Nat : links[n] = SearchPageHref(view, n) /\ pageOffset(links[n], Limit) = n
    BY SearchLeads
<1>5. view.offset \in Nat
    BY <1>1 DEF Ordered
<1> HIDE DEF links
<1>6. /\ {1, pager.current, pager.pages} \subseteq ToSet(pager.numbers)
      /\ \A page \in Others(pager.numbers, 0) :
            LET opened == pageOffset(links[(page - 1) * Limit], Limit) IN
            /\ (page - 1) * Limit \in Nat
            /\ pagerModel(Total, opened, Limit, 0).current = page
            /\ opened % Limit = 0 /\ opened < Max({1, Total})
      /\ view.offset < Total =>
            pager.from \in (pager.current - 1) * Limit + 1..pager.current * Limit
    BY <1>4, <1>5, PagersOpen
<1> HIDE DEF pager
<1>7. \A page \in Others(pager.numbers, 0) :
         LET opened == pageOffset(SearchPageHref(view, (page - 1) * Limit), Limit) IN
         /\ pagerModel(Total, opened, Limit, 0).current = page
         /\ opened % Limit = 0 /\ opened < Max({1, Total})
    <2> TAKE page \in Others(pager.numbers, 0)
    <2>1. links[(page - 1) * Limit] = SearchPageHref(view, (page - 1) * Limit)
        BY <1>4, <1>6
    <2> QED
        BY <1>6, <2>1
<1>8. PagesOpen(LAMBDA offset : SearchPageHref(view, offset), view.offset)
    BY <1>6, <1>7, Zenon DEF PagesOpen, pager
<1> QED
    BY <1>3, <1>8

LEMMA TablesSound ==
    ASSUME Fit(at), at.page = "classification", NEW view, view = ClassificationView(at, Limit)
    PROVE  /\ PillsDrop(view) /\ view.sort \in CLASSIFICATION_SORTS
           /\ at.path # Nothing =>
                 PagesOpen(LAMBDA offset : RowsHref(at, view, [offset |-> offset]), view.offset)
<1>1. view.sort \in CLASSIFICATION_SORTS /\ view.offset \in Nat
    BY ViewLists DEF Listing
<1>2. PillsDrop(view)
    <2>1. \A pill \in PillHrefs(at, view) :
             LET left == ClassificationView(pill, Limit) IN
             /\ \A f \in Filtering(left) : left[f] = view[f]
             /\ left.offset = 0
             /\ \/ Cardinality(Filtering(left)) = Cardinality(Filtering(view)) - 1 /\ left.sort = view.sort
                \/ at.path = Nothing /\ Filtering(left) = {}
        BY PillsSound
    <2> QED
        BY <2>1 DEF PillsDrop, Filtering, FILTERS
<1>3. ASSUME at.path # Nothing
      PROVE  \A n \in Nat : pageOffset(PageAt(at, view, n), Limit) = n
    BY <1>3, RowsGood
<1> DEFINE link(n) == PageAt(at, view, n)
           links == [n \in Nat |-> link(n)]
           pager == pagerModel(Total, view.offset, Limit, Shown(Total, view.offset, Limit))
<1> SUFFICES ASSUME at.path # Nothing
             PROVE  PagesOpen(LAMBDA offset : RowsHref(at, view, [offset |-> offset]), view.offset)
    BY <1>1, <1>2
<1>4. \A n \in Nat : links[n] = link(n) /\ pageOffset(links[n], Limit) = n
    BY <1>3
<1> HIDE DEF link
<1> HIDE DEF links
<1>6. /\ {1, pager.current, pager.pages} \subseteq ToSet(pager.numbers)
      /\ \A page \in Others(pager.numbers, 0) :
            LET opened == pageOffset(links[(page - 1) * Limit], Limit) IN
            /\ (page - 1) * Limit \in Nat
            /\ pagerModel(Total, opened, Limit, 0).current = page
            /\ opened % Limit = 0 /\ opened < Max({1, Total})
      /\ view.offset < Total =>
            pager.from \in (pager.current - 1) * Limit + 1..pager.current * Limit
    BY <1>1, <1>4, PagersOpen
<1> HIDE DEF pager
<1>7. \A page \in Others(pager.numbers, 0) :
         LET opened == pageOffset(link((page - 1) * Limit), Limit) IN
         /\ pagerModel(Total, opened, Limit, 0).current = page
         /\ opened % Limit = 0 /\ opened < Max({1, Total})
    <2> TAKE page \in Others(pager.numbers, 0)
    <2>1. links[(page - 1) * Limit] = link((page - 1) * Limit)
        BY <1>4, <1>6
    <2> QED
        BY <1>6, <2>1
<1>8. PagesOpen(LAMBDA offset : RowsHref(at, view, [offset |-> offset]), view.offset)
    BY <1>6, <1>7, Zenon DEF PagesOpen, PageAt, pager, link
<1> QED
    BY <1>8

\* What a view needs of its address is read back from the one its links write;
\* facets, pages and filters do what they say; the report is in order (url.ts,
\* searchscope.ts, pager.ts, versiondata.ts).
THEOREM AddressesKept == Spec => []AddressesKeepTheView
<1>1. BrowsingInv => AddressesKeepTheView
    <2> SUFFICES ASSUME BrowsingInv PROVE AddressesKeepTheView
        OBVIOUS
    <2>1. Fit(at) /\ (~typed => Written(at) = at)
        BY DEF BrowsingInv, AtWritten
    <2>2. SameView(at, Written(at)) /\ Good(Written(at))
        <3>1. at.page \in {"section", "diff"} => Written(at) = at
            BY DEF Written
        <3>2. at.page \in {"section", "diff"} => SameView(at, at) /\ Good(at)
            BY <2>1, <3>1 DEF SameView, Good
        <3> QED
            BY <2>1, <3>1, <3>2, SearchWritten, ClassificationWritten, ReportWritten, HistoryWritten DEF Fit
    <2>3. at.page = "search" =>
             LET view == SearchView(at, Limit) IN
             FacetsToggle(view) /\ PagesOpen(LAMBDA offset : SearchPageHref(view, offset), view.offset)
        BY <2>1, SearchesSound, Zenon
    <2>4. at.page = "classification" =>
             LET view == ClassificationView(at, Limit) IN
             /\ PillsDrop(view) /\ view.sort \in CLASSIFICATION_SORTS
             /\ at.path # Nothing =>
                   PagesOpen(LAMBDA offset : RowsHref(at, view, [offset |-> offset]), view.offset)
        BY <2>1, TablesSound, Zenon
    <2>5. at.page = "data" => ReportIsInOrder(DataSort(at))
        BY <2>1, ParsesSort, ReportSound DEF Fit, DataSort
    <2>6. Written(Written(at)) = Written(at)
        BY <2>2 DEF Good
    <2> QED
        BY <2>1, <2>2, <2>3, <2>4, <2>5, <2>6, Zenon DEF AddressesKeepTheView
<1> QED
    BY <1>1, InitBrowses, NextBrowses, PTL DEF Spec
=============================================================================
