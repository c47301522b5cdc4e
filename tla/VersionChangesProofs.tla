------------------------ MODULE VersionChangesProofs ------------------------
(***************************************************************************)
(* Proofs about VersionChanges for every title: any sections, texts,       *)
(* release points, files and fetches, and any number of faults.            *)
(***************************************************************************)
EXTENDS VersionChanges, CorpusLoadProofs, FiniteSetTheorems

\* Every step is a step of the loaders, or leaves the tables.
LEMMA ChangesStep ==
    ASSUME [NextChanges]_changesVars
    PROVE  [Next]_vars
<1>1. CASE Begin \/ Batch \/ Complete \/ Abandon
    BY <1>1 DEF Begin, Batch, Complete, Abandon, Next
<1>2. ASSUME NEW e \in Element, Store(e) PROVE [Next]_vars
    BY <1>2 DEF Store, Next
<1>3. ASSUME Decide \/ Defer \/ HookFails \/ Die PROVE UNCHANGED vars
    BY <1>3 DEF Decide, Defer, HookFails, Die
<1>4. ASSUME NEW s \in Section, ComputeBatch(s) \/ Repair(s) PROVE UNCHANGED vars
    BY <1>4 DEF ComputeBatch, Repair
<1>5. CASE UNCHANGED changesVars
    BY <1>5 DEF changesVars
<1> QED
    BY <1>1, <1>2, <1>3, <1>4, <1>5 DEF NextChanges

\* The hooks run beside the loaders of CorpusLoad: all that is proved of the
\* tables holds of what they compute from.
THEOREM HooksFollowALoad == SpecChanges => Spec
<1>1. InitChanges => Init
    BY DEF InitChanges
<1> QED
    BY <1>1, ChangesStep, PTL DEF SpecChanges, Spec

-----------------------------------------------------------------------------
(***************************************************************************)
(* The mapping of versions                                                 *)
(***************************************************************************)

\* Unless a release point was taken over, every stored version is mapped.
MappedInv == "replaced" \notin history => AllMapped

LEMMA MappedStep ==
    TablesInv /\ MappedInv /\ [NextChanges]_changesVars => MappedInv'
<1> SUFFICES ASSUME TablesInv, MappedInv, [NextChanges]_changesVars,
                    "replaced" \notin history'
             PROVE  AllMapped'
    BY DEF MappedInv
<1>1. history \subseteq history' /\ [Next]_vars
    <2>1. ASSUME NEW s \in Section, ComputeBatch(s) \/ Repair(s)
          PROVE  history \subseteq history'
        BY <2>1 DEF ComputeBatch, Repair
    <2>2. ASSUME NEW e \in Element, Store(e) PROVE history \subseteq history'
        BY <2>2 DEF Store
    <2> QED
        BY <2>1, <2>2, ChangesStep
           DEF NextChanges, Begin, Batch, Complete, Abandon, Decide, Defer, HookFails, Die,
               changesVars
<1>2. AllMapped
    BY <1>1 DEF MappedInv
<1>3. \A r \in Release : releaseMap[r] \subseteq releaseMap'[r]
    <2>1. CASE Begin
        BY <1>1, <2>1, BeginKeepsMaps DEF Begin
    <2>2. CASE Batch \/ Complete
        BY <2>2 DEF Batch, Complete, CommitBatch, Finish, CommitRows, TablesInv, TypeOK
    <2>3. CASE Abandon
        BY <2>3 DEF Abandon, Interrupt, corpus
    <2>4. ASSUME NEW e \in Element, Store(e) PROVE releaseMap' = releaseMap
        BY <2>4 DEF Store, StoreElement, corpus
    <2>5. ASSUME NEW s \in Section, ComputeBatch(s) \/ Repair(s)
          PROVE  releaseMap' = releaseMap
        BY <2>5 DEF ComputeBatch, Repair, vars, corpus
    <2>6. CASE Decide \/ Defer \/ HookFails \/ Die \/ UNCHANGED changesVars
        BY <2>6 DEF Decide, Defer, HookFails, Die, changesVars, vars, corpus
    <2> QED
        BY <2>1, <2>2, <2>3, <2>4, <2>5, <2>6 DEF NextChanges
<1> QED
    BY <1>1, <1>2, <1>3, AllMappedStep DEF TablesInv

\* No version is left without a release point that carries it, unless one program
\* took a release point over from the other.
THEOREM EveryVersionMapped == SpecChanges => []EveryVersionIsMapped
<1>1. InitChanges => MappedInv
    BY DEF InitChanges, Init, MappedInv, AllMapped
<1>2. MappedInv => EveryVersionIsMapped
    BY DEF MappedInv, AllMapped, EveryVersionIsMapped
<1>3. SpecChanges => []TablesInv
    BY HooksFollowALoad, TablesCorrect, PTL
<1> QED
    BY <1>1, <1>2, <1>3, MappedStep, PTL DEF SpecChanges

-----------------------------------------------------------------------------
(***************************************************************************)
(* Snapshots: what a section's rows were computed from                     *)
(***************************************************************************)

\* A snapshot has the versions of the section (`grp`), and of each its id, the
\* first and last release point it was at, and the load that a window without a
\* version to depart from would depart from (`start`). The order of the groups
\* and their rows follow from it as `Change` follows from the tables.
Ahead(z, v, w) ==
    \/ z.first[v] < z.first[w]
    \/ z.first[v] = z.first[w] /\ z.id[v] < z.id[w]

\* No group is after this one.
IsLast(z, v) == \A w \in z.grp : w = v \/ Ahead(z, w, v)

From(z, v) ==
    {d \in z.grp : /\ Ahead(z, d, v)
                   /\ \A w \in z.grp : Ahead(z, w, v) => w = d \/ Ahead(z, w, d)}

Overlaps(z, v, d) ==
    \/ z.last[d] >= z.first[v]
    \/ \E o \in z.grp \ {v, d} :
          z.first[o] <= z.first[v] /\ z.last[o] >= z.last[d]

RowIn(z, v) ==
    [to |-> v, from |-> From(z, v), windowTo |-> z.first[v],
     windowFrom |-> IF From(z, v) = {} THEN z.start[v]
                    ELSE Max({z.last[d] : d \in From(z, v)}),
     concurrent |-> \E d \in From(z, v) : Overlaps(z, v, d)]

RowsIn(z) == {RowIn(z, v) : v \in z.grp}

Ordered(z) ==
    /\ \A v \in z.grp : z.first[v] \in Nat /\ z.id[v] \in Nat
    /\ \A v, w \in z.grp : z.id[v] = z.id[w] => v = w

\* The groups never tie.
LEMMA AheadIsAnOrder ==
    ASSUME NEW z, Ordered(z)
    PROVE  /\ \A v, w \in z.grp : v = w \/ Ahead(z, v, w) \/ Ahead(z, w, v)
           /\ \A v, w \in z.grp : ~(Ahead(z, v, w) /\ Ahead(z, w, v))
           /\ \A u, v, w \in z.grp : Ahead(z, u, v) /\ Ahead(z, v, w) => Ahead(z, u, w)
BY DEF Ordered, Ahead

\* Of some groups one comes first.
LEMMA EarliestIn ==
    ASSUME NEW z, Ordered(z), NEW G \in SUBSET z.grp, G # {}
    PROVE  \E m \in G : \A w \in G : w = m \/ Ahead(z, m, w)
<1> DEFINE seqs == {z.first[v] : v \in G}
<1>1. seqs \in SUBSET Nat /\ seqs # {}
    BY DEF Ordered
<1>2. PICK n \in seqs : \A x \in seqs : n <= x
    <2> HIDE DEF seqs
    <2> QED
        BY <1>1, OldestExists
<1> DEFINE tied == {v \in G : z.first[v] = n}
           ids  == {z.id[v] : v \in tied}
<1>3. ids \in SUBSET Nat /\ ids # {}
    BY <1>2 DEF Ordered
<1>4. PICK i \in ids : \A x \in ids : i <= x
    <2> HIDE DEF ids
    <2> QED
        BY <1>3, OldestExists
<1>5. PICK m \in tied : z.id[m] = i
    BY <1>4
<1>6. ASSUME NEW w \in G, w # m PROVE Ahead(z, m, w)
    <2>1. z.first[w] \in Nat /\ n <= z.first[w] /\ z.first[m] = n
        BY <1>2, <1>5 DEF Ordered
    <2>2. CASE z.first[w] = n
        <3>1. i <= z.id[w]
            BY <1>4, <2>2
        <3>2. z.id[w] # i /\ z.id[w] \in Nat /\ i \in Nat
            BY <1>5, <1>6 DEF Ordered
        <3> QED
            BY <1>5, <2>1, <2>2, <3>1, <3>2 DEF Ahead
    <2>3. CASE z.first[w] # n
        <3>1. n \in Nat /\ n < z.first[w]
            BY <1>1, <2>1, <2>3
        <3> QED
            BY <2>1, <3>1 DEF Ahead
    <2> QED
        BY <2>2, <2>3
<1> QED
    BY <1>5, <1>6

\* Every group but the last is departed from.
LEMMA LastIsNotDepartedFrom ==
    ASSUME NEW z, Ordered(z), NEW v \in z.grp
    PROVE  IsLast(z, v) <=> \A w \in z.grp : v \notin From(z, w)
<1>1. ASSUME IsLast(z, v), NEW w \in z.grp, v \in From(z, w) PROVE FALSE
    BY <1>1, AheadIsAnOrder DEF IsLast, From
<1>2. ASSUME ~IsLast(z, v) PROVE \E w \in z.grp : v \in From(z, w)
    <2> DEFINE after == {w \in z.grp : Ahead(z, v, w)}
    <2>1. after # {}
        BY <1>2, AheadIsAnOrder DEF IsLast
    <2>2. PICK m \in after : \A w \in after : w = m \/ Ahead(z, m, w)
        BY <2>1, EarliestIn
    <2>3. ASSUME NEW u \in z.grp, Ahead(z, u, m) PROVE u = v \/ Ahead(z, u, v)
        BY <2>2, <2>3, AheadIsAnOrder
    <2> QED
        BY <2>2, <2>3 DEF From
<1> QED
    BY <1>1, <1>2

-----------------------------------------------------------------------------
(***************************************************************************)
(* The order of a section's groups                                         *)
(***************************************************************************)

\* Every version row has an id.
SerialInv ==
    /\ serial \in Seq(Version)
    /\ \A v \in versions \cup newVersions : \E i \in DOMAIN serial : serial[i] = v

LEMMA FirstSeqType ==
    ASSUME TypeOK, NEW v \in versions
    PROVE  FirstSeq(v) \in Release /\ FirstSeq(v) \in Nat
<1>1. Span(v) # {} /\ Span(v) \subseteq Release
    BY DEF Span, TypeOK, Version
<1>2. Span(v) \in SUBSET Nat
    BY <1>1, ReleaseAssumption
<1>3. FirstSeq(v) \in Span(v)
    BY <1>1, <1>2, MinIsOldest DEF FirstSeq
<1> QED
    BY <1>1, <1>2, <1>3

LEMMA IdIs ==
    ASSUME SerialInv, NEW v \in versions
    PROVE  IdOf(v) \in 1..Len(serial) /\ serial[IdOf(v)] = v
<1>1. DOMAIN serial = 1..Len(serial)
    BY DEF SerialInv
<1>2. \E i \in DOMAIN serial : serial[i] = v
    BY DEF SerialInv
<1>3. IdOf(v) \in DOMAIN serial /\ serial[IdOf(v)] = v
    BY <1>2 DEF IdOf
<1> QED
    BY <1>1, <1>3

\* Release point, then id: versions of a section never tie.
LEMMA BeforeIsAnOrder ==
    ASSUME TypeOK, SerialInv
    PROVE  /\ \A v, w \in versions : v = w \/ Before(v, w) \/ Before(w, v)
           /\ \A v, w \in versions : ~(Before(v, w) /\ Before(w, v))
           /\ \A u, v, w \in versions : Before(u, v) /\ Before(v, w) => Before(u, w)
<1>1. \A v \in versions : FirstSeq(v) \in Nat
    BY FirstSeqType
<1>2. \A v \in versions : IdOf(v) \in Nat
    BY IdIs
<1>3. \A v, w \in versions : IdOf(v) = IdOf(w) => v = w
    BY IdIs
<1> QED
    BY <1>1, <1>2, <1>3 DEF Before

\* Of some versions one is before all others.
LEMMA EarliestExists ==
    ASSUME TypeOK, SerialInv, NEW G \in SUBSET versions, G # {}
    PROVE  \E m \in G : \A w \in G : w = m \/ Before(m, w)
<1> DEFINE z == [grp |-> versions, first |-> [v \in versions |-> FirstSeq(v)],
                 id |-> [v \in versions |-> IdOf(v)]]
<1>1. Ordered(z)
    BY FirstSeqType, IdIs DEF Ordered
<1>2. \A v, w \in versions : Ahead(z, v, w) <=> Before(v, w)
    BY DEF Ahead, Before
<1>3. z.grp = versions
    OBVIOUS
<1> HIDE DEF z
<1> QED
    BY <1>1, <1>2, <1>3, EarliestIn

\* Of the versions before one, one is after all others.
LEMMA LatestExists ==
    ASSUME TypeOK, SerialInv, NEW G \in SUBSET versions, G # {},
           NEW v \in versions, \A w \in G : Before(w, v)
    PROVE  \E d \in G : \A w \in G : w = d \/ Before(w, d)
<1> DEFINE seqs == {FirstSeq(w) : w \in G}
<1>1. seqs \in SUBSET Nat /\ seqs # {} /\ FirstSeq(v) \in Nat
    BY FirstSeqType
<1>2. \A x \in seqs : x <= FirstSeq(v)
    BY FirstSeqType DEF Before
<1>3. PICK n \in seqs : \A x \in seqs : x <= n
    <2> HIDE DEF seqs
    <2> QED
        BY <1>1, <1>2, NewestExists
<1> DEFINE tied == {w \in G : FirstSeq(w) = n}
           ids  == {IdOf(w) : w \in tied}
<1>4. ids \in SUBSET Nat /\ ids # {} /\ Len(serial) \in Nat
    <2>1. \A w \in tied : IdOf(w) \in Nat
        BY IdIs
    <2>2. tied # {}
        BY <1>3
    <2> QED
        BY <2>1, <2>2 DEF SerialInv
<1>5. \A x \in ids : x <= Len(serial)
    BY IdIs, <1>4
<1>6. PICK i \in ids : \A x \in ids : x <= i
    <2> HIDE DEF ids
    <2> QED
        BY <1>4, <1>5, NewestExists
<1>7. PICK d \in tied : IdOf(d) = i
    BY <1>6
<1>8. ASSUME NEW w \in G, w # d PROVE Before(w, d)
    <2>1. FirstSeq(w) \in Nat /\ FirstSeq(w) <= n /\ FirstSeq(d) = n
        BY <1>3, <1>7, FirstSeqType
    <2>2. CASE FirstSeq(w) = n
        <3>1. IdOf(w) <= i
            BY <1>6, <2>2
        <3>2. IdOf(w) # i /\ IdOf(w) \in Nat /\ i \in Nat
            BY <1>7, <1>8, IdIs
        <3> QED
            BY <1>7, <2>1, <2>2, <3>1, <3>2 DEF Before
    <2>3. CASE FirstSeq(w) # n
        <3>1. n \in Nat /\ FirstSeq(w) < n
            BY <1>1, <2>1, <2>3
        <3> QED
            BY <2>1, <3>1 DEF Before
    <2> QED
        BY <2>2, <2>3
<1> QED
    BY <1>7, <1>8

-----------------------------------------------------------------------------
(***************************************************************************)
(* The rows of a section read as one history                               *)
(***************************************************************************)

Earlier(v) == {w \in Groups(v.sec) : Before(w, v)}

\* A version departs from the latest of the ones before it, and from none when
\* there is none.
LEMMA DepartingIs ==
    ASSUME TypeOK, SerialInv, NEW v \in versions
    PROVE  /\ Departing(v) \subseteq Earlier(v)
           /\ \A d, e \in Departing(v) : d = e
           /\ Departing(v) = {} <=> Earlier(v) = {}
           /\ \A d \in Departing(v), w \in Earlier(v) : w = d \/ Before(w, d)
<1>1. /\ Departing(v) \subseteq Earlier(v) /\ Earlier(v) \subseteq versions
      /\ \A d \in Departing(v), w \in Earlier(v) : w = d \/ Before(w, d)
    BY DEF Departing, Earlier, Groups
<1>2. \A d, e \in Departing(v) : d = e
    BY <1>1, BeforeIsAnOrder
<1>3. ASSUME Earlier(v) # {} PROVE Departing(v) # {}
    <2>1. PICK d \in Earlier(v) : \A w \in Earlier(v) : w = d \/ Before(w, d)
        <3>1. \A w \in Earlier(v) : Before(w, v)
            BY DEF Earlier
        <3> QED
            BY <1>1, <1>3, <3>1, LatestExists
    <2>2. d \in Departing(v)
        BY <2>1 DEF Departing, Earlier
    <2> QED
        BY <2>2
<1> QED
    BY <1>1, <1>2, <1>3

IsChain(rows) ==
    /\ \E first \in rows : \A c \in rows : c.from = {} <=> c = first
    /\ \A c, d \in rows : c # d => c.from # d.from /\ c.to # d.to
    /\ \A c \in rows : c.from \subseteq {d.to : d \in rows}

\* What is computed of a section's tables is a chain.
LEMMA ComputedIsAChain ==
    ASSUME TypeOK, SerialInv, NEW s, Computed(s) # {}
    PROVE  IsChain(Computed(s))
<1> DEFINE G == Groups(s)
<1>1. G \subseteq versions /\ G # {} /\ \A v \in G : Groups(v.sec) = G
    BY DEF Computed, Groups
<1>2. \A v \in G : Change(v).to = v /\ Change(v).from = Departing(v)
    BY DEF Change
<1>3. \A c \in Computed(s) : \E v \in G : c = Change(v)
    BY DEF Computed
<1>4. \A v \in G : Change(v) \in Computed(s)
    BY DEF Computed
<1>5. \A v \in G : Earlier(v) = {w \in G : Before(w, v)}
    BY <1>1 DEF Earlier
<1> HIDE DEF G
<1>6. \E first \in Computed(s) : \A c \in Computed(s) : c.from = {} <=> c = first
    <2>1. PICK m \in G : \A w \in G : w = m \/ Before(m, w)
        BY <1>1, EarliestExists
    <2>2. ASSUME NEW v \in G PROVE Departing(v) = {} <=> v = m
        <3>1. ASSUME v = m PROVE Earlier(v) = {}
            BY <1>1, <1>5, <2>1, <3>1, BeforeIsAnOrder
        <3>2. ASSUME v # m PROVE m \in Earlier(v)
            BY <1>5, <2>1, <3>2
        <3> QED
            BY <1>1, <3>1, <3>2, DepartingIs
    <2>3. \A c \in Computed(s) : c.from = {} <=> c = Change(m)
        BY <1>2, <1>3, <2>2
    <2> QED
        BY <1>4, <2>3
<1>7. ASSUME NEW v \in G, NEW w \in G, Before(w, v)
      PROVE  Departing(v) # Departing(w)
    \* Both would depart from one version, which `w` is not after.
    <2>1. w \in Earlier(v)
        BY <1>5, <1>7
    <2>2. PICK d \in Departing(v) : w = d \/ Before(w, d)
        BY <1>1, <2>1, DepartingIs
    <2>3. \A e \in Departing(w) : Before(e, w) /\ e \in versions
        BY <1>1, <1>5, DepartingIs
    <2> QED
        BY <1>1, <2>2, <2>3, BeforeIsAnOrder
<1>8. ASSUME NEW c \in Computed(s), NEW d \in Computed(s), c # d
      PROVE  c.from # d.from /\ c.to # d.to
    <2>1. PICK v \in G, w \in G : c = Change(v) /\ d = Change(w)
        BY <1>3
    <2>2. v # w
        BY <1>8, <2>1
    <2> QED
        BY <1>1, <1>2, <1>7, <2>1, <2>2, BeforeIsAnOrder
<1>9. ASSUME NEW c \in Computed(s) PROVE c.from \subseteq {d.to : d \in Computed(s)}
    <2>1. PICK v \in G : c.from = Departing(v)
        BY <1>2, <1>3
    <2>2. Departing(v) \subseteq G
        BY <1>1, <1>5, DepartingIs
    <2>3. ASSUME NEW w \in c.from PROVE w \in {d.to : d \in Computed(s)}
        BY <1>2, <1>4, <2>1, <2>2
    <2> QED
        BY <2>3
<1> QED
    BY <1>6, <1>8, <1>9 DEF IsChain

-----------------------------------------------------------------------------
(***************************************************************************)
(* The invariant                                                           *)
(***************************************************************************)

\* The tables and the open transaction map only versions that are there.
MapsInv ==
    /\ \A r \in Release : releaseMap[r] \subseteq versions
    /\ newMaps \subseteq versions \cup newVersions

\* What a load remembers for its hook.
LoadInv ==
    /\ deferred \in BOOLEAN /\ newest \in BOOLEAN
    /\ mapped \subseteq versions \cup newVersions
    /\ grown \subseteq SectionsOf(mapped)
    /\ history \subseteq Events

\* A hook runs after its load, and before the next.
HookInv ==
    /\ hook \in {"none", "decide", "compute"}
    /\ hook # "none" => pc = "idle" /\ loaded \in complete
    /\ hook = "none" => loaded = NoRelease
    /\ left \subseteq need
    /\ left # {} <=> hook = "compute"

\* The rows are of stored versions, and a section's are a chain.
RowOK(c) ==
    c.to \in versions /\ c.from \subseteq versions /\ c.windowTo \in Release

RowsInv ==
    /\ DOMAIN changes = Section
    /\ \A s \in Section : \A c \in changes[s] : RowOK(c)
    /\ \A s \in Section : changes[s] # {} => IsChain(changes[s])

ChangesInv ==
    /\ SerialInv
    /\ MapsInv
    /\ LoadInv
    /\ HookInv
    /\ RowsInv

\* Nothing has been loaded.
LEMMA ChangesInit == InitChanges => ChangesInv
<1> SUFFICES ASSUME InitChanges PROVE ChangesInv
    OBVIOUS
<1> USE DEF InitChanges, Init
<1>1. SerialInv /\ MapsInv
    BY DEF SerialInv, MapsInv
<1>2. LoadInv /\ HookInv
    BY DEF LoadInv, HookInv, SectionsOf
<1>3. RowsInv
    BY DEF RowsInv
<1> QED
    BY <1>1, <1>2, <1>3 DEF ChangesInv

\* A row that is computed is of stored versions.
LEMMA ComputedRows ==
    ASSUME TypeOK, NEW s, NEW c \in Computed(s)
    PROVE  RowOK(c)
<1>1. PICK v \in versions : c = Change(v)
    BY DEF Computed, Groups
<1>2. c.to = v /\ c.from = Departing(v) /\ c.windowTo = FirstSeq(v)
    BY <1>1 DEF Change
<1>3. Departing(v) \subseteq versions
    BY DEF Departing, Groups
<1> QED
    BY <1>2, <1>3, FirstSeqType DEF RowOK

\* A section is recomputed, or not.
LEMMA RowsRecomputed ==
    ASSUME TypeOK, ChangesInv, NEW s \in Section, versions' = versions,
           changes' = [changes EXCEPT ![s] = Computed(s)]
    PROVE  RowsInv'
<1>1. /\ DOMAIN changes' = Section
      /\ \A t \in Section : changes'[t] = changes[t] \/ changes'[t] = Computed(t)
    BY DEF ChangesInv, RowsInv
<1>2. \A t \in Section : \A c \in changes'[t] : RowOK(c)'
    BY <1>1, ComputedRows DEF ChangesInv, RowsInv, RowOK
<1>3. \A t \in Section : changes'[t] # {} => IsChain(changes'[t])
    BY <1>1, ComputedIsAChain DEF ChangesInv, RowsInv
<1> QED
    BY <1>1, <1>2, <1>3 DEF RowsInv

\* Rows are deleted by whole sections.
LEMMA RowsCleared ==
    ASSUME ChangesInv, versions \subseteq versions',
           changes' = changes \/ \E sections : changes' = Cleared(sections)
    PROVE  RowsInv'
<1>1. /\ DOMAIN changes' = Section
      /\ \A t \in Section : changes'[t] = changes[t] \/ changes'[t] = {}
    BY DEF ChangesInv, RowsInv, Cleared
<1>2. \A t \in Section : \A c \in changes'[t] : RowOK(c)'
    BY <1>1 DEF ChangesInv, RowsInv, RowOK
<1>3. \A t \in Section : changes'[t] # {} => IsChain(changes'[t])
    BY <1>1 DEF ChangesInv, RowsInv
<1> QED
    BY <1>1, <1>2, <1>3 DEF RowsInv

-----------------------------------------------------------------------------
(***************************************************************************)
(* Every step keeps it                                                     *)
(***************************************************************************)

\* A load begins when no hook runs, with what it carries over from its base.
LEMMA BeginKeeps ==
    ASSUME TablesInv, ChangesInv, Begin
    PROVE  ChangesInv'
<1> USE DEF ChangesInv
<1>1. /\ versions' = versions /\ newVersions' = {}
      /\ \A r \in Release : releaseMap'[r] \subseteq releaseMap[r]
      /\ newMaps' = {} \/ \E b \in Release : newMaps' \subseteq releaseMap[b]
    BY DEF Begin, BeginLoad, BeginUpdate, PlacementsUnderFile, PlacementsUnderUpdate,
           Carried, TablesInv, TypeOK
<1>2. SerialInv'
    BY <1>1 DEF Begin, SerialInv
<1>3. MapsInv'
    BY <1>1 DEF MapsInv
<1>4. LoadInv'
    <2>1. history' \subseteq Events
        BY DEF Begin, LoadInv, Events
    <2>2. mapped' \subseteq versions' \cup newVersions' /\ grown' \subseteq SectionsOf(mapped')
        BY <1>3 DEF Begin, MapsInv
    <2>3. deferred' \in BOOLEAN /\ newest' \in BOOLEAN
        BY ChangesBoundsAssumption DEF Begin
    <2> QED
        BY <2>1, <2>2, <2>3 DEF LoadInv
<1>5. HookInv'
    BY DEF Begin, HookInv, hooks
<1>6. RowsInv'
    BY <1>1, RowsCleared DEF Begin
<1> QED
    BY <1>2, <1>3, <1>4, <1>5, <1>6

\* A version row that is created gets the next id, and is mapped.
LEMMA StoreKeeps ==
    ASSUME TablesInv, ChangesInv, NEW e \in Element, Store(e)
    PROVE  ChangesInv'
<1> USE DEF ChangesInv
<1>1. UNCHANGED <<versions, releaseMap, complete, pc, rel, changes, hook, loaded, need, left>>
    BY DEF Store, StoreElement, corpus, hooks
<1>2. HookInv' /\ RowsInv'
    BY <1>1, RowsCleared DEF HookInv
<1>3. UNCHANGED <<deferred, newest, history>> /\ mapped' = mapped \cup newMaps'
    BY DEF Store
<1>4. CASE newVersions' = newVersions
    <2>1. serial' = serial /\ grown' = grown
        BY <1>4 DEF Store
    <2>2. newMaps' \subseteq versions \cup newVersions
        BY <1>4 DEF Store, StoreElement, Known, MapsInv
    <2>3. SerialInv' /\ MapsInv'
        BY <1>1, <1>4, <2>1, <2>2 DEF SerialInv, MapsInv
    <2>4. LoadInv'
        BY <1>1, <1>3, <1>4, <2>1, <2>2 DEF LoadInv, SectionsOf
    <2> QED
        BY <1>2, <2>3, <2>4
<1>5. CASE newVersions' # newVersions
    <2>1. PICK v : /\ v = [sec |-> e.sec, text |-> e.text, first |-> rel]
                   /\ newVersions' = newVersions \cup {v}
                   /\ newMaps' = newMaps \cup {v}
        BY <1>5 DEF Store, StoreElement
    <2>2. serial' = Append(serial, v) /\ grown' = grown \cup {e.sec}
        BY <1>5, <2>1 DEF Store
    <2>3. v \in Version /\ v.sec = e.sec
        <3>1. rel \in Release
            BY DEF Store, StoreElement, TablesInv, TypeOK
        <3> QED
            BY <2>1, <3>1 DEF Version, Element
    <2>4. SerialInv'
        <3>1. serial' \in Seq(Version) /\ serial'[Len(serial) + 1] = v
            BY <2>2, <2>3 DEF SerialInv
        <3>2. Len(serial) + 1 \in DOMAIN serial'
            BY <2>2, <2>3 DEF SerialInv
        <3>3. \A i \in DOMAIN serial : i \in DOMAIN serial' /\ serial'[i] = serial[i]
            BY <2>2, <2>3 DEF SerialInv
        <3> QED
            BY <1>1, <2>1, <3>1, <3>2, <3>3 DEF SerialInv
    <2>5. MapsInv'
        BY <1>1, <2>1 DEF MapsInv
    <2>6. LoadInv'
        <3>1. mapped' \subseteq versions' \cup newVersions'
            BY <1>1, <1>3, <2>1 DEF LoadInv, MapsInv
        <3>2. grown' \subseteq SectionsOf(mapped')
            BY <1>3, <2>1, <2>2, <2>3 DEF LoadInv, SectionsOf
        <3> QED
            BY <1>3, <3>1, <3>2 DEF LoadInv
    <2> QED
        BY <1>2, <2>4, <2>5, <2>6
<1> QED
    BY <1>4, <1>5

\* A commit moves rows to the tables; the last one starts the hook.
LEMMA CommitKeeps ==
    ASSUME TablesInv, ChangesInv, Batch \/ Complete
    PROVE  ChangesInv'
<1> USE DEF ChangesInv
<1>1. /\ CommitRows /\ newVersions' = {} /\ newMaps' = {} /\ rel \in Release
      /\ UNCHANGED <<serial, changes, load, need, left>>
      /\ history' \subseteq history \cup Events
    BY DEF Batch, Complete, CommitBatch, Finish, EndSession, hooks, Events, TablesInv, TypeOK
<1>2. versions' = versions \cup newVersions
    BY <1>1 DEF CommitRows
<1>3. SerialInv' /\ LoadInv' /\ RowsInv'
    BY <1>1, <1>2, RowsCleared DEF SerialInv, LoadInv, load
<1>4. MapsInv'
    BY <1>1, <1>2 DEF MapsInv, CommitRows, TablesInv, TypeOK
<1>5. HookInv'
    BY DEF HookInv, Batch, Complete, CommitBatch, Finish, EndSession, hooks
<1> QED
    BY <1>3, <1>4, <1>5

\* What the lost transaction had stored is the end of the ids.
LEMMA AbandonKeeps ==
    ASSUME TablesInv, ChangesInv, Abandon
    PROVE  ChangesInv'
<1> USE DEF ChangesInv
<1>1. /\ UNCHANGED <<versions, releaseMap, complete, changes, hooks, history>>
      /\ newVersions' = {} /\ newMaps' = {} /\ mapped' = {} /\ grown' = {}
      /\ pc' = "idle" /\ deferred' = FALSE /\ newest' = FALSE
    BY DEF Abandon, Interrupt, EndSession, corpus
<1>2. SerialInv'
    <2> DEFINE stored == {i \in DOMAIN serial : serial[i] \in versions} \cup {0}
               last   == Max(stored)
    <2>1. /\ stored \in SUBSET Nat /\ stored # {} /\ Len(serial) \in Nat
          /\ \A i \in stored : i <= Len(serial)
        BY DEF SerialInv
    <2>2. last \in stored /\ \A i \in stored : i <= last
        <3> HIDE DEF stored
        <3> QED
            BY <2>1, MaxIsNewest
    <2>3. serial' = SubSeq(serial, 1, last)
        BY DEF Abandon
    <2>4. last \in Nat /\ last <= Len(serial)
        BY <2>1, <2>2
    <2> HIDE DEF last
    <2>5. /\ serial' \in Seq(Version) /\ Len(serial') = last
          /\ \A i \in 1..last : serial'[i] = serial[i]
        BY <2>3, <2>4 DEF SerialInv
    <2>6. ASSUME NEW v \in versions PROVE \E i \in DOMAIN serial' : serial'[i] = v
        <3>1. PICK i \in DOMAIN serial : serial[i] = v
            BY DEF SerialInv
        <3>2. i \in 1..last
            BY <2>2, <2>4, <3>1 DEF SerialInv
        <3> QED
            BY <2>5, <3>1, <3>2
    <2> QED
        BY <1>1, <2>5, <2>6 DEF SerialInv
<1>3. MapsInv' /\ LoadInv' /\ HookInv'
    BY <1>1 DEF MapsInv, LoadInv, HookInv, hooks, SectionsOf
<1>4. RowsInv'
    BY <1>1, RowsCleared
<1> QED
    BY <1>2, <1>3, <1>4

\* The hooks and the repair touch nothing but the rows.
LEMMA HookKeeps ==
    ASSUME TablesInv, ChangesInv,
           \/ Decide \/ Defer \/ HookFails \/ Die
           \/ \E s \in Section : ComputeBatch(s) \/ Repair(s)
           \/ UNCHANGED changesVars
    PROVE  ChangesInv'
<1> USE DEF ChangesInv
<1>1. /\ UNCHANGED <<versions, newVersions, releaseMap, newMaps, complete, pc, serial>>
    BY DEF Decide, Defer, HookFails, Die, ComputeBatch, Repair, changesVars, vars,
           corpus, loader
<1>2. SerialInv' /\ MapsInv'
    BY <1>1 DEF SerialInv, MapsInv
<1>3. LoadInv'
    <2>1. \/ UNCHANGED load
          \/ mapped' = {} /\ grown' = {} /\ deferred' = FALSE /\ newest' = FALSE
        BY DEF Decide, Defer, HookFails, Die, ComputeBatch, Repair, changesVars, EndHook
    <2>2. history' \subseteq history \cup Events
        BY DEF Decide, Defer, HookFails, Die, ComputeBatch, Repair, changesVars, Events
    <2> QED
        BY <1>1, <2>1, <2>2 DEF LoadInv, load, SectionsOf
<1>4. HookInv'
    BY <1>1 DEF HookInv, Decide, Defer, HookFails, Die, ComputeBatch, Repair,
                changesVars, EndHook, hooks
<1>5. RowsInv'
    <2>1. CASE changes' = changes \/ \E sections : changes' = Cleared(sections)
        BY <1>1, <2>1, RowsCleared
    <2>2. CASE \E s \in Section : changes' = [changes EXCEPT ![s] = Computed(s)]
        BY <1>1, <2>2, RowsRecomputed DEF TablesInv
    <2> QED
        BY <2>1, <2>2
           DEF Decide, Defer, HookFails, Die, ComputeBatch, Repair, changesVars
<1> QED
    BY <1>2, <1>3, <1>4, <1>5

\* The invariant is inductive.
LEMMA ChangesInvStep ==
    TablesInv /\ ChangesInv /\ [NextChanges]_changesVars => ChangesInv'
BY BeginKeeps, StoreKeeps, CommitKeeps, AbandonKeeps, HookKeeps DEF NextChanges

THEOREM ChangesInvariant == SpecChanges => []ChangesInv
<1>1. SpecChanges => []TablesInv
    BY HooksFollowALoad, TablesCorrect, PTL
<1> QED
    BY <1>1, ChangesInit, ChangesInvStep, PTL DEF SpecChanges

-----------------------------------------------------------------------------

\* The rows, and what a load tells its hook, are well typed, and what a load or
\* hook that has ended remembered is reset.
THEOREM ChangesTypeCorrect == SpecChanges => []ChangesTypeOK
<1>1. TypeOK /\ ChangesInv => ChangesTypeOK
    BY DEF ChangesInv, SerialInv, LoadInv, HookInv, RowsInv, RowOK, ChangesTypeOK
<1>2. SpecChanges => []TypeOK
    BY HooksFollowALoad, TypeCorrect, PTL
<1> QED
    BY <1>1, <1>2, ChangesInvariant, PTL

\* Whatever dies or fails between a load and the end of its hook, the rows of a
\* section read as one history: no version departs from two, none is departed
\* from by two, and one came first.
THEOREM TimelineChains == SpecChanges => []TimelineIsAChain
<1>1. ChangesInv => TimelineIsAChain
    BY DEF ChangesInv, RowsInv, TimelineIsAChain, IsChain
<1> QED
    BY <1>1, ChangesInvariant, PTL

-----------------------------------------------------------------------------
(***************************************************************************)
(* Rows that a snapshot vouches for                                        *)
(***************************************************************************)

\* Ids stay with their rows: those of stored versions come before those of the
\* open transaction, and no version has two.
IdsInv ==
    /\ \A i, j \in DOMAIN serial : serial[i] = serial[j] => i = j
    /\ \A i \in DOMAIN serial : serial[i] \in versions \cup newVersions
    /\ \A i, j \in DOMAIN serial :
          i < j /\ serial[j] \in versions => serial[i] \in versions

\* Finitely many release points have been begun.
RowBound == \E n \in Nat : \A r \in Release : row[r] # "absent" => r <= n

\* The load of `C` that a window departs from which has no version to.
StartsAt(C, r, w) ==
    IF \E b \in C : b < r
    THEN w \in C /\ w < r /\ \A b \in C : b < r => b <= w
    ELSE w = NoRelease

\* The snapshot is of stored versions that were, and still are, where it has them.
Grounded(z, v) ==
    /\ z.id[v] \in DOMAIN serial /\ serial[z.id[v]] = v
    /\ z.first[v] \in Release /\ z.last[v] \in Release /\ z.first[v] <= z.last[v]
    /\ v \in releaseMap[z.first[v]] /\ v \in releaseMap[z.last[v]]
    /\ z.start[v] # NoRelease => z.start[v] \in Release /\ releaseMap[z.start[v]] # {}
    /\ z.start[v] < z.first[v]

\* No load of `C` moves a window: it carries the version in the range the snapshot
\* has, or above the range of the last, which no window reads.
Spans(z, v, C) ==
    \A q \in C : v \in releaseMap[q] =>
        z.first[v] <= q /\ (q <= z.last[v] \/ IsLast(z, v))

\* Nor does it come between a first group and the load its window departs from,
\* when these are loads of `C` themselves.
Starts(z, v, C) ==
    z.first[v] \in C /\ z.start[v] \in C \cup {NoRelease} =>
        StartsAt(C, z.first[v], z.start[v])

Stands(z, s, C) ==
    /\ z.grp \subseteq Groups(s)
    /\ \A v \in z.grp : Grounded(z, v) /\ Spans(z, v, C) /\ Starts(z, v, C)

LEMMA LatestLoadIs ==
    ASSUME TypeOK, NEW r \in Release, NEW w
    PROVE  StartsAt(complete, r, w) <=> w = LatestLoadBefore(r)
<1>1. /\ complete \subseteq Nat /\ r \in Nat
      /\ LoadedBelow(r) \in SUBSET Nat /\ \A x \in LoadedBelow(r) : x <= r
    <2>1. complete \subseteq Nat /\ r \in Nat
        BY ReleaseAssumption DEF TypeOK
    <2>2. \A x \in LoadedBelow(r) : x \in complete /\ x < r
        BY DEF LoadedBelow
    <2>3. ASSUME NEW x \in LoadedBelow(r) PROVE x \in Nat /\ x <= r
        <3>1. x \in Nat /\ x < r
            BY <2>1, <2>2
        <3> QED
            BY <2>1, <3>1
    <2>4. LoadedBelow(r) \in SUBSET Nat
        BY <2>3
    <2> QED
        BY <2>1, <2>3, <2>4
<1>2. CASE LoadedBelow(r) = {}
    BY <1>2 DEF LoadedBelow, LatestLoadBefore, StartsAt
<1>3. CASE LoadedBelow(r) # {}
    <2>1. /\ Max(LoadedBelow(r)) \in LoadedBelow(r)
          /\ \A x \in LoadedBelow(r) : x <= Max(LoadedBelow(r))
        BY <1>1, <1>3, MaxIsNewest
    <2>2. StartsAt(complete, r, w) <=>
             w \in LoadedBelow(r) /\ \A x \in LoadedBelow(r) : x <= w
        BY <1>3 DEF LoadedBelow, StartsAt
    <2>3. \A x, y \in LoadedBelow(r) : x <= y /\ y <= x => x = y
        BY <1>1
    <2> QED
        BY <1>3, <2>1, <2>2, <2>3 DEF LatestLoadBefore
<1> QED
    BY <1>2, <1>3

\* The range of a version that is mapped.
LEMMA SpanIs ==
    ASSUME TypeOK, AbsentIsEmpty, RowBound, NEW v \in versions,
           \E r \in Release : v \in releaseMap[r]
    PROVE  /\ Span(v) = {r \in Release : v \in releaseMap[r]}
           /\ FirstSeq(v) \in Span(v) /\ LastSeq(v) \in Span(v)
           /\ \A r \in Span(v) : FirstSeq(v) <= r /\ r <= LastSeq(v)
<1>1. Span(v) = {r \in Release : v \in releaseMap[r]} /\ Span(v) # {}
    BY DEF Span
<1>2. Span(v) \in SUBSET Nat
    BY <1>1, ReleaseAssumption
<1>3. PICK n \in Nat : \A r \in Release : row[r] # "absent" => r <= n
    BY DEF RowBound
<1>4. \A r \in Span(v) : r <= n
    BY <1>1, <1>3 DEF AbsentIsEmpty
<1>5. FirstSeq(v) \in Span(v) /\ \A r \in Span(v) : FirstSeq(v) <= r
    BY <1>1, <1>2, MinIsOldest DEF FirstSeq
<1>6. LastSeq(v) \in Span(v) /\ \A r \in Span(v) : r <= LastSeq(v)
    BY <1>1, <1>2, <1>4, MaxIsNewest DEF LastSeq
<1> QED
    BY <1>1, <1>5, <1>6

\* A snapshot that agrees with the tables where a row reads them has their rows.
LEMMA SameRows ==
    ASSUME NEW s, NEW z, z.grp = Groups(s),
           \A v, w \in z.grp : Ahead(z, v, w) <=> Before(v, w),
           \A v \in z.grp : z.first[v] = FirstSeq(v),
           \A v \in z.grp : From(z, v) = {} => z.start[v] = LatestLoadBefore(FirstSeq(v)),
           \A v \in z.grp : \A d \in From(z, v) : z.last[d] = LastSeq(d),
           \A v \in z.grp : \A d \in From(z, v) : Overlaps(z, v, d) <=> Unreliable(v, d)
    PROVE  Computed(s) = RowsIn(z)
<1>1. ASSUME NEW v \in z.grp PROVE Change(v) = RowIn(z, v)
    <2>1. Groups(v.sec) = z.grp
        BY DEF Groups
    <2>2. Departing(v) = From(z, v)
        BY <2>1 DEF Departing, From
    <2>3. {LastSeq(d) : d \in Departing(v)} = {z.last[d] : d \in From(z, v)}
        BY <2>2
    <2>4. (\E d \in Departing(v) : Unreliable(v, d)) = (\E d \in From(z, v) : Overlaps(z, v, d))
        BY <2>2
    <2>5. z.first[v] = FirstSeq(v) /\ (From(z, v) = {} => z.start[v] = LatestLoadBefore(FirstSeq(v)))
        OBVIOUS
    <2> QED
        BY <2>2, <2>3, <2>4, <2>5 DEF Change, RowIn
<1> QED
    BY <1>1 DEF Computed, RowsIn

\* Ids and release points order a snapshot's groups.
LEMMA SnapshotOrdered ==
    ASSUME SerialInv, NEW z, \A v \in z.grp : Grounded(z, v)
    PROVE  Ordered(z)
<1>1. DOMAIN serial \subseteq Nat
    BY DEF SerialInv
<1> QED
    BY <1>1, ReleaseAssumption DEF Ordered, Grounded

\* Every completed load carries something.
Carrying == \A q \in complete : releaseMap[q] # {}

\* What is computed is what a snapshot of this moment vouches for.
LEMMA FreshStands ==
    ASSUME TypeOK, AbsentIsEmpty, SerialInv, RowBound, AllMapped, Carrying, NEW s
    PROVE  \E z : Computed(s) = RowsIn(z) /\ Stands(z, s, complete)
<1> DEFINE z == [grp   |-> Groups(s),
                 id    |-> [v \in versions |-> IdOf(v)],
                 first |-> [v \in versions |-> FirstSeq(v)],
                 last  |-> [v \in versions |-> LastSeq(v)],
                 start |-> [v \in versions |-> LatestLoadBefore(FirstSeq(v))]]
<1>1. /\ z.grp = Groups(s) /\ z.grp \subseteq versions
      /\ \A v \in z.grp : /\ z.id[v] = IdOf(v)
                          /\ z.first[v] = FirstSeq(v) /\ z.last[v] = LastSeq(v)
                          /\ z.start[v] = LatestLoadBefore(FirstSeq(v))
    BY DEF Groups
<1> HIDE DEF z
<1>2. Computed(s) = RowsIn(z)
    <2>1. \A v, w \in z.grp : Ahead(z, v, w) <=> Before(v, w)
        BY <1>1 DEF Ahead, Before
    <2>2. \A v \in z.grp : From(z, v) \subseteq z.grp
        BY DEF From
    <2>3. \A v, d \in z.grp : Overlaps(z, v, d) <=> Unreliable(v, d)
        <3>1. \A v \in z.grp : Groups(v.sec) = z.grp
            BY <1>1 DEF Groups
        <3> QED
            BY <1>1, <3>1 DEF Overlaps, Unreliable
    <2> QED
        BY <1>1, <2>1, <2>2, <2>3, SameRows
<1>3. ASSUME NEW v \in z.grp
      PROVE  Grounded(z, v) /\ Spans(z, v, complete) /\ Starts(z, v, complete)
    <2>1. /\ FirstSeq(v) \in Span(v) /\ LastSeq(v) \in Span(v)
          /\ Span(v) = {r \in Release : v \in releaseMap[r]}
          /\ \A r \in Span(v) : FirstSeq(v) <= r /\ r <= LastSeq(v)
        BY <1>1, SpanIs DEF AllMapped
    <2>2. StartsAt(complete, FirstSeq(v), LatestLoadBefore(FirstSeq(v)))
        BY <2>1, LatestLoadIs
    <2> DEFINE w == LatestLoadBefore(FirstSeq(v))
    <2>3. /\ w # NoRelease => w \in Release /\ releaseMap[w] # {}
          /\ w < FirstSeq(v)
        <3>1. FirstSeq(v) \in Nat
            BY <2>1, ReleaseAssumption
        <3> HIDE DEF w
        <3>2. StartsAt(complete, FirstSeq(v), w)
            BY <2>2 DEF w
        <3> QED
            BY <3>1, <3>2 DEF StartsAt, NoRelease, Carrying, TypeOK
    <2>4. IdOf(v) \in DOMAIN serial /\ serial[IdOf(v)] = v
        BY <1>1, IdIs DEF SerialInv
    <2>5. Grounded(z, v)
        BY <1>1, <2>1, <2>3, <2>4 DEF Grounded
    <2>6. Spans(z, v, complete)
        BY <1>1, <2>1 DEF Spans, TypeOK
    <2>7. Starts(z, v, complete)
        BY <1>1, <2>2 DEF Starts
    <2> QED
        BY <2>5, <2>6, <2>7
<1> QED
    BY <1>1, <1>2, <1>3 DEF Stands

\* A snapshot stands while stored rows stay where they are, and the loads that are
\* accounted for are the same or fewer.
LEMMA StandsStays ==
    ASSUME NEW z, NEW s, NEW C \in SUBSET Release, NEW D \in SUBSET C,
           Stands(z, s, C), versions \subseteq versions',
           \A r \in Release : releaseMap[r] \subseteq releaseMap'[r],
           \A q \in D : releaseMap'[q] = releaseMap[q],
           \A i \in DOMAIN serial : serial[i] \in versions =>
               i \in DOMAIN serial' /\ serial'[i] = serial[i]
    PROVE  Stands(z, s, D)'
<1>1. z.grp \subseteq Groups(s) /\ z.grp \subseteq Groups(s)'
    BY DEF Stands, Groups
<1>2. ASSUME NEW v \in z.grp PROVE (Grounded(z, v) /\ Spans(z, v, D) /\ Starts(z, v, D))'
    <2>1. Grounded(z, v) /\ Spans(z, v, C) /\ Starts(z, v, C) /\ v \in versions
        BY <1>1 DEF Stands, Groups
    <2>2. Grounded(z, v)'
        BY <2>1 DEF Grounded
    <2>3. Spans(z, v, D)'
        BY <2>1 DEF Spans
    <2>4. Starts(z, v, D)'
        <3>1. SUFFICES ASSUME z.first[v] \in D, z.start[v] \in D \cup {NoRelease}
                       PROVE  StartsAt(D, z.first[v], z.start[v])
            BY DEF Starts
        <3>2. StartsAt(C, z.first[v], z.start[v])
            BY <2>1, <3>1 DEF Starts
        <3>3. NoRelease \notin C
            BY ReleaseAssumption DEF NoRelease
        <3> QED
            BY <3>1, <3>2, <3>3 DEF StartsAt
    <2> QED
        BY <2>2, <2>3, <2>4
<1> QED
    BY <1>1, <1>2 DEF Stands

\* The newest load is accounted for when it carries, of the section, nothing but
\* the last version, which was there before it.
LEMMA StandsOver ==
    ASSUME NEW z, NEW s, NEW C \in SUBSET Release, NEW r \in Release, r \notin C,
           \A c \in C : c <= r, Stands(z, s, C),
           \A v \in z.grp : v \in releaseMap[r] => z.first[v] < r /\ IsLast(z, v)
    PROVE  Stands(z, s, C \cup {r})
<1>1. ASSUME NEW v \in z.grp
      PROVE  Grounded(z, v) /\ Spans(z, v, C \cup {r}) /\ Starts(z, v, C \cup {r})
    <2>1. Grounded(z, v) /\ Spans(z, v, C) /\ Starts(z, v, C)
        BY DEF Stands
    <2>2. z.first[v] \in Nat /\ r \in Nat
        BY <2>1, ReleaseAssumption DEF Grounded
    <2>3. Spans(z, v, C \cup {r})
        BY <2>1, <2>2 DEF Spans
    <2>4. Starts(z, v, C \cup {r})
        <3>1. SUFFICES ASSUME z.first[v] \in C \cup {r},
                              z.start[v] \in C \cup {r, NoRelease}
                       PROVE  StartsAt(C \cup {r}, z.first[v], z.start[v])
            BY DEF Starts
        <3>2. z.first[v] # r
            BY <2>1, <2>2 DEF Grounded
        <3>3. z.first[v] \in C /\ z.first[v] < r
            BY <2>2, <3>1, <3>2
        <3>4. z.start[v] # r
            BY <2>1, <2>2, <3>3 DEF Grounded
        <3>5. StartsAt(C, z.first[v], z.start[v])
            BY <2>1, <3>1, <3>3, <3>4 DEF Starts
        <3>6. ~(r < z.first[v])
            BY <2>2, <3>3
        <3> QED
            BY <3>5, <3>6 DEF StartsAt
    <2> QED
        BY <2>1, <2>3, <2>4
<1> QED
    BY <1>1 DEF Stands

\* The hook of the newest load passes over a section only if it need not look at it:
\* what `sections_needing_recompute` leaves out is still vouched for.
LEMMA PassedOver ==
    ASSUME TypeOK, SerialInv, loaded \in complete, \A c \in complete : c <= loaded,
           mapped = releaseMap[loaded], NEW s \in Section,
           s \notin SectionsOf(mapped) \/ s \notin Moved \cup DepartsOn,
           NEW z, changes[s] = RowsIn(z), Stands(z, s, complete \ {loaded})
    PROVE  Stands(z, s, complete)
<1> DEFINE C == complete \ {loaded}
<1>1. Ordered(z) /\ z.grp \subseteq Groups(s)
    BY SnapshotOrdered DEF Stands
<1>2. complete \subseteq Release /\ complete \subseteq Nat /\ loaded \in Release
    BY ReleaseAssumption DEF TypeOK
<1>3. ASSUME NEW v \in z.grp, v \in releaseMap[loaded]
      PROVE  z.first[v] < loaded /\ IsLast(z, v)
    <2>1. v \in mapped /\ v.sec = s /\ s \in SectionsOf(mapped)
        BY <1>1, <1>3 DEF Groups, SectionsOf
    <2>2. s \notin Moved /\ s \notin DepartsOn
        BY <2>1
    <2> DEFINE previous == LatestLoadBefore(loaded)
    <2>3. previous # NoRelease /\ v \in releaseMap[previous]
        <3>1. v \in MappedOf(s)
            BY <2>1 DEF MappedOf
        <3>2. MappedOf(s) = IF previous = NoRelease THEN {}
                            ELSE {u \in releaseMap[previous] : u.sec = s}
            BY <2>1, <2>2 DEF Moved
        <3> QED
            BY <3>1, <3>2
    <2>4. previous \in complete /\ previous < loaded
        <3>1. StartsAt(complete, loaded, previous)
            BY <1>2, LatestLoadIs
        <3> HIDE DEF previous
        <3> QED
            BY <2>3, <3>1 DEF StartsAt
    <2> HIDE DEF previous
    <2>5. z.first[v] <= previous /\ z.first[v] \in Nat
        <3>1. previous \in C
            BY <1>2, <2>4
        <3> QED
            BY <1>1, <2>3, <3>1 DEF Stands, Spans, Ordered
    <2>6. z.first[v] < loaded
        BY <1>2, <2>4, <2>5
    <2>7. ASSUME NEW w \in z.grp PROVE v \notin From(z, w)
        <3>1. RowIn(z, w) \in changes[s] /\ RowIn(z, w).from = From(z, w)
            BY DEF RowsIn, RowIn
        <3> QED
            BY <2>1, <2>2, <3>1 DEF DepartsOn
    <2> QED
        BY <1>1, <2>6, <2>7, LastIsNotDepartedFrom
<1>4. C \cup {loaded} = complete /\ C \in SUBSET Release /\ loaded \notin C
    BY <1>2
<1>5. \A c \in C : c <= loaded
    OBVIOUS
<1>6. Stands(z, s, C)
    OBVIOUS
<1> HIDE DEF C
<1>7. Stands(z, s, C \cup {loaded})
    BY <1>2, <1>3, <1>4, <1>5, <1>6, StandsOver
<1> QED
    BY <1>4, <1>7

\* The stored versions of a section are finitely many: each has its own id.
LEMMA GroupsFinite ==
    ASSUME SerialInv, NEW s
    PROVE  IsFiniteSet(Groups(s))
<1> DEFINE ids == 1..Len(serial)
           rows == {serial[i] : i \in ids}
           f == [i \in ids |-> serial[i]]
<1>1. IsFiniteSet(ids)
    BY FS_Interval DEF SerialInv
<1>2. f \in Surjection(ids, rows)
    BY DEF Surjection
<1>3. IsFiniteSet(rows)
    <2> HIDE DEF ids, rows, f
    <2> QED
        BY <1>1, <1>2, FS_Surjection
<1>4. Groups(s) \in SUBSET rows
    <2>1. ASSUME NEW v \in versions PROVE \E i \in ids : serial[i] = v
        BY DEF SerialInv
    <2> QED
        BY <2>1 DEF Groups
<1> HIDE DEF rows
<1> QED
    BY <1>3, <1>4, FS_Subset

\* A snapshot has as many rows as groups.
LEMMA RowsAreCounted ==
    ASSUME NEW z, IsFiniteSet(z.grp)
    PROVE  Cardinality(RowsIn(z)) = Cardinality(z.grp)
<1> DEFINE f == [v \in z.grp |-> RowIn(z, v)]
<1>1. f \in Surjection(z.grp, RowsIn(z))
    BY DEF Surjection, RowsIn
<1>2. f \in Injection(z.grp, RowsIn(z))
    <2>1. \A v \in z.grp : RowIn(z, v).to = v
        BY DEF RowIn
    <2>2. \A v, w \in z.grp : RowIn(z, v) = RowIn(z, w) => v = w
        BY <2>1
    <2> QED
        BY <1>1, <2>2 DEF Injection, Surjection, IsInjective
<1> HIDE DEF f
<1>3. ExistsBijection(z.grp, RowsIn(z))
    BY <1>1, <1>2 DEF ExistsBijection, Bijection
<1> QED
    BY <1>3, FS_Bijection

\* When every load is complete, a snapshot with a row for every version has the
\* rows of the tables as they are.
LEMMA VouchedIsCurrent ==
    ASSUME TypeOK, AbsentIsEmpty, SerialInv, IdsInv, RowBound, AllMapped,
           NothingHalfLoaded, NEW s, NEW z,
           changes[s] = RowsIn(z), Stands(z, s, complete), CountsAgree(s)
    PROVE  changes[s] = Computed(s)
<1>1. z.grp = Groups(s)
    <2>1. z.grp \in SUBSET Groups(s) /\ IsFiniteSet(Groups(s))
        BY GroupsFinite DEF Stands
    <2>2. IsFiniteSet(z.grp)
        BY <2>1, FS_Subset
    <2>3. Cardinality(z.grp) = Cardinality(Groups(s))
        BY <2>2, RowsAreCounted DEF CountsAgree
    <2> QED
        BY <2>1, <2>3, FS_Subset
<1>2. Ordered(z)
    BY SnapshotOrdered DEF Stands
<1>3. ASSUME NEW v \in z.grp
      PROVE  /\ Grounded(z, v) /\ Spans(z, v, complete) /\ Starts(z, v, complete)
             /\ v \in versions /\ Groups(v.sec) = z.grp /\ z.first[v] \in complete
    BY <1>1 DEF Stands, Grounded, Groups, NothingHalfLoaded
<1>4. ASSUME NEW v \in z.grp
      PROVE  /\ z.id[v] = IdOf(v) /\ z.first[v] = FirstSeq(v)
             /\ FirstSeq(v) \in Nat /\ LastSeq(v) \in Nat
             /\ z.last[v] \in Nat /\ z.first[v] <= z.last[v]
             /\ FirstSeq(v) <= LastSeq(v)
             /\ ~IsLast(z, v) => z.last[v] = LastSeq(v)
    <2>1. /\ Span(v) = {r \in Release : v \in releaseMap[r]}
          /\ FirstSeq(v) \in Span(v) /\ LastSeq(v) \in Span(v)
          /\ \A r \in Span(v) : FirstSeq(v) <= r /\ r <= LastSeq(v)
        BY <1>3, SpanIs DEF AllMapped
    <2>2. \A r \in Span(v) : r \in Nat /\ r \in complete /\ v \in releaseMap[r]
        BY <2>1, ReleaseAssumption DEF NothingHalfLoaded
    <2>3. /\ z.first[v] \in Span(v) /\ z.last[v] \in Span(v)
          /\ z.first[v] <= z.last[v]
        BY <1>3, <2>1 DEF Grounded
    <2>4. z.first[v] <= FirstSeq(v)
        BY <1>3, <2>1, <2>2 DEF Spans
    <2>5. z.first[v] = FirstSeq(v)
        BY <2>1, <2>2, <2>3, <2>4
    <2>6. ASSUME ~IsLast(z, v) PROVE z.last[v] = LastSeq(v)
        <3>1. LastSeq(v) <= z.last[v]
            BY <1>3, <2>1, <2>2, <2>6 DEF Spans
        <3> QED
            BY <2>1, <2>2, <2>3, <3>1
    <2>7. z.id[v] = IdOf(v)
        <3>1. IdOf(v) \in DOMAIN serial /\ serial[IdOf(v)] = v
            BY <1>3, IdIs DEF SerialInv
        <3> QED
            BY <1>3, <3>1 DEF Grounded, IdsInv
    <2> QED
        BY <2>1, <2>2, <2>3, <2>5, <2>6, <2>7
<1>5. \A v, w \in z.grp : Ahead(z, v, w) <=> Before(v, w)
    BY <1>4 DEF Ahead, Before
<1>6. ASSUME NEW v \in z.grp, From(z, v) = {}
      PROVE  z.start[v] = LatestLoadBefore(FirstSeq(v))
    <2>1. z.start[v] \in complete \cup {NoRelease}
        BY <1>3 DEF Grounded, NothingHalfLoaded
    <2>2. StartsAt(complete, z.first[v], z.start[v])
        BY <1>3, <2>1 DEF Starts
    <2> QED
        BY <1>3, <1>4, <2>2, LatestLoadIs DEF Grounded
<1>7. ASSUME NEW v \in z.grp, NEW d \in From(z, v)
      PROVE  z.last[d] = LastSeq(d) /\ (Overlaps(z, v, d) <=> Unreliable(v, d))
    <2>1. d \in z.grp /\ ~IsLast(z, d)
        BY <1>2, LastIsNotDepartedFrom DEF From
    <2>2. z.last[d] = LastSeq(d)
        BY <1>4, <2>1
    \* The last group's range is read only when it begins with this one's.
    <2>3. ASSUME NEW o \in z.grp \ {v, d}, z.first[o] <= z.first[v],
                 LastSeq(d) < FirstSeq(v)
          PROVE  z.last[o] >= z.last[d] <=> LastSeq(o) >= LastSeq(d)
        <3>1. CASE ~IsLast(z, o)
            BY <1>4, <2>2, <3>1
        <3>2. CASE IsLast(z, o)
            <4>1. Ahead(z, v, o)
                BY <2>3, <3>2 DEF IsLast
            <4>2. z.first[v] = z.first[o]
                BY <1>4, <2>3, <4>1 DEF Ahead
            <4> QED
                BY <1>4, <2>1, <2>2, <2>3, <4>2
        <3> QED
            BY <3>1, <3>2
    <2>4. CASE LastSeq(d) >= FirstSeq(v)
        BY <1>4, <2>2, <2>4 DEF Overlaps, Unreliable
    <2>5. CASE LastSeq(d) < FirstSeq(v)
        BY <1>3, <1>4, <2>1, <2>2, <2>3, <2>5 DEF Overlaps, Unreliable
    <2>6. LastSeq(d) \in Nat /\ FirstSeq(v) \in Nat
        BY <1>4, <2>1
    <2> QED
        BY <2>2, <2>4, <2>5, <2>6
<1> QED
    BY <1>1, <1>4, <1>5, <1>6, <1>7, SameRows

-----------------------------------------------------------------------------
(***************************************************************************)
(* Ids and release points, at every step                                   *)
(***************************************************************************)

\* What is proved of the tables and of the rows.
TablesAndRows ==
    TablesInv /\ MapsHold /\ OneVersionPerText /\ MappedInv /\ ChangesInv

LEMMA IdsStep ==
    ASSUME TablesAndRows, IdsInv, [NextChanges]_changesVars
    PROVE  IdsInv'
<1> USE DEF TablesAndRows, ChangesInv
<1>1. CASE Begin
    <2>1. /\ serial' = serial /\ versions' = versions /\ newVersions = {} /\ newVersions' = {}
        BY <1>1 DEF Begin, BeginLoad, BeginUpdate, MapsHold
    <2> QED
        BY <2>1 DEF IdsInv
<1>2. CASE Batch \/ Complete
    <2>1. serial' = serial /\ versions' = versions \cup newVersions
        BY <1>2 DEF Batch, Complete, CommitBatch, Finish, CommitRows
    <2> QED
        BY <2>1 DEF IdsInv
<1>3. CASE Abandon
    <2> DEFINE stored == {i \in DOMAIN serial : serial[i] \in versions} \cup {0}
               end == Max(stored)
    <2>1. /\ stored \in SUBSET Nat /\ stored # {} /\ Len(serial) \in Nat
          /\ \A i \in stored : i <= Len(serial)
        BY DEF SerialInv
    <2>2. end \in stored
        <3> HIDE DEF stored
        <3> QED
            BY <2>1, MaxIsNewest
    <2>3. serial' = SubSeq(serial, 1, end) /\ versions' = versions
        BY <1>3 DEF Abandon, Interrupt, corpus
    <2>4. end \in Nat /\ end <= Len(serial)
        BY <2>1, <2>2
    <2>5. end # 0 => end \in DOMAIN serial /\ serial[end] \in versions
        BY <2>2
    <2> HIDE DEF end
    <2>6. DOMAIN serial' = 1..end /\ \A i \in 1..end : serial'[i] = serial[i]
        BY <2>3, <2>4 DEF SerialInv
    <2>7. 1..end \subseteq DOMAIN serial
        BY <2>4 DEF SerialInv
    <2>8. \A i \in 1..end : serial[i] \in versions
        BY <2>4, <2>5, <2>7 DEF IdsInv
    <2> QED
        BY <2>3, <2>6, <2>7, <2>8 DEF IdsInv
<1>4. ASSUME NEW e \in Element, Store(e) PROVE IdsInv'
    <2>1. versions' = versions
        BY <1>4 DEF Store, StoreElement, corpus
    <2>2. CASE newVersions' = newVersions
        BY <1>4, <2>1, <2>2 DEF Store, IdsInv
    <2>3. CASE newVersions' # newVersions
        <3>1. PICK v : /\ v = [sec |-> e.sec, text |-> e.text, first |-> rel]
                       /\ Known(e) = {} /\ newVersions' = newVersions \cup {v}
            BY <1>4, <2>3 DEF Store, StoreElement
        <3>2. v \notin versions \cup newVersions
            BY <3>1 DEF Known, ElementOf, Element
        <3>3. serial' = Append(serial, v)
            BY <1>4, <2>3, <3>1 DEF Store
        <3>4. v \in Version
            <4>1. rel \in Release
                BY <1>4 DEF Store, StoreElement, TablesInv, TypeOK
            <4> QED
                BY <3>1, <4>1 DEF Version, Element
        <3>5. /\ DOMAIN serial = 1..Len(serial) /\ Len(serial) \in Nat
              /\ DOMAIN serial' = 1..(Len(serial) + 1)
              /\ serial'[Len(serial) + 1] = v
              /\ \A i \in 1..Len(serial) : serial'[i] = serial[i]
            BY <3>3, <3>4 DEF SerialInv
        <3>6. \A i \in DOMAIN serial' : i \in DOMAIN serial \/ i = Len(serial) + 1
            BY <3>5
        <3> QED
            BY <2>1, <3>1, <3>2, <3>5, <3>6 DEF IdsInv
    <2> QED
        BY <2>2, <2>3
<1>5. ASSUME NEW s \in Section, ComputeBatch(s) \/ Repair(s) PROVE IdsInv'
    BY <1>5 DEF ComputeBatch, Repair, vars, corpus, loader, IdsInv
<1>6. CASE Decide \/ Defer \/ HookFails \/ Die \/ UNCHANGED changesVars
    BY <1>6 DEF Decide, Defer, HookFails, Die, changesVars, vars, corpus, loader, IdsInv
<1> QED
    BY <1>1, <1>2, <1>3, <1>4, <1>5, <1>6 DEF NextChanges

LEMMA RowBoundStep ==
    ASSUME TypeOK, RowBound, [Next]_vars
    PROVE  RowBound'
<1>1. PICK n \in Nat : \A r \in Release : row[r] # "absent" => r <= n
    BY DEF RowBound
<1>2. CASE row' = row
    BY <1>1, <1>2 DEF RowBound
<1>3. ASSUME NEW r \in Release, NEW m, row' = [row EXCEPT ![r] = m] PROVE RowBound'
    <2> DEFINE k == IF r <= n THEN n ELSE r
    <2>1. r \in Nat
        BY ReleaseAssumption
    <2>2. k \in Nat /\ n <= k /\ r <= k
        BY <2>1
    <2> HIDE DEF k
    <2>3. ASSUME NEW q \in Release, row'[q] # "absent" PROVE q <= k
        <3>1. q \in Nat /\ (q = r \/ row[q] # "absent")
            BY <1>3, <2>3, ReleaseAssumption DEF TypeOK
        <3>2. q = r \/ q <= n
            BY <1>1, <3>1
        <3> QED
            BY <2>2, <3>1, <3>2
    <2> QED
        BY <2>2, <2>3 DEF RowBound
<1> QED
    BY <1>2, <1>3
       DEF Next, BeginLoad, BeginUpdate, StoreElement, CommitBatch, Finish, Interrupt,
           corpus, vars

-----------------------------------------------------------------------------
(***************************************************************************)
(* What a load hands to its hook                                           *)
(***************************************************************************)

\* What it has mapped is what its release point will carry.
Remembers ==
    /\ newMaps \subseteq mapped
    /\ pc = "load" => ElementsOf(mapped) = file[rel] \ todo
    /\ pc = "update" => mapped = newMaps /\ releaseMap[rel] = {}
    /\ hook # "none" => mapped # {} /\ mapped = releaseMap[loaded]

\* Whether it is the title's newest; an update that defers is.
KnowsNewest ==
    /\ pc # "idle" => (newest <=> \A c \in complete : c <= rel)
    /\ hook # "none" => (newest <=> \A c \in complete : c <= loaded)
    /\ pc = "update" /\ deferred => newest
    /\ hook # "none" /\ row[loaded] = "sections" /\ deferred => newest

HandedOver == Carrying /\ Remembers /\ KnowsNewest

\* No step is undone in `history`.
LEMMA HistoryGrows ==
    ASSUME [NextChanges]_changesVars
    PROVE  history \subseteq history'
<1>1. ASSUME NEW s \in Section, ComputeBatch(s) \/ Repair(s) PROVE history \subseteq history'
    BY <1>1 DEF ComputeBatch, Repair
<1>2. ASSUME NEW e \in Element, Store(e) PROVE history \subseteq history'
    BY <1>2 DEF Store
<1> QED
    BY <1>1, <1>2 DEF NextChanges, Begin, Batch, Complete, Abandon, Decide, Defer,
                      HookFails, Die, changesVars

\* As long as no release point is taken over, no placement is dropped.
LEMMA BeginKeepsPlacements ==
    ASSUME TablesInv, Begin, history' = {}
    PROVE  /\ releaseMap' = releaseMap
           /\ complete' = complete \ {rel'} /\ rel' \in Release
           /\ versions' = versions /\ serial' = serial
BY BeginKeepsMaps
   DEF Begin, BeginLoad, BeginUpdate, CompleteWhileRedone, TablesInv, TypeOK

\* The last commit leaves at the release point just what the load has mapped.
LEMMA MappedIsCarried ==
    ASSUME TablesAndRows, Remembers, Complete
    PROVE  releaseMap'[rel] = mapped
<1> USE DEF TablesAndRows
<1>1. /\ pc \in {"load", "update"} /\ todo = {} /\ rel \in Release
      /\ releaseMap'[rel] = releaseMap[rel] \cup newMaps
    BY DEF Complete, Finish, CommitRows, TablesInv, TypeOK
<1>2. CASE pc = "update"
    BY <1>1, <1>2 DEF Remembers
<1>3. CASE pc = "load"
    <2> DEFINE carried == releaseMap[rel] \cup newMaps
    <2>1. ElementsOf(carried) = file[rel]
        BY <1>1, <1>3 DEF TablesInv, LoadUnderWay
    <2>2. ElementsOf(mapped) = file[rel]
        BY <1>1, <1>3 DEF Remembers
    <2>3. carried \subseteq versions \cup newVersions /\ mapped \subseteq versions \cup newVersions
        BY <1>1 DEF MapsHold, ChangesInv, LoadInv
    <2>4. ASSUME NEW A, NEW B, ElementsOf(A) \subseteq ElementsOf(B),
                 A \subseteq versions \cup newVersions, B \subseteq versions \cup newVersions
          PROVE  A \subseteq B
        <3>1. ASSUME NEW v \in A PROVE v \in B
            <4>1. PICK w \in B : ElementOf(w) = ElementOf(v)
                BY <2>4 DEF ElementsOf
            <4> QED
                BY <2>4, <4>1 DEF OneVersionPerText
        <3> QED
            BY <3>1
    <2> HIDE DEF carried
    <2>5. carried = mapped
        BY <2>1, <2>2, <2>3, <2>4
    <2> QED
        BY <1>1, <2>5 DEF carried
<1> QED
    BY <1>1, <1>2, <1>3

LEMMA BeginHandsOver ==
    ASSUME TablesAndRows, HandedOver, Begin, history' = {}
    PROVE  HandedOver'
<1> USE DEF TablesAndRows, HandedOver
<1>1. Carrying'
    BY BeginKeepsPlacements DEF Carrying
<1>2. Remembers'
    <2>1. hook' = "none" /\ mapped' = newMaps'
        BY DEF Begin, hooks
    <2>2. pc' = "load" => newMaps' = {} /\ todo' = file'[rel']
        BY DEF Begin, BeginLoad, BeginUpdate
    <2>3. pc' = "update" => releaseMap'[rel'] = {}
        BY DEF Begin, BeginLoad, BeginUpdate, PlacementsUnderUpdate, TablesInv, TypeOK
    <2> QED
        BY <2>1, <2>2, <2>3 DEF Remembers, ElementsOf
<1>3. KnowsNewest'
    <2>1. hook' = "none" /\ (newest' <=> \A c \in complete' : c <= rel')
        BY BeginKeepsPlacements DEF Begin, hooks
    <2>2. pc' = "update" /\ deferred' => newest'
        BY DEF Begin
    <2> QED
        BY <2>1, <2>2 DEF KnowsNewest
<1> QED
    BY <1>1, <1>2, <1>3

LEMMA StoreHandsOver ==
    ASSUME TablesAndRows, HandedOver, NEW e \in Element, Store(e)
    PROVE  HandedOver'
<1> USE DEF TablesAndRows, HandedOver
<1>1. /\ UNCHANGED <<releaseMap, complete, row, pc, rel, file, hook, loaded, newest, deferred>>
      /\ pc # "idle" /\ e \in todo /\ todo' = todo \ {e} /\ mapped' = mapped \cup newMaps'
    BY DEF Store, StoreElement, corpus, hooks
<1>2. PICK v : newMaps' = newMaps \cup {v} /\ ElementOf(v) = e
    BY DEF Store, StoreElement, Known, ElementOf, Element
<1>3. hook = "none" /\ mapped' = mapped \cup {v}
    BY <1>1, <1>2 DEF Remembers, ChangesInv, HookInv
<1>4. ASSUME pc = "load" PROVE ElementsOf(mapped') = file[rel] \ todo'
    <2>1. ElementsOf(mapped') = ElementsOf(mapped) \cup {e}
        BY <1>2, <1>3 DEF ElementsOf
    <2>2. todo \subseteq file[rel] /\ ElementsOf(mapped) = file[rel] \ todo
        BY <1>4 DEF TablesInv, LoadUnderWay, Remembers
    <2> QED
        BY <1>1, <2>1, <2>2
<1>5. Remembers'
    BY <1>1, <1>2, <1>3, <1>4 DEF Remembers
<1> QED
    BY <1>1, <1>5 DEF Carrying, KnowsNewest

LEMMA CommitHandsOver ==
    ASSUME TablesAndRows, HandedOver, Batch \/ Complete, history' = {}
    PROVE  HandedOver'
<1> USE DEF TablesAndRows, HandedOver
<1>1. /\ rel \in Release /\ rel \in Nat /\ hook = "none" /\ newMaps' = {}
      /\ UNCHANGED <<mapped, newest, deferred, row, file>>
      /\ \A r \in Release : releaseMap[r] \subseteq releaseMap'[r]
    BY ReleaseAssumption
       DEF Batch, Complete, CommitBatch, Finish, CommitRows, EndSession, load,
           TablesInv, TypeOK, ChangesInv, HookInv
<1>2. CASE Batch
    <2>1. UNCHANGED <<complete, pc, rel, todo, hook>> /\ pc = "load"
        BY <1>2 DEF Batch, CommitBatch, CompleteAfterBatch, hooks
    <2>2. Carrying'
        BY <1>1, <2>1 DEF Carrying, TablesInv, TypeOK
    <2> QED
        BY <1>1, <2>1, <2>2 DEF Remembers, KnowsNewest
<1>3. CASE Complete
    <2>1. /\ pc # "idle" /\ pc' = "idle" /\ hook' = "decide" /\ loaded' = rel
          /\ complete' = complete \cup {rel}
        BY <1>3 DEF Complete, Finish, EndSession
    <2>2. mapped # {}
        BY <1>3 DEF Complete
    <2>3. releaseMap'[rel] = mapped
        BY <1>3, MappedIsCarried
    <2>4. Carrying'
        BY <1>1, <2>1, <2>2, <2>3 DEF Carrying, TablesInv, TypeOK
    <2>5. Remembers'
        BY <1>1, <2>1, <2>2, <2>3 DEF Remembers
    <2>6. row[rel] = "sections" => pc = "update"
        BY <2>1 DEF TablesInv, TypeOK, LoadUnderWay
    <2>7. KnowsNewest'
        BY <1>1, <2>1, <2>6 DEF KnowsNewest
    <2> QED
        BY <2>4, <2>5, <2>7
<1> QED
    BY <1>2, <1>3

\* A load that is abandoned and a hook that ends leave nothing to hand over.
LEMMA OthersHandOver ==
    ASSUME TablesAndRows, HandedOver,
           \/ Abandon \/ Decide \/ Defer \/ HookFails \/ Die
           \/ \E s \in Section : ComputeBatch(s) \/ Repair(s)
           \/ UNCHANGED changesVars
    PROVE  HandedOver'
<1> USE DEF TablesAndRows, HandedOver
<1>1. UNCHANGED <<releaseMap, complete, row, file>>
    BY DEF Abandon, Interrupt, Decide, Defer, HookFails, Die, ComputeBatch, Repair,
           changesVars, vars, corpus
<1>2. Carrying'
    BY <1>1 DEF Carrying
<1>3. CASE UNCHANGED <<pc, rel, todo, newMaps, loaded, load>> /\ (hook' = "none" <=> hook = "none")
    BY <1>1, <1>2, <1>3 DEF Remembers, KnowsNewest, load
<1>4. CASE pc' = "idle" /\ newMaps' = {} /\ hook' = "none"
    BY <1>2, <1>4 DEF Remembers, KnowsNewest
<1>5. CASE Abandon
    <2>1. hook = "none"
        BY <1>5 DEF Abandon, Interrupt, ChangesInv, HookInv
    <2> QED
        BY <1>4, <1>5, <2>1 DEF Abandon, Interrupt, EndSession, hooks
<1>6. CASE Decide \/ Defer \/ HookFails \/ Die
    <2>1. pc = "idle" /\ newMaps = {} /\ UNCHANGED <<pc, rel, todo, newMaps>>
        BY <1>6 DEF Decide, Defer, HookFails, Die, vars, loader, ChangesInv, HookInv, MapsHold
    <2> QED
        BY <1>3, <1>4, <1>6, <2>1 DEF Decide, Defer, HookFails, Die, EndHook
<1>7. ASSUME NEW s \in Section, ComputeBatch(s) \/ Repair(s) PROVE HandedOver'
    <2>1. pc = "idle" /\ newMaps = {} /\ UNCHANGED <<pc, rel, todo, newMaps>>
        BY <1>7 DEF ComputeBatch, Repair, vars, loader, ChangesInv, HookInv, MapsHold
    <2> QED
        BY <1>3, <1>4, <1>7, <2>1 DEF ComputeBatch, Repair, EndHook, hooks
<1>8. CASE UNCHANGED changesVars
    BY <1>3, <1>8 DEF changesVars, vars, loader, hooks
<1> QED
    BY <1>5, <1>6, <1>7, <1>8

-----------------------------------------------------------------------------
(***************************************************************************)
(* Every section that no hook has left to do is vouched for                *)
(***************************************************************************)

\* The loads whose hook has decided.
Accounted == IF hook = "decide" THEN complete \ {loaded} ELSE complete

Vouched(s, C) == \E z : changes[s] = RowsIn(z) /\ Stands(z, s, C)

RowsVouched == \A s \in Section \ left : Vouched(s, Accounted)

\* Where there are no rows, there is nothing to vouch for.
LEMMA NoRowsVouched ==
    ASSUME NEW s, NEW C
    PROVE  /\ changes[s] = {} => Vouched(s, C)
           /\ changes'[s] = {} => Vouched(s, C)'
<1> DEFINE z == [grp |-> {}]
<1>1. RowsIn(z) = {} /\ Stands(z, s, C) /\ Stands(z, s, C)'
    BY DEF RowsIn, Stands
<1> HIDE DEF z
<1> QED
    BY <1>1 DEF Vouched

\* While a load works, the snapshots stand.
LEMMA VouchedStays ==
    ASSUME NEW s, NEW C \in SUBSET Release, NEW D \in SUBSET C, Vouched(s, C),
           changes'[s] = changes[s], versions \subseteq versions',
           \A r \in Release : releaseMap[r] \subseteq releaseMap'[r],
           \A q \in D : releaseMap'[q] = releaseMap[q],
           \A i \in DOMAIN serial : serial[i] \in versions =>
               i \in DOMAIN serial' /\ serial'[i] = serial[i]
    PROVE  Vouched(s, D)'
<1>1. PICK z : changes[s] = RowsIn(z) /\ Stands(z, s, C)
    BY DEF Vouched
<1>2. Stands(z, s, D)'
    BY <1>1, StandsStays
<1> QED
    BY <1>1, <1>2 DEF Vouched

LEMMA AccountedStays ==
    ASSUME TypeOK, RowsVouched, UNCHANGED <<changes, left>>, versions \subseteq versions',
           Accounted' \subseteq Accounted,
           \A r \in Release : releaseMap[r] \subseteq releaseMap'[r],
           \A q \in Accounted' : releaseMap'[q] = releaseMap[q],
           \A i \in DOMAIN serial : serial[i] \in versions =>
               i \in DOMAIN serial' /\ serial'[i] = serial[i]
    PROVE  RowsVouched'
<1>1. ASSUME NEW C, C = Accounted, NEW D, D = Accounted', NEW s \in Section \ left
      PROVE  Vouched(s, D)'
    <2>1. C \in SUBSET Release /\ D \in SUBSET C /\ Vouched(s, C)
        BY <1>1 DEF Accounted, TypeOK, RowsVouched
    <2>2. \A q \in D : releaseMap'[q] = releaseMap[q]
        BY <1>1
    <2> QED
        BY <2>1, <2>2, VouchedStays
<1> QED
    BY <1>1 DEF RowsVouched

\* A hook's step leaves the tables and the ids as they are.
LEMMA VouchedBesides ==
    ASSUME NEW s, NEW C \in SUBSET Release, UNCHANGED <<versions, releaseMap, serial>>
    PROVE  /\ \A z : Stands(z, s, C) => Stands(z, s, C)'
           /\ Vouched(s, C) /\ changes'[s] = changes[s] => Vouched(s, C)'
<1>1. ASSUME NEW z, Stands(z, s, C) PROVE Stands(z, s, C)'
    BY <1>1, StandsStays
<1> QED
    BY <1>1 DEF Vouched

\* The newest completed load.
LEMMA NewestLoadIs ==
    ASSUME TypeOK, AbsentIsEmpty, RowBound, NEW r \in complete
    PROVE  r = Max(complete) <=> \A c \in complete : c <= r
<1>1. PICK n \in Nat : \A q \in Release : row[q] # "absent" => q <= n
    BY DEF RowBound
<1>2. complete \in SUBSET Nat /\ \A c \in complete : c <= n
    BY <1>1, ReleaseAssumption DEF TypeOK, AbsentIsEmpty
<1>3. Max(complete) \in complete /\ \A c \in complete : c <= Max(complete)
    BY <1>2, MaxIsNewest
<1>4. \A c, d \in complete : c <= d /\ d <= c => c = d
    BY <1>2
<1> QED
    BY <1>3, <1>4

\* What a hook passes over is accounted for.
LEMMA LeftOutIsVouched ==
    ASSUME TypeOK, SerialInv, HookInv, HandedOver, RowsVouched, hook = "decide",
           NEW s \in Section, \A c \in complete : c <= loaded,
           s \notin SectionsOf(mapped) \/ s \notin Moved \cup DepartsOn
    PROVE  Vouched(s, complete)
<1>1. left = {} /\ loaded \in complete /\ mapped = releaseMap[loaded]
    BY DEF HookInv, HandedOver, Remembers
<1>2. PICK z : changes[s] = RowsIn(z) /\ Stands(z, s, complete \ {loaded})
    BY <1>1 DEF RowsVouched, Vouched, Accounted
<1>3. Stands(z, s, complete)
    BY <1>1, <1>2, PassedOver
<1> QED
    BY <1>2, <1>3 DEF Vouched

\* All that the proof of the rows rests on.
Ground == TablesAndRows /\ IdsInv /\ RowBound /\ HandedOver /\ history = {}

LEMMA LoadVouches ==
    ASSUME Ground, RowsVouched, history' = {},
           \/ Begin \/ Batch \/ Complete \/ Abandon
           \/ \E e \in Element : Store(e)
    PROVE  RowsVouched'
<1> USE DEF Ground, TablesAndRows
<1>1. /\ UNCHANGED <<changes, left>> /\ TypeOK /\ hook = "none"
      /\ Accounted = complete /\ SerialInv
    BY DEF Begin, Batch, Complete, Abandon, Store, BeginLoad, BeginUpdate, CommitBatch,
           Finish, Interrupt, StoreElement, hooks, TablesInv, ChangesInv, HookInv, Accounted
<1>2. CASE Begin
    <2>1. UNCHANGED <<releaseMap, versions, serial>> /\ complete' \subseteq complete
        BY <1>2, BeginKeepsPlacements
    <2>2. Accounted' = complete'
        BY <1>1, <1>2 DEF Begin, hooks, Accounted
    <2> QED
        BY <1>1, <2>1, <2>2, AccountedStays
<1>3. CASE Batch \/ Complete
    <2>1. /\ rel \in Release /\ rel \notin complete /\ CommitRows /\ serial' = serial
        BY <1>3 DEF Batch, Complete, CommitBatch, Finish, TablesInv, TypeOK, LoadUnderWay
    <2>2. Accounted' = complete
        BY <1>1, <1>3, <2>1
           DEF Accounted, Batch, Complete, CommitBatch, CompleteAfterBatch, Finish, hooks
    <2>3. /\ versions \subseteq versions'
          /\ \A r \in Release : releaseMap[r] \subseteq releaseMap'[r]
          /\ \A q \in complete : releaseMap'[q] = releaseMap[q]
        BY <2>1 DEF CommitRows, TablesInv, TypeOK
    <2> QED
        BY <1>1, <2>1, <2>2, <2>3, AccountedStays
<1>4. CASE Abandon
    <2>1. UNCHANGED <<releaseMap, versions, complete, hook>>
        BY <1>4 DEF Abandon, Interrupt, corpus, hooks
    <2>2. Accounted' = complete
        BY <1>1, <2>1 DEF Accounted
    <2>3. ASSUME NEW i \in DOMAIN serial, serial[i] \in versions
          PROVE  i \in DOMAIN serial' /\ serial'[i] = serial[i]
        <3> DEFINE stored == {j \in DOMAIN serial : serial[j] \in versions} \cup {0}
                   end == Max(stored)
        <3>1. /\ stored \in SUBSET Nat /\ stored # {} /\ Len(serial) \in Nat
              /\ \A j \in stored : j <= Len(serial)
            BY DEF ChangesInv, SerialInv
        <3>2. end \in stored /\ \A j \in stored : j <= end
            <4> HIDE DEF stored
            <4> QED
                BY <3>1, MaxIsNewest
        <3>3. serial' = SubSeq(serial, 1, end)
            BY <1>4 DEF Abandon
        <3>4. end \in Nat /\ end <= Len(serial) /\ i <= end
            BY <2>3, <3>1, <3>2
        <3> HIDE DEF end
        <3>5. i \in 1..end
            BY <3>4 DEF ChangesInv, SerialInv
        <3> QED
            BY <3>3, <3>4, <3>5 DEF ChangesInv, SerialInv
    <2> QED
        BY <1>1, <2>1, <2>2, <2>3, AccountedStays
<1>5. ASSUME NEW e \in Element, Store(e) PROVE RowsVouched'
    <2>1. UNCHANGED <<releaseMap, versions, complete, hook>>
        BY <1>5 DEF Store, StoreElement, corpus, hooks
    <2>2. Accounted' = complete
        BY <1>1, <2>1 DEF Accounted
    <2>3. \A i \in DOMAIN serial : i \in DOMAIN serial' /\ serial'[i] = serial[i]
        <3>1. CASE newVersions' = newVersions
            BY <1>5, <3>1 DEF Store
        <3>2. CASE newVersions' # newVersions
            <4>1. PICK v : serial' = Append(serial, v)
                BY <1>5, <3>2 DEF Store
            <4> QED
                BY <4>1 DEF ChangesInv, SerialInv
        <3> QED
            BY <3>1, <3>2
    <2> QED
        BY <1>1, <2>1, <2>2, <2>3, AccountedStays
<1> QED
    BY <1>2, <1>3, <1>4, <1>5

\* The hook decides: what it does not recompute is accounted for.
LEMMA DecideVouches ==
    ASSUME Ground, RowsVouched, Decide
    PROVE  RowsVouched'
<1> USE DEF Ground, TablesAndRows
<1>1. /\ hook = "decide" /\ changes' = changes
      /\ UNCHANGED <<versions, releaseMap, complete, serial>>
      /\ left' = NeedingRecompute
    BY DEF Decide, EndHook, vars, corpus
<1>2. Accounted' = complete
    BY <1>1 DEF Decide, EndHook, Accounted
<1>3. loaded \in complete /\ mapped # {} /\ complete \in SUBSET Release
    BY <1>1 DEF ChangesInv, HookInv, HandedOver, Remembers, TablesInv, TypeOK
<1>4. ASSUME NEW s \in Section \ NeedingRecompute PROVE Vouched(s, complete)
    <2>1. loaded = Max(complete) /\ s \notin Moved \cup DepartsOn
        BY <1>3 DEF NeedingRecompute
    <2>2. \A c \in complete : c <= loaded
        BY <1>3, <2>1, NewestLoadIs DEF TablesInv
    <2> QED
        BY <1>1, <2>1, <2>2, LeftOutIsVouched DEF TablesInv, ChangesInv
<1>5. ASSUME NEW C, C = complete, NEW s \in Section \ left' PROVE Vouched(s, C)'
    BY <1>1, <1>3, <1>4, <1>5, VouchedBesides
<1>6. ASSUME NEW C, C = complete, NEW s \in Section \ left' PROVE Vouched(s, Accounted)'
    BY <1>2, <1>5, <1>6
<1> QED
    BY <1>6 DEF RowsVouched

\* A deferral deletes the rows it does not vouch for.
LEMMA DeferVouches ==
    ASSUME Ground, RowsVouched, Defer
    PROVE  RowsVouched'
<1> USE DEF Ground, TablesAndRows
<1>1. /\ hook = "decide" /\ deferred /\ changes' = Cleared(Deferred)
      /\ UNCHANGED <<versions, releaseMap, complete, serial>>
      /\ Accounted' = complete
    BY DEF Defer, EndHook, vars, corpus, Accounted
<1>2. loaded \in complete /\ mapped # {} /\ complete \in SUBSET Release
    BY <1>1 DEF ChangesInv, HookInv, HandedOver, Remembers, TablesInv, TypeOK
<1>3. ASSUME NEW C, C = complete, NEW s \in Section PROVE Vouched(s, C)'
    <2>1. CASE s \in Deferred
        <3>1. changes'[s] = {}
            BY <1>1, <2>1 DEF Cleared
        <3> QED
            BY <3>1, NoRowsVouched
    <2>2. CASE s \notin Deferred
        <3>1. newest /\ s \notin SectionsOf(mapped)
            BY <1>1, <1>2, <2>2 DEF Deferred, HandedOver, KnowsNewest
        <3>2. \A c \in complete : c <= loaded
            BY <1>1, <3>1 DEF HandedOver, KnowsNewest
        <3>3. Vouched(s, C)
            BY <1>1, <1>3, <3>1, <3>2, LeftOutIsVouched DEF TablesInv, ChangesInv
        <3>4. changes'[s] = changes[s]
            BY <1>1, <2>2 DEF Cleared
        <3> QED
            BY <1>1, <1>2, <1>3, <3>3, <3>4, VouchedBesides
    <2> QED
        BY <2>1, <2>2
<1>4. ASSUME NEW C, C = complete, NEW s \in Section PROVE Vouched(s, Accounted)'
    BY <1>1, <1>3, <1>4
<1> QED
    BY <1>4 DEF RowsVouched

\* A section that is computed is vouched for by the tables as they are.
LEMMA ComputeVouches ==
    ASSUME Ground, RowsVouched, NEW s \in Section, ComputeBatch(s) \/ Repair(s)
    PROVE  RowsVouched'
<1> USE DEF Ground, TablesAndRows
<1>1. /\ hook # "decide" /\ hook' # "decide" /\ pc = "idle"
      /\ changes' = [changes EXCEPT ![s] = Computed(s)]
      /\ UNCHANGED <<versions, releaseMap, complete, serial>>
      /\ left' = left \ {s}
    BY DEF ComputeBatch, Repair, EndHook, vars, corpus, hooks, ChangesInv, HookInv
<1>2. complete \in SUBSET Release /\ Accounted = complete /\ Accounted' = complete
    BY <1>1 DEF TablesInv, TypeOK, Accounted
<1>3. ASSUME NEW C, C = complete, NEW t \in Section \ left' PROVE Vouched(t, C)'
    <2>1. CASE t = s
        <3>1. PICK z : Computed(s) = RowsIn(z) /\ Stands(z, s, complete)
            BY FreshStands DEF TablesInv, ChangesInv, MappedInv, HandedOver
        <3>2. Stands(z, s, C)'
            BY <1>1, <1>2, <1>3, <3>1, VouchedBesides
        <3>3. changes'[s] = RowsIn(z)
            BY <1>1, <3>1 DEF ChangesInv, RowsInv
        <3> QED
            BY <2>1, <3>2, <3>3 DEF Vouched
    <2>2. CASE t # s
        <3>1. Vouched(t, C) /\ changes'[t] = changes[t]
            BY <1>1, <1>2, <1>3, <2>2 DEF RowsVouched
        <3> QED
            BY <1>1, <1>2, <1>3, <3>1, VouchedBesides
    <2> QED
        BY <2>1, <2>2
<1>4. ASSUME NEW C, C = complete, NEW t \in Section \ left' PROVE Vouched(t, Accounted)'
    BY <1>2, <1>3, <1>4
<1> QED
    BY <1>4 DEF RowsVouched

\* A hook that fails deletes the rows of every section it had to do.
LEMMA FailVouches ==
    ASSUME Ground, RowsVouched, HookFails \/ Die \/ UNCHANGED changesVars, history' = {}
    PROVE  RowsVouched'
<1> USE DEF Ground, TablesAndRows
<1>1. UNCHANGED <<versions, releaseMap, complete, serial>>
    BY DEF HookFails, Die, changesVars, vars, corpus
<1>2. complete \in SUBSET Release
    BY DEF TablesInv, TypeOK
<1>3. CASE HookFails
    <2>1. hook = "compute" /\ changes' = Cleared(need) /\ left \subseteq need
        BY <1>3 DEF HookFails, ChangesInv, HookInv
    <2>2. Accounted = complete /\ Accounted' = complete
        BY <1>1, <1>3, <2>1 DEF HookFails, EndHook, Accounted
    <2>3. ASSUME NEW C, C = complete, NEW s \in Section PROVE Vouched(s, C)'
        <3>1. CASE s \in need
            <4>1. changes'[s] = {}
                BY <2>1, <3>1 DEF Cleared
            <4> QED
                BY <4>1, NoRowsVouched
        <3>2. CASE s \notin need
            <4>1. Vouched(s, C) /\ changes'[s] = changes[s]
                BY <2>1, <2>2, <2>3, <3>2 DEF RowsVouched, Cleared
            <4> QED
                BY <1>1, <1>2, <2>3, <4>1, VouchedBesides
        <3> QED
            BY <3>1, <3>2
    <2>4. ASSUME NEW C, C = complete, NEW s \in Section PROVE Vouched(s, Accounted)'
        BY <2>2, <2>3, <2>4
    <2> QED
        BY <2>4 DEF RowsVouched
<1>4. CASE Die
    BY <1>4 DEF Die
<1>5. CASE UNCHANGED changesVars
    <2>1. UNCHANGED <<changes, left>> /\ Accounted' = Accounted
        BY <1>1, <1>5 DEF changesVars, hooks, Accounted
    <2> QED
        BY <1>1, <2>1, AccountedStays DEF TablesInv
<1> QED
    BY <1>3, <1>4, <1>5

-----------------------------------------------------------------------------

\* Until one of the situations in `history` has arisen, a load hands its hook what
\* the hook decides by, and every section it does not have left is vouched for.
HooksInv ==
    /\ IdsInv /\ RowBound
    /\ history = {} => HandedOver /\ RowsVouched

LEMMA HooksInit == InitChanges => HooksInv
<1> SUFFICES ASSUME InitChanges PROVE HooksInv
    OBVIOUS
<1>1. IdsInv /\ RowBound
    BY DEF InitChanges, Init, IdsInv, RowBound
<1>2. HandedOver
    BY DEF InitChanges, Init, HandedOver, Carrying, Remembers, KnowsNewest
<1>3. RowsVouched
    BY NoRowsVouched DEF InitChanges, RowsVouched
<1> QED
    BY <1>1, <1>2, <1>3 DEF HooksInv

LEMMA HooksStep ==
    TablesAndRows /\ HooksInv /\ [NextChanges]_changesVars => HooksInv'
<1> SUFFICES ASSUME TablesAndRows, HooksInv, [NextChanges]_changesVars PROVE HooksInv'
    OBVIOUS
<1>1. IdsInv' /\ RowBound'
    BY IdsStep, RowBoundStep, ChangesStep DEF HooksInv, TablesAndRows, TablesInv
<1>2. ASSUME history' = {} PROVE HandedOver' /\ RowsVouched'
    <2>1. Ground /\ RowsVouched
        BY <1>2, HistoryGrows DEF HooksInv, Ground
    <2>2. HandedOver'
        BY <1>2, <2>1, BeginHandsOver, StoreHandsOver, CommitHandsOver, OthersHandOver
           DEF NextChanges, Ground
    <2>3. RowsVouched'
        BY <1>2, <2>1, LoadVouches, DecideVouches, DeferVouches, ComputeVouches, FailVouches
           DEF NextChanges
    <2> QED
        BY <2>2, <2>3
<1> QED
    BY <1>1, <1>2 DEF HooksInv

LEMMA VouchedRowsAreCurrent ==
    TablesAndRows /\ HooksInv => HooksKeepRowsCurrent
<1> SUFFICES ASSUME TablesAndRows, HooksInv, history = {},
                    pc = "idle", hook = "none", NothingHalfLoaded,
                    NEW s \in Section, CountsAgree(s)
             PROVE  changes[s] = Computed(s)
    BY DEF HooksKeepRowsCurrent, CountedRowsAreCurrent
<1>1. s \in Section \ left /\ Accounted = complete
    BY DEF TablesAndRows, ChangesInv, HookInv, Accounted
<1>2. PICK z : changes[s] = RowsIn(z) /\ Stands(z, s, complete)
    BY <1>1 DEF HooksInv, RowsVouched, Vouched
<1> QED
    BY <1>2, VouchedIsCurrent
       DEF TablesAndRows, TablesInv, ChangesInv, MappedInv, HooksInv

\* Between loads, a section whose rows `version-changes` passes over has the rows
\* the tables give, whatever was loaded in whatever order, hooked or deferred:
\* until a release point is taken over, an update defers below the newest, an
\* empty release point is loaded, or a hook is lost before it knew its sections.
THEOREM HooksKeepCurrent == SpecChanges => []HooksKeepRowsCurrent
<1>1. SpecChanges => []TablesAndRows
    <2>1. InitChanges => MappedInv
        BY DEF InitChanges, Init, MappedInv, AllMapped
    <2>2. SpecChanges => []MappedInv
        BY <2>1, HooksFollowALoad, TablesCorrect, MappedStep, PTL DEF SpecChanges
    <2>3. TablesInv /\ MapsHold /\ OneVersionPerText /\ MappedInv /\ ChangesInv => TablesAndRows
        BY DEF TablesAndRows
    <2> QED
        BY <2>2, <2>3, HooksFollowALoad, TablesCorrect, MapsCorrect, DedupeCorrect,
           ChangesInvariant, PTL
<1> QED
    BY <1>1, HooksInit, HooksStep, VouchedRowsAreCurrent, PTL DEF SpecChanges

=============================================================================
