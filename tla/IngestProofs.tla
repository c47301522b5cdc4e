---------------------------- MODULE IngestProofs ----------------------------
(***************************************************************************)
(* Proofs about the two modules that run the loaders of CorpusLoad, each   *)
(* with variables of its own, for every title: any sections, texts,        *)
(* release points, files and fetches. LoadAll, with any number of failures *)
(* and kills and any order of the downloads: the bulk loader is a loader   *)
(* of CorpusLoad, and `first_release_id` is on the earliest release point, *)
(* but for those a later one was loaded before. SearchIndex, with any      *)
(* number of faults and rebuilds: what the index holds is what the tables  *)
(* hold, and a rebuild promotes all of it.                                 *)
(***************************************************************************)
EXTENDS LoadAll, SearchIndex, CorpusLoadProofs

-----------------------------------------------------------------------------
(***************************************************************************)
(* The bulk loader                                                         *)
(***************************************************************************)

\* Every step of the bulk loader is a step of the loaders, or leaves the tables.
LEMMA DriverStep ==
    ASSUME [NextLoadAll]_loadAllVars
    PROVE  [Next]_vars
<1>1. ASSUME NEW r \in Release, Download(r) \/ StartTask(r) PROVE [Next]_vars
    BY <1>1 DEF Download, StartTask, Next
<1>2. CASE StartRun \/ EndRun
    BY <1>2 DEF StartRun, EndRun
<1>3. CASE LoaderStep
    BY <1>3 DEF LoaderStep, Next
<1>4. CASE TaskFails \/ Kill
    BY <1>4 DEF TaskFails, Kill, Next
<1>5. CASE \E r, b \in Release, fetched \in Fetches : SectionsUpdate(r, b, fetched)
    BY <1>5 DEF SectionsUpdate, Next
<1>6. CASE UNCHANGED loadAllVars
    BY <1>6 DEF loadAllVars
<1> QED
    BY <1>1, <1>2, <1>3, <1>4, <1>5, <1>6 DEF NextLoadAll

\* Whatever runs, raises or is killed, the bulk loader does to the tables only
\* what CorpusLoad's loaders do: all that is proved of them holds of it.
THEOREM BulkLoadIsALoad == SpecLoadAll => Spec
<1>1. InitLoadAll => Init
    BY DEF InitLoadAll
<1> QED
    BY <1>1, DriverStep, PTL DEF SpecLoadAll, Spec

-----------------------------------------------------------------------------
(***************************************************************************)
(* The walk                                                                *)
(***************************************************************************)

DriverTypeOK ==
    /\ available \subseteq Release
    /\ queue \subseteq Release
    /\ passedOver \subseteq Release
    /\ assembled \in BOOLEAN

\* No title_versions row but those of files.
OnlyFiles ==
    /\ pc # "update"
    /\ \A r \in Release : row[r] # "sections"

\* A task that is left has not been loaded, and the one under way is taken.
TasksAreOpen ==
    /\ queue \cap complete = {}
    /\ pc = "load" => rel \notin queue

\* What the load under way did not pass over is loaded below it.
LoadFollowsOn ==
    pc = "load" => \A q \in Release \ passedOver : q < rel => q \in complete

\* No version is younger than a release point that is still to be loaded,
\* unless that one was passed over.
NoneOvertaken ==
    \A r \in Release \ (complete \cup passedOver) :
        \A v \in versions \cup newVersions : v.first <= r

\* But for those passed over, no release point maps, and none stages, a version
\* of a later one.
MappedFromBelow ==
    /\ pc = "load" /\ rel \notin passedOver => \A v \in newMaps : v.first <= rel
    /\ \A r \in Release \ passedOver : \A v \in releaseMap[r] : v.first <= r

\* What holds while no title was assembled.
WalkInOrder ==
    /\ OnlyFiles
    /\ TasksAreOpen
    /\ LoadFollowsOn
    /\ NoneOvertaken
    /\ MappedFromBelow

WalkInv ==
    /\ DriverTypeOK
    /\ ~assembled => WalkInOrder

\* The invariant holds before anything is downloaded.
LEMMA WalkInit == InitLoadAll => WalkInv
<1> SUFFICES ASSUME InitLoadAll PROVE WalkInv
    OBVIOUS
<1> USE DEF InitLoadAll, Init
<1>1. DriverTypeOK
    BY DEF DriverTypeOK
<1>2. OnlyFiles /\ TasksAreOpen /\ LoadFollowsOn
    BY DEF OnlyFiles, TasksAreOpen, LoadFollowsOn
<1>3. NoneOvertaken /\ MappedFromBelow
    BY DEF NoneOvertaken, MappedFromBelow
<1> QED
    BY <1>1, <1>2, <1>3 DEF WalkInv, WalkInOrder

\* A task starts with the oldest release point that is left: what is neither
\* loaded nor left below it is passed over.
LEMMA StartTaskStep ==
    ASSUME TablesInv, DriverTypeOK, WalkInOrder, NEW r \in Release, StartTask(r)
    PROVE  WalkInOrder'
<1> USE DEF WalkInOrder
<1>1. /\ r \in queue /\ (\A q \in queue : r <= q)
      /\ queue' = queue \ {r} /\ passedOver' = passedOver \cup Missed(r)
      /\ pc' = "load" /\ rel' = r
      /\ newVersions' = {} /\ newMaps' = {} /\ versions' = versions
    BY DEF StartTask, BeginLoad, NextInOrder
<1>2. complete' = complete
    BY <1>1 DEF TasksAreOpen, StartTask, BeginLoad, CompleteWhileRedone
<1>3. OnlyFiles'
    BY <1>1 DEF OnlyFiles, StartTask, BeginLoad, TablesInv, TypeOK
<1>4. TasksAreOpen'
    BY <1>1, <1>2 DEF TasksAreOpen
<1>5. LoadFollowsOn'
    <2> SUFFICES ASSUME NEW q \in Release \ passedOver', q < r PROVE q \in complete
        BY <1>1, <1>2 DEF LoadFollowsOn
    <2>1. q \in complete \cup queue
        BY <1>1 DEF Missed
    <2>2. q \notin queue
        BY <1>1, ReleaseAssumption
    <2> QED
        BY <2>1, <2>2
<1>6. NoneOvertaken'
    BY <1>1, <1>2 DEF NoneOvertaken
<1>7. MappedFromBelow'
    <2>1. \A q \in Release : releaseMap'[q] \subseteq releaseMap[q]
        BY DEF StartTask, BeginLoad, PlacementsUnderFile, TablesInv, TypeOK
    <2> QED
        BY <1>1, <2>1 DEF MappedFromBelow
<1> QED
    BY <1>3, <1>4, <1>5, <1>6, <1>7

\* A version that is stored is not younger than what is still to be loaded; one
\* that is met was not created by a later release point.
LEMMA StoreInOrder ==
    ASSUME TablesInv, WalkInOrder, NEW e \in Element, StoreElement(e),
           UNCHANGED driver
    PROVE  WalkInOrder'
<1> USE DEF WalkInOrder
<1>1. /\ UNCHANGED <<file, versions, releaseMap, row, base, complete, pc, rel>>
      /\ UNCHANGED <<queue, passedOver>>
    BY DEF StoreElement, corpus, driver
<1>2. pc = "load" /\ rel \in Release /\ rel \notin complete
    BY DEF StoreElement, OnlyFiles, TablesInv, TypeOK, LoadUnderWay
<1>3. OnlyFiles' /\ TasksAreOpen' /\ LoadFollowsOn'
    BY <1>1 DEF OnlyFiles, TasksAreOpen, LoadFollowsOn
<1>4. PICK v \in Version :
         /\ v \in versions \cup newVersions \/ v.first = rel
         /\ newMaps' = newMaps \cup {v}
         /\ newVersions' \subseteq newVersions \cup {v}
    <2>1. CASE \E v \in Known(e) : newMaps' = newMaps \cup {v} /\ UNCHANGED newVersions
        <3>1. \A v \in Known(e) : v \in Version /\ v \in versions \cup newVersions
            BY DEF Known, TablesInv, TypeOK
        <3> QED
            BY <2>1, <3>1
    <2>2. CASE ~(\E v \in Known(e) : newMaps' = newMaps \cup {v} /\ UNCHANGED newVersions)
        <3>1. PICK v : /\ v = [sec |-> e.sec, text |-> e.text, first |-> rel]
                       /\ newVersions' = newVersions \cup {v}
                       /\ newMaps' = newMaps \cup {v}
            BY <2>2 DEF StoreElement
        <3> QED
            BY <1>2, <3>1 DEF Version, Element
    <2> QED
        BY <2>1, <2>2
<1>5. NoneOvertaken'
    <2> SUFFICES ASSUME NEW r \in Release \ (complete \cup passedOver)
                 PROVE  v.first <= r
        BY <1>1, <1>4 DEF NoneOvertaken
    <2>1. CASE v \in versions \cup newVersions
        BY <2>1 DEF NoneOvertaken
    <2>2. CASE v.first = rel
        BY <1>2, <2>2, ReleaseAssumption DEF LoadFollowsOn
    <2> QED
        BY <1>4, <2>1, <2>2
<1>6. MappedFromBelow'
    <2>1. rel \notin passedOver => v.first <= rel
        BY <1>2, <1>4, ReleaseAssumption DEF NoneOvertaken
    <2> QED
        BY <1>1, <1>4, <2>1 DEF MappedFromBelow
<1> QED
    BY <1>3, <1>5, <1>6

\* A commit maps what was staged at the release point it was staged for.
LEMMA CommitInOrder ==
    ASSUME TablesInv, WalkInOrder, CommitBatch \/ Finish, UNCHANGED driver
    PROVE  WalkInOrder'
<1> USE DEF WalkInOrder
<1>1. /\ UNCHANGED <<row, queue, passedOver>>
      /\ pc = "load" /\ rel \in Release /\ rel \notin queue
      /\ CommitRows /\ newVersions' = {} /\ newMaps' = {}
    BY DEF CommitBatch, Finish, EndSession, driver, OnlyFiles, TablesInv, TypeOK,
           TasksAreOpen
<1>2. \/ complete' = complete /\ pc' = "load" /\ rel' = rel
      \/ complete' = complete \cup {rel} /\ pc' = "idle"
    BY <1>1 DEF CommitBatch, Finish, EndSession, CompleteAfterBatch
<1>3. OnlyFiles' /\ TasksAreOpen'
    BY <1>1, <1>2 DEF OnlyFiles, TasksAreOpen
<1>4. LoadFollowsOn'
    BY <1>1, <1>2 DEF LoadFollowsOn
<1>5. NoneOvertaken'
    BY <1>1, <1>2 DEF NoneOvertaken, CommitRows
<1>6. MappedFromBelow'
    BY <1>1 DEF MappedFromBelow, CommitRows, TablesInv, TypeOK
<1> QED
    BY <1>3, <1>4, <1>5, <1>6

\* A run reads the markers: what it queues is all that is missing of what is on
\* disk.
LEMMA StartRunStep ==
    ASSUME TablesInv, WalkInOrder, StartRun
    PROVE  WalkInOrder'
<1> USE DEF WalkInOrder
<1>1. UNCHANGED <<versions, releaseMap, row, complete, pc, rel, newVersions, newMaps>>
    BY DEF StartRun, vars, corpus, loader
<1>2. passedOver' = passedOver /\ pc = "idle"
    BY DEF StartRun
<1>3. queue' = available \ complete
    BY DEF StartRun, CompletedPairs, OnlyFiles, TablesInv, TypeOK, AbsentIsEmpty
<1>4. OnlyFiles' /\ LoadFollowsOn' /\ NoneOvertaken' /\ MappedFromBelow'
    BY <1>1, <1>2 DEF OnlyFiles, LoadFollowsOn, NoneOvertaken, MappedFromBelow
<1>5. TasksAreOpen'
    BY <1>1, <1>2, <1>3 DEF TasksAreOpen
<1> QED
    BY <1>4, <1>5

\* A download changes nothing of it; a load that raises, and a run that ends or
\* is killed, forget what was staged.
LEMMA DriverLeavesOrder ==
    ASSUME TablesInv, WalkInOrder,
           \/ \E r \in Release : Download(r)
           \/ TaskFails \/ EndRun \/ Kill
           \/ UNCHANGED loadAllVars
    PROVE  WalkInOrder'
<1> USE DEF WalkInOrder
<1>1. UNCHANGED <<versions, releaseMap, row, complete, passedOver>>
    BY DEF Download, TaskFails, EndRun, Kill, Interrupt, loadAllVars, vars, corpus,
           driver
<1>2. queue' \subseteq queue
    BY DEF Download, TaskFails, EndRun, Kill, loadAllVars, driver
<1>3. \/ UNCHANGED <<pc, rel, newVersions, newMaps>>
      \/ pc' = "idle" /\ newVersions' = {} /\ newMaps' = {}
    BY DEF Download, TaskFails, EndRun, Kill, Interrupt, EndSession, loadAllVars,
           vars, loader
<1>4. OnlyFiles' /\ TasksAreOpen' /\ LoadFollowsOn'
    BY <1>1, <1>2, <1>3 DEF OnlyFiles, TasksAreOpen, LoadFollowsOn
<1>5. NoneOvertaken' /\ MappedFromBelow'
    BY <1>1, <1>3 DEF NoneOvertaken, MappedFromBelow
<1> QED
    BY <1>4, <1>5

\* The invariant is inductive.
LEMMA WalkStep == TablesInv /\ WalkInv /\ [NextLoadAll]_loadAllVars => WalkInv'
<1> SUFFICES ASSUME TablesInv, WalkInv, [NextLoadAll]_loadAllVars PROVE WalkInv'
    OBVIOUS
<1> USE DEF WalkInv
<1>1. DriverTypeOK'
    <2>1. available' \subseteq Release /\ queue' \subseteq Release
        BY DEF NextLoadAll, DriverTypeOK, Download, StartTask, StartRun, LoaderStep,
               TaskFails, EndRun, Kill, SectionsUpdate, loadAllVars, driver
    <2>2. passedOver' \subseteq Release
        BY DEF NextLoadAll, DriverTypeOK, Download, StartTask, Missed, StartRun,
               LoaderStep, TaskFails, EndRun, Kill, SectionsUpdate, loadAllVars, driver
    <2>3. assembled' \in BOOLEAN
        BY DEF NextLoadAll, DriverTypeOK, Download, StartTask, StartRun, LoaderStep,
               TaskFails, EndRun, Kill, SectionsUpdate, loadAllVars, driver
    <2> QED
        BY <2>1, <2>2, <2>3 DEF DriverTypeOK
<1>2. ASSUME ~assembled' PROVE WalkInOrder'
    <2>1. ~(\E r, b \in Release, fetched \in Fetches : SectionsUpdate(r, b, fetched))
        BY <1>2 DEF SectionsUpdate
    <2>2. ~assembled
        BY <1>2, <2>1
           DEF NextLoadAll, Download, StartTask, StartRun, LoaderStep, TaskFails,
               EndRun, Kill, loadAllVars, driver
    <2> QED
        BY <2>1, <2>2, StartTaskStep, StoreInOrder, CommitInOrder,
           StartRunStep, DriverLeavesOrder DEF NextLoadAll, LoaderStep
<1> QED
    BY <1>1, <1>2

\* `first_release_id` is on the earliest release point that carries the text, for
\* every title, in whatever order the release points are downloaded and however
\* often loads raise or runs are killed and started again: for every release
\* point that no later one was loaded before, unless a title was assembled.
THEOREM FirstIsEarliestCorrect == SpecLoadAll => []FirstIsEarliestUnlessPassedOver
<1>1. WalkInv => FirstIsEarliestUnlessPassedOver
    BY DEF WalkInv, WalkInOrder, MappedFromBelow, FirstIsEarliestUnlessPassedOver
<1>2. SpecLoadAll => []TablesInv
    BY BulkLoadIsALoad, TablesCorrect, PTL
<1>3. SpecLoadAll => []WalkInv
    BY <1>2, WalkInit, WalkStep, PTL DEF SpecLoadAll
<1> QED
    BY <1>1, <1>3, PTL

\* The bulk loader too publishes whole release points only, through every failure,
\* kill and restart of a run: what CorpusPublication promises the readers.
THEOREM BulkLoadPublishesWhole == SpecLoadAll => PublishesWhole
BY BulkLoadIsALoad, ImplementsPublication

-----------------------------------------------------------------------------
(***************************************************************************)
(* The search index                                                        *)
(***************************************************************************)

\* Every step is a step of the loaders, or leaves the tables.
LEMMA IndexStep ==
    ASSUME [NextIndex]_searchVars
    PROVE  [Next]_vars
<1>1. CASE Begin \/ Commit
    BY <1>1 DEF Begin, Commit, Next
<1>2. ASSUME NEW e \in Element, Store(e) PROVE [Next]_vars
    BY <1>2 DEF Store, Next
<1>3. CASE Die
    BY <1>3 DEF Die, Next
<1>4. CASE FlushRetire \/ FlushSync \/ StartRebuild \/ IndexRow \/ FailRebuild \/ Promote
    BY <1>4 DEF FlushRetire, FlushSync, StartRebuild, IndexRow, FailRebuild, Promote
<1>5. CASE UNCHANGED searchVars
    BY <1>5 DEF searchVars
<1> QED
    BY <1>1, <1>2, <1>3, <1>4, <1>5 DEF NextIndex

\* The index is written beside the loaders of CorpusLoad: all that is proved of
\* the tables holds of what it is written from.
THEOREM IndexFollowsALoad == SpecIndex => Spec
<1>1. InitIndex => Init
    BY DEF InitIndex
<1> QED
    BY <1>1, IndexStep, PTL DEF SpecIndex, Spec

-----------------------------------------------------------------------------
(***************************************************************************)
(* Documents of stored versions                                            *)
(***************************************************************************)

DocsOf(vs) == {Doc(v, c) : v \in vs, c \in BOOLEAN}
KeysOf(vs) == {Key(v) : v \in vs}

\* More versions have more documents and keys.
LEMMA DocsGrow ==
    ASSUME NEW A, NEW B, A \subseteq B
    PROVE  DocsOf(A) \subseteq DocsOf(B) /\ KeysOf(A) \subseteq KeysOf(B)
BY DEF DocsOf, KeysOf

\* Both documents of a version.
LEMMA DocsBoth ==
    ASSUME NEW vs, NEW v \in vs
    PROVE  Doc(v, TRUE) \in DocsOf(vs) /\ Doc(v, FALSE) \in DocsOf(vs)
<1>1. \A c \in BOOLEAN : Doc(v, c) \in DocsOf(vs)
    BY DEF DocsOf
<1>2. TRUE \in BOOLEAN /\ FALSE \in BOOLEAN
    OBVIOUS
<1> QED
    BY <1>1, <1>2, Zenon

\* A document has the key, the section and the release of its version.
LEMMA DocFields ==
    ASSUME NEW vs, NEW d \in DocsOf(vs)
    PROVE  \E v \in vs : /\ d = Doc(v, d.current) /\ d.current \in BOOLEAN
                         /\ Key(d) = Key(v) /\ d.text = v.text
                         /\ d.sec = v.sec /\ d.first = v.first
BY DEF DocsOf, Doc, Key

\* Keys are equal when section and release are.
LEMMA KeysEqual ==
    ASSUME NEW x, NEW y
    PROVE  Key(x) = Key(y) <=> x.sec = y.sec /\ x.first = y.first
BY DEF Key

\* Retiring a document leaves a document of the same version.
LEMMA RetiredDocs ==
    ASSUME NEW vs, NEW docs \in SUBSET DocsOf(vs), NEW keys
    PROVE  /\ Retired(docs, keys) \subseteq DocsOf(vs)
           /\ \A d \in Retired(docs, keys) :
                 d.current => d \in docs /\ Key(d) \notin keys
<1> SUFFICES ASSUME NEW d \in Retired(docs, keys)
             PROVE  d \in DocsOf(vs) /\ (d.current => d \in docs /\ Key(d) \notin keys)
    OBVIOUS
<1>1. PICK x \in docs : d = IF Key(x) \in keys THEN [x EXCEPT !.current = FALSE] ELSE x
    BY DEF Retired
<1>2. PICK v \in vs, c \in BOOLEAN : x = Doc(v, c)
    BY DEF DocsOf
<1>3. CASE Key(x) \in keys
    <2>1. d = Doc(v, FALSE)
        BY <1>1, <1>2, <1>3 DEF Doc
    <2>2. d \in DocsOf(vs)
        BY <2>1, DocsBoth
    <2>3. ~d.current
        BY <2>1 DEF Doc
    <2> QED
        BY <2>2, <2>3
<1> QED
    BY <1>1, <1>3

\* What waits to be written, what is indexed and what a rebuild holds are
\* documents of versions; those outside the loader's buffers, of committed ones.
StoredInv ==
    /\ toSync \subseteq DocsOf(versions \cup newVersions)
    /\ toRetire \subseteq KeysOf(versions \cup newVersions)
    /\ index \cup spare \cup rows \subseteq DocsOf(versions)
    /\ newest \in BOOLEAN /\ rebuilding \in BOOLEAN
    /\ flush \in {"none", "retire", "sync"}
    /\ flush # "none" => newVersions = {}
    /\ flush = "sync" => toRetire = {}
    /\ pc = "idle" /\ flush = "none" => toRetire = {} /\ toSync = {}
    /\ ~rebuilding => rows = {}
    /\ rebuildFailures \in Nat
    /\ history \subseteq Events

\* A load begins with empty buffers.
LEMMA BeginStored ==
    ASSUME StoredInv, Begin
    PROVE  StoredInv'
<1>1. versions' = versions /\ toSync' = {} /\ toRetire' = {}
    BY DEF Begin, BeginLoad, BeginUpdate
<1>2. newest' \in BOOLEAN /\ pc' # "idle"
    BY DEF Begin, BeginLoad, BeginUpdate, IsNewest
<1>3. history' \subseteq Events
    BY DEF StoredInv, Begin, Events
<1>4. DocsOf(versions)' = DocsOf(versions)
    BY <1>1 DEF DocsOf, Doc
<1> QED
    BY <1>1, <1>2, <1>3, <1>4 DEF StoredInv, Begin, rebuild, counts

\* What a load stores is a version of the open transaction.
LEMMA StoreStored ==
    ASSUME StoredInv, NEW e \in Element, Store(e)
    PROVE  StoredInv'
<1> DEFINE All == versions \cup newVersions
<1>1. versions' = versions /\ newVersions \subseteq newVersions' /\ pc' = pc /\ pc # "idle"
    BY DEF Store, StoreElement, corpus
<1>2. DocsOf(All) \subseteq DocsOf(All') /\ KeysOf(All) \subseteq KeysOf(All')
    <2>1. All \subseteq All'
        BY <1>1
    <2> QED
        BY <2>1, DocsGrow
<1>3. toSync' \subseteq DocsOf(All') /\ toRetire' \subseteq KeysOf(All')
    <2>1. CASE Known(e) # {}
        BY <2>1, <1>2 DEF StoredInv, Store
    <2>2. CASE Known(e) = {}
        <3> DEFINE v == [sec |-> e.sec, text |-> e.text, first |-> rel]
        <3>1. v \in All'
            BY <2>2 DEF Store, StoreElement
        <3>2. Doc(v, newest) \in DocsOf(All')
            BY <3>1 DEF StoredInv, DocsOf
        <3>3. toSync' \subseteq toSync \cup {Doc(v, newest)}
            BY <2>2 DEF Store, Put
        <3>4. toRetire' \subseteq toRetire \cup KeysOf(All)
            BY <2>2 DEF Store, Superseded, KeysOf
        <3> HIDE DEF v, All
        <3> QED
            BY <3>2, <3>3, <3>4, <1>2 DEF StoredInv, All
    <2> QED
        BY <2>1, <2>2
<1>4. flush' = "none"
    BY DEF Store
<1>5. DocsOf(versions)' = DocsOf(versions)
    BY <1>1 DEF DocsOf, Doc
<1>6. DocsOf(All)' = DocsOf(All') /\ KeysOf(All)' = KeysOf(All')
    BY DEF DocsOf, KeysOf, Doc, Key
<1> QED
    BY <1>1, <1>3, <1>4, <1>5, <1>6 DEF StoredInv, Store, rebuild, counts

\* A commit moves the open transaction's versions to the tables.
LEMMA CommitStored ==
    ASSUME StoredInv, Commit
    PROVE  StoredInv'
<1>1. versions' = versions \cup newVersions /\ newVersions' = {}
    BY DEF Commit, CommitBatch, Finish, CommitRows, EndSession
<1>2. (versions \cup newVersions)' = versions \cup newVersions
    BY <1>1
<1>3. /\ DocsOf(versions \cup newVersions)' = DocsOf(versions \cup newVersions)
      /\ KeysOf(versions \cup newVersions)' = KeysOf(versions \cup newVersions)
    BY <1>2 DEF DocsOf, KeysOf, Doc, Key
<1>4. DocsOf(versions) \subseteq DocsOf(versions)'
    <2>1. versions \subseteq versions'
        BY <1>1
    <2> QED
        BY <2>1 DEF DocsOf, Doc
<1> QED
    BY <1>1, <1>3, <1>4 DEF StoredInv, Commit, rebuild, counts

\* Writing the index, and dying, leave the tables.
LEMMA FlushStored ==
    ASSUME StoredInv, FlushRetire \/ FlushSync
    PROVE  StoredInv'
<1>1. versions' = versions /\ newVersions' = newVersions
    BY DEF FlushRetire, FlushSync, vars, corpus, loader
<1>2. /\ DocsOf(versions)' = DocsOf(versions)
      /\ DocsOf(versions \cup newVersions)' = DocsOf(versions \cup newVersions)
      /\ KeysOf(versions \cup newVersions)' = KeysOf(versions \cup newVersions)
    BY <1>1 DEF DocsOf, KeysOf, Doc, Key
<1>3. history' \subseteq Events
    BY DEF StoredInv, FlushRetire, FlushSync, Bulk, Observe, Events
<1>4. CASE FlushRetire
    <2>1. PICK keys \in SUBSET toRetire : index' = Retired(index, keys)
        BY <1>4 DEF FlushRetire
    <2>2. index' \subseteq DocsOf(versions)
        BY <2>1, RetiredDocs DEF StoredInv
    <2> QED
        BY <1>1, <1>2, <1>3, <1>4, <2>2
           DEF StoredInv, FlushRetire, FlushDue, rebuild, vars, corpus, loader
<1>5. CASE FlushSync
    <2>1. newVersions = {}
        BY <1>5 DEF StoredInv, FlushSync
    <2>2. toSync \subseteq DocsOf(versions)
        BY <2>1 DEF StoredInv
    <2>3. index' \subseteq index \cup toSync
        BY <1>5 DEF FlushSync, PutAll
    <2> QED
        BY <1>1, <1>2, <1>3, <1>5, <2>2, <2>3
           DEF StoredInv, FlushSync, rebuild, vars, corpus, loader
<1> QED
    BY <1>4, <1>5

\* A death empties the buffers.
LEMMA DieStored ==
    ASSUME StoredInv, Die
    PROVE  StoredInv'
<1>1. versions' = versions /\ toSync' = {} /\ toRetire' = {} /\ flush' = "none"
    BY DEF Die, Interrupt, vars, corpus
<1>2. history' \subseteq Events
    BY DEF StoredInv, Die, Observe, Events
<1>3. DocsOf(versions)' = DocsOf(versions)
    BY <1>1 DEF DocsOf, Doc
<1> QED
    BY <1>1, <1>2, <1>3 DEF StoredInv, Die, rebuild

\* A rebuild reads committed versions.
LEMMA RebuildStored ==
    ASSUME StoredInv, StartRebuild \/ IndexRow \/ FailRebuild \/ Promote
    PROVE  StoredInv'
<1>1. versions' = versions /\ newVersions' = newVersions
    BY DEF StartRebuild, IndexRow, FailRebuild, Promote, vars, corpus, loader
<1>2. /\ DocsOf(versions)' = DocsOf(versions)
      /\ DocsOf(versions \cup newVersions)' = DocsOf(versions \cup newVersions)
      /\ KeysOf(versions \cup newVersions)' = KeysOf(versions \cup newVersions)
    BY <1>1 DEF DocsOf, KeysOf, Doc, Key
<1>3. CASE StartRebuild
    <2>1. PICK read \in OnePerSection(CurrentVersions) : rows' = {Doc(v, TRUE) : v \in read}
        BY <1>3 DEF StartRebuild
    <2>2. read \subseteq versions
        BY DEF OnePerSection, CurrentVersions
    <2>3. rows' \subseteq DocsOf(versions)
        <3> SUFFICES ASSUME NEW v \in read PROVE Doc(v, TRUE) \in DocsOf(versions)
            BY <2>1
        <3> QED
            BY <2>2, DocsBoth
    <2>4. history' \subseteq Events
        BY <1>3 DEF StoredInv, StartRebuild, Observe, Events
    <2> QED
        BY <1>1, <1>2, <1>3, <2>3, <2>4
           DEF StoredInv, StartRebuild, sync, vars, corpus, loader
<1>4. CASE IndexRow
    <2>1. PICK d \in rows, docs \in SUBSET rows :
              Bulk({d}, docs) /\ spare' = PutAll(spare, docs) /\ rows' = rows \ {d}
        BY <1>4 DEF IndexRow
    <2>2. spare' \subseteq spare \cup rows
        BY <2>1 DEF PutAll
    <2>3. history' \subseteq Events
        BY <2>1 DEF StoredInv, Bulk, Observe, Events
    <2> QED
        BY <1>1, <1>2, <1>4, <2>1, <2>2, <2>3
           DEF StoredInv, IndexRow, sync, vars, corpus, loader
<1>5. CASE FailRebuild
    <2>1. rebuildFailures' \in Nat
        BY <1>5 DEF StoredInv, FailRebuild
    <2> QED
        BY <1>1, <1>2, <1>5, <2>1 DEF StoredInv, FailRebuild, sync, vars, corpus, loader
<1>6. CASE Promote
    BY <1>1, <1>2, <1>6 DEF StoredInv, Promote, counts, vars, corpus, loader
<1> QED
    BY <1>3, <1>4, <1>5, <1>6

\* No step indexes what is not stored.
LEMMA StoredStep ==
    ASSUME StoredInv, [NextIndex]_searchVars
    PROVE  StoredInv'
<1>1. CASE UNCHANGED searchVars
    <2>1. versions' = versions /\ newVersions' = newVersions
        BY <1>1 DEF searchVars, vars, corpus, loader
    <2>2. /\ DocsOf(versions)' = DocsOf(versions)
          /\ DocsOf(versions \cup newVersions)' = DocsOf(versions \cup newVersions)
          /\ KeysOf(versions \cup newVersions)' = KeysOf(versions \cup newVersions)
        BY <2>1 DEF DocsOf, KeysOf, Doc, Key
    <2> QED
        BY <1>1, <2>1, <2>2
           DEF StoredInv, searchVars, sync, rebuild, counts, vars, corpus, loader
<1> QED
    BY <1>1, BeginStored, StoreStored, CommitStored, FlushStored, DieStored, RebuildStored
       DEF NextIndex

LEMMA StoredInit == InitIndex => StoredInv
<1>1. InitIndex => rebuildFailures \in Nat
    BY DEF InitIndex
<1> QED
    BY <1>1 DEF InitIndex, Init, StoredInv

\* The buffers, the index and the rebuild hold documents of versions.
THEOREM StoredInvariant == SpecIndex => []StoredInv
BY StoredInit, StoredStep, PTL DEF SpecIndex

\* The types, and that only the load under way has documents waiting.
THEOREM IndexTypeCorrect == SpecIndex => []IndexTypeOK
<1>1. StoredInv => IndexTypeOK
    <2> SUFFICES ASSUME StoredInv PROVE IndexTypeOK
        OBVIOUS
    <2>1. DocsOf(versions) \subseteq DocsOf(versions \cup newVersions)
        BY DocsGrow
    <2>2. KeysOf(versions \cup newVersions) \subseteq
              {Key(d) : d \in DocsOf(versions \cup newVersions)}
        <3> SUFFICES ASSUME NEW v \in versions \cup newVersions
                     PROVE  \E d \in DocsOf(versions \cup newVersions) : Key(v) = Key(d)
            BY DEF KeysOf
        <3>1. Doc(v, TRUE) \in DocsOf(versions \cup newVersions)
            BY DocsBoth
        <3>2. Key(v) = Key(Doc(v, TRUE))
            BY DEF Key, Doc
        <3> QED
            BY <3>1, <3>2
    <2> DEFINE Docs == {Doc(v, c) : v \in versions \cup newVersions, c \in BOOLEAN}
    <2>3. Docs = DocsOf(versions \cup newVersions)
        BY DEF DocsOf
    <2>4. toSync \cup spare \cup rows \subseteq Docs
        BY <2>1, <2>3 DEF StoredInv
    <2>5. toRetire \subseteq {Key(d) : d \in Docs}
        BY <2>2, <2>3 DEF StoredInv
    <2> QED
        BY <2>4, <2>5 DEF StoredInv, IndexTypeOK
<1> QED
    BY <1>1, StoredInvariant, PTL

\* The index advertises no text that the database has not got.
THEOREM IndexedStored == SpecIndex => []IndexedIsStored
<1>1. StoredInv => IndexedIsStored
    BY DocFields DEF StoredInv, IndexedIsStored
<1> QED
    BY <1>1, StoredInvariant, PTL

-----------------------------------------------------------------------------
(***************************************************************************)
(* One current document per section                                        *)
(***************************************************************************)

\* A load writes one release point: what waits to be indexed is of one release,
\* one document to a key, and until the retired keys are written every other
\* document of a section about to become current is among them.
BuffersInv ==
    /\ \A v \in newVersions : v.first = rel
    /\ \A d \in toSync : pc # "idle" => d.first = rel
    /\ \A d, e \in toSync : d.first = e.first /\ (Key(d) = Key(e) => d = e)
    /\ flush # "sync" =>
          \A d \in toSync : d.current =>
              \A v \in versions \cup newVersions :
                  v.sec = d.sec /\ v.first # d.first => Key(v) \in toRetire

\* Storing a new text retires what the section said before.
LEMMA StoreBuffers ==
    ASSUME StoredInv, BuffersInv, NEW e \in Element, Store(e)
    PROVE  BuffersInv'
<1>1. /\ flush = "none" /\ flush' = "none" /\ pc # "idle" /\ pc' = pc /\ rel' = rel
      /\ versions' = versions /\ StoreElement(e)
    BY DEF Store, StoreElement, corpus
<1>2. CASE Known(e) # {}
    <2>1. newVersions' = newVersions /\ toRetire' = toRetire /\ toSync' = toSync
        BY <1>2 DEF Store, StoreElement
    <2> QED
        BY <1>1, <2>1 DEF BuffersInv, Key
<1>3. CASE Known(e) = {}
    <2> DEFINE w == [sec |-> e.sec, text |-> e.text, first |-> rel]
               n == Doc(w, newest)
    <2>1. newVersions' = newVersions \cup {w}
        BY <1>3 DEF Store, StoreElement
    <2>2. toSync' = {x \in toSync : Key(x) # Key(n)} \cup {n}
        BY <1>3 DEF Store, Put
    <2>3. toRetire' = toRetire \cup (IF newest THEN Superseded(e) ELSE {})
        BY <1>3 DEF Store
    <2>4. w.first = rel /\ n.first = rel /\ n.sec = e.sec /\ n.current = newest
        BY DEF Doc
    <2>5. \A v \in versions \cup newVersions :
              v.sec = e.sec /\ v.first # rel => Key(v) \in Superseded(e)
        BY DEF Superseded
    <2>6. n.current => newest
        BY <2>4
    <2> HIDE DEF w, n
    <2>7. \A v \in newVersions' : v.first = rel'
        BY <1>1, <2>1, <2>4 DEF BuffersInv
    <2>8. \A d \in toSync' : d.first = rel'
        BY <1>1, <2>2, <2>4 DEF BuffersInv
    <2>9. \A d, x \in toSync' : Key(d) = Key(x) => d = x
        BY <2>2 DEF BuffersInv
    <2>10. ASSUME NEW d \in toSync', d.current, NEW v \in versions' \cup newVersions',
                  v.sec = d.sec, v.first # d.first
           PROVE  Key(v) \in toRetire'
        <3>1. v \in versions \cup newVersions
            BY <1>1, <2>1, <2>4, <2>8, <2>10
        <3>2. CASE d \in toSync
            BY <1>1, <2>3, <2>10, <3>1, <3>2 DEF BuffersInv
        <3>3. CASE d = n
            BY <2>3, <2>4, <2>5, <2>6, <2>10, <3>1, <3>3
        <3> QED
            BY <2>2, <3>2, <3>3
    <2> QED
        BY <2>7, <2>8, <2>9, <2>10 DEF BuffersInv, Key
<1> QED
    BY <1>2, <1>3

\* No step indexes two texts of a section from one load.
LEMMA BuffersStep ==
    ASSUME StoredInv, BuffersInv, [NextIndex]_searchVars
    PROVE  BuffersInv'
<1>1. CASE Begin
    BY <1>1 DEF BuffersInv, Begin, BeginLoad, BeginUpdate
<1>2. ASSUME NEW e \in Element, Store(e) PROVE BuffersInv'
    BY <1>2, StoreBuffers
<1>3. CASE Commit
    <2>1. /\ versions' = versions \cup newVersions /\ newVersions' = {}
          /\ toSync' = toSync /\ toRetire' = toRetire /\ flush = "none"
          /\ pc # "idle" /\ (pc' # "idle" => rel' = rel)
        BY <1>3 DEF Commit, CommitBatch, Finish, CommitRows, EndSession
    <2> QED
        BY <2>1 DEF BuffersInv, Key
<1>4. CASE FlushRetire
    <2>1. /\ newVersions' = newVersions /\ toSync' = toSync /\ flush' = "sync"
          /\ pc' = pc /\ rel' = rel
        BY <1>4 DEF FlushRetire, vars, loader
    <2> QED
        BY <2>1 DEF BuffersInv, Key
<1>5. CASE FlushSync
    <2>1. newVersions' = newVersions /\ toSync' = {} /\ rel' = rel
        BY <1>5 DEF FlushSync, vars, loader
    <2> QED
        BY <2>1 DEF BuffersInv
<1>6. CASE Die
    <2>1. toSync' = {} /\ (newVersions' = {} \/ (newVersions' = newVersions /\ rel' = rel))
        BY <1>6 DEF Die, Interrupt, EndSession, vars, loader
    <2> QED
        BY <2>1 DEF BuffersInv
<1>7. CASE StartRebuild \/ IndexRow \/ FailRebuild \/ Promote \/ UNCHANGED searchVars
    <2>1. /\ versions' = versions /\ newVersions' = newVersions /\ pc' = pc /\ rel' = rel
          /\ toSync' = toSync /\ toRetire' = toRetire /\ flush' = flush
        BY <1>7 DEF StartRebuild, IndexRow, FailRebuild, Promote, searchVars, sync,
                    vars, corpus, loader
    <2> QED
        BY <2>1 DEF BuffersInv, Key
<1> QED
    BY <1>1, <1>2, <1>3, <1>4, <1>5, <1>6, <1>7 DEF NextIndex

\* The observer forgets nothing.
Clean == {"overlapped", "lostBulk"} \cap history = {}

LEMMA HistoryGrows ==
    ASSUME [NextIndex]_searchVars
    PROVE  history \subseteq history' /\ (Clean' => Clean)
<1>1. history \subseteq history'
    <2>1. CASE Begin \/ Die \/ StartRebuild
        BY <2>1 DEF Begin, Die, StartRebuild, Observe
    <2>2. CASE FlushRetire \/ FlushSync \/ IndexRow
        BY <2>2 DEF FlushRetire, FlushSync, IndexRow, Bulk, Observe
    <2>3. ASSUME NEW e \in Element, Store(e) PROVE history' = history
        BY <2>3 DEF Store
    <2>4. CASE Commit \/ FailRebuild \/ Promote \/ UNCHANGED searchVars
        BY <2>4 DEF Commit, FailRebuild, Promote, searchVars
    <2> QED
        BY <2>1, <2>2, <2>3, <2>4 DEF NextIndex
<1> QED
    BY <1>1 DEF Clean

\* A bulk write that is not observed as lost took all its actions.
LEMMA BulkWhole ==
    ASSUME NEW actions, NEW written, Bulk(actions, written), Clean'
    PROVE  written = actions
BY DEF Bulk, Observe, Clean

\* Unless they were observed to overlap, a rebuild and a load exclude each other.
AloneInv == Clean /\ rebuilding => pc = "idle" /\ flush = "none"

LEMMA AloneStep ==
    ASSUME AloneInv, [NextIndex]_searchVars
    PROVE  AloneInv'
<1> SUFFICES ASSUME Clean', rebuilding' PROVE pc' = "idle" /\ flush' = "none"
    BY DEF AloneInv
<1>1. Clean
    BY HistoryGrows
<1>2. CASE Begin
    <2>1. rebuilding /\ history' = history \cup {e \in {"outOfOrder"} :
                               \E q \in Release : q > rel' /\ row[q] # "absent"}
                          \cup {e \in {"replaced"} :
                               row[rel'] \notin {"absent", row'[rel']}}
                          \cup {"overlapped"}
        BY <1>2 DEF Begin, rebuild
    <2> QED
        BY <2>1 DEF Clean
<1>3. ASSUME NEW e \in Element, Store(e) PROVE FALSE
    BY <1>1, <1>3 DEF AloneInv, Store, StoreElement, rebuild
<1>4. CASE Commit \/ FlushRetire \/ FlushSync
    BY <1>1, <1>4 DEF AloneInv, Commit, CommitBatch, Finish, FlushRetire, FlushDue,
                      FlushSync, rebuild
<1>5. CASE Die
    BY <1>1, <1>5 DEF AloneInv, Die, rebuild
<1>6. CASE StartRebuild
    BY <1>6 DEF StartRebuild, Observe, Clean, sync, vars, loader
<1>7. CASE IndexRow \/ FailRebuild \/ Promote \/ UNCHANGED searchVars
    BY <1>1, <1>7 DEF AloneInv, IndexRow, FailRebuild, Promote, searchVars, sync,
                      rebuild, vars, loader
<1> QED
    BY <1>2, <1>3, <1>4, <1>5, <1>6, <1>7 DEF NextIndex

\* No two current documents of a section, in the index or in the one a rebuild
\* fills. While the new documents of a load are written, the old ones that are
\* still current belong to sections it does not write, or to its own release.
CurrentInv ==
    Clean /\ rebuildFailures = 0 =>
        /\ AtMostOneCurrent
        /\ ~rebuilding => spare = {}
        /\ \A d, e \in spare \cup rows : d.sec = e.sec => d = e
        /\ flush = "sync" =>
              \A x \in index, d \in toSync :
                  x.current /\ d.current /\ x.sec = d.sec => x.first = d.first

\* The retired keys are written before the new documents.
LEMMA FlushRetireCurrent ==
    ASSUME StoredInv, BuffersInv, CurrentInv, FlushRetire,
           Clean, Clean', rebuildFailures = 0
    PROVE  CurrentInv'
<1>1. index' = Retired(index, toRetire)
    BY BulkWhole DEF FlushRetire
<1>2. \A x \in index' : x.current => x \in index /\ Key(x) \notin toRetire
    <2>1. index \in SUBSET DocsOf(versions)
        BY DEF StoredInv
    <2> QED
        BY <1>1, <2>1, RetiredDocs
<1>3. AtMostOneCurrent'
    BY <1>2 DEF CurrentInv, AtMostOneCurrent
<1>4. ASSUME NEW x \in index', NEW d \in toSync, x.current, d.current, x.sec = d.sec
      PROVE  x.first = d.first
    <2>1. x \in index /\ Key(x) \notin toRetire
        BY <1>2, <1>4
    <2>2. PICK v \in versions : Key(x) = Key(v) /\ x.sec = v.sec /\ x.first = v.first
        BY <2>1, DocFields DEF StoredInv
    <2> QED
        BY <1>4, <2>1, <2>2 DEF BuffersInv, FlushRetire, FlushDue
<1>5. toSync' = toSync /\ spare' = spare /\ rows' = rows /\ rebuilding' = rebuilding
    BY DEF FlushRetire, rebuild
<1> QED
    BY <1>3, <1>4, <1>5 DEF CurrentInv

\* Each new document replaces the one of its section that is still current.
LEMMA FlushSyncCurrent ==
    ASSUME BuffersInv, CurrentInv, FlushSync, Clean, Clean', rebuildFailures = 0
    PROVE  CurrentInv'
<1>1. index' = {x \in index : \A d \in toSync : Key(x) # Key(d)} \cup toSync
    BY BulkWhole DEF FlushSync, PutAll
<1>2. AtMostOneCurrent'
    <2> SUFFICES ASSUME NEW d \in index', NEW e \in index', d.current, e.current,
                        d.sec = e.sec
                 PROVE  d = e
        BY DEF AtMostOneCurrent
    <2>1. ASSUME NEW x \in index', x \notin toSync, NEW y \in toSync,
                 x.current, y.current, x.sec = y.sec
          PROVE  FALSE
        <3>1. x \in index /\ Key(x) # Key(y)
            BY <1>1, <2>1
        <3>2. x.first = y.first
            BY <2>1, <3>1 DEF CurrentInv, FlushSync
        <3> QED
            BY <2>1, <3>1, <3>2, KeysEqual
    <2>2. CASE d \in toSync /\ e \in toSync
        BY <2>2, KeysEqual DEF BuffersInv
    <2>3. CASE d \notin toSync /\ e \notin toSync
        BY <1>1, <2>3 DEF CurrentInv, AtMostOneCurrent
    <2> QED
        BY <2>1, <2>2, <2>3
<1>3. flush' = "none" /\ spare' = spare /\ rows' = rows /\ rebuilding' = rebuilding
    BY DEF FlushSync, rebuild
<1> QED
    BY <1>2, <1>3 DEF CurrentInv

\* A rebuild that neither fails nor meets a load holds one document per section.
LEMMA RebuildCurrent ==
    ASSUME AloneInv, AloneInv', CurrentInv, Clean, Clean', rebuildFailures = 0,
           StartRebuild \/ IndexRow \/ Promote
    PROVE  CurrentInv'
<1>1. CASE StartRebuild
    <2>1. PICK read \in OnePerSection(CurrentVersions) : rows' = {Doc(v, TRUE) : v \in read}
        BY <1>1 DEF StartRebuild
    <2>2. \A d, e \in rows' : d.sec = e.sec => d = e
        <3>1. \A v \in read : Doc(v, TRUE).sec = v.sec
            BY DEF Doc
        <3>2. \A v, w \in read : v.sec = w.sec => v = w
            BY DEF OnePerSection
        <3> SUFFICES ASSUME NEW d \in rows', NEW e \in rows', d.sec = e.sec
                     PROVE  d = e
            OBVIOUS
        <3>3. PICK v \in read : d = Doc(v, TRUE)
            BY <2>1
        <3>4. PICK w \in read : e = Doc(w, TRUE)
            BY <2>1
        <3>5. v.sec = w.sec
            BY <3>1, <3>3, <3>4
        <3> QED
            BY <3>2, <3>3, <3>4, <3>5
    <2>3. spare' = {} /\ rebuilding' /\ index' = index /\ flush' = flush /\ toSync' = toSync
        BY <1>1 DEF CurrentInv, StartRebuild, sync
    <2>4. flush' = "none"
        BY <2>3 DEF AloneInv
    <2> QED
        BY <2>2, <2>3, <2>4 DEF CurrentInv, AtMostOneCurrent
<1>2. CASE IndexRow
    <2>1. PICK d \in rows, docs \in SUBSET rows :
              Bulk({d}, docs) /\ spare' = PutAll(spare, docs) /\ rows' = rows \ {d}
        BY <1>2 DEF IndexRow
    <2>2. spare' \cup rows' \subseteq spare \cup rows
        BY <2>1 DEF PutAll
    <2>3. rebuilding' /\ index' = index /\ flush' = flush
        BY <1>2 DEF IndexRow, sync
    <2>4. flush' = "none"
        BY <2>3 DEF AloneInv
    <2> QED
        BY <2>2, <2>3, <2>4 DEF CurrentInv, AtMostOneCurrent
<1>3. CASE Promote
    <2>1. index' = spare /\ spare' = {} /\ rows' = {} /\ flush' = flush /\ rebuilding
        BY <1>3 DEF Promote
    <2>2. toSync' = toSync
        BY <1>3 DEF Promote
    <2>3. \A d, e \in index' : d.sec = e.sec => d = e
        BY <2>1 DEF CurrentInv
    <2> QED
        BY <2>1, <2>2, <2>3 DEF CurrentInv, AtMostOneCurrent, AloneInv
<1> QED
    BY <1>1, <1>2, <1>3

\* No step makes two documents of a section current.
LEMMA CurrentStep ==
    ASSUME StoredInv, BuffersInv, AloneInv, CurrentInv, [NextIndex]_searchVars
    PROVE  CurrentInv'
<1> SUFFICES ASSUME Clean', rebuildFailures' = 0 PROVE CurrentInv'
    BY DEF CurrentInv
<1>1. Clean
    BY HistoryGrows
<1>2. AloneInv'
    BY AloneStep
<1>3. ~FailRebuild /\ rebuildFailures = 0
    <2>1. ~FailRebuild
        BY DEF FailRebuild, StoredInv
    <2>2. ASSUME ~FailRebuild PROVE rebuildFailures' = rebuildFailures
        BY <2>2 DEF NextIndex, Begin, Store, Commit, FlushRetire, FlushSync, Die,
                    StartRebuild, IndexRow, Promote, searchVars, counts
    <2> QED
        BY <2>1, <2>2
<1>4. CASE Begin \/ Commit \/ Die
    <2>1. /\ index' = index /\ flush' # "sync"
          /\ spare' = spare /\ rows' = rows /\ rebuilding' = rebuilding
        BY <1>4 DEF Begin, Commit, Die, rebuild
    <2> QED
        BY <1>1, <1>3, <2>1 DEF CurrentInv, AtMostOneCurrent
<1>5. ASSUME NEW e \in Element, Store(e) PROVE CurrentInv'
    BY <1>1, <1>3, <1>5 DEF CurrentInv, AtMostOneCurrent, Store, rebuild
<1>6. CASE FlushRetire
    BY <1>1, <1>3, <1>6, FlushRetireCurrent
<1>7. CASE FlushSync
    BY <1>1, <1>3, <1>7, FlushSyncCurrent
<1>8. CASE StartRebuild \/ IndexRow \/ Promote
    BY <1>1, <1>2, <1>3, <1>8, RebuildCurrent
<1>9. CASE UNCHANGED searchVars
    BY <1>1, <1>3, <1>9 DEF CurrentInv, AtMostOneCurrent, searchVars, sync, rebuild
<1> QED
    BY <1>3, <1>4, <1>5, <1>6, <1>7, <1>8, <1>9 DEF NextIndex

\* The index's invariant: what is stored, what waits and what is current.
IndexInv == StoredInv /\ BuffersInv /\ AloneInv /\ CurrentInv

LEMMA IndexInit == InitIndex => IndexInv
<1>1. InitIndex => BuffersInv /\ AloneInv /\ CurrentInv
    BY DEF InitIndex, Init, BuffersInv, AloneInv, CurrentInv, AtMostOneCurrent
<1> QED
    BY <1>1, StoredInit DEF IndexInv

THEOREM IndexInvariant == SpecIndex => []IndexInv
<1>1. IndexInv /\ [NextIndex]_searchVars => IndexInv'
    BY StoredStep, BuffersStep, AloneStep, CurrentStep DEF IndexInv
<1> QED
    BY <1>1, IndexInit, PTL DEF SpecIndex

\* Whatever the order of the loads and wherever one dies, the default search
\* finds a section once, unless a write to the index was lost, a rebuild failed
\* or met a load.
THEOREM OneCurrentCorrect == SpecIndex => []OneCurrentUnlessLost
<1>1. IndexInv => OneCurrentUnlessLost
    BY DEF IndexInv, CurrentInv, Clean, OneCurrentUnlessLost
<1> QED
    BY <1>1, IndexInvariant, PTL

-----------------------------------------------------------------------------
(***************************************************************************)
(* What the alias moves to                                                 *)
(***************************************************************************)

\* What a rebuild has indexed and what it has still to index are, together, the
\* sections in force, after failed rebuilds too: a document that an earlier one
\* left stands in for none that is read.
WholeInv ==
    Clean /\ rebuilding =>
        \E read \in OnePerSection(CurrentVersions) :
            /\ {Doc(v, TRUE) : v \in read} \subseteq spare \cup rows
            /\ rows \subseteq {Doc(v, TRUE) : v \in read}

\* The texts in force change with the tables only.
LEMMA InForceStands ==
    ASSUME UNCHANGED <<versions, releaseMap>>
    PROVE  OnePerSection(CurrentVersions)' = OnePerSection(CurrentVersions)
<1>1. CurrentVersions' = CurrentVersions
    BY DEF CurrentVersions
<1> QED
    BY <1>1 DEF OnePerSection, Sections

LEMMA WholeStep ==
    ASSUME AloneInv, WholeInv, [NextIndex]_searchVars
    PROVE  WholeInv'
<1> SUFFICES ASSUME Clean', rebuilding' PROVE WholeInv'
    BY DEF WholeInv
<1>1. Clean /\ AloneInv'
    BY HistoryGrows, AloneStep
<1>2. CASE StartRebuild
    <2>1. PICK read \in OnePerSection(CurrentVersions) : rows' = {Doc(v, TRUE) : v \in read}
        BY <1>2 DEF StartRebuild
    <2>2. UNCHANGED <<versions, releaseMap>>
        BY <1>2 DEF StartRebuild, vars, corpus
    <2>3. read \in OnePerSection(CurrentVersions)'
        BY <2>1, <2>2, InForceStands
    <2>4. {Doc(v, TRUE)' : v \in read} = {Doc(v, TRUE) : v \in read}
        BY DEF Doc
    <2> QED
        BY <2>1, <2>3, <2>4 DEF WholeInv
<1>3. CASE IndexRow
    <2>1. PICK d \in rows, docs \in SUBSET rows :
              Bulk({d}, docs) /\ spare' = PutAll(spare, docs) /\ rows' = rows \ {d}
        BY <1>3 DEF IndexRow
    <2>2. docs = {d}
        BY <2>1, BulkWhole
    <2>3. PICK read \in OnePerSection(CurrentVersions) :
              /\ {Doc(v, TRUE) : v \in read} \subseteq spare \cup rows
              /\ rows \subseteq {Doc(v, TRUE) : v \in read}
        BY <1>1, <1>3 DEF WholeInv, IndexRow
    <2>4. spare' = {x \in spare : Key(x) # Key(d)} \cup {d}
        BY <2>1, <2>2 DEF PutAll
    <2>5. \A v, w \in read : Key(Doc(v, TRUE)) = Key(Doc(w, TRUE)) => v = w
        BY DEF Key, Doc, OnePerSection
    <2>6. PICK w \in read : d = Doc(w, TRUE)
        BY <2>3
    <2>7. ASSUME NEW v \in read PROVE Doc(v, TRUE) \in spare' \cup rows'
        <3>1. Doc(v, TRUE) \in spare \cup rows
            BY <2>3
        <3>2. Key(Doc(v, TRUE)) = Key(d) => Doc(v, TRUE) = d
            BY <2>5, <2>6
        <3> QED
            BY <2>1, <2>4, <3>1, <3>2
    <2>8. UNCHANGED <<versions, releaseMap>>
        BY <1>3 DEF IndexRow, vars, corpus
    <2>9. read \in OnePerSection(CurrentVersions)'
        BY <2>8, InForceStands
    <2>10. {Doc(v, TRUE)' : v \in read} = {Doc(v, TRUE) : v \in read}
        BY DEF Doc
    <2> QED
        BY <2>1, <2>3, <2>7, <2>9, <2>10 DEF WholeInv
<1>4. CASE FailRebuild \/ Promote
    BY <1>4 DEF FailRebuild, Promote
<1>5. CASE ~(StartRebuild \/ IndexRow \/ FailRebuild \/ Promote)
    <2>1. spare' = spare /\ rows' = rows /\ rebuilding
        BY <1>5 DEF NextIndex, Begin, Store, Commit, FlushRetire, FlushSync, Die,
                    rebuild, searchVars
    <2>2. pc = "idle" /\ flush = "none" /\ pc' = "idle"
        BY <1>1, <2>1 DEF AloneInv
    <2>3. UNCHANGED searchVars
        BY <1>5, <2>2 DEF NextIndex, Begin, BeginLoad, BeginUpdate, Store, StoreElement,
              Commit, CommitBatch, Finish, FlushRetire, FlushDue, FlushSync, Die
    <2>4. UNCHANGED <<versions, releaseMap>>
        BY <2>3 DEF searchVars, vars, corpus
    <2>5. OnePerSection(CurrentVersions)' = OnePerSection(CurrentVersions)
        BY <2>4, InForceStands
    <2> QED
        BY <1>1, <2>1, <2>5 DEF WholeInv, Doc
<1> QED
    BY <1>2, <1>3, <1>4, <1>5

\* The alias moves to an index that has every section in the text in force,
\* however many rebuilds failed before: unless a batch was refused or a load ran.
THEOREM PromotedWhole == SpecIndex => PromotedIsWhole
<1>1. InitIndex => AloneInv /\ WholeInv
    BY DEF InitIndex, AloneInv, WholeInv
<1>2. AloneInv /\ WholeInv /\ [NextIndex]_searchVars => (AloneInv /\ WholeInv)'
    BY AloneStep, WholeStep
<1>3. WholeInv /\ [NextIndex]_searchVars =>
          [Promote /\ {"overlapped", "lostBulk"} \cap history = {}
             => \E read \in OnePerSection(CurrentVersions) :
                   {Doc(v, TRUE) : v \in read} \subseteq index']_searchVars
    <2> SUFFICES ASSUME WholeInv, Promote, Clean
                 PROVE  \E read \in OnePerSection(CurrentVersions) :
                            {Doc(v, TRUE) : v \in read} \subseteq index'
        BY DEF Clean
    <2> QED
        BY DEF WholeInv, Promote
<1> QED
    BY <1>1, <1>2, <1>3, PTL DEF SpecIndex, PromotedIsWhole

-----------------------------------------------------------------------------
(***************************************************************************)
(* Texts in force, for any release map                                     *)
(***************************************************************************)

\* A section's versions at the newest release point that carries it.
InForce(m) ==
    {v \in UNION {m[r] : r \in Release} :
        \E r \in Release :
            /\ v \in m[r]
            /\ \A q \in Release : \A w \in m[q] : w.sec = v.sec => q <= r}

\* No section goes back to a text it has left, or has two at once.
NoReturn(m) ==
    \A p, q, r \in Release : \A u \in m[p] \cap m[r] :
        p <= q /\ q <= r => \A w \in m[q] : w.sec = u.sec => w = u

\* A release map with the versions in `A` added at `t`.
Mapped(m, t, A) == [m EXCEPT ![t] = @ \cup A]

LEMMA MappedAt ==
    ASSUME NEW m \in [Release -> SUBSET Version], NEW t \in Release, NEW A \in SUBSET Version
    PROVE  /\ Mapped(m, t, A) \in [Release -> SUBSET Version]
           /\ Mapped(m, t, A)[t] = m[t] \cup A
           /\ \A q \in Release : q # t => Mapped(m, t, A)[q] = m[q]
           /\ \A q \in Release : m[q] \subseteq Mapped(m, t, A)[q]
BY DEF Mapped

\* A map with fewer rows goes back no more often.
LEMMA NoReturnBefore ==
    ASSUME NEW m, NEW n, \A q \in Release : m[q] \subseteq n[q], NoReturn(n)
    PROVE  NoReturn(m)
BY DEF NoReturn

\* A release point that does not go back has one text of a section.
LEMMA OneTextAt ==
    ASSUME NEW m, NoReturn(m), NEW t \in Release, NEW v \in m[t], NEW w \in m[t],
           v.sec = w.sec
    PROVE  v = w
<1>1. t <= t
    BY ReleaseAssumption
<1> QED
    BY <1>1 DEF NoReturn

\* What is mapped at the newest release point is in force there, and nothing else
\* of its sections.
LEMMA NewAtTop ==
    ASSUME NEW m \in [Release -> SUBSET Version], NEW t \in Release, NEW A \in SUBSET Version,
           \A q \in Release : m[q] # {} => q <= t,
           NoReturn(Mapped(m, t, A))
    PROVE  InForce(Mapped(m, t, A)) = {w \in InForce(m) : w.sec \notin Sections(A)} \cup A
<1> DEFINE n == Mapped(m, t, A)
<1>1. /\ n[t] = m[t] \cup A
      /\ \A q \in Release : q # t => n[q] = m[q]
      /\ \A q \in Release : m[q] \subseteq n[q]
    BY MappedAt
<1>2. NoReturn(n)
    OBVIOUS
<1> HIDE DEF n
<1>3. t <= t /\ \A q, r \in Release : q <= r /\ r <= q => q = r
    BY ReleaseAssumption
<1>4. \A q \in Release : n[q] # {} => q <= t
    BY <1>1, <1>3
<1>5. \A a \in A : a.sec \in Sections(A)
    BY DEF Sections
<1>6. ASSUME NEW v \in A PROVE v \in InForce(n)
    BY <1>1, <1>4 DEF InForce
<1>7. ASSUME NEW v \in InForce(m), v.sec \notin Sections(A) PROVE v \in InForce(n)
    <2>1. PICK r \in Release : /\ v \in m[r]
                               /\ \A q \in Release : \A w \in m[q] : w.sec = v.sec => q <= r
        BY DEF InForce
    <2>2. \A q \in Release : \A w \in n[q] : w.sec = v.sec => w \in m[q]
        BY <1>1, <1>5, <1>7
    <2> QED
        BY <1>1, <2>1, <2>2 DEF InForce
<1>8. ASSUME NEW v \in InForce(n)
      PROVE  v \in A \/ (v \in InForce(m) /\ v.sec \notin Sections(A))
    <2>1. PICK r \in Release : /\ v \in n[r]
                               /\ \A q \in Release : \A w \in n[q] : w.sec = v.sec => q <= r
        BY DEF InForce
    <2>2. CASE v.sec \notin Sections(A)
        <3>1. v \in m[r]
            BY <1>1, <1>5, <2>1, <2>2
        <3> QED
            BY <1>1, <2>1, <2>2, <3>1 DEF InForce
    <2>3. CASE v.sec \in Sections(A)
        <3>1. PICK a \in A : a.sec = v.sec
            BY <2>3 DEF Sections
        <3>2. r = t
            BY <1>1, <1>3, <1>4, <2>1, <3>1
        <3> QED
            BY <1>1, <1>2, <2>1, <3>1, <3>2, OneTextAt
    <2> QED
        BY <2>2, <2>3
<1>9. InForce(n) = {w \in InForce(m) : w.sec \notin Sections(A)} \cup A
    BY <1>6, <1>7, <1>8
<1> QED
    BY <1>9 DEF n

\* Mapping again, at the newest release point, what is mapped already changes
\* nothing that is in force.
LEMMA KnownAtTop ==
    ASSUME NEW m \in [Release -> SUBSET Version], NEW t \in Release, NEW A \in SUBSET Version,
           \A q \in Release : m[q] # {} => q <= t,
           NoReturn(Mapped(m, t, A)),
           \A a \in A : \E p \in Release : a \in m[p]
    PROVE  InForce(Mapped(m, t, A)) = InForce(m) /\ NoReturn(m)
<1> DEFINE n == Mapped(m, t, A)
<1>1. n[t] = m[t] \cup A /\ \A q \in Release : m[q] \subseteq n[q]
    BY MappedAt
<1>2. InForce(n) = {w \in InForce(m) : w.sec \notin Sections(A)} \cup A
    BY NewAtTop
<1>3. NoReturn(n)
    OBVIOUS
<1> HIDE DEF n
<1>4. ASSUME NEW a \in A, NEW q \in Release, NEW w \in m[q], w.sec = a.sec,
             \A x \in Release : \A u \in m[x] : u.sec = a.sec => x <= q
      PROVE  w = a
    <2>1. PICK p \in Release : a \in m[p]
        OBVIOUS
    <2>2. p <= q /\ q <= t
        BY <1>4, <2>1
    <2>3. a \in n[p] \cap n[t] /\ w \in n[q]
        BY <1>1, <2>1
    <2> QED
        BY <1>3, <1>4, <2>2, <2>3 DEF NoReturn
<1>5. ASSUME NEW a \in A PROVE a \in InForce(m)
    <2> DEFINE S == {q \in Release : \E w \in m[q] : w.sec = a.sec}
    <2>1. S # {} /\ S \in SUBSET Nat /\ t \in Nat /\ \A q \in S : q <= t
        BY ReleaseAssumption
    <2>2. \E q \in S : \A x \in S : x <= q
        <3> HIDE DEF S
        <3> QED
            BY <2>1, NewestExists
    <2>3. PICK q \in S : \A x \in S : x <= q
        BY <2>2
    <2>4. PICK w \in m[q] : w.sec = a.sec
        OBVIOUS
    <2>5. \A x \in Release : \A u \in m[x] : u.sec = a.sec => x <= q
        BY <2>3
    <2>6. w = a
        BY <1>4, <2>4, <2>5
    <2> QED
        BY <2>4, <2>5, <2>6 DEF InForce
<1>6. ASSUME NEW v \in InForce(m), v.sec \in Sections(A) PROVE v \in A
    <2>1. PICK a \in A : a.sec = v.sec
        BY <1>6 DEF Sections
    <2>2. PICK r \in Release : /\ v \in m[r]
                               /\ \A q \in Release : \A w \in m[q] : w.sec = v.sec => q <= r
        BY DEF InForce
    <2> QED
        BY <1>4, <2>1, <2>2
<1>7. InForce(n) = InForce(m)
    BY <1>2, <1>5, <1>6
<1>8. NoReturn(m)
    BY <1>1, <1>3, NoReturnBefore
<1> QED
    BY <1>7, <1>8 DEF n

\* The rebuild's query, where no section goes back, is what is in force.
LEMMA ReadInForce ==
    ASSUME TypeOK, MapsHold, NoReversion
    PROVE  /\ CurrentVersions = InForce(releaseMap)
           /\ \A read \in OnePerSection(CurrentVersions) : read = CurrentVersions
<1>1. CurrentVersions = InForce(releaseMap)
    BY DEF CurrentVersions, InForce, MapsHold
<1>2. NoReturn(releaseMap)
    BY DEF NoReversion, NoReturn
<1>3. ASSUME NEW v \in CurrentVersions, NEW w \in CurrentVersions, v.sec = w.sec
      PROVE  v = w
    <2>1. PICK r \in Release : /\ v \in releaseMap[r]
              /\ \A q \in Release : \A x \in releaseMap[q] : x.sec = v.sec => q <= r
        BY DEF CurrentVersions
    <2>2. PICK p \in Release : /\ w \in releaseMap[p]
              /\ \A q \in Release : \A x \in releaseMap[q] : x.sec = w.sec => q <= p
        BY DEF CurrentVersions
    <2>3. p <= r /\ r <= p
        BY <1>3, <2>1, <2>2
    <2>4. p = r
        BY <2>3, ReleaseAssumption
    <2> QED
        BY <1>2, <1>3, <2>1, <2>2, <2>4, OneTextAt
<1>4. ASSUME NEW read \in OnePerSection(CurrentVersions), NEW v \in CurrentVersions
      PROVE  v \in read
    <2>1. PICK w \in read : w.sec = v.sec
        BY DEF OnePerSection, Sections
    <2>2. w \in CurrentVersions
        BY DEF OnePerSection
    <2> QED
        BY <1>3, <2>1, <2>2
<1> QED
    BY <1>1, <1>4 DEF OnePerSection

-----------------------------------------------------------------------------
(***************************************************************************)
(* The incremental writes and the rebuild agree                            *)
(***************************************************************************)

\* Release points came oldest first, none was taken over, nothing was lost.
Orderly == history = {} /\ rebuildFailures = 0

\* The current documents, as they are and once the loader's buffers are written.
AsIs == {d \in index : d.current}
AfterWrites ==
    {d \in index :
        d.current /\ Key(d) \notin toRetire /\ \A x \in toSync : Key(x) # Key(d)}
        \cup {d \in toSync : d.current}

\* What a release map asks to be current, and the map the open transaction makes.
Advertised(m) == {Doc(v, TRUE) : v \in InForce(m)}
Staged == Mapped(releaseMap, rel, newMaps)

\* An orderly load is of the newest release point, and of no other.
TopInv ==
    Orderly /\ pc # "idle" =>
        newest /\ \A q \in Release : releaseMap[q] # {} => q <= rel

\* Nothing is staged while the index is written.
StagedInv == flush # "none" => newMaps = {} /\ newVersions = {}

\* The committed tables are advertised, once what they owe the index is written;
\* what the open transaction stages will be.
AdvertisedInv ==
    /\ Orderly /\ NoReturn(releaseMap) =>
          /\ flush = "none" => AsIs = Advertised(releaseMap)
          /\ flush # "none" => AfterWrites = Advertised(releaseMap)
    /\ Orderly /\ pc # "idle" /\ flush = "none" /\ NoReturn(Staged) =>
          AfterWrites = Advertised(Staged)

\* A rebuild that meets no load and follows no failure holds what is in force.
RebuildInv ==
    Orderly /\ rebuilding /\ NoReturn(releaseMap) =>
        spare \cup rows = Advertised(releaseMap)

\* What the earlier invariants say of an orderly state.
LEMMA OrderlyIs ==
    ASSUME Orderly
    PROVE  Clean /\ rebuildFailures = 0 /\ "replaced" \notin history
BY DEF Orderly, Clean

\* Order is not restored.
LEMMA OrderlyBefore ==
    ASSUME StoredInv, [NextIndex]_searchVars, Orderly'
    PROVE  Orderly /\ history' = {} /\ ~FailRebuild
<1>1. history = {} /\ history' = {}
    BY HistoryGrows DEF Orderly
<1>2. ~FailRebuild
    BY DEF FailRebuild, StoredInv, Orderly
<1>3. rebuildFailures' = rebuildFailures
    BY <1>2 DEF NextIndex, Begin, Store, Commit, FlushRetire, FlushSync, Die,
                StartRebuild, IndexRow, Promote, searchVars, counts
<1> QED
    BY <1>1, <1>2, <1>3 DEF Orderly

\* An orderly load begins at or above everything, and drops nothing.
LEMMA BeginOrderly ==
    ASSUME TablesInv, TypeOK', Begin, history' = {}
    PROVE  /\ rel' \in Release /\ releaseMap' = releaseMap /\ newest'
           /\ \A q \in Release : releaseMap[q] # {} => q <= rel'
<1>1. pc' # "idle" /\ rel' \in Release
    BY DEF Begin, BeginLoad, BeginUpdate
<1>2. /\ ~\E q \in Release : q > rel' /\ row[q] # "absent"
      /\ row[rel'] \in {"absent", row'[rel']}
    BY DEF Begin
<1>3. releaseMap' = releaseMap
    BY <1>2, BeginKeepsMaps DEF Begin
<1>4. \A q \in Release : row[q] # "absent" => q <= rel'
    BY <1>1, <1>2, ReleaseAssumption
<1>5. \A q \in Release : releaseMap[q] # {} => q <= rel'
    BY <1>4 DEF TablesInv, AbsentIsEmpty
<1>6. \A c \in complete : c \in Release /\ row[c] # "absent"
    BY DEF TablesInv, AbsentIsEmpty, TypeOK
<1>7. newest'
    BY <1>4, <1>6 DEF Begin, IsNewest
<1> QED
    BY <1>1, <1>3, <1>5, <1>7

LEMMA TopStep ==
    ASSUME TablesInv, TypeOK', StoredInv, TopInv, [NextIndex]_searchVars
    PROVE  TopInv'
<1> SUFFICES ASSUME Orderly', pc' # "idle"
             PROVE  newest' /\ \A q \in Release : releaseMap'[q] # {} => q <= rel'
    BY DEF TopInv
<1>1. Orderly /\ history' = {} /\ ~FailRebuild
    BY OrderlyBefore
<1>2. CASE Begin
    BY <1>1, <1>2, BeginOrderly
<1>3. ASSUME NEW e \in Element, Store(e)
      PROVE  newest' /\ \A q \in Release : releaseMap'[q] # {} => q <= rel'
    BY <1>1, <1>3 DEF TopInv, Store, StoreElement, corpus
<1>4. CASE Commit
    <2>1. CommitBatch
        BY <1>4 DEF Commit, Finish, EndSession
    <2>2. /\ newest' = newest /\ rel' = rel /\ pc # "idle" /\ rel \in Release
          /\ \A q \in Release : q # rel => releaseMap'[q] = releaseMap[q]
        BY <1>4, <2>1 DEF Commit, CommitBatch, CommitRows, TablesInv, TypeOK
    <2>3. rel <= rel
        BY <2>2, ReleaseAssumption
    <2> QED
        BY <1>1, <2>2, <2>3 DEF TopInv
<1>5. CASE Die
    BY <1>5 DEF Die, Interrupt, EndSession, vars, loader
<1>6. CASE FlushRetire \/ FlushSync \/ StartRebuild \/ IndexRow \/ Promote \/ UNCHANGED searchVars
    <2>1. newest' = newest /\ releaseMap' = releaseMap /\ rel' = rel /\ pc' = pc
        BY <1>6 DEF FlushRetire, FlushSync, StartRebuild, IndexRow, Promote, searchVars,
                    sync, vars, corpus, loader
    <2> QED
        BY <1>1, <2>1 DEF TopInv
<1> QED
    BY <1>1, <1>2, <1>3, <1>4, <1>5, <1>6 DEF NextIndex

LEMMA StagedStep ==
    ASSUME StagedInv, [NextIndex]_searchVars
    PROVE  StagedInv'
<1>1. ASSUME NEW e \in Element, Store(e) PROVE StagedInv'
    BY <1>1 DEF Store, StagedInv
<1>2. CASE Begin \/ Commit \/ Die
    BY <1>2 DEF StagedInv, Begin, Commit, CommitBatch, Finish, EndSession, Die
<1>3. CASE FlushRetire \/ FlushSync \/ StartRebuild \/ IndexRow \/ FailRebuild \/ Promote
           \/ UNCHANGED searchVars
    BY <1>3 DEF StagedInv, FlushRetire, FlushDue, FlushSync, StartRebuild, IndexRow,
                FailRebuild, Promote, searchVars, sync, vars, loader
<1> QED
    BY <1>1, <1>2, <1>3 DEF NextIndex

\* The invariants that say what an orderly index is.
OrderlyInv ==
    /\ TablesInv /\ MapsHold
    /\ "replaced" \notin history => AllMapped
    /\ IndexInv
    /\ TopInv /\ StagedInv

\* A load that begins owes the index nothing yet.
LEMMA BeginAdvertised ==
    ASSUME OrderlyInv, AdvertisedInv, TypeOK', Begin, Orderly, history' = {}
    PROVE  AdvertisedInv'
<1>1. /\ rel' \in Release /\ releaseMap' = releaseMap
      /\ \A q \in Release : releaseMap[q] # {} => q <= rel'
    BY BeginOrderly DEF OrderlyInv
<1>2. /\ index' = index /\ flush = "none" /\ flush' = "none"
      /\ toRetire' = {} /\ toSync' = {}
    BY DEF Begin
<1>3. AsIs' = AsIs /\ AfterWrites' = AsIs
    BY <1>2 DEF AsIs, AfterWrites
<1>4. newMaps' \in SUBSET Version /\ \A a \in newMaps' : \E p \in Release : a \in releaseMap[p]
    <2>1. newMaps' \subseteq Version
        BY DEF TypeOK
    <2>2. newMaps' = {} \/ \E b \in Release : newMaps' \subseteq releaseMap[b]
        BY DEF Begin, BeginLoad, BeginUpdate, Carried
    <2> QED
        BY <2>1, <2>2
<1>5. Staged' = Mapped(releaseMap, rel', newMaps')
    BY <1>1 DEF Staged, Mapped
<1>6. releaseMap \in [Release -> SUBSET Version]
    BY DEF OrderlyInv, TablesInv, TypeOK
<1>7. Advertised(releaseMap)' = Advertised(releaseMap)
    BY <1>1 DEF Advertised, InForce, Doc
<1>8. NoReturn(releaseMap)' => NoReturn(releaseMap)
    BY <1>1 DEF NoReturn
<1>9. ASSUME NoReturn(Staged)'
      PROVE  Advertised(Staged)' = Advertised(releaseMap) /\ NoReturn(releaseMap)
    <2>1. NoReturn(Mapped(releaseMap, rel', newMaps'))
        BY <1>5, <1>9 DEF NoReturn
    <2>2. InForce(Mapped(releaseMap, rel', newMaps')) = InForce(releaseMap)
          /\ NoReturn(releaseMap)
        BY <1>1, <1>4, <1>6, <2>1, KnownAtTop
    <2>3. InForce(Staged)' = InForce(Mapped(releaseMap, rel', newMaps'))
        BY <1>5 DEF InForce
    <2> QED
        BY <2>2, <2>3 DEF Advertised, Doc
<1> QED
    BY <1>2, <1>3, <1>7, <1>8, <1>9 DEF AdvertisedInv

\* A text that is known is placed again; a new one replaces its section's document.
LEMMA StoreAdvertised ==
    ASSUME OrderlyInv, AdvertisedInv, TypeOK', NEW e \in Element, Store(e), Orderly
    PROVE  AdvertisedInv'
<1>1. /\ index' = index /\ flush = "none" /\ flush' = "none" /\ releaseMap' = releaseMap
      /\ pc # "idle" /\ pc' = pc /\ rel' = rel /\ rel \in Release /\ newest
    BY DEF Store, StoreElement, corpus, OrderlyInv, TablesInv, TypeOK, TopInv
<1>2. /\ releaseMap \in [Release -> SUBSET Version] /\ newMaps \in SUBSET Version
      /\ newMaps' \in SUBSET Version
      /\ \A q \in Release : releaseMap[q] # {} => q <= rel
    BY <1>1 DEF OrderlyInv, TablesInv, TypeOK, TopInv
<1>3. PICK v : /\ newMaps' = newMaps \cup {v}
               /\ \/ v \in Known(e) /\ newVersions' = newVersions
                  \/ Known(e) = {} /\ v = [sec |-> e.sec, text |-> e.text, first |-> rel]
    BY DEF Store, StoreElement
<1>4. /\ Staged \in [Release -> SUBSET Version]
      /\ Staged[rel] = releaseMap[rel] \cup newMaps
      /\ \A q \in Release : releaseMap[q] \subseteq Staged[q]
      /\ \A q \in Release : q # rel => Staged[q] = releaseMap[q]
    BY <1>1, <1>2, MappedAt DEF Staged
<1>5. \A q \in Release : Staged[q] # {} => q <= rel
    <2>1. rel <= rel
        BY <1>1, ReleaseAssumption
    <2> QED
        BY <1>2, <1>4, <2>1
<1>6. Staged' = Mapped(Staged, rel, {v}) /\ {v} \in SUBSET Version
    <2>1. Staged' = [releaseMap EXCEPT ![rel] = @ \cup (newMaps \cup {v})]
        BY <1>1, <1>3 DEF Staged, Mapped
    <2>2. Mapped(Staged, rel, {v}) = [releaseMap EXCEPT ![rel] = (@ \cup newMaps) \cup {v}]
        BY <1>1, <1>2 DEF Staged, Mapped
    <2> QED
        BY <1>1, <1>2, <1>3, <2>1, <2>2
<1>7. AsIs' = AsIs /\ (NoReturn(releaseMap)' => NoReturn(releaseMap))
      /\ Advertised(releaseMap)' = Advertised(releaseMap)
    BY <1>1 DEF AsIs, NoReturn, Advertised, InForce, Doc
<1>8. ASSUME NoReturn(Staged)' PROVE AfterWrites' = Advertised(Staged)'
    <2>1. NoReturn(Mapped(Staged, rel, {v}))
        <3> DEFINE n == Mapped(Staged, rel, {v})
        <3>1. Staged' = n
            BY <1>6
        <3>2. NoReturn(n)
            <4> HIDE DEF n
            <4> QED
                BY <1>8, <3>1 DEF NoReturn
        <3> QED
            BY <3>2
    <2>2. NoReturn(Staged)
        <3>1. \A q \in Release : Staged[q] \subseteq Mapped(Staged, rel, {v})[q]
            BY <1>1, <1>4, <1>6, MappedAt
        <3> QED
            BY <2>1, <3>1, NoReturnBefore
    <2>3. AfterWrites = Advertised(Staged)
        BY <1>1, <2>2 DEF AdvertisedInv
    <2>4. InForce(Staged)' = InForce(Mapped(Staged, rel, {v}))
        BY <1>6 DEF InForce
    <2>5. CASE Known(e) # {}
        <3>1. v \in Known(e) /\ toRetire' = toRetire /\ toSync' = toSync
            BY <1>3, <2>5 DEF Store
        <3>2. \E p \in Release : v \in Staged[p]
            <4>1. AllMapped
                BY OrderlyIs DEF OrderlyInv
            <4> QED
                BY <1>1, <1>4, <3>1, <4>1 DEF AllMapped, Known
        <3>3. InForce(Mapped(Staged, rel, {v})) = InForce(Staged)
            <4>1. \A a \in {v} : \E p \in Release : a \in Staged[p]
                BY <3>2
            <4> HIDE DEF Staged
            <4> QED
                BY <1>1, <1>4, <1>5, <1>6, <2>1, <4>1, KnownAtTop
        <3>4. AfterWrites' = AfterWrites
            BY <1>1, <3>1 DEF AfterWrites, Key
        <3>5. Advertised(Staged)' = Advertised(Staged)
            BY <2>4, <3>3 DEF Advertised, Doc
        <3> QED
            BY <2>3, <3>4, <3>5
    <2>6. CASE Known(e) = {}
        <3> DEFINE n == Doc(v, TRUE)
        <3>1. v.sec = e.sec /\ v.first = rel /\ n.sec = e.sec /\ n.first = rel /\ n.current
            BY <1>3, <2>6 DEF Doc
        <3>2. toSync' = {x \in toSync : Key(x) # Key(n)} \cup {n}
            <4>1. newest = TRUE
                BY <1>1 DEF OrderlyInv, IndexInv, StoredInv
            <4>2. n = Doc([sec |-> e.sec, text |-> e.text, first |-> rel], newest)
                BY <1>3, <2>6, <4>1
            <4> QED
                BY <2>6, <4>2 DEF Store, Put
        <3>3. toRetire' = toRetire \cup Superseded(e)
            BY <1>1, <2>6 DEF Store
        <3>4. InForce(Mapped(Staged, rel, {v})) =
                  {w \in InForce(Staged) : w.sec # e.sec} \cup {v}
            <4>1. InForce(Mapped(Staged, rel, {v})) =
                      {w \in InForce(Staged) : w.sec \notin Sections({v})} \cup {v}
                <5> HIDE DEF Staged
                <5> QED
                    BY <1>1, <1>4, <1>5, <1>6, <2>1, NewAtTop
            <4>2. Sections({v}) = {e.sec}
                BY <3>1 DEF Sections
            <4> QED
                BY <4>1, <4>2
        <3>5. Advertised(Staged)' = {d \in Advertised(Staged) : d.sec # e.sec} \cup {n}
            <4>1. \A w : Doc(w, TRUE).sec = w.sec
                BY DEF Doc
            <4>2. Advertised(Staged)' = {Doc(w, TRUE) : w \in InForce(Staged)'}
                BY DEF Advertised, Doc
            <4>3. InForce(Staged)' = {w \in InForce(Staged) : w.sec # e.sec} \cup {v}
                BY <2>4, <3>4
            <4> DEFINE old == InForce(Staged)
            <4>4. Advertised(Staged) = {Doc(w, TRUE) : w \in old}
                BY DEF Advertised
            <4> HIDE DEF old
            <4>5. {Doc(w, TRUE) : w \in {w \in old : w.sec # e.sec} \cup {v}} =
                      {d \in {Doc(w, TRUE) : w \in old} : d.sec # e.sec} \cup {Doc(v, TRUE)}
                BY <4>1
            <4> QED
                BY <4>2, <4>3, <4>4, <4>5 DEF old
        <3> HIDE DEF n
        <3>6. \A d \in index : d.sec = e.sec => Key(d) \in toRetire' \/ Key(d) = Key(n)
            <4> SUFFICES ASSUME NEW d \in index, d.sec = e.sec
                         PROVE  Key(d) \in toRetire' \/ Key(d) = Key(n)
                OBVIOUS
            <4>1. PICK u \in versions : Key(d) = Key(u) /\ d.sec = u.sec /\ d.first = u.first
                BY DocFields DEF OrderlyInv, IndexInv, StoredInv
            <4>2. CASE u.first = rel
                BY <3>1, <4>1, <4>2, KeysEqual
            <4>3. CASE u.first # rel
                BY <3>3, <4>1, <4>3 DEF Superseded
            <4> QED
                BY <4>2, <4>3
        <3>7. \A d \in index \cup toSync : d.sec # e.sec =>
                  /\ Key(d) # Key(n)
                  /\ Key(d) \in toRetire' <=> Key(d) \in toRetire
            <4>1. \A k \in Superseded(e) : k.sec = e.sec
                BY DEF Superseded, Key
            <4> QED
                BY <3>1, <3>3, <4>1, KeysEqual DEF Key
        <3>8. \A d \in toSync : d.sec = e.sec => Key(d) = Key(n)
            BY <1>1, <3>1, KeysEqual DEF OrderlyInv, IndexInv, BuffersInv
        <3>9. AfterWrites' = {d \in AfterWrites : d.sec # e.sec} \cup {n}
            <4>1. ASSUME NEW d \in AfterWrites'
                  PROVE  d = n \/ (d \in AfterWrites /\ d.sec # e.sec)
                <5>1. CASE d \in toSync'
                    BY <3>2, <3>7, <3>8, <4>1, <5>1 DEF AfterWrites, Key
                <5>2. CASE d \notin toSync'
                    <6>1. /\ d \in index /\ d.current /\ Key(d) \notin toRetire'
                          /\ \A x \in toSync' : Key(x) # Key(d)
                        BY <1>1, <4>1, <5>2 DEF AfterWrites, Key
                    <6>2. Key(d) # Key(n) /\ d.sec # e.sec
                        BY <3>2, <3>6, <6>1
                    <6>3. Key(d) \notin toRetire
                        BY <3>7, <6>1, <6>2
                    <6>4. ASSUME NEW x \in toSync, Key(x) = Key(d) PROVE FALSE
                        BY <3>2, <6>1, <6>2, <6>4
                    <6> QED
                        BY <6>1, <6>2, <6>3, <6>4 DEF AfterWrites
                <5> QED
                    BY <5>1, <5>2
            <4>2. ASSUME NEW d \in AfterWrites, d.sec # e.sec PROVE d \in AfterWrites'
                <5>1. CASE d \in toSync
                    BY <3>2, <3>7, <4>2, <5>1 DEF AfterWrites, Key
                <5>2. CASE d \notin toSync
                    <6>1. /\ d \in index /\ d.current /\ Key(d) \notin toRetire
                          /\ \A x \in toSync : Key(x) # Key(d)
                        BY <4>2, <5>2 DEF AfterWrites
                    <6>2. Key(d) # Key(n) /\ Key(d) \notin toRetire'
                        BY <3>7, <4>2, <6>1
                    <6>3. \A x \in toSync' : Key(x) # Key(d)
                        BY <3>2, <6>1, <6>2
                    <6> QED
                        BY <1>1, <6>1, <6>2, <6>3 DEF AfterWrites, Key
                <5> QED
                    BY <5>1, <5>2
            <4>3. n \in AfterWrites'
                BY <3>1, <3>2 DEF AfterWrites
            <4>4. \A d \in AfterWrites' : d = n \/ (d \in AfterWrites /\ d.sec # e.sec)
                BY <4>1
            <4> QED
                BY <4>2, <4>3, <4>4
        <3> QED
            BY <2>3, <3>5, <3>9
    <2> QED
        BY <2>5, <2>6
<1> QED
    BY <1>1, <1>7, <1>8 DEF AdvertisedInv, Orderly

\* A commit makes the staged map the committed one; the buffers follow.
LEMMA CommitAdvertised ==
    ASSUME OrderlyInv, AdvertisedInv, Commit, Orderly
    PROVE  AdvertisedInv'
<1>1. /\ flush = "none" /\ flush' = "retire" /\ pc # "idle"
      /\ index' = index /\ toRetire' = toRetire /\ toSync' = toSync
      /\ releaseMap' = Staged
    BY DEF Commit, CommitBatch, Finish, CommitRows, Staged, Mapped
<1>2. AfterWrites' = AfterWrites
    BY <1>1 DEF AfterWrites, Key
<1>3. Advertised(releaseMap)' = Advertised(Staged) /\ (NoReturn(releaseMap)' => NoReturn(Staged))
    BY <1>1 DEF Advertised, InForce, Doc, NoReturn
<1> QED
    BY <1>1, <1>2, <1>3 DEF AdvertisedInv

\* Each of the two writes leaves the rest of what is owed, and then nothing is.
LEMMA FlushAdvertised ==
    ASSUME OrderlyInv, AdvertisedInv, FlushRetire \/ FlushSync, Orderly, Orderly'
    PROVE  AdvertisedInv'
<1>1. releaseMap' = releaseMap /\ rel' = rel /\ newMaps' = newMaps
    BY DEF FlushRetire, FlushSync, vars, corpus, loader
<1>2. Advertised(releaseMap)' = Advertised(releaseMap)
      /\ (NoReturn(releaseMap)' => NoReturn(releaseMap))
    BY <1>1 DEF Advertised, InForce, Doc, NoReturn
<1>3. Clean'
    BY DEF Orderly, Clean
<1>4. CASE FlushRetire
    <2>1. /\ index' = Retired(index, toRetire) /\ toRetire' = {} /\ toSync' = toSync
          /\ flush = "retire" /\ flush' = "sync"
        BY <1>3, <1>4, BulkWhole DEF FlushRetire, FlushDue
    <2>2. \A d \in index' : d.current => d \in index /\ Key(d) \notin toRetire
        <3>1. index \in SUBSET DocsOf(versions)
            BY DEF OrderlyInv, IndexInv, StoredInv
        <3> QED
            BY <2>1, <3>1, RetiredDocs
    <2>3. \A d \in index : Key(d) \notin toRetire => d \in index'
        BY <2>1 DEF Retired
    <2>4. AfterWrites' = AfterWrites
        BY <2>1, <2>2, <2>3 DEF AfterWrites, Key
    <2> QED
        BY <1>2, <2>1, <2>4 DEF AdvertisedInv
<1>5. CASE FlushSync
    <2>1. /\ index' = {x \in index : \A d \in toSync : Key(x) # Key(d)} \cup toSync
          /\ toRetire' = toRetire /\ toSync' = {} /\ flush = "sync" /\ flush' = "none"
        BY <1>3, <1>5, BulkWhole DEF FlushSync, PutAll
    <2>2. toRetire = {} /\ newMaps = {}
        BY <2>1 DEF OrderlyInv, IndexInv, StoredInv, StagedInv
    <2>3. AsIs' = AfterWrites
        BY <2>1, <2>2 DEF AsIs, AfterWrites
    <2>4. AfterWrites' = AsIs'
        BY <2>1, <2>2 DEF AsIs, AfterWrites
    <2>5. pc' # "idle" => Staged' = releaseMap
        <3>1. Mapped(releaseMap, rel, {}) = releaseMap
            BY DEF Mapped, OrderlyInv, TablesInv, TypeOK
        <3>2. Staged' = Mapped(releaseMap, rel, {})
            BY <1>1, <2>2 DEF Staged, Mapped
        <3> QED
            BY <3>1, <3>2
    <2>6. pc' # "idle" => /\ Advertised(Staged)' = Advertised(releaseMap)
                          /\ NoReturn(Staged)' => NoReturn(releaseMap)
        BY <2>5 DEF Advertised, InForce, Doc, NoReturn
    <2> QED
        BY <1>2, <2>1, <2>3, <2>4, <2>6 DEF AdvertisedInv
<1> QED
    BY <1>4, <1>5

\* Documents that a rebuild reads are those in force, and it loses none.
LEMMA RebuildStep ==
    ASSUME OrderlyInv, RebuildInv, [NextIndex]_searchVars
    PROVE  RebuildInv'
<1> SUFFICES ASSUME Orderly', rebuilding', NoReturn(releaseMap)'
             PROVE  (spare \cup rows)' = Advertised(releaseMap)'
    BY DEF RebuildInv
<1>1. Orderly /\ ~FailRebuild /\ history' = {}
    BY OrderlyBefore DEF OrderlyInv, IndexInv
<1>2. Clean' /\ AloneInv'
    BY AloneStep DEF Orderly, Clean, OrderlyInv, IndexInv
<1>3. pc' = "idle" /\ flush' = "none"
    BY <1>2 DEF AloneInv
<1>4. releaseMap' = releaseMap
    <2>1. CASE StartRebuild \/ IndexRow \/ Promote \/ FlushRetire \/ FlushSync \/ UNCHANGED searchVars
        BY <2>1 DEF StartRebuild, IndexRow, Promote, FlushRetire, FlushSync, searchVars, vars, corpus
    <2>2. CASE Die
        BY <2>2 DEF Die, Interrupt, vars, corpus
    <2>3. CASE Begin \/ Commit
        BY <1>3, <2>3 DEF Begin, BeginLoad, BeginUpdate, Commit
    <2>4. ASSUME NEW e \in Element, Store(e) PROVE releaseMap' = releaseMap
        BY <2>4 DEF Store, StoreElement, corpus
    <2> QED
        BY <1>1, <2>1, <2>2, <2>3, <2>4 DEF NextIndex
<1>5. Advertised(releaseMap)' = Advertised(releaseMap) /\ NoReturn(releaseMap)
    BY <1>4 DEF Advertised, InForce, Doc, NoReturn
<1>6. CASE StartRebuild
    <2>1. PICK read \in OnePerSection(CurrentVersions) : rows' = {Doc(v, TRUE) : v \in read}
        BY <1>6 DEF StartRebuild
    <2>2. read = InForce(releaseMap)
        <3>1. NoReversion
            BY <1>5 DEF NoReversion, NoReturn
        <3> QED
            BY <2>1, <3>1, ReadInForce DEF OrderlyInv, TablesInv
    <2>3. spare' = {}
        BY <1>1, <1>6, OrderlyIs DEF StartRebuild, OrderlyInv, IndexInv, CurrentInv
    <2> QED
        BY <1>5, <2>1, <2>2, <2>3 DEF Advertised
<1>7. CASE IndexRow
    <2>1. PICK d \in rows, docs \in SUBSET rows :
              Bulk({d}, docs) /\ spare' = PutAll(spare, docs) /\ rows' = rows \ {d}
        BY <1>7 DEF IndexRow
    <2>2. spare' = {x \in spare : Key(x) # Key(d)} \cup {d}
        BY <1>2, <2>1, BulkWhole DEF PutAll
    <2>3. \A x \in spare : Key(x) = Key(d) => x = d
        BY <1>1, <2>1, OrderlyIs, KeysEqual DEF OrderlyInv, IndexInv, CurrentInv
    <2>4. spare' \cup rows' = spare \cup rows
        BY <2>1, <2>2, <2>3
    <2> QED
        BY <1>1, <1>5, <1>7, <2>4 DEF RebuildInv, IndexRow
<1>8. CASE ~(StartRebuild \/ IndexRow)
    <2>1. spare' = spare /\ rows' = rows /\ rebuilding
        BY <1>1, <1>8 DEF NextIndex, Begin, Store, Commit, FlushRetire, FlushSync, Die,
                          Promote, rebuild, searchVars
    <2> QED
        BY <1>1, <1>5, <2>1 DEF RebuildInv
<1> QED
    BY <1>6, <1>7, <1>8

\* The alias moves to what the incremental writes had left.
LEMMA PromoteAdvertised ==
    ASSUME OrderlyInv, AdvertisedInv, RebuildInv, Promote, Orderly
    PROVE  AdvertisedInv'
<1>1. /\ rebuilding /\ rows = {} /\ index' = spare /\ flush' = flush
      /\ releaseMap' = releaseMap /\ pc' = pc
    BY DEF Promote, vars, corpus, loader
<1>2. pc = "idle" /\ flush = "none"
    BY <1>1, OrderlyIs DEF OrderlyInv, IndexInv, AloneInv
<1>3. Advertised(releaseMap)' = Advertised(releaseMap)
      /\ (NoReturn(releaseMap)' => NoReturn(releaseMap))
    BY <1>1 DEF Advertised, InForce, Doc, NoReturn
<1>4. ASSUME NoReturn(releaseMap) PROVE AsIs' = Advertised(releaseMap)
    <2>1. index' = Advertised(releaseMap)
        BY <1>1, <1>4 DEF RebuildInv
    <2>2. \A d \in Advertised(releaseMap) : d.current
        BY DEF Advertised, Doc
    <2> QED
        BY <2>1, <2>2 DEF AsIs
<1> QED
    BY <1>1, <1>2, <1>3, <1>4 DEF AdvertisedInv

\* Every step keeps the index in line with the tables, or is not orderly.
LEMMA AdvertisedStep ==
    ASSUME OrderlyInv, AdvertisedInv, RebuildInv, TypeOK', [NextIndex]_searchVars
    PROVE  AdvertisedInv'
<1> SUFFICES ASSUME Orderly' PROVE AdvertisedInv'
    BY DEF AdvertisedInv
<1>1. Orderly /\ ~FailRebuild /\ history' = {}
    BY OrderlyBefore DEF OrderlyInv, IndexInv
<1>2. ASSUME NEW e \in Element, Store(e) PROVE AdvertisedInv'
    BY <1>1, <1>2, StoreAdvertised
<1>3. CASE Begin
    BY <1>1, <1>3, BeginAdvertised
<1>4. CASE Commit
    BY <1>1, <1>4, CommitAdvertised
<1>5. CASE FlushRetire \/ FlushSync
    BY <1>1, <1>5, FlushAdvertised
<1>6. CASE Promote
    BY <1>1, <1>6, PromoteAdvertised
<1>7. CASE Die
    <2>1. flush = "none" /\ flush' = "none" /\ pc' = "idle" /\ index' = index
        BY <1>1, <1>7 DEF Die, Observe, Interrupt, EndSession, vars, loader
    <2>2. releaseMap' = releaseMap
        BY <1>7 DEF Die, Interrupt, vars, corpus
    <2>3. /\ AsIs' = AsIs /\ Advertised(releaseMap)' = Advertised(releaseMap)
          /\ (NoReturn(releaseMap)' => NoReturn(releaseMap))
        BY <2>1, <2>2 DEF AsIs, Advertised, InForce, Doc, NoReturn
    <2> QED
        BY <1>1, <2>1, <2>3 DEF AdvertisedInv
<1>8. CASE StartRebuild \/ IndexRow \/ UNCHANGED searchVars
    <2>1. /\ index' = index /\ toRetire' = toRetire /\ toSync' = toSync /\ flush' = flush
          /\ releaseMap' = releaseMap /\ newMaps' = newMaps /\ rel' = rel /\ pc' = pc
        BY <1>8 DEF StartRebuild, IndexRow, searchVars, sync, vars, corpus, loader
    <2>2. AsIs' = AsIs /\ AfterWrites' = AfterWrites /\ Staged' = Staged
        BY <2>1 DEF AsIs, AfterWrites, Staged, Mapped, Key
    <2>3. /\ Advertised(releaseMap)' = Advertised(releaseMap)
          /\ Advertised(Staged)' = Advertised(Staged)
          /\ NoReturn(releaseMap)' => NoReturn(releaseMap)
          /\ NoReturn(Staged)' => NoReturn(Staged)
        BY <2>1, <2>2 DEF Advertised, InForce, Doc, NoReturn
    <2> QED
        BY <1>1, <2>1, <2>2, <2>3 DEF AdvertisedInv
<1> QED
    BY <1>1, <1>2, <1>3, <1>4, <1>5, <1>6, <1>7, <1>8 DEF NextIndex

\* Versions stay mapped as long as no release point was taken over.
LEMMA MappedStep ==
    ASSUME TablesInv, "replaced" \notin history => AllMapped, [NextIndex]_searchVars,
           "replaced" \notin history'
    PROVE  AllMapped'
<1>1. AllMapped /\ [Next]_vars
    BY HistoryGrows, IndexStep
<1>2. \A r \in Release : releaseMap[r] \subseteq releaseMap'[r]
    <2>1. CASE Begin
        BY <2>1, BeginKeepsMaps DEF Begin
    <2>2. CASE Commit
        BY <2>2 DEF Commit, CommitBatch, Finish, CommitRows, TablesInv, TypeOK
    <2>3. ASSUME NEW e \in Element, Store(e) PROVE releaseMap' = releaseMap
        BY <2>3 DEF Store, StoreElement, corpus
    <2>4. CASE Die
        BY <2>4 DEF Die, Interrupt, vars, corpus
    <2>5. CASE FlushRetire \/ FlushSync \/ StartRebuild \/ IndexRow \/ FailRebuild \/ Promote
               \/ UNCHANGED searchVars
        BY <2>5 DEF FlushRetire, FlushSync, StartRebuild, IndexRow, FailRebuild, Promote,
                    searchVars, vars, corpus
    <2> QED
        BY <2>1, <2>2, <2>3, <2>4, <2>5 DEF NextIndex
<1> QED
    BY <1>1, <1>2, AllMappedStep DEF TablesInv

\* The index's invariants together with what an orderly index advertises.
RebuiltInv == OrderlyInv /\ AdvertisedInv /\ RebuildInv

LEMMA RebuiltInit == InitIndex => RebuiltInv
<1> SUFFICES ASSUME InitIndex PROVE RebuiltInv
    OBVIOUS
<1>1. Init
    BY DEF InitIndex
<1>2. TablesInv /\ MapsHold /\ AllMapped
    BY <1>1, TablesInit DEF Init, MapsHold, AllMapped
<1>3. IndexInv
    BY IndexInit
<1>4. TopInv /\ StagedInv /\ RebuildInv
    BY <1>1 DEF InitIndex, Init, TopInv, StagedInv, RebuildInv
<1>5. InForce(releaseMap) = {}
    BY <1>1 DEF Init, InForce
<1>6. AdvertisedInv
    <2>1. AsIs = {} /\ Advertised(releaseMap) = {}
        BY <1>5 DEF InitIndex, AsIs, Advertised
    <2> QED
        BY <1>1, <2>1 DEF InitIndex, Init, AdvertisedInv
<1> QED
    BY <1>2, <1>3, <1>4, <1>6 DEF RebuiltInv, OrderlyInv

LEMMA RebuiltStep == RebuiltInv /\ [NextIndex]_searchVars => RebuiltInv'
<1> SUFFICES ASSUME RebuiltInv, [NextIndex]_searchVars PROVE RebuiltInv'
    OBVIOUS
<1>1. OrderlyInv /\ AdvertisedInv /\ RebuildInv
    BY DEF RebuiltInv
<1>2. TablesInv' /\ TypeOK' /\ MapsHold'
    <2>1. [Next]_vars
        BY IndexStep
    <2>2. TablesInv' /\ MapsHold'
        BY <1>1, <2>1, TablesStep, MapsStep DEF OrderlyInv, TablesInv
    <2> QED
        BY <2>2 DEF TablesInv
<1>3. IndexInv'
    BY <1>1, StoredStep, BuffersStep, AloneStep, CurrentStep DEF OrderlyInv, IndexInv
<1>4. TopInv' /\ StagedInv'
    BY <1>1, <1>2, TopStep, StagedStep DEF OrderlyInv, IndexInv
<1>5. "replaced" \notin history' => AllMapped'
    BY <1>1, MappedStep DEF OrderlyInv
<1>6. AdvertisedInv' /\ RebuildInv'
    BY <1>1, <1>2, AdvertisedStep, RebuildStep
<1> QED
    BY <1>2, <1>3, <1>4, <1>5, <1>6 DEF RebuiltInv, OrderlyInv

\* Between loads the incremental writes have left current exactly what a rebuild
\* from the tables would, as long as release points came oldest first, none was
\* taken over, no write was lost and no text came back.
THEOREM CurrentRebuilt == SpecIndex => []CurrentAsRebuilt
<1>1. RebuiltInv => CurrentAsRebuilt
    <2> SUFFICES ASSUME RebuiltInv, Idle, Orderly, NoReversion
                 PROVE  AsIs = {Doc(v, TRUE) : v \in CurrentVersions}
        BY DEF CurrentAsRebuilt, Orderly, AsIs
    <2>1. CurrentVersions = InForce(releaseMap)
        BY ReadInForce DEF RebuiltInv, OrderlyInv, TablesInv
    <2>2. AsIs = Advertised(releaseMap)
        BY DEF RebuiltInv, AdvertisedInv, Idle, NoReversion, NoReturn
    <2> QED
        BY <2>1, <2>2 DEF Advertised
<1> QED
    BY <1>1, RebuiltInit, RebuiltStep, PTL DEF SpecIndex

=============================================================================
