---------------------------- MODULE SearchIndex -----------------------------
(***************************************************************************)
(* The search index beside the corpus tables (ingest/search_sync.py, and   *)
(* ingest/reindex_search.py's `--if-changed`), for one title.              *)
(*                                                                         *)
(* The index holds one document per stored version, keyed by section and   *)
(* first release, and flags the one in force with `is_current`. A loader   *)
(* collects what its new versions change and writes it to the cluster      *)
(* after each commit, first the documents to retire and then the new ones; *)
(* it may die between any two of these. A bulk write that fails, in part   *)
(* or whole, is logged and the program goes on. A deploy whose mapping     *)
(* changed fills a second physical index from the tables and moves the     *)
(* alias to it; it takes another lock than the loaders.                    *)
(***************************************************************************)
EXTENDS CorpusLoad

CONSTANTS
    MaxFaults,            \* bound: loads that die or raise, and bulk writes
                          \* the cluster did not take whole
    MaxRebuilds,          \* bound: mapping changes deployed
    MaxRebuildFailures    \* bound: rebuilds that raise or are killed

ASSUME SearchBoundsAssumption ==
    {MaxFaults, MaxRebuilds, MaxRebuildFailures} \subseteq Nat

VARIABLES
    index,        \* documents of the index the alias points at
    newest,       \* the load under way is the title's newest
    toRetire,     \* keys of superseded documents, not yet written
    toSync,       \* documents of new versions, not yet written
    flush,        \* what the loader has to write before it goes on
    spare,        \* the physical index of the deployed mapping
    rows,         \* rows the rebuild has read and not yet indexed
    rebuilding,
    faults, rebuilds, rebuildFailures,
    history       \* observer: which of the situations in Events have arisen

sync == <<index, newest, toRetire, toSync, flush>>
rebuild == <<spare, rows, rebuilding>>
counts == <<faults, rebuilds, rebuildFailures>>
searchVars == <<vars, sync, rebuild, counts, history>>

\* A load began below one that had begun before; one program took over a release
\* point the other had written; a rebuild and a load were under way at once; a
\* loader died with index writes outstanding; a bulk write was lost.
Events == {"outOfOrder", "replaced", "overlapped", "diedUnflushed", "lostBulk"}
Observe(event, arises) == history' = history \cup {e \in {event} : arises}

Key(v) == [sec |-> v.sec, first |-> v.first]
Doc(v, isCurrent) ==
    [sec |-> v.sec, first |-> v.first, text |-> v.text, current |-> isCurrent]

\* Indexing a document replaces the one with its key.
Put(docs, d) == {x \in docs : Key(x) # Key(d)} \cup {d}
PutAll(docs, new) == {x \in docs : \A d \in new : Key(x) # Key(d)} \cup new

\* A partial update; a key that is not indexed is passed over.
Retired(docs, keys) ==
    {IF Key(d) \in keys THEN [d EXCEPT !.current = FALSE] ELSE d : d \in docs}

\* `helpers.bulk` under a `try` that logs: what a bulk of `actions` got written.
Bulk(actions, written) ==
    /\ written \subseteq actions
    /\ \/ written = actions /\ UNCHANGED <<faults, history>>
       \/ /\ written # actions
          /\ faults < MaxFaults /\ faults' = faults + 1
          /\ Observe("lostBulk", TRUE)

InitIndex ==
    /\ Init
    /\ index = {} /\ newest = FALSE
    /\ toRetire = {} /\ toSync = {} /\ flush = "none"
    /\ spare = {} /\ rows = {} /\ rebuilding = FALSE
    /\ faults = 0 /\ rebuilds = 0 /\ rebuildFailures = 0
    /\ history = {}

-----------------------------------------------------------------------------
(* The loader *)

\* `is_newest_for_title`: no completed load is above this one.
IsNewest(r) == \A c \in complete \ {r} : c <= r

Begin ==
    /\ flush = "none"
    /\ \/ \E r \in Release : BeginLoad(r)
       \/ \E r, b \in Release, fetched \in Fetches : BeginUpdate(r, b, fetched)
    /\ newest' = IsNewest(rel')
    /\ toRetire' = {} /\ toSync' = {}
    /\ history' = history \cup {e \in {"outOfOrder"} :
                               \E q \in Release : q > rel' /\ row[q] # "absent"}
                          \cup {e \in {"replaced"} :
                               row[rel'] \notin {"absent", row'[rel']}}
                          \cup {e \in {"overlapped"} : rebuilding}
    /\ UNCHANGED <<index, flush, rebuild, counts>>

\* Mutants: only texts of older release points are superseded; none is.
SupersededOlder(e) ==
    {Key(v) : v \in {w \in versions \cup newVersions : w.sec = e.sec /\ w.first < rel}}
SupersededNone(e) == {}

\* Everything the section said before; the document of a version that this
\* release created has the new one's key.
Superseded(e) ==
    {Key(v) : v \in {w \in versions \cup newVersions : w.sec = e.sec /\ w.first # rel}}

\* A text that deduplicates needs no index write.
Store(e) ==
    /\ flush = "none"
    /\ StoreElement(e)
    /\ IF Known(e) # {}
       THEN UNCHANGED <<toRetire, toSync>>
       ELSE /\ toRetire' = toRetire \cup (IF newest THEN Superseded(e) ELSE {})
            /\ toSync' = Put(toSync,
                   Doc([sec |-> e.sec, text |-> e.text, first |-> rel], newest))
    /\ UNCHANGED <<index, newest, flush, rebuild, counts, history>>

Commit ==
    /\ flush = "none"
    /\ CommitBatch \/ Finish
    /\ flush' = "retire"
    /\ UNCHANGED <<index, newest, toRetire, toSync, rebuild, counts, history>>

\* Mutant: the buffers are written as soon as they hold something.
FlushDueEarly == flush = "retire" \/ (flush = "none" /\ toSync # {})

\* `flush_search` runs after a commit and never before.
FlushDue == flush = "retire"

FlushRetire ==
    /\ FlushDue
    /\ \E keys \in SUBSET toRetire :
          Bulk(toRetire, keys) /\ index' = Retired(index, keys)
    /\ toRetire' = {} /\ flush' = "sync"
    /\ UNCHANGED <<vars, newest, toSync, rebuild, rebuilds, rebuildFailures>>

FlushSync ==
    /\ flush = "sync"
    /\ \E docs \in SUBSET toSync :
          Bulk(toSync, docs) /\ index' = PutAll(index, docs)
    /\ toSync' = {} /\ flush' = "none"
    /\ UNCHANGED <<vars, newest, toRetire, rebuild, rebuilds, rebuildFailures>>

\* Mutant: the buffers outlive the load that filled them.
DieKeepsBuffers ==
    /\ faults < MaxFaults /\ faults' = faults + 1
    /\ pc # "idle" \/ flush # "none"
    /\ IF pc = "idle" THEN UNCHANGED vars ELSE Interrupt
    /\ newest' = FALSE /\ flush' = "none"
    /\ UNCHANGED <<index, toRetire, toSync, rebuild, rebuilds, rebuildFailures, history>>

\* The loader dies, inside its transaction or with index writes outstanding.
Die ==
    /\ faults < MaxFaults /\ faults' = faults + 1
    /\ pc # "idle" \/ flush # "none"
    /\ IF pc = "idle" THEN UNCHANGED vars ELSE Interrupt
    /\ newest' = FALSE /\ toRetire' = {} /\ toSync' = {} /\ flush' = "none"
    /\ Observe("diedUnflushed", flush # "none")
    /\ UNCHANGED <<index, rebuild, rebuilds, rebuildFailures>>

-----------------------------------------------------------------------------
(* The rebuild of a deploy *)

\* `_current_version_query`: a section's versions at the newest release point
\* that carries it.
CurrentVersions ==
    {v \in versions :
        \E r \in Release :
            /\ v \in releaseMap[r]
            /\ \A q \in Release : \A w \in releaseMap[q] : w.sec = v.sec => q <= r}

\* It is DISTINCT ON the section: of one that the source publishes twice, either.
OnePerSection(vs) ==
    {some \in SUBSET vs :
        /\ Sections(some) = Sections(vs)
        /\ \A v, w \in some : v.sec = w.sec => v = w}

\* `create_index` makes the physical index of the mapping only if there is
\* none; the rows come from one statement.
StartRebuild ==
    /\ ~rebuilding /\ rebuilds < MaxRebuilds
    /\ rebuilding' = TRUE
    /\ rebuilds' = rebuilds + 1
    /\ \E read \in OnePerSection(CurrentVersions) :
          rows' = {Doc(v, TRUE) : v \in read}
    /\ Observe("overlapped", pc # "idle" \/ flush # "none")
    /\ UNCHANGED <<vars, sync, spare, faults, rebuildFailures>>

\* One row to a batch; a batch that was not taken is passed over.
IndexRow ==
    /\ rebuilding
    /\ \E d \in rows, docs \in SUBSET rows :
          /\ Bulk({d}, docs)
          /\ spare' = PutAll(spare, docs)
          /\ rows' = rows \ {d}
    /\ UNCHANGED <<vars, sync, rebuilding, rebuilds, rebuildFailures>>

\* The alias stays where it was, and so does what has been filled.
FailRebuild ==
    /\ rebuilding /\ rebuildFailures < MaxRebuildFailures
    /\ rebuildFailures' = rebuildFailures + 1
    /\ rebuilding' = FALSE /\ rows' = {}
    /\ UNCHANGED <<vars, sync, spare, faults, rebuilds, history>>

\* Mutant: the alias moves before the last batch.
PromoteEarly ==
    /\ rebuilding
    /\ index' = spare /\ spare' = {}
    /\ rebuilding' = FALSE /\ rows' = {}
    /\ UNCHANGED <<vars, newest, toRetire, toSync, flush, counts, history>>

\* `promote`: the alias moves and the index it pointed at is deleted. The next
\* mapping has an index of its own.
Promote ==
    /\ rebuilding /\ rows = {}
    /\ index' = spare /\ spare' = {}
    /\ rebuilding' = FALSE
    /\ UNCHANGED <<vars, newest, toRetire, toSync, flush, rows, counts, history>>

-----------------------------------------------------------------------------

NextIndex ==
    \/ Begin
    \/ \E e \in Element : Store(e)
    \/ Commit
    \/ FlushRetire
    \/ FlushSync
    \/ Die
    \/ StartRebuild
    \/ IndexRow
    \/ FailRebuild
    \/ Promote

SpecIndex == InitIndex /\ [][NextIndex]_searchVars

-----------------------------------------------------------------------------

Idle == pc = "idle" /\ flush = "none" /\ ~rebuilding

\* The loader's and the rebuild's types; nothing waits to be indexed that the
\* load under way did not collect itself.
IndexTypeOK ==
    LET Docs == {Doc(v, c) : v \in versions \cup newVersions, c \in BOOLEAN} IN
    /\ toSync \cup spare \cup rows \subseteq Docs
    /\ toRetire \subseteq {Key(d) : d \in Docs}
    /\ newest \in BOOLEAN /\ rebuilding \in BOOLEAN
    /\ flush \in {"none", "retire", "sync"}
    /\ flush = "sync" => toRetire = {}
    /\ pc = "idle" /\ flush = "none" => toRetire = {} /\ toSync = {}
    /\ ~rebuilding => rows = {}
    /\ history \subseteq Events

\* The index never advertises a text the database has not got, although a
\* transaction can roll back at any point and a rebuild can read at any point
\* (load.py:90-94).
IndexedIsStored ==
    \A d \in index : \E v \in versions : Key(v) = Key(d) /\ v.text = d.text

\* The default search returns a section at most once: no two documents of a
\* section are current (search_sync.py, "Versioning rule").
AtMostOneCurrent ==
    \A d, e \in index : d.current /\ e.current /\ d.sec = e.sec => d = e

\* It holds at any moment, mid-load and after any death of the loader included,
\* in whatever order release points are loaded, unless a write to the index was
\* lost, a rebuild failed, or a rebuild and a load overlapped.
OneCurrentUnlessLost ==
    {"overlapped", "lostBulk"} \cap history = {} /\ rebuildFailures = 0
        => AtMostOneCurrent

\* The same claim, after rebuilds that fail too.
OneCurrentUnlessOverlapped == "overlapped" \notin history => AtMostOneCurrent

\* No section goes back, at a later release point, to a text it has left.
NoReversion ==
    \A p, q, r \in Release : \A u \in releaseMap[p] \cap releaseMap[r] :
        p <= q /\ q <= r => \A w \in releaseMap[q] : w.sec = u.sec => w = u

\* Between loads the incremental writes have left current exactly what a rebuild
\* from the tables would, as long as release points came oldest first, none
\* was taken over, no write was lost and no text came back.
CurrentAsRebuilt ==
    Idle /\ history = {} /\ rebuildFailures = 0 /\ NoReversion
        => {d \in index : d.current} = {Doc(v, TRUE) : v \in CurrentVersions}

\* "A failure part-way leaves the alias where it was" (reindex_search.py:287):
\* unless the cluster refused a batch, the alias moves to an index that has every
\* section in the text in force, also after rebuilds that failed.
PromotedIsWhole ==
    [][Promote /\ {"overlapped", "lostBulk"} \cap history = {}
          => \E read \in OnePerSection(CurrentVersions) :
                {Doc(v, TRUE) : v \in read} \subseteq index']_searchVars

\* "A release republishing this text unchanged needs no index write at all:
\* the document already exists and is already current" (load.py:195-197): what
\* the newest load deduplicates is current, or about to be.
DedupedIsCurrent ==
    [][\A e \in Element :
          newest /\ history = {} /\ Store(e) => \A v \in Known(e) :
              \E d \in index \cup toSync : Key(d) = Key(v) /\ d.current]_searchVars

=============================================================================
