----------------------------- MODULE CorpusLoad -----------------------------
(***************************************************************************)
(* One title of the corpus as the loaders write it to Postgres.            *)
(*                                                                         *)
(* Two programs write a title at a release point: `load_release`           *)
(* (ingest/load.py), which stores the title's whole file in committed      *)
(* batches, and `apply_title` (ingest/section_update.py), which assembles  *)
(* the title from an earlier release point plus the sections it fetched.   *)
(* Both run in one session, one title at a time, under the `flock` of the  *)
(* deploy scripts, so there is a single writer; it may die at any point,   *)
(* and what it had not committed is then gone.                             *)
(*                                                                         *)
(* A section's text is stored once per distinct content (ADR-0007): a      *)
(* version row names the section, the content hash and the release that    *)
(* created it, and `section_release_map` says which release carries which  *)
(* version. Reading order, headings and guids are left out.                *)
(***************************************************************************)
EXTENDS Integers, FiniteSets

CONSTANTS
    Section,    \* section identifiers of the title
    Text,       \* guid-stripped contents, told apart by their hash
    Release,    \* release points, named by their `seq`
    Files,      \* the title's possible files: Release -> set of elements
    Fetches     \* the possible outcomes of a round of section fetches

\* One section element of a file: the identifier it sits under and its text.
Element == [sec : Section, text : Text]

ASSUME ReleaseAssumption == Release \subseteq Nat
ASSUME FilesAssumption == Files \subseteq [Release -> SUBSET Element]
ASSUME FetchesAssumption == Fetches \subseteq SUBSET Element

\* A row of `section_versions`; `first` is `first_release_id`.
Version == [sec : Section, text : Text, first : Release]

NoRelease == -1

VARIABLES
    file,         \* what the source publishes for each release point
    versions,     \* committed section_versions rows
    releaseMap,   \* committed section_release_map rows, by release point
    row,          \* the title_versions row's load_method, or "absent"
    base,         \* its base_release_id
    complete,     \* the rows whose sections_loaded is not NULL
    pc,           \* "idle", or the program that is storing sections
    rel,          \* the release point being written
    todo,         \* elements not stored yet
    newVersions,  \* version rows of the open transaction
    newMaps       \* release-map rows of the open transaction

corpus == <<versions, releaseMap, row, base, complete>>
loader == <<pc, rel, todo, newVersions, newMaps>>
vars == <<file, corpus, loader>>

Init ==
    /\ file \in Files
    /\ versions = {}
    /\ releaseMap = [r \in Release |-> {}]
    /\ row = [r \in Release |-> "absent"]
    /\ base = [r \in Release |-> NoRelease]
    /\ complete = {}
    /\ pc = "idle" /\ rel = NoRelease
    /\ todo = {} /\ newVersions = {} /\ newMaps = {}

-----------------------------------------------------------------------------

ElementOf(v) == [sec |-> v.sec, text |-> v.text]

ElementsOf(vs) == {ElementOf(v) : v \in vs}

\* The sections as release `r` carries them.
ElementsAt(r) == ElementsOf(releaseMap[r])

\* Mutant: a load does not see the versions that newer release points created.
KnownFromBelow(e) ==
    {v \in versions \cup newVersions : ElementOf(v) = e /\ v.first <= rel}

\* `existing_versions`: the rows the open transaction sees with this content.
Known(e) == {v \in versions \cup newVersions : ElementOf(v) = e}

\* The completed loads below `r`, the newest of which is an update's base.
LoadedBelow(r) == {b \in complete : b < r}
IsBaseFor(b, r) == b \in LoadedBelow(r) /\ \A c \in LoadedBelow(r) : c <= b

Sections(elements) == {e.sec : e \in elements}

-----------------------------------------------------------------------------
(***************************************************************************)
(* load_release                                                            *)
(***************************************************************************)

\* Mutant: a file leaves the placements `sections-update` made for the release.
PlacementsLeft(r) == releaseMap

\* Mutant: a file load that is done again drops its own placements too.
PlacementsDropped(r) == [releaseMap EXCEPT ![r] = {}]

\* `_get_or_create_title_version`: a file replaces what `sections-update`
\* assembled for the release, whose placements go; an interrupted file load
\* keeps the rows its batches committed.
PlacementsUnderFile(r) ==
    IF row[r] = "sections" THEN [releaseMap EXCEPT ![r] = {}] ELSE releaseMap

\* Mutant: the marker of the earlier load stands while this one runs.
CompleteStands(r) == complete

\* `sections_loaded = None`, committed before the first section is stored.
CompleteWhileRedone(r) == complete \ {r}

\* The start of a file load, up to its first commit.
BeginLoad(r) ==
    /\ pc = "idle"
    /\ releaseMap' = PlacementsUnderFile(r)
    /\ row' = [row EXCEPT ![r] = "file"]
    /\ base' = [base EXCEPT ![r] = NoRelease]
    /\ complete' = CompleteWhileRedone(r)
    /\ pc' = "load" /\ rel' = r /\ todo' = file[r]
    /\ newVersions' = {} /\ newMaps' = {}
    /\ UNCHANGED <<file, versions>>

\* `VersionStore.store` and the caller's release-map upsert: the element maps
\* to the version that has its content, created by this release if none has.
StoreElement(e) ==
    /\ pc # "idle" /\ e \in todo
    /\ todo' = todo \ {e}
    /\ \/ \E v \in Known(e) :
            /\ newMaps' = newMaps \cup {v}
            /\ UNCHANGED newVersions
       \/ /\ Known(e) = {}
          /\ LET v == [sec |-> e.sec, text |-> e.text, first |-> rel] IN
                /\ newVersions' = newVersions \cup {v}
                /\ newMaps' = newMaps \cup {v}
    /\ UNCHANGED <<file, corpus, pc, rel>>

\* The rows of the open transaction reach the tables.
CommitRows ==
    /\ versions' = versions \cup newVersions
    /\ releaseMap' = [releaseMap EXCEPT ![rel] = @ \cup newMaps]

\* Mutant: the marker goes with the first batch.
CompleteFromFirstBatch == complete \cup {rel}

\* The marker is not touched by the commits between batches.
CompleteAfterBatch == complete

\* A file load commits whenever a batch of guid rows is full.
CommitBatch ==
    /\ pc = "load" /\ newMaps # {}
    /\ CommitRows
    /\ complete' = CompleteAfterBatch
    /\ newVersions' = {} /\ newMaps' = {}
    /\ UNCHANGED <<file, row, base, pc, rel, todo>>

\* Mutant: the session is not let go of its release point.
EndTransactionOnly ==
    /\ pc' = "idle" /\ rel' = rel
    /\ newVersions' = {} /\ newMaps' = {}

\* The transaction ends, its staged rows forgotten; so does the session.
EndSession ==
    /\ pc' = "idle" /\ rel' = NoRelease
    /\ newVersions' = {} /\ newMaps' = {}

\* The completion marker, committed with the last rows (ADR-0082).
Finish ==
    /\ pc # "idle" /\ todo = {}
    /\ CommitRows
    /\ complete' = complete \cup {rel}
    /\ EndSession
    /\ UNCHANGED <<file, row, base, todo>>

\* The process dies, or an exception rolls the session back.
Interrupt ==
    /\ pc # "idle"
    /\ todo' = {}
    /\ EndSession
    /\ UNCHANGED <<file, corpus>>

-----------------------------------------------------------------------------
(***************************************************************************)
(* apply_title                                                             *)
(***************************************************************************)

\* Mutant: what an interrupted attempt mapped stays.
PlacementsOfAttempt(r) == releaseMap

\* `_unmap_title_release`: a re-run over an interrupted attempt starts empty.
PlacementsUnderUpdate(r) == [releaseMap EXCEPT ![r] = {}]

\* Mutant: the base's versions are looked up by the release that created them.
CarriedIfCreated(b, fetched) ==
    {v \in releaseMap[b] : v.sec \notin Sections(fetched) /\ v.first = b}

\* `assemble_order`: a fetched section replaces every occurrence the base has
\* of it; every other version of the base is carried forward.
Carried(b, fetched) == {v \in releaseMap[b] : v.sec \notin Sections(fetched)}

\* `plan_update` offers a release the title has not completed, over the newest
\* completed load below it. Everything is fetched before the first write, so a
\* fetch that fails is no step at all. There is one later commit, `Finish`:
\* the carried rows wait for it with the stored ones.
BeginUpdate(r, b, fetched) ==
    /\ pc = "idle"
    /\ r \notin complete /\ IsBaseFor(b, r)
    /\ row' = [row EXCEPT ![r] = "sections"]
    /\ base' = [base EXCEPT ![r] = b]
    /\ complete' = complete \ {r}
    /\ releaseMap' = PlacementsUnderUpdate(r)
    /\ pc' = "update" /\ rel' = r /\ todo' = fetched
    /\ newVersions' = {} /\ newMaps' = Carried(b, fetched)
    /\ UNCHANGED <<file, versions>>

-----------------------------------------------------------------------------

Next ==
    \/ \E r \in Release : BeginLoad(r)
    \/ \E r, b \in Release, fetched \in Fetches : BeginUpdate(r, b, fetched)
    \/ \E e \in Element : StoreElement(e)
    \/ CommitBatch
    \/ Finish
    \/ Interrupt

Spec == Init /\ [][Next]_vars

-----------------------------------------------------------------------------
(***************************************************************************)
(* Correctness                                                             *)
(***************************************************************************)

\* Every variable has its type.
TypeOK ==
    /\ file \in [Release -> SUBSET Element]
    /\ versions \subseteq Version
    /\ releaseMap \in [Release -> SUBSET Version]
    /\ row \in [Release -> {"absent", "file", "sections"}]
    /\ base \in [Release -> Release \cup {NoRelease}]
    /\ complete \subseteq Release
    /\ pc \in {"idle", "load", "update"}
    /\ rel \in IF pc = "idle" THEN {NoRelease} ELSE Release
    /\ todo \subseteq Element
    /\ newVersions \subseteq Version
    /\ newMaps \subseteq Version

\* Content dedupe survives every order of loads, interruption and retry: a
\* section never has two version rows with the same content (ADR-0007), the
\* open transaction's included.
OneVersionPerText ==
    \A v, w \in versions \cup newVersions : ElementOf(v) = ElementOf(w) => v = w

\* A file load whose marker is set carries the file's sections: no text lost
\* to an interrupted attempt, none left over from an assembled one
\* (title_versions.sections_loaded, ADR-0082; ADR-0095).
FileLoadsAreWhole ==
    \A r \in complete : row[r] = "file" => ElementsAt(r) = file[r]

\* While a file load is unfinished, what its batches committed is still only
\* text of that file: the reader's fallback `_last_release_holding` looks at
\* these rows too.
NoForeignText ==
    \A r \in Release : row[r] = "file" => ElementsAt(r) \subseteq file[r]

\* An interrupted `sections-update` leaves no placements behind.
InterruptedUpdateIsEmpty ==
    \A r \in Release \ complete : row[r] = "sections" => releaseMap[r] = {}

\* What the single writer's open transaction owes the tables. Its release point
\* is not complete. A file load has stored or staged every element it has
\* passed; an update holds what it has stored so far and what it carries over
\* from its base, which is still the newest completed load below.
LoadUnderWay ==
    /\ pc # "idle" => rel \notin complete
    /\ pc = "load" =>
          /\ row[rel] = "file"
          /\ todo \subseteq file[rel]
          /\ ElementsOf(releaseMap[rel] \cup newMaps) \subseteq file[rel]
          /\ file[rel] \ todo \subseteq ElementsOf(releaseMap[rel] \cup newMaps)
    /\ pc = "update" =>
          /\ row[rel] = "sections"
          /\ IsBaseFor(base[rel], rel)
          /\ \E fetched \in Fetches :
                /\ todo \subseteq fetched
                /\ ElementsOf(newMaps) =
                       (fetched \ todo) \cup ElementsOf(Carried(base[rel], fetched))

\* Nothing is rewritten under a reader: as long as a release point stays
\* complete, its sections do not change.
CompletedIsStable ==
    [][\A r \in complete \cap complete' : ElementsAt(r)' = ElementsAt(r)]_vars

-----------------------------------------------------------------------------
(***************************************************************************)
(* The tables implement CorpusPublication: a release point is visible when *)
(* its load is complete.                                                   *)
(***************************************************************************)

Publication == INSTANCE CorpusPublication WITH
    visible <- complete,
    content <- [r \in Release |-> IF r \in complete THEN ElementsAt(r) ELSE {}]

\* Readers who ask only for completed loads see whole release points appear
\* and disappear in single steps, whatever the loaders commit in between.
PublishesWhole == Publication!Spec

=============================================================================
