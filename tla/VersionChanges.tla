--------------------------- MODULE VersionChanges ---------------------------
(***************************************************************************)
(* The version-change rows of one title (ingest/version_changes.py,        *)
(* ADR-0074): one row per stored version of a section, saying which        *)
(* version it followed and over which release points.                      *)
(*                                                                         *)
(* A row is derived from the tables CorpusLoad writes. After a load has    *)
(* committed, a hook recomputes the sections the load can have changed, in *)
(* committed batches; a load told to defer deletes the rows of those       *)
(* sections instead. `version-changes` then recomputes the sections whose  *)
(* rows do not number their versions, and passes over the others. What the *)
(* rows say of the texts themselves and of the laws is left out: it is     *)
(* decided by the two versions and the two release points in the row.      *)
(***************************************************************************)
EXTENDS CorpusLoad, Sequences, FiniteSetsExt

CONSTANTS
    Defers,             \* the values --defer-version-changes is given
    MaxFaults           \* bound: loads and hooks that raise or die

ASSUME ChangesBoundsAssumption ==
    /\ Defers \subseteq BOOLEAN
    /\ MaxFaults \in Nat

VARIABLES
    serial,       \* the version rows in the order of their ids
    changes,      \* committed section_version_changes rows, by section
    deferred,     \* the load under way was told to defer
    newest,       \* it was the title's newest when it began
    mapped,       \* mapped_versions: the versions it has mapped
    grown,        \* new_version_sections: the sections it gave a new version
    hook,         \* "none", "decide" or "compute"
    loaded,       \* the release point whose hook runs
    need,         \* recompute_ids
    left,         \* those of them in batches not committed yet
    faults,
    history       \* observer: which of the situations in Events have arisen

load == <<deferred, newest, mapped, grown>>
hooks == <<hook, loaded, need, left>>
changesVars == <<vars, serial, changes, load, hooks, faults, history>>

\* One program took over a release point the other had written; an update below
\* the title's newest release point deferred its rows; a process died between
\* a load and the end of its hook; a hook or deferral raised before it knew or had
\* deleted any rows; a release point was loaded at which the title has no section.
Events == {"replaced", "deferredBelow", "diedInHook", "failedDeciding", "emptyLoad"}

-----------------------------------------------------------------------------
(* The rows of a section, from the tables *)

Groups(s) == {v \in versions : v.sec = s}

IdOf(v) == CHOOSE i \in DOMAIN serial : serial[i] = v

\* The release points that carry a version; one that none carries is put at
\* the release point that created it.
Span(v) ==
    LET carrying == {r \in Release : v \in releaseMap[r]} IN
    IF carrying = {} THEN {v.first} ELSE carrying
FirstSeq(v) == Min(Span(v))
LastSeq(v) == Max(Span(v))

\* The order of a section's groups.
Before(v, w) ==
    \/ FirstSeq(v) < FirstSeq(w)
    \/ FirstSeq(v) = FirstSeq(w) /\ IdOf(v) < IdOf(w)

\* The group before `v`, if it has one.
Departing(v) ==
    LET earlier == {w \in Groups(v.sec) : Before(w, v)} IN
    {d \in earlier : \A w \in earlier : w = d \/ Before(w, d)}

\* `_window_is_unreliable`, for the transition from `d` to `v`.
Unreliable(v, d) ==
    \/ LastSeq(d) >= FirstSeq(v)
    \/ \E o \in Groups(v.sec) \ {v, d} :
          FirstSeq(o) <= FirstSeq(v) /\ LastSeq(o) >= LastSeq(d)

LatestLoadBefore(r) ==
    IF LoadedBelow(r) = {} THEN NoRelease ELSE Max(LoadedBelow(r))

\* The row of a version. The first group's window departs from the title's
\* newest completed load below it.
Change(v) ==
    [to |-> v, from |-> Departing(v), windowTo |-> FirstSeq(v),
     windowFrom |-> IF Departing(v) = {} THEN LatestLoadBefore(FirstSeq(v))
                    ELSE Max({LastSeq(d) : d \in Departing(v)}),
     concurrent |-> \E d \in Departing(v) : Unreliable(v, d)]

\* Mutant: the rows that are there are not deleted first.
ComputedOnTop(s) == changes[s] \cup {Change(v) : v \in Groups(s)}

Computed(s) == {Change(v) : v \in Groups(s)}

\* `_complete_section_ids`: the count equality of the resume skip.
CountsAgree(s) == Cardinality(changes[s]) = Cardinality(Groups(s))

-----------------------------------------------------------------------------
(* Loads *)

InitChanges ==
    /\ Init
    /\ serial = <<>> /\ changes = [s \in Section |-> {}]
    /\ deferred = FALSE /\ newest = FALSE /\ mapped = {} /\ grown = {}
    /\ hook = "none" /\ loaded = NoRelease /\ need = {} /\ left = {}
    /\ faults = 0 /\ history = {}

Begin ==
    /\ hook = "none"
    /\ \/ \E r \in Release : BeginLoad(r)
       \/ \E r, b \in Release, fetched \in Fetches : BeginUpdate(r, b, fetched)
    /\ deferred' \in Defers
    /\ newest' = \A c \in complete \ {rel'} : c <= rel'
    /\ mapped' = newMaps' /\ grown' = {}
    /\ history' = history
          \cup {e \in {"replaced"} : row[rel'] \notin {"absent", row'[rel']}}
          \cup {e \in {"deferredBelow"} : pc' = "update" /\ deferred' /\ ~newest'}
    /\ UNCHANGED <<serial, changes, hooks, faults>>

Store(e) ==
    /\ StoreElement(e)
    /\ mapped' = mapped \cup newMaps'
    /\ IF newVersions' = newVersions
       THEN UNCHANGED <<serial, grown>>
       ELSE /\ \E v \in newVersions' \ newVersions : serial' = Append(serial, v)
            /\ grown' = grown \cup {e.sec}
    /\ UNCHANGED <<changes, deferred, newest, hooks, faults, history>>

Batch ==
    /\ CommitBatch
    /\ UNCHANGED <<serial, changes, load, hooks, faults, history>>

Complete ==
    /\ Finish
    /\ hook' = "decide" /\ loaded' = rel
    /\ history' = history \cup {e \in {"emptyLoad"} : mapped = {}}
    /\ UNCHANGED <<serial, changes, load, need, left, faults>>

\* The ids that were given to the rows of the lost transaction, the last ones,
\* are not seen again.
Abandon ==
    /\ faults < MaxFaults /\ faults' = faults + 1
    /\ Interrupt
    /\ LET stored == {i \in DOMAIN serial : serial[i] \in versions} IN
          serial' = SubSeq(serial, 1, Max(stored \cup {0}))
    /\ deferred' = FALSE /\ newest' = FALSE /\ mapped' = {} /\ grown' = {}
    /\ UNCHANGED <<changes, hooks, history>>

-----------------------------------------------------------------------------
(* The hook, after the load's last commit *)

SectionsOf(vs) == {v.sec : v \in vs}
MappedOf(s) == {v \in mapped : v.sec = s}

\* The four cases in which a section of the title's newest load is recomputed.
GainedVersion == grown
Uncovered == {s \in SectionsOf(mapped) : \E v \in Groups(s) : \A c \in changes[s] : c.to # v}
Moved ==
    LET previous == LatestLoadBefore(loaded)
        before(s) == IF previous = NoRelease THEN {}
                     ELSE {v \in releaseMap[previous] : v.sec = s} IN
    {s \in SectionsOf(mapped) : before(s) # MappedOf(s)}
DepartsOn == {s \in Section : \E c \in changes[s] : c.from \cap mapped # {}}

\* Mutant: a release point below the title's newest is treated as if only its
\* own sections could change.
NeedingWhatWasMapped ==
    IF mapped = {} THEN {}
    ELSE IF loaded = Max(complete) THEN GainedVersion \cup Uncovered \cup Moved \cup DepartsOn
    ELSE SectionsOf(mapped)

\* `sections_needing_recompute`
NeedingRecompute ==
    IF mapped = {} THEN {}
    ELSE IF loaded = Max(complete) THEN GainedVersion \cup Uncovered \cup Moved \cup DepartsOn
    ELSE Section

Cleared(sections) == [s \in Section |-> IF s \in sections THEN {} ELSE changes[s]]

\* Mutant: the release point is kept.
EndHookOnly ==
    /\ hook' = "none" /\ loaded' = loaded /\ need' = {} /\ left' = {}
    /\ deferred' = FALSE /\ newest' = FALSE /\ mapped' = {} /\ grown' = {}

EndHook ==
    /\ hook' = "none" /\ loaded' = NoRelease /\ need' = {} /\ left' = {}
    /\ deferred' = FALSE /\ newest' = FALSE /\ mapped' = {} /\ grown' = {}

Decide ==
    /\ hook = "decide" /\ ~deferred
    /\ IF NeedingRecompute = {}
       THEN EndHook
       ELSE /\ hook' = "compute"
            /\ need' = NeedingRecompute /\ left' = NeedingRecompute
            /\ UNCHANGED <<loaded, load>>
    /\ UNCHANGED <<vars, serial, changes, faults, history>>

\* One section to a batch.
ComputeBatch(s) ==
    /\ hook = "compute" /\ s \in left
    /\ changes' = [changes EXCEPT ![s] = Computed(s)]
    /\ IF left = {s}
       THEN EndHook
       ELSE left' = left \ {s} /\ UNCHANGED <<hook, loaded, need, load>>
    /\ UNCHANGED <<vars, serial, faults, history>>

\* The sections a deferring load deletes the rows of: an update, those it
\* mapped; a file load below the title's newest, all of them.
Deferred ==
    IF mapped = {} THEN {}
    ELSE IF newest \/ row[loaded] = "sections" THEN SectionsOf(mapped)
    ELSE Section

Defer ==
    /\ hook = "decide" /\ deferred
    /\ changes' = Cleared(Deferred)
    /\ EndHook
    /\ UNCHANGED <<vars, serial, faults, history>>

\* The hook raises: every row it was to recompute is deleted, those of the
\* batches before it too. Before it has decided, and in a deferral, that is none.
HookFails ==
    /\ hook # "none" /\ faults < MaxFaults /\ faults' = faults + 1
    /\ changes' = Cleared(need)
    /\ history' = history \cup {e \in {"failedDeciding"} : hook = "decide"}
    /\ EndHook
    /\ UNCHANGED <<vars, serial>>

\* The process dies after the load has committed.
Die ==
    /\ hook # "none" /\ faults < MaxFaults /\ faults' = faults + 1
    /\ history' = history \cup {"diedInHook"}
    /\ EndHook
    /\ UNCHANGED <<vars, serial, changes>>

\* `version-changes`, which runs under the loaders' lock.
Repair(s) ==
    /\ pc = "idle" /\ hook = "none"
    /\ ~CountsAgree(s)
    /\ changes' = [changes EXCEPT ![s] = Computed(s)]
    /\ UNCHANGED <<vars, serial, load, hooks, faults, history>>

-----------------------------------------------------------------------------

NextChanges ==
    \/ Begin
    \/ \E e \in Element : Store(e)
    \/ Batch
    \/ Complete
    \/ Abandon
    \/ Decide
    \/ \E s \in Section : ComputeBatch(s)
    \/ Defer
    \/ HookFails
    \/ Die
    \/ \E s \in Section : Repair(s)

SpecChanges == InitChanges /\ [][NextChanges]_changesVars

-----------------------------------------------------------------------------

\* Every variable has its type, and those of a load or hook that has ended are
\* reset.
ChangesTypeOK ==
    /\ serial \in Seq(Version)
    /\ \A s \in Section : \A c \in changes[s] :
          c.to \in versions /\ c.from \subseteq versions /\ c.windowTo \in Release
    /\ {deferred, newest} \subseteq BOOLEAN
    /\ mapped \subseteq versions \cup newVersions /\ grown \subseteq SectionsOf(mapped)
    /\ hook \in {"none", "decide", "compute"}
    /\ loaded \in IF hook = "none" THEN {NoRelease} ELSE complete
    /\ left \subseteq need /\ (left # {} <=> hook = "compute")
    /\ history \subseteq Events

\* A section's rows always read as one history, whatever dies or fails between
\* a load and the end of its hook: one version came first, and every other
\* followed a version that has a row, no two the same one.
TimelineIsAChain ==
    \A s \in Section : changes[s] # {} =>
        /\ \E first \in changes[s] : \A c \in changes[s] : c.from = {} <=> c = first
        /\ \A c, d \in changes[s] : c # d => c.from # d.from /\ c.to # d.to
        /\ \A c \in changes[s] : c.from \subseteq {d.to : d \in changes[s]}

\* No release point carries anything of a load that has not completed.
NothingHalfLoaded == \A r \in Release \ complete : releaseMap[r] = {}

\* Between loads, a section whose rows `version-changes` takes for complete has
\* exactly the rows that computing them from the tables would give: the hook
\* leaves no stale row behind, whatever is loaded in whatever order, and what it
\* fails to compute shows in the count (load.py:469-472). No process has died
\* between a load and the end of its hook, or raised before deciding.
CountedRowsAreCurrent ==
    pc = "idle" /\ hook = "none" /\ NothingHalfLoaded
    /\ {"diedInHook", "failedDeciding"} \cap history = {} =>
        \A s \in Section : CountsAgree(s) => changes[s] = Computed(s)

\* The hook and the deferral keep that promise as long as neither program takes
\* over a release point of the other's, no update defers below the newest, and
\* the title has a section at every release point.
HooksKeepRowsCurrent == history = {} => CountedRowsAreCurrent

\* A load below the title's newest has every section recomputed, because it joins
\* the history a first row's window departs from (version_changes.py:763), so
\* that a release point without sections may be loaded in any order too.
EmptyLoadsKeepRowsCurrent == history \subseteq {"emptyLoad"} => CountedRowsAreCurrent

\* What a deferral leaves in the database says that rows are missing
\* (load.py:398), an update's deferral included.
DeferralLeavesNoStaleRow == "replaced" \notin history => CountedRowsAreCurrent

\* "A version no release maps to (which only a manual deletion produces)"
\* (version_changes.py:331): between loads every version is carried somewhere,
\* unless a release point was taken over.
EveryVersionIsMapped ==
    pc = "idle" /\ "replaced" \notin history =>
        \A v \in versions : \E r \in Release : v \in releaseMap[r]

=============================================================================
