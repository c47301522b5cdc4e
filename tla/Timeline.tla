------------------------------ MODULE Timeline ------------------------------
(***************************************************************************)
(* What the reader makes of a section's history (frontend/src/lib):        *)
(* versions.ts, compare.ts, the release rows of palette.ts and the counts  *)
(* of versiondata.ts. A history gives the section's text at each release   *)
(* point, a release point is its `seq`, and a label is written as the      *)
(* `seq` it stands for; an `order` maps the labels it knows.               *)
(***************************************************************************)
EXTENDS Integers, FiniteSets, Sequences, SequencesExt, FiniteSetsExt, Collections

CONSTANTS Absent, NoRelease, NoKind, NoDate

ASSUME TimelineAssumption ==
    /\ NoKind \notin {"initial", "text", "notes", "structure"}
    /\ NoRelease \notin Nat /\ NoDate \notin Int

-----------------------------------------------------------------------------
(* What the API answers: one entry per hash, by its earliest release point, with
   the change row of its arrival once that has been computed. It reads the release
   map, the change rows and the version rows in statements of their own. *)

Published(history) == {r \in DOMAIN history : history[r] # Absent}

Carrying(history, text) == {r \in Published(history) : history[r] = text}

GroupsOf(history) ==
    [i \in 1..Cardinality({history[r] : r \in Published(history)}) |->
        LET firsts == {Min(Carrying(history, history[r])) : r \in Published(history)} IN
        history[Ascending(firsts)[i]]]

\* `change_kind`, decided text first, then notes.
KindOfChange(before, after) ==
    IF before.statute # after.statute THEN "text"
    ELSE IF before.notes # after.notes THEN "notes" ELSE "structure"

\* `_window_is_unreliable`: the departing group reaches the arrival, or a third
\* group is mapped inside the window.
Concurrent(groups, history, i) ==
    LET FirstSeq(j) == Min(Carrying(history, groups[j]))
        LastSeq(j) == Max(Carrying(history, groups[j]))
    IN  \/ LastSeq(i - 1) >= FirstSeq(i)
        \/ \E j \in DOMAIN groups \ {i - 1, i} :
              FirstSeq(j) <= FirstSeq(i) /\ LastSeq(j) >= LastSeq(i - 1)

\* A history as it was up to a release point.
Upto(history, r) == SubSeq(history, 1, r)

\* An answer: the release points it is of, mapped ones, rows, and those whose change
\* rows it found. An entry without a release point was stored after the map was
\* read; one without a change row has no kind, and no flag.
EntriesOf(history, answer) ==
    LET groups == GroupsOf(Upto(history, answer.upto))
        changed == Upto(history, answer.computed)
        Mapped(i) == Carrying(Upto(history, answer.mapped), groups[i])
        Changed(i) == Carrying(changed, groups[i]) # {}
    IN  [i \in DOMAIN groups |->
            [text |-> groups[i],
             releases |-> Ascending(Mapped(i)),
             kind |-> IF ~Changed(i) THEN NoKind
                      ELSE IF i = 1 THEN "initial" ELSE KindOfChange(groups[i - 1], groups[i]),
             concurrent |-> i > 1 /\ Changed(i) /\ Concurrent(GroupsOf(changed), changed, i)]]

\* A dated request reads the newest text at or before the release point.
TextAt(history, r) ==
    LET held == {q \in Published(history) : q <= r} IN
    IF held = {} THEN Absent ELSE history[Max(held)]

-----------------------------------------------------------------------------
(* versions.ts: the rows. *)

isStatutoryEntry(entry) == entry.kind \in {"initial", "text"}

isAnnotated(entries) == entries # <<>> /\ \A i \in DOMAIN entries : entries[i].kind # NoKind

releaseOrder(releases) == [label \in releases |-> label]

\* The ends of a run of release points, if there is one.
StartOf(releases) == IF releases = <<>> THEN NoRelease ELSE Head(releases)
EndOf(releases) == IF releases = <<>> THEN NoRelease ELSE Last(releases)

\* Without both ends in the order, the change row's flag is all there is, and
\* without a change row nothing.
isForward(from, start, entry, order) ==
    /\ NoRelease \notin {from, start}
    /\ IF {from, start} \subseteq DOMAIN order THEN order[from] < order[start]
       ELSE ~entry.concurrent

\* Mutant: a run is cut at the next entry, hidden or not.
FoldedNone(shown, i) == {i}

\* The entries hidden after a shown one, up to the next shown one, and itself.
Folded(shown, i) ==
    {k \in DOMAIN shown : i <= k /\ \A j \in i + 1..k : ~shown[j]}

\* In release order where all of it is known, else as concatenated: with an unknown
\* label the comparison is no order, and a run is then read for its members only. A
\* release point is under one version, so a run has it once.
sortReleases(releases, order) ==
    IF \A i \in DOMAIN releases : releases[i] \in DOMAIN order
    THEN InOrder(ToSet(releases), order) ELSE releases

timelineRows(entries, order) ==
    LET annotated == isAnnotated(entries)
        shown == [i \in DOMAIN entries |-> ~annotated \/ isStatutoryEntry(entries[i])]
        From(i) == IF i = 1 THEN NoRelease ELSE EndOf(entries[i - 1].releases)
        Start(i) == StartOf(entries[i].releases)
        Offered(i) == isForward(From(i), Start(i), entries[i], order)
        Run(i) == IF shown[i]
                  THEN FlattenSeq([k \in 1..Cardinality(Folded(shown, i)) |->
                                      entries[i + k - 1].releases])
                  ELSE entries[i].releases
    IN  [i \in DOMAIN entries |->
            [statutory |-> shown[i],
             start |-> Start(i),
             releases |-> entries[i].releases,
             effectiveReleases |-> sortReleases(Run(i), order),
             from |-> IF Offered(i) THEN From(i) ELSE NoRelease,
             withheld |-> i > 1 /\ ~Offered(i)]]

versionCounts(entries) ==
    LET Count(P(_)) == Cardinality({i \in DOMAIN entries : P(entries[i])}) IN
    [statutory |-> IF isAnnotated(entries) THEN Count(isStatutoryEntry) ELSE Len(entries),
     all |-> Len(entries),
     amendments |-> Count(LAMBDA entry : entry.kind = "text"),
     releases |-> FoldFunction(+, 0, [i \in DOMAIN entries |-> Len(entries[i].releases)])]

-----------------------------------------------------------------------------
(* versions.ts: a window of dates. *)

\* A typed date is in one of the two forms, or in neither.
isoDate(typed) == IF typed.form \in {"iso", "us"} THEN typed.day ELSE NoDate

\* Release points are dated, several on a day. The list may be behind.
releaseOnOrBefore(releases, dated, day) ==
    LET before == {r \in releases : dated[r] <= day} IN
    IF before = {} THEN NoRelease ELSE Max(before)

\* Mutant: the arrival at the window's end is left out.
InsideBeforeEnd(seqs, start, end) == {q \in seqs : start < q /\ q < end}

Inside(seqs, start, end) == {q \in seqs : start < q /\ q <= end}

\* The entry in force at `start`, then each that arrived in (start, end]. An end
\* that no release point answers is -1, or beyond all.
versionsInWindow(entries, start, end, order) ==
    LET Known(i) == ToSet(entries[i].releases) \cap DOMAIN order
        seqs == UNION {{order[label] : label \in Known(i)} : i \in DOMAIN entries}
        BySeq(q) == CHOOSE i \in DOMAIN entries : \E label \in Known(i) : order[label] = q
        before == {q \in seqs : q <= start}
        baseline == IF before = {} THEN <<>> ELSE <<BySeq(Max(before))>>
        inside == Ascending(Inside(seqs, start, end))
        walk == baseline \o [i \in DOMAIN inside |-> BySeq(inside[i])]
        turns == {i \in DOMAIN walk : i = 1 \/ walk[i] # walk[i - 1]}
        sequence == [i \in 1..Cardinality(turns) |-> entries[walk[Ascending(turns)[i]]]]
        arrivals == IF baseline = <<>> THEN sequence ELSE Tail(sequence)
    IN  [versions |-> sequence,
         kinds |-> ({arrivals[i].kind : i \in DOMAIN arrivals} \ {NoKind})
                      \cup {k \in {"initial"} : baseline = <<>> /\ sequence # <<>>},
         complete |-> \A i \in DOMAIN entries : Known(i) # {}]

\* One end: the release point the date names, and the text read there.
windowEnd(section, release, fallback) ==
    [release |-> IF section = Absent THEN fallback ELSE release,
     exists |-> section # Absent, contentHash |-> section]

\* What the sentence says changed.
kindsSentence(kinds) ==
    LET changed == kinds \ {"initial"} IN
    {s \in {"entered"} : "initial" \in kinds}
        \cup (IF changed = {"structure"} THEN {"metadata"} ELSE changed)

\* The API's change points of a version: the newest text arrival up to its own.
changePoints(entries, i) ==
    [textSince |-> Max({Head(entries[j].releases) :
                           j \in {k \in 1..i : isStatutoryEntry(entries[k])}}),
     changedAt |-> Head(entries[i].releases), kind |-> entries[i].kind]

\* A search result's line: since when its text stands, and what changed later.
resultChangeNote(entries, i) ==
    IF entries[i].kind = NoKind
    THEN [since |-> Head(entries[i].releases), later |-> NoKind]
    ELSE LET points == changePoints(entries, i) IN
         [since |-> points.textSince,
          later |-> IF points.changedAt = points.textSince THEN NoKind ELSE points.kind]

-----------------------------------------------------------------------------
(* compare.ts and palette.ts: what to compare with. *)

isFoldedIntoPrevious(entry) == entry.kind # NoKind /\ ~isStatutoryEntry(entry)

\* Back over the groups whose arrival left the words alone, then one more.
previousChangedRelease(entries, selected) ==
    LET holding == {i \in DOMAIN entries : selected \in ToSet(entries[i].releases)}
        index == IF holding = {} THEN 0 ELSE Min(holding)
        stops == {i \in 1..index : ~isFoldedIntoPrevious(entries[i])}
    IN  IF stops = {} \/ Max(stops) = 1 THEN NoRelease
        ELSE EndOf(entries[Max(stops) - 1].releases)

\* Newest first, strictly older than what is on screen.
comparableReleases(selected, releases) ==
    IF selected \notin releases THEN <<>>
    ELSE Reverse(Ascending({r \in releases : r < selected}))

\* The palette's row: the entry after this one in the title's list, newest first.
sectionCommands(selected, releases) ==
    LET list == Reverse(Ascending(releases))
        index == {i \in DOMAIN list : list[i] = selected}
    IN  {[id |-> "compare-previous", from |-> list[i + 1], to |-> selected]
            : i \in {j \in index : j + 1 \in DOMAIN list}}

=============================================================================
