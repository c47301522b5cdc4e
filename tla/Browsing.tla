------------------------------ MODULE Browsing ------------------------------
(***************************************************************************)
(* A reader going from page to page of the front end while one section of  *)
(* the corpus is published, and its release list is fetched later. All a   *)
(* page knows is in its address and in what the API answers; each answer   *)
(* is of a moment of its own, and loads fall between them. A page is left  *)
(* by one of its links, by one of its forms, or by what is typed in the    *)
(* search box.                                                             *)
(***************************************************************************)
EXTENDS Timeline, Addresses

CONSTANTS
    Text,           \* a section's texts: what is in them as statute, notes and markup
    MaxRelease,     \* bound: release points published
    MaxLag,         \* bound: release points by which what a page holds is behind
    MaxAt,          \* bound: release points while the reader is at a page of no section
    Section, Title, \* the identifiers: a section's path and its title's
    Limit, Total,   \* rows to a page, and rows that match
    Dates,          \* what is typed as a date
    Typed,          \* what is typed in the search box, and what the API says it cites
    Facets,         \* the values of the title facet
    Tables,         \* the classification tables
    Lookups,        \* for each query of the lookup, the suggestions that answer it
    Report          \* what the report of version changes says of each title

\* What is typed is tokens; a title's number is a value.
Given == UNION {ToSet(entry.subject) : entry \in Typed}
Words == {token.value.word : token \in Given} \cup {value.word : value \in Facets}
Values == [word : Words, t : BOOLEAN, upper : BOOLEAN]
Tokens == [name : {token.name : token \in Given} \cup SEARCH_SCOPES, value : Values]
Orders == (SORT_KEYS \cup {"unknown"}) \X BOOLEAN

ASSUME BrowsingAssumption ==
    /\ MaxRelease \in Nat \ {0} /\ MaxLag \in Nat
    /\ MaxAt \in [{"search", "classification", "data"} -> 0..MaxRelease]
    /\ Limit \in Nat \ {0} /\ Total \in Nat
    /\ Title = SubSeq(Section, 1, 3)
    /\ \A date \in Dates : isoDate(date) \in Int \cup {NoDate}
    /\ \A entry \in Typed : /\ {entry.from, entry.to} \subseteq Dates \cup {Nothing}
                             /\ entry.subject \in Seq(Tokens)
    /\ Facets \subseteq Values
    /\ \A table \in Tables : table = <<table[1], table[2]>> /\ table[2] \in SESSIONS
    /\ \A query \in Lookups : /\ query.table \in Tables \cup {Nothing}
                              /\ query.section # Nothing => normalizeSectionKey(query.section) # Nothing
    /\ IsFiniteSet(DOMAIN Report) /\ DOMAIN Report \subseteq Int \X Int
    /\ \A num \in DOMAIN Report : /\ Report[num].share \in Nat \cup {Nothing}
                                  /\ Range(Report[num].kinds) \subseteq Nat
    /\ Nothing \notin Int \cup {"all", "1"} \cup SEARCH_SORTS \cup SESSIONS \cup CLASSIFICATION_SORTS
    /\ Nothing \notin Orders \cup Tables \cup Lookups \cup {table[1] : table \in Tables}
    /\ Nothing \notin Seq(Tokens)

VARIABLES
    history,    \* the section's text at each release point
    listed,     \* release points in the list the pages hold; 0 when it failed
    at,         \* the address on screen
    typed       \* the reader wrote it, or a form did; else a link did

vars == <<history, listed, at, typed>>

Newest == Len(history)

\* Days have one release point or two. Today is the last one's day.
Dated == [r \in 1..MaxRelease |-> r \div 2 + 1]
Today == Dated[MaxRelease]

order == releaseOrder(1..listed)

\* What `/versions` may have answered the page on screen: the release map was read,
\* and then the version rows, each at a moment of its own. Change rows are found as
\* they were computed at any moment, if they were ever: a load may have deleted
\* the later ones, and a corpus may not have been back-filled.
Answers ==
    {answer \in [mapped : 0..Newest, computed : 0..Newest, upto : 0..Newest] :
        /\ answer.mapped <= answer.upto /\ answer.computed <= answer.upto
        /\ Newest - answer.upto <= MaxLag /\ answer.upto - answer.mapped <= MaxLag}

entries(answer) == EntriesOf(history, answer)

-----------------------------------------------------------------------------
(* What a dated request answers. *)

\* `resolve_release`: by label, by date, or the newest.
Resolve(release, day) ==
    IF release # Nothing THEN release
    ELSE IF day # Nothing THEN releaseOnOrBefore(1..Newest, Dated, day)
    ELSE IF Newest = 0 THEN NoRelease ELSE Newest

ServedAt(release) == IF release = NoRelease THEN Absent ELSE TextAt(history, release)

\* Of the section page: the text, and the release point it is from.
Selected(address) == Resolve(Read(address, "release"), Nothing)

OnScreen(address) == ServedAt(Selected(address))

-----------------------------------------------------------------------------
(* The version page's answer to a window of dates. *)

\* In order of days, or no answer.
WindowDays(address) ==
    LET request == readWindowRequest(address)
        from == IF request.from = Nothing THEN NoDate ELSE isoDate(request.from)
        to == IF request.to = Nothing THEN Today ELSE isoDate(request.to)
    IN  IF NoDate \in {from, to} \/ from > to THEN <<>> ELSE <<from, to>>

\* `sectionAt`, answered when `newest` was the newest release point.
End(day, newest) ==
    LET release == releaseOnOrBefore(1..newest, Dated, day) IN
    windowEnd(ServedAt(release), release, releaseOnOrBefore(1..listed, Dated, day))

\* The page asks for the versions first and then for both ends at once: each end is
\* answered at a moment of its own that is not earlier.
Ends(day, answer) == {End(day, newest) : newest \in answer.upto..Newest}

\* Nothing is said when the section is at neither end.
WindowAnswer(from, to, answer) ==
    LET start == IF from.release = NoRelease THEN -1 ELSE from.release
        end == IF to.release = NoRelease THEN MaxRelease + 1 ELSE to.release
    IN  [from |-> from, to |-> to, start |-> start, end |-> end,
         cut |-> IF listed = 0 THEN [versions |-> <<>>, kinds |-> {}, complete |-> FALSE]
                 ELSE versionsInWindow(entries(answer), start, end, order),
         changed |-> ~from.exists \/ ~to.exists \/ from.contentHash # to.contentHash]

WindowAnswers(address, answer) ==
    LET days == WindowDays(address) IN
    IF days = <<>> THEN {}
    ELSE {WindowAnswer(ends[1], ends[2], answer) :
             ends \in {e \in Ends(days[1], answer) \X Ends(days[2], answer) :
                          e[1].exists \/ e[2].exists}}

-----------------------------------------------------------------------------
(* The links of each page. *)

\* "Compare with..." and the palette's row.
ComparisonsOf(selected, answer) ==
    LET options == ToSet(comparableReleases(selected, 1..listed))
        previous == previousChangedRelease(entries(answer), selected)
        Compare(from) == [from |-> from, to |-> selected] IN
    {Compare(r) : r \in options \cup {p \in {previous} : options # {} /\ p # NoRelease}}
        \cup {Compare(row.from) : row \in sectionCommands(selected, 1..listed)}

SectionLinks(address, answer) ==
    LET selected == Selected(address) IN
    IF address.path = Title THEN {appHref(Section, Nothing)}
    ELSE IF OnScreen(address) = Absent
         THEN {appHref(nearestAncestor(address.path, {Title}, FALSE), Nothing)}
    ELSE {versionsHref(Section, Nothing, [from |-> Nothing, to |-> Nothing])}
           \cup {appHref(Section, r) : r \in 1..listed}
           \cup {diffHref(Section, c.from, c.to, Nothing) : c \in ComparisonsOf(selected, answer)}

\* A corpus without change rows has one view.
VersionsView(address, answer) ==
    IF isAnnotated(entries(answer)) THEN readVersionsView(Read(address, "view")) ELSE "all"

TimelineOf(answer) == timelineRows(entries(answer), order)

VersionsLinks(address, answer) ==
    LET shown == VersionsView(address, answer)
        rows == {row \in ToSet(TimelineOf(answer)) : row.statutory \/ shown = "all"} IN
    {appHref(Section, Nothing)}
        \cup {versionsHref(Section, view, readWindowRequest(address))
                : view \in {v \in {"text", "all"} \ {shown} : isAnnotated(entries(answer))}}
        \cup {appHref(Section, row.start) : row \in {r \in rows : r.start # NoRelease}}
        \cup {diffHref(Section, row.from, row.start, Nothing)
                : row \in {r \in rows : r.from # NoRelease}}

\* The window's form, and "Compare any two versions".
VersionsForms(address, answer) ==
    LET view == IF VersionsView(address, answer) = "all" THEN "all" ELSE Nothing
        starts == {row.start : row \in ToSet(TimelineOf(answer))} \ {NoRelease} IN
    {Address("versions", Section, [view |-> view, from |-> from, to |-> to])
        : from \in Dates \cup {Nothing}, to \in Dates \cup {Nothing}}
    \cup {diffHref(Section, from, to, Nothing) : from, to \in starts}

DiffLinks(address) ==
    {appHref(Section, Read(address, "to")),
     versionsHref(Section, Nothing, [from |-> Nothing, to |-> Nothing])}

Others(numbers, current) == ToSet(numbers) \ {0, current}

\* Search: the rows, the pages, the orders and the facet.
Moment(view) == Resolve(view.release, view.date)

\* A row of `search.astro` opens the release point the address names.
RowHref(view) == appHref(Section, view.release)

SearchLinks(address) ==
    LET view == SearchView(address, Limit)
        pager == pagerModel(Total, view.offset, Limit, Shown(Total, view.offset, Limit)) IN
    IF view.q = <<>> THEN {}
    ELSE {SearchPageHref(view, (page - 1) * Limit) : page \in Others(pager.numbers, pager.current)}
           \cup {SearchSortHref(view, sort) : sort \in SEARCH_SORTS \ {view.sort}}
           \cup {FacetHref(view, "title", value) : value \in Facets}
           \cup {RowHref(view) : shown \in {TRUE} \cap {ServedAt(Moment(view)) # Absent}}

\* The jump box, and the moment written into the address.
SearchForms(address) ==
    LET view == SearchView(address, Limit)
        fields == [q |-> view.q, release |-> view.release, date |-> view.date,
                   cites |-> IF view.cites THEN "1" ELSE Nothing,
                   sort |-> Unless(view.sort, "relevance")] IN
    {Address("search", Nothing, Spread(fields, [page |-> page]))
        : page \in 1..pagerModel(Total, view.offset, Limit, 0).pages + 1}
    \cup {Address("search", Nothing, [fields EXCEPT !.date = day]) : day \in 0..Today}

\* What the lookup is told of a law, a section or a title.
Suggestion(query, kind, table) ==
    [kind |-> kind, congress |-> IF table = Nothing THEN Nothing ELSE table[1],
     session |-> IF table = Nothing THEN Nothing ELSE table[2],
     pl |-> query.pl, plSection |-> query.plSection, title |-> query.title,
     section |-> query.section, identifier |-> Section, href |-> appHref(Section, Nothing)]

Answered(query, path) ==
    LET Suggest(kind) == <<Suggestion(query, kind, Nothing)>>
        InTable(kind) == IF path = Nothing THEN <<>> ELSE <<Suggestion(query, kind, path)>>
    IN  CASE query.pl # Nothing -> <<Suggestion(query, "pl", query.table)>>
          [] query.pl = Nothing /\ query.section # Nothing ->
                InTable("section-in-table")
                    \o Suggest("section-notes") \o Suggest("section-classifications")
          [] OTHER -> InTable("title-in-table") \o Suggest("title-classifications")

ClassificationLinks(address) ==
    LET view == ClassificationView(address, Limit)
        pager == pagerModel(Total, view.offset, Limit, Shown(Total, view.offset, Limit))
        keys == IF address.path = Nothing /\ view.section # Nothing THEN {"pl"}
                ELSE CLASSIFICATION_SORT_KEYS
        listing == address.path # Nothing \/ view.title # Nothing
    IN  {classificationHref(table[1], table[2], Unfiltered("pl")) : table \in Tables}
        \cup {classificationHref(Nothing, Nothing, Unfiltered("pl-desc"))}
        \cup (IF ~listing THEN {}
              ELSE {RowsHref(address, view, [sort |-> nextSort(view.sort, key), offset |-> 0]) : key \in keys}
                \cup {RowsHref(address, view, [offset |-> (page - 1) * Limit])
                         : page \in Others(pager.numbers, pager.current)}
                \cup PillHrefs(address, view))
        \cup (IF view.q = Nothing THEN {}
              ELSE {classificationSuggestionHref(s) : s \in ToSet(Answered(view.q, address.path))})

\* A query of the lookup keeps the order, and one that names rows of a table is
\* applied as a filter. Choosing a table carries the query there.
Looked(address) ==
    LET view == ClassificationView(address, Limit)
        Filter(i) ==
            classificationTableFilterHref(Answered(view.q, address.path)[i], view.sort)
        applied == {i \in DOMAIN Answered(view.q, address.path) : Filter(i) # Nothing}
    IN  IF view.q = Nothing \/ address.path = Nothing \/ applied = {} THEN address
        ELSE Filter(Min(applied))

ClassificationForms(address) ==
    LET view == ClassificationView(address, Limit) IN
    {Looked(Address("classification", address.path,
        [q |-> query, sort |-> IF address.path = Nothing THEN Nothing ELSE Unless(view.sort, "pl")]))
        : query \in Lookups}
    \cup {LET scope == parseClassificationScope(value) IN
            Looked(classificationHref(scope[1], scope[2], [Unfiltered("pl") EXCEPT !.q = view.q]))
          : value \in {classificationScopeValue(table[1], table[2])
                          : table \in {t \in Tables : address.path = Nothing}}}

\* The table of the report: its headings, and what is written into the address.
DataSort(address) == parseSort(Read(address, "sort"))

DataLinks(address) == {headingHref(DataSort(address), key) : key \in SORT_KEYS}

DataForms == {Address("data", Nothing, [sort |-> chosen]) : chosen \in Orders}

-----------------------------------------------------------------------------
Init ==
    /\ history = <<>> /\ listed = 0
    /\ at = appHref(Section, Nothing) /\ typed = FALSE

\* A release point of the title is loaded.
Publish(text) ==
    /\ Newest < MaxRelease
    /\ listed # 0 => Newest - listed < MaxLag
    /\ at.page \in DOMAIN MaxAt => Newest < MaxAt[at.page]
    /\ history' = Append(history, text)
    /\ UNCHANGED <<listed, at, typed>>

\* The release list is fetched, or could not be.
List(fetched) ==
    /\ listed # fetched /\ listed' = fetched
    /\ UNCHANGED <<history, at, typed>>

\* The reader is at an address a link or a form wrote.
Go(address, byHand) ==
    /\ address.page \in DOMAIN MaxAt => Newest <= MaxAt[address.page]
    /\ at' = address /\ typed' = byHand
    /\ UNCHANGED <<history, listed>>

FromSection ==
    at.page = "section" /\ \E link \in UNION {SectionLinks(at, answer) : answer \in Answers} : Go(link, FALSE)
FromVersions ==
    at.page = "versions" /\ \E link \in UNION {VersionsLinks(at, answer) : answer \in Answers} : Go(link, FALSE)
FromDiff == at.page = "diff" /\ \E link \in DiffLinks(at) : Go(link, FALSE)
FromSearch == at.page = "search" /\ \E link \in SearchLinks(at) : Go(link, FALSE)
FromClassification ==
    at.page = "classification" /\ \E link \in ClassificationLinks(at) : Go(link, FALSE)

FromData == at.page = "data" /\ \E link \in DataLinks(at) : Go(link, FALSE)

SubmitData == at.page = "data" /\ \E form \in DataForms : Go(form, TRUE)
SubmitVersions ==
    at.page = "versions" /\ \E form \in UNION {VersionsForms(at, answer) : answer \in Answers} : Go(form, TRUE)
SubmitSearch == at.page = "search" /\ \E form \in SearchForms(at) : Go(form, TRUE)
SubmitClassification ==
    at.page = "classification" /\ \E form \in ClassificationForms(at) : Go(form, TRUE)

\* The box in every page's header, and the palette's fixed row.
Goto(entry) ==
    /\ goto(entry, entry.cited, Nothing) # Nothing
    /\ Go(goto(entry, entry.cited, Nothing), FALSE)

SiteCommand == Go(classificationHref(Nothing, Nothing, Unfiltered("pl-desc")), FALSE)

\* The footer of every page.
FooterLink == Go(versionDataHref(Nothing), FALSE)

Next ==
    \/ \E text \in Text \cup {Absent} : Publish(text)
    \/ \E fetched \in {0, Newest} : List(fetched)
    \/ FromSection \/ FromVersions \/ FromDiff \/ FromSearch \/ FromClassification \/ FromData
    \/ SubmitVersions \/ SubmitSearch \/ SubmitClassification \/ SubmitData
    \/ \E entry \in Typed : Goto(entry)
    \/ SiteCommand \/ FooterLink

Spec == Init /\ [][Next]_vars

-----------------------------------------------------------------------------
(* The history page. *)

HeldUpto(n) == Published(Upto(history, n))

\* A text that went away and came back.
Recurs(n) ==
    \E q, r, s \in HeldUpto(n) : q < r /\ r < s /\ history[q] = history[s] /\ history[q] # history[r]

\* Newest release point below `r` whose statute is another one's.
LastOther(r) ==
    LET others == {q \in Published(history) : q < r /\ history[q].statute # history[r].statute} IN
    IF others = {} THEN NoRelease ELSE Max(others)

\* The change rows an answer found are of all the release points it maps.
Flagged(answer) == answer.mapped <= answer.computed

RowsAreSound(answer) ==
    LET rows == TimelineOf(answer)
        found == entries(answer) IN
    /\ \A r \in HeldUpto(answer.mapped) : \E only \in {i \in DOMAIN rows : rows[i].statutory} :
          \A i \in DOMAIN rows :
             rows[i].statutory => (r \in ToSet(rows[i].effectiveReleases) <=> i = only)
    /\ \A i \in DOMAIN rows :
          LET run == rows[i].effectiveReleases IN
          /\ isAnnotated(found) =>
                \A r \in ToSet(run) : history[r].statute = found[i].text.statute
          /\ answer.mapped <= listed => \A j, k \in DOMAIN run : j < k => run[j] < run[k]
          /\ rows[i].from # NoRelease =>
                /\ history[rows[i].from] # history[rows[i].start]
                /\ \/ {rows[i].from, rows[i].start} \subseteq 1..listed
                   \/ Flagged(answer) \/ ~Recurs(answer.mapped)
                   => rows[i].from < rows[i].start
          /\ rows[i].withheld => Recurs(answer.upto) \/ rows[i].start = NoRelease

CountsAreSound(answer) ==
    LET counts == versionCounts(entries(answer))
        held == HeldUpto(answer.upto) IN
    /\ counts.releases = Cardinality(HeldUpto(answer.mapped))
    /\ isAnnotated(entries(answer)) /\ ~Recurs(answer.upto) =>
          counts.amendments =
            Cardinality({r \in held : LastOther(r) # NoRelease
                                        /\ \A q \in held : q < r => q <= LastOther(r)})

\* What the page offers to compare the text on screen with.
ComparisonIsSound(selected, answer) ==
    LET previous == previousChangedRelease(entries(answer), selected) IN
    /\ previous # NoRelease => history[previous].statute # history[selected].statute
    /\ ~Recurs(answer.mapped) => previous = LastOther(selected)

\* A search result's line about version `i`.
NoteIsSound(i, answer) ==
    LET note == resultChangeNote(entries(answer), i)
        text == entries(answer)[i].text
        stands == HeldUpto(answer.mapped) \cap note.since..EndOf(entries(answer)[i].releases) IN
    /\ \A r \in stands : history[r].statute = text.statute
    /\ note.later # NoKind => \E r \in stands : history[r] # text

\* Every release point the section was published at is under exactly one row of
\* the default view, which has its statute; a redline is offered only between
\* different texts, and forwards in time where the release list has both, or
\* the change rows are as new as the release map, or no text came back; it is
\* withheld only when a text came back, or is of no release point yet; the number of
\* amendments is the number of times the statute changed; "compare with the
\* previous version" and a search result's "unchanged since" are about the
\* statute's last change. With or without the release list, whole or behind, for
\* whatever the versions' answer found of the map, the rows and their changes.
TimelineIsSound ==
    \A answer \in Answers :
        /\ at = versionsHref(Section, Nothing, [from |-> Nothing, to |-> Nothing]) =>
              /\ RowsAreSound(answer)
              /\ CountsAreSound(answer)
              /\ isAnnotated(entries(answer)) /\ ~Recurs(answer.mapped) /\ answer.mapped = answer.upto =>
                    \A i \in DOMAIN entries(answer) : NoteIsSound(i, answer)
        /\ at.page = "section" /\ isAnnotated(entries(answer)) =>
              (Selected(at) \in HeldUpto(answer.mapped) => ComparisonIsSound(Selected(at), answer))

\* A redline is offered forwards in time, whatever is known of the order
\* (lib/versions.ts:173: `concurrent` "is set on every backwards window, so
\* trusting it costs some comparisons and offers none that run the wrong way").
RedlinesRunForwards ==
    at.page = "versions" => \A answer \in Answers :
        \A row \in ToSet(TimelineOf(answer)) : row.from # NoRelease => row.from < row.start

\* The texts in force from `start` to `end`, each once for as long as it stands.
Walk(n, start, end) ==
    LET text == {q \in HeldUpto(n) : q <= start}
        stops == {q \in HeldUpto(n) : start < q /\ q <= end} \cup {Max(b) : b \in {text} \ {{}}}
        Neighbours(p, q) == p < q /\ \A r \in stops : r <= p \/ q <= r
        turns == {q \in stops : \A p \in stops : Neighbours(p, q) => history[p] # history[q]}
    IN  [i \in 1..Cardinality(turns) |-> history[Ascending(turns)[i]]]

\* No end of a window is of a release point later than those an answer maps.
Covers(answer, window) == {window.from.release, window.to.release} \subseteq {NoRelease} \cup 1..answer.mapped

\* What the page makes of the window.
WindowIsTold(window, answer) ==
    LET cut == window.cut
        versions == cut.versions
        walk == Walk(answer.mapped, window.start, window.end) IN
    cut.complete /\ (answer.mapped <= listed \/ ~Recurs(answer.mapped)) =>
        /\ [i \in DOMAIN versions |-> versions[i].text] = walk
        /\ Covers(answer, window) =>
             /\ window.from.exists => Head(walk) = window.from.contentHash
             /\ window.to.exists => Last(walk) = window.to.contentHash
             /\ window.changed => cut.kinds # {} \/ ~isAnnotated(entries(answer))
             /\ isAnnotated(entries(answer)) =>
                  /\ kindsSentence(cut.kinds) # {} <=> Len(walk) > 1 \/ ~window.from.exists
                  /\ Flagged(answer) /\ Head(walk).statute # Last(walk).statute =>
                        \/ cut.kinds \cap {"text", "initial"} # {}
                        \/ \E i \in DOMAIN versions : versions[i].concurrent
                  /\ ~Recurs(answer.mapped) =>
                        ("entered" \in kindsSentence(cut.kinds) <=> ~window.from.exists)

\* The window's answer is what happened between the two dates: the versions are
\* the texts that stood, in their order; when the answer about the versions has the
\* release points of both ends, they are from the first end's text to the second's,
\* and when the statute differs between the ends, a change of it is named, unless
\* an arrival is marked as one whose window cannot be read; something is said to
\* have changed exactly when a text arrived, and "entered" means that the section
\* was not there before. A release list that is behind may leave a version out, and
\* then the page says so, except for a text that came back.
WindowIsSound ==
    at.page = "versions" /\ Read(at, "view") = Nothing =>
        \A answer \in Answers : \A window \in WindowAnswers(at, answer) : WindowIsTold(window, answer)

\* A window whose entries could all be placed ends with what stood at its end
\* (lib/versions.ts:305: the entry in force at its start "followed by each entry
\* that arrived inside" it).
WindowReachesItsEnds ==
    at.page = "versions" => \A answer \in Answers : \A window \in WindowAnswers(at, answer) :
        window.cut.complete /\ listed = Newest /\ window.to.exists =>
            LET versions == window.cut.versions IN
            versions # <<>> /\ Last(versions).text = window.to.contentHash

-----------------------------------------------------------------------------
(* The addresses. *)

\* A page's address, from what the page made of it.
Written(address) ==
    CASE address.page = "versions" ->
            versionsHref(address.path, readVersionsView(Read(address, "view")), readWindowRequest(address))
      [] address.page = "search" ->
            LET view == SearchView(address, Limit) IN searchHref(view.q, view)
      [] address.page = "classification" ->
            classificationHref(Congress(address), Session(address), ClassificationView(address, Limit))
      [] address.page = "data" -> versionDataHref(DataSort(address))
      [] OTHER -> address

\* The same view, of two addresses of one page.
SameView(a, b) ==
    CASE a.page = "search" -> SearchView(a, Limit) = SearchView(b, Limit)
      [] a.page = "classification" -> ClassificationView(a, Limit) = ClassificationView(b, Limit)
      [] a.page = "data" -> DataSort(a) = DataSort(b)
      [] OTHER -> readWindowRequest(a) = readWindowRequest(b)

\* The titles the API narrows a query to.
Narrowing(q) == {token.value.word : token \in {t \in ToSet(q) : t.name = "title"}}

FacetsToggle(view) ==
    \A value \in Facets :
        LET toggled == SearchView(FacetHref(view, "title", value), Limit) IN
        /\ Narrowing(toggled.q) = IF value.word \in Narrowing(view.q)
                                  THEN Narrowing(view.q) \ {value.word}
                                  ELSE Narrowing(view.q) \cup {value.word}
        /\ parseQuery(toggled.q).text = parseQuery(view.q).text
        /\ \A kept \in {"release", "date", "sort"} : toggled[kept] = view[kept]

\* Each page drawn is the page its link opens, and it has the rows its number says.
PagesOpen(Href(_), offset) ==
    LET pager == pagerModel(Total, offset, Limit, Shown(Total, offset, Limit)) IN
    /\ {1, pager.current, pager.pages} \subseteq ToSet(pager.numbers)
    /\ \A page \in Others(pager.numbers, 0) :
          LET opened == pageOffset(Href((page - 1) * Limit), Limit) IN
          /\ pagerModel(Total, opened, Limit, 0).current = page
          /\ opened % Limit = 0 /\ opened < Max({1, Total})
    /\ offset < Total => pager.from \in (pager.current - 1) * Limit + 1..pager.current * Limit

\* One filter fewer, the order kept, and from the first row.
PillsDrop(view) ==
    LET Filters(v) == {f \in {"pl", "plSection", "title", "section"} : v[f] # Nothing} IN
    \A pill \in PillHrefs(at, view) :
        LET left == ClassificationView(pill, Limit) IN
        /\ \A f \in Filters(left) : left[f] = view[f]
        /\ left.offset = 0
        /\ \/ Cardinality(Filters(left)) = Cardinality(Filters(view)) - 1 /\ left.sort = view.sort
           \/ at.path = Nothing /\ Filters(left) = {}

\* Each title once, by the key in force, ties in the Code's order and titles with
\* nothing to measure last; a heading turns the table round when it is in force.
ReportIsInOrder(sort) ==
    LET rows == sortTitleRows(titleRows(Report), sort)
        forward == IF sort[2] THEN Reverse(rows) ELSE rows
        Measure(row) == CASE sort[1] = "rows" -> row.changeRows
                          [] sort[1] = "text" -> row.text
                          [] sort[1] = "classified" /\ row.share # Nothing -> row.share
                          [] sort[1] = "title" -> 0
                          [] OTHER -> -1
        CodeOrder(a, b) == a.num[1] < b.num[1] \/ (a.num[1] = b.num[1] /\ a.num[2] < b.num[2])
    IN  /\ Len(rows) = Cardinality(DOMAIN Report)
        /\ {row.num : row \in ToSet(rows)} = DOMAIN Report
        /\ \A i, j \in DOMAIN rows : i < j =>
              \/ Measure(forward[i]) > Measure(forward[j])
              \/ Measure(forward[i]) = Measure(forward[j]) /\ CodeOrder(forward[i], forward[j])
        /\ sortTitleRows(titleRows(Report), DataSort(headingHref(sort, sort[1]))) = Reverse(rows)

\* A view has one address: the one its links write. An address written by hand
\* or by a form opens a view that has one. A facet adds its own title to those the
\* search is narrowed to, or takes it out, whatever way it was typed, and keeps the
\* other titles, the moment, the order and the words; a page number opens its page; a
\* filter's pill removes it alone; the report's table is in the order its address says.
AddressesKeepTheView ==
    /\ ~typed => Written(at) = at
    /\ SameView(at, Written(at)) /\ Written(Written(at)) = Written(at)
    /\ at.page = "search" =>
          LET view == SearchView(at, Limit) IN
          /\ FacetsToggle(view)
          /\ PagesOpen(LAMBDA offset : SearchPageHref(view, offset), view.offset)
    /\ at.page = "classification" =>
          LET view == ClassificationView(at, Limit)
              Rows(offset) == RowsHref(at, view, [offset |-> offset]) IN
          /\ PillsDrop(view)
          /\ view.sort \in CLASSIFICATION_SORTS
          /\ at.path # Nothing => PagesOpen(Rows, view.offset)
    /\ at.page = "data" => ReportIsInOrder(DataSort(at))

\* A search result opens the text that matched (components/SearchResult.astro:26:
\* "carried into the link so the row opens the text that matched rather than
\* today's").
RowsOpenWhatMatched ==
    at.page = "search" =>
        LET view == SearchView(at, Limit)
            matched == ServedAt(Moment(view)) IN
        matched # Absent => OnScreen(RowHref(view)) = matched

=============================================================================
