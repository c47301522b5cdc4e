----------------------------- MODULE Addresses ------------------------------
(***************************************************************************)
(* The reader's addresses, which hold all the state a page has             *)
(* (frontend/src/lib): written by url.ts, read back by the pages, edited   *)
(* by searchscope.ts, pager.ts and the one search box (query.ts). An       *)
(* address is a page, its path and the parameters present in its query;    *)
(* percent-encoding is left out. A parameter that is null or empty is      *)
(* Nothing.                                                                *)
(***************************************************************************)
EXTENDS Integers, FiniteSets, Sequences, SequencesExt, FiniteSetsExt, Functions, Collections

CONSTANT Nothing

\* `query`: what is null or empty is left out.
Present(params) == Restrict(params, {p \in DOMAIN params : params[p] # Nothing})

Address(route, path, params) == [page |-> route, path |-> path, params |-> Present(params)]

Read(address, param) ==
    IF param \in DOMAIN address.params THEN address.params[param] ELSE Nothing

\* Written only when it is not the view's default.
Unless(value, default) == IF value = default THEN Nothing ELSE value

-----------------------------------------------------------------------------
(* url.ts: the pages about a provision. *)

appHref(identifier, release) == Address("section", identifier, [release |-> release])

versionsHref(identifier, view, window) ==
    Address("versions", identifier,
        [view |-> IF view = "all" THEN "all" ELSE Nothing,
         from |-> window.from,
         to |-> IF window.from = Nothing THEN Nothing ELSE window.to])

readVersionsView(raw) == IF raw = "all" THEN "all" ELSE "text"

readWindowRequest(address) ==
    [from |-> Read(address, "from"),
     to |-> IF Read(address, "from") = Nothing THEN Nothing ELSE Read(address, "to")]

diffHref(identifier, from, to, provision) ==
    Address("diff", identifier, [from |-> from, to |-> to, at |-> provision])

\* The identifiers to try when one resolves to nothing, nearest first: from the
\* one above it up to the title, which is the path's third segment.
ancestorIdentifiers(path) ==
    IF Len(path) < 4 \/ SubSeq(path, 1, 2) # <<"us", "usc">> THEN <<>>
    ELSE [i \in 1..Len(path) - 3 |-> SubSeq(path, 1, Len(path) - i)]

nearestAncestor(path, resolves, includeSelf) ==
    LET chain == (IF includeSelf THEN <<path>> ELSE <<>>) \o ancestorIdentifiers(path)
        hits == {i \in DOMAIN chain : chain[i] \in resolves}
    IN  IF hits = {} THEN Nothing ELSE chain[Min(hits)]

-----------------------------------------------------------------------------
(* searchscope.ts. A query is its words in order. A word may carry a scope: a
   name, and a value that may be upper case, have a `t` before it or a space in
   it. *)

SEARCH_SCOPES == {"heading", "title", "chapter", "status"}
TIME_SCOPES == {"release", "date"}

Plain(word) == [name |-> Nothing, value |-> [word |-> word, t |-> FALSE, upper |-> FALSE]]
Scoped(name, value) == [name |-> name, value |-> value]

\* Mutant: the value is kept as it was typed.
normaliseNot(name, value) == value

\* `title:t16` means title 16, and case does not count.
normalise(name, value) ==
    [value EXCEPT !.upper = FALSE, !.t = @ /\ name # "title"]

\* A prefix this site does not implement stays in the text.
parseQuery(q) ==
    LET scoped == {token \in ToSet(q) : token.name \in SEARCH_SCOPES \cup TIME_SCOPES}
        scopes == Keep(q, scoped)
    IN  [text |-> Keep(q, ToSet(q) \ scoped),
         scopes |-> [i \in DOMAIN scopes |->
                        Scoped(scopes[i].name, normalise(scopes[i].name, scopes[i].value))]]

\* The text, then the scopes; a value with a space in quotes, which are one token.
unparse(parsed) == parsed.text \o parsed.scopes

hasScope(q, name, value) == Scoped(name, normalise(name, value)) \in ToSet(parseQuery(q).scopes)

withScope(q, name, value) ==
    IF hasScope(q, name, value) THEN q
    ELSE unparse([parseQuery(q) EXCEPT !.scopes = Append(@, Scoped(name, normalise(name, value)))])

withoutScope(q, name, value) ==
    LET wanted == Scoped(name, normalise(name, value)) IN
    unparse([parseQuery(q) EXCEPT !.scopes = Keep(@, ToSet(@) \ {wanted})])

toggleScope(q, name, value) ==
    IF hasScope(q, name, value) THEN withoutScope(q, name, value) ELSE withScope(q, name, value)

-----------------------------------------------------------------------------
(* url.ts: search. `cites` marks a query that asked for what cites a provision. *)

searchHref(q, opts) ==
    Address("search", Nothing,
        [q |-> q, release |-> opts.release, date |-> opts.date,
         cites |-> IF opts.cites THEN "1" ELSE Nothing,
         sort |-> Unless(opts.sort, "relevance"), offset |-> Unless(opts.offset, 0)])

SEARCH_SORTS == {"relevance", "citation", "recent"}

\* A page number is 1-based; the offset wins, as the one a link wrote.
pageOffset(address, limit) ==
    LET offset == Read(address, "offset")
        number == Read(address, "page") IN
    IF offset # Nothing THEN Max({0, offset})
    ELSE IF number = Nothing \/ number <= 1 THEN 0 ELSE (number - 1) * limit

\* What search.astro reads, with an unknown order as the default.
SearchView(address, limit) ==
    [q |-> IF Read(address, "q") = Nothing THEN <<>> ELSE Read(address, "q"),
     release |-> Read(address, "release"), date |-> Read(address, "date"),
     cites |-> Read(address, "cites") = "1",
     sort |-> IF Read(address, "sort") \in SEARCH_SORTS THEN Read(address, "sort") ELSE "relevance",
     offset |-> pageOffset(address, limit)]

\* Its links: another page, another order, and a facet (SearchFacets.astro).
SearchPageHref(view, offset) == searchHref(view.q, [view EXCEPT !.offset = offset])

SearchSortHref(view, sort) == searchHref(view.q, [view EXCEPT !.sort = sort, !.offset = 0])

FacetHref(view, name, value) ==
    searchHref(toggleScope(view.q, name, value), [view EXCEPT !.cites = FALSE, !.offset = 0])

-----------------------------------------------------------------------------
(* url.ts: the classification tables. A table is a congress and a session; without
   a table the rows are those of the whole corpus. An order is a key and a
   direction, in one value. *)

SESSIONS == {"1", "2", "all"}

\* A typed section may have capitals or a long dash in it; the tables have neither.
normalizeSectionKey(section) == IF section = Nothing THEN Nothing ELSE [section EXCEPT !.typed = FALSE]

CLASSIFICATION_SORT_KEYS == {"pl", "code"}

Reversed(key) == IF key = "pl" THEN "pl-desc" ELSE "code-desc"

CLASSIFICATION_SORTS == CLASSIFICATION_SORT_KEYS \cup {Reversed(key) : key \in CLASSIFICATION_SORT_KEYS}

sortKey(sort) == IF sort \in {"code", "code-desc"} THEN "code" ELSE "pl"

sortDescending(sort) == sort = Reversed(sortKey(sort))

\* The key in force turns round; the other starts in its own direction.
nextSort(current, key) ==
    IF sortKey(current) = key /\ ~sortDescending(current) THEN Reversed(key) ELSE key

readSort(raw, fallback) == IF raw \in CLASSIFICATION_SORTS THEN raw ELSE fallback

\* Both halves of a table are needed to name one.
classificationHref(congress, session, opts) ==
    Address("classification",
        IF congress # Nothing /\ session # Nothing THEN <<congress, session>> ELSE Nothing,
        [q |-> opts.q, pl |-> opts.pl, pl_section |-> opts.plSection, title |-> opts.title,
         section |-> normalizeSectionKey(opts.section),
         sort |-> Unless(opts.sort, opts.sortDefault), offset |-> Unless(opts.offset, 0)])

Unfiltered(default) ==
    [q |-> Nothing, pl |-> Nothing, plSection |-> Nothing, title |-> Nothing, section |-> Nothing,
     sort |-> default, sortDefault |-> default, offset |-> 0]

\* `118-2`, and back; what names no table scopes nothing.
classificationScopeValue(congress, session) == <<congress, session>>

parseClassificationScope(value) ==
    IF value # Nothing /\ value[2] \in SESSIONS THEN value ELSE Nothing

\* A suggestion of the lookup, as a filter on one table: a law, a section or a
\* title in it. The others are no filter on any one table.
classificationTableFilterHref(suggestion, order) ==
    LET Filtered(opts) ==
            classificationHref(suggestion.congress, suggestion.session,
                               [opts EXCEPT !.sort = order]) IN
    IF suggestion.congress = Nothing \/ suggestion.session = Nothing THEN Nothing
    ELSE CASE suggestion.kind = "pl" ->
                Filtered([Unfiltered("pl") EXCEPT !.pl = suggestion.pl,
                                                  !.plSection = suggestion.plSection])
           [] suggestion.kind = "section-in-table" /\ suggestion.title # Nothing ->
                Filtered([Unfiltered("pl") EXCEPT !.title = suggestion.title,
                                                  !.section = suggestion.section])
           [] suggestion.kind = "title-in-table" /\ suggestion.title # Nothing ->
                Filtered([Unfiltered("pl") EXCEPT !.title = suggestion.title])
           [] OTHER -> Nothing

\* The same suggestion as a link.
classificationSuggestionHref(suggestion) ==
    LET filtered == classificationTableFilterHref(suggestion, "pl")
        ByCode(section) == classificationHref(Nothing, Nothing,
                [Unfiltered("pl") EXCEPT !.title = suggestion.title, !.section = section])
    IN  CASE filtered # Nothing -> filtered
          [] suggestion.kind = "section-notes" /\ suggestion.identifier # Nothing ->
                appHref(suggestion.identifier, Nothing)
          [] suggestion.kind = "section-classifications" /\ suggestion.title # Nothing ->
                ByCode(suggestion.section)
          [] suggestion.kind = "title-classifications" /\ suggestion.title # Nothing ->
                ByCode(Nothing)
          [] OTHER -> suggestion.href

\* What the two pages read. Without a title there are no rows of the whole corpus
\* to show, and a section names nothing.
ClassificationDefault(address) == IF address.path = Nothing THEN "pl-desc" ELSE "pl"

ClassificationView(address, limit) ==
    LET rows == address.path # Nothing \/ Read(address, "title") # Nothing
        Filter(param) == IF rows THEN Read(address, param) ELSE Nothing
        OfTable(param) == IF address.path # Nothing THEN Read(address, param) ELSE Nothing
    IN  [q |-> Read(address, "q"), pl |-> OfTable("pl"), plSection |-> OfTable("pl_section"),
         title |-> Filter("title"), section |-> normalizeSectionKey(Filter("section")),
         sort |-> IF rows THEN readSort(Read(address, "sort"), ClassificationDefault(address))
                  ELSE ClassificationDefault(address),
         sortDefault |-> ClassificationDefault(address),
         offset |-> IF rows THEN pageOffset(address, limit) ELSE 0]

Congress(address) == IF address.path = Nothing THEN Nothing ELSE address.path[1]
Session(address) == IF address.path = Nothing THEN Nothing ELSE address.path[2]

\* Another page or another order of the same rows; and one filter fewer.
RowsHref(address, view, changes) ==
    classificationHref(Congress(address), Session(address), Spread([view EXCEPT !.q = Nothing], changes))

PillHrefs(address, view) ==
    IF address.path # Nothing
    THEN {RowsHref(address, [view EXCEPT ![filter] = Nothing], [offset |-> 0])
            : filter \in {f \in {"pl", "plSection", "title", "section"} : view[f] # Nothing}}
    ELSE {classificationHref(Nothing, Nothing, Unfiltered("pl-desc")) : f \in {view.title} \ {Nothing}}
           \cup {RowsHref(address, view, [section |-> Nothing, offset |-> 0])
                    : f \in {view.section} \ {Nothing}}

-----------------------------------------------------------------------------
(* versiondata.ts: the report of version changes, which counts for some titles the
   changes of some kinds. A title is a number and what follows it: `5a` is after
   `5` and before `6`. An order is a key and whether it is turned round. *)

CHANGE_KINDS == {"initial", "text", "notes", "structure"}

compareTitles(a, b) == IF a[1] # b[1] THEN a[1] - b[1] ELSE a[2] - b[2]

titleRows(report) ==
    LET Before(num) == {other \in DOMAIN report : compareTitles(other, num) < 0}
        nums == InOrder(DOMAIN report, [num \in DOMAIN report |-> Cardinality(Before(num))])
        Count(num, kind) ==
            IF kind \in DOMAIN report[num].kinds THEN report[num].kinds[kind] ELSE 0
    IN  [i \in DOMAIN nums |->
            [num |-> nums[i], text |-> Count(nums[i], "text"), share |-> report[nums[i]].share,
             changeRows |-> FoldFunction(+, 0, [kind \in CHANGE_KINDS |-> Count(nums[i], kind)])]]

SORT_KEYS == {"title", "rows", "text", "classified"}

DEFAULT_SORT == <<"title", FALSE>>

parseSort(value) == IF value = Nothing \/ value[1] \notin SORT_KEYS THEN DEFAULT_SORT ELSE value

\* The largest first. A title with no text changes has no share and comes last.
SortsBefore(key, a, b) ==
    CASE key = "rows" -> a.changeRows > b.changeRows
      [] key = "text" -> a.text > b.text
      [] key = "classified" -> a.share # Nothing /\ (b.share = Nothing \/ a.share > b.share)
      [] OTHER -> FALSE

\* A tie stays as it was, and a reversed order is the list reversed.
sortTitleRows(rows, sort) ==
    LET Ahead(i) == {j \in DOMAIN rows :
                        \/ SortsBefore(sort[1], rows[j], rows[i])
                        \/ j < i /\ ~SortsBefore(sort[1], rows[i], rows[j])}
        forward == [place \in DOMAIN rows |->
                        rows[InOrder(DOMAIN rows, [i \in DOMAIN rows |-> Cardinality(Ahead(i))])[place]]]
    IN  IF sort[2] THEN Reverse(forward) ELSE forward

versionDataHref(sort) == Address("data", Nothing, [sort |-> Unless(sort, DEFAULT_SORT)])

\* A heading and an option turn round the order in force; the others start their own.
headingHref(sort, key) ==
    versionDataHref(IF key = sort[1] /\ ~sort[2] THEN <<key, TRUE>> ELSE <<key, FALSE>>)

-----------------------------------------------------------------------------
(* pager.ts, and the pages' links from it. A gap is 0. *)

Window == 2

pagerModel(total, offset, limit, shown) ==
    LET pages == Max({1, (total + limit - 1) \div limit})
        current == Min({pages, (offset \div limit) + 1})
        drawn == {1, pages} \cup {page \in 1..pages : page - current \in -Window..Window}
        numbers == Ascending(drawn)
        Gap(i) == i > 1 /\ numbers[i] - numbers[i - 1] > 1
    IN  [pages |-> pages, current |-> current,
         from |-> IF shown > 0 THEN offset + 1 ELSE 0,
         to |-> IF shown > 0 THEN offset + shown ELSE 0,
         numbers |-> FlattenSeq([i \in DOMAIN numbers |->
                        IF Gap(i) THEN <<0, numbers[i]>> ELSE <<numbers[i]>>])]

\* Rows of one page.
Shown(total, offset, limit) == IF offset >= total THEN 0 ELSE Min({limit, total - offset})

-----------------------------------------------------------------------------
(* query.ts and goto.astro: what the one search box does with what was typed. A
   `typed` has the keyword before it, if any, what follows, and a range of dates.
   `cited` is what the API says the subject cites: whether it is a citation, what
   kind of thing, and where. *)

parseCites(typed) == IF typed.keyword = "cites" THEN typed.subject ELSE Nothing

parseHistory(typed) ==
    IF typed.keyword \in {"history", "v"}
    THEN [subject |-> typed.subject, from |-> typed.from, to |-> typed.to] ELSE Nothing

Untimed == [release |-> Nothing, date |-> Nothing, cites |-> FALSE, sort |-> "relevance", offset |-> 0]

\* Where the router sends the reader; Nothing when it explains instead.
goto(typed, cited, release) ==
    LET cites == parseCites(typed)
        history == parseHistory(typed)
    IN  CASE cites # Nothing -> searchHref(cites, [Untimed EXCEPT !.cites = TRUE])
          [] cites = Nothing /\ cited.kind = "uncited" ->
                IF history = Nothing THEN searchHref(typed.subject, Untimed) ELSE Nothing
          [] cites = Nothing /\ cited.kind = "section" /\ history # Nothing ->
                versionsHref(cited.identifier, Nothing,
                    [from |-> history.from,
                     to |-> IF history.from = Nothing THEN Nothing ELSE history.to])
          [] cites = Nothing /\ cited.kind \in {"section", "title"} /\ history = Nothing ->
                appHref(cited.identifier, release)
          [] OTHER -> Nothing

=============================================================================
