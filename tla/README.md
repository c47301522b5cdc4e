# Verification of the US Code corpus

This directory holds TLA+ models of the program in this repository, the TLC
configurations that check them, and TLAPS proofs about nine of them. The program
keeps every published release point of the United States Code: ingest programs
write them to Postgres and OpenSearch, an API serves them, and a reader (an Astro
server, the scripts of its pages and a service worker) shows them, their history
and their differences.

A definition stands for the code that `PROJECT.json` ("map") names. Some
abstractions are used throughout. A text is a value, or a record of what may
differ in it (statute, notes, markup); two texts are the same when their
guid-stripped hashes are (ADR-0007). A release point is its `seq`, and a label is
written as the `seq` it stands for. A word, a title or an identifier is a model
value or a short tuple. Logging, wording, layout and percent-encoding are left
out.

## 1. The system

### Components, their state and operations

| component | state | operations | modelled by |
|---|---|---|---|
| Corpus loader, `ingest/load.py` | `sections`, `section_versions`, `section_release_map`, `title_versions` (with the completion marker `sections_loaded`), `guid_map`, `structure_nodes` | `load_release`: one title's file, in committed batches; `VersionStore.store`: dedupe by content | `CorpusLoad` |
| Section-level update, `ingest/section_update.py` | the same tables, `base_release_id`, `section_update_items` | `plan_update`, `assemble_order`, `apply_title` | `CorpusLoad` |
| Bulk loader, `ingest/load_all.py` | the download ledger, the completion markers | `run_load_all`: every downloaded pair, oldest first, skipping what is loaded | `LoadAll` |
| Search, `ingest/search_sync.py`, `ingest/reindex_search.py` | physical indexes, one alias, `is_current` | sync and retire after a load's commits; rebuild and promote on a deploy | `SearchIndex` |
| Version changes, `ingest/version_changes.py` | `section_version_changes` and its laws | hook after a load, deferral, repair pass | `VersionChanges` |
| API's reader, `storage/postgres.py` | none of its own | `_served_from`, `get_section`, `get_toc`, resolution of labels and dates | `CorpusRead` |
| Response cache, `api/cache.py`, `storage/cache.py`, `api/routes.py` | Redis payloads under `corpus_state.generation`, `Cache-Control` | read-through, redline cache | `CorpusRead` |
| Middleware, `frontend/src/middleware.ts`, `lib/ratelimit.ts` | two tables of token buckets | redirect an empty parameter, admit, shed, sweep | `RequestLimits` |
| Service worker, `frontend/public/sw.js` | a cache of pages, one of assets | install, network first, cache first, store and trim | `ServiceWorker` |
| Memos and currency, `lib/generation.ts`, `releasecache.ts`, `sitecurrency.ts`, `currency.ts` | newest generation seen, fetches by title, the status | note a generation, serve or refetch, forget a failure; the footer's sentence | `ReaderMemo`, `Currency` |
| History pages, `lib/versions.ts`, `compare.ts` | none: the API's entries and the release list | rows, counts, folding, a window of dates, what to compare with | `Timeline`, `Browsing` |
| Addresses, `lib/url.ts`, `searchscope.ts`, `pager.ts`, `query.ts`, `palette.ts`, `versiondata.ts` | the address on screen | write, read, edit an address; the search box | `Addresses`, `Browsing` |
| Reading text, `lib/uslm.ts`, `refs.ts`, `preview.ts` | a fragment | render, list contents, label references, cut a preview, collect blocks | `Reading` |
| Redline, `lib/diffdoc.ts` | two fragments | align lines, pair edited ones, mark words, focus | `Redline` |
| Accounts, connection pool, updater chain, downloads, classification ingest, deploy, exports, parsers | see "Not modelled" | | |

### How they interact

The ingest programs run on the box under one `flock` (`update-corpus.sh:86`), so
one program at a time writes the corpus, and it may die at any moment. It writes
the tables in several transactions. After each commit it writes the search
index, and after the last it recomputes change rows; both can fail without the
load failing. A trigger on every corpus table moves `corpus_state.generation` in
the writer's transaction. The API reads the same tables in separate statements,
at READ COMMITTED, while all this goes on. It keeps payloads under the
generation, tells clients how long to hold an answer, and sends the generation in
a header. A deploy rebuilds the index under another lock than the loaders'.

The reader's server keeps the newest generation any answer has carried, and by it
decides whether what it remembers is still good. A page of a section needs the
section, the title's release list, the timeline and the labels of its citations;
these are separate calls, so they may be of different moments. The API's answer to
one of them is not of one moment either: it reads the generation before the text, and
the versions of a section in three statements. Between pages
nothing is kept but the address. The browser obeys `Retry-After`, and the service
worker answers from its caches when the network does not.

### What is hard

- A load is many transactions and everything else must behave as if it were one:
  a kill between batches, a retry, a file over an assembled release point, loads
  in any order (`CorpusLoad`, `CorpusPublication`).
- Resume decides from markers read once (`LoadAll`), or from counts
  (`VersionChanges`): a wrong marker or a matching count is never looked at again.
  A download that fails leaves a gap on disk, and the bulk loader goes on past it.
- The index follows the tables over an unreliable channel, and two programs with
  different locks write it (`SearchIndex`).
- Derived rows depend on neighbours: a load at one release point moves the window
  of a section it never touched (`VersionChanges`).
- Readers see commits between their statements, and caches outlive both
  (`CorpusRead`).
- Answers arrive late, out of order, without their header or not at all, while
  entries are replaced under them (`ReaderMemo`).
- Every `await` of a store in the service worker lets another store run, which
  reads and deletes in the same cache (`ServiceWorker`).
- Time: a refused caller is told a whole number of seconds, buckets are forgotten
  to keep the table small, requests share a bucket (`RequestLimits`).
- A history page puts together a release map, change rows, versions, a release list
  and the two ends of a window, each read at its own moment, of texts that may go
  away and come back (`Timeline`, `Browsing`).
- Thirty functions write and read addresses, and each pair must agree
  (`Addresses`).
- Reading text is collected in one pass over a tree, in which whether an element
  ends a line depends on its neighbours; a redline depends on whatever script an
  external library returns (`Reading`, `Redline`).

`PROJECT.json` ("hazards") gives each of these its line.

### What makes each component correct

- Loader and update: one version per content; a marked load is the whole file and
  nothing else; nothing is rewritten under readers; whole release points appear
  and disappear at once.
- Bulk loader: everything downloaded is loaded in the end, from its file;
  `first_release_id` is the earliest release that carried the text, but for a
  release point that a later one was loaded before.
- Search: nothing is advertised that is not stored; at most one document of a
  section is current; incremental writes and a rebuild agree.
- Version changes: the rows of a section read as one chain; what the resume skip
  takes for complete is what computing from the tables would give.
- API's reader and caches: no payload is stale under the generation of now; an
  answer is not torn; what was sent as immutable does not change.
- Middleware: no window has more than its budget; who waits as told is let
  through; every request is answered.
- Service worker: the offline page is never lost; caches are bounded; the pages
  kept are the last ones read.
- Memos: a page is not given a release list older than the generation on its own
  answer; one request per title and generation; a footer without a warning is right.
- History pages: every release point is under one row, with its statute; a window
  names what happened in it, as far as the page knows; a redline runs forwards where
  the page can know the order.
- Addresses: a view has one address, and the address opens that view.
- Reading and redline: each word once, in order, where it belongs; a redline read
  without its deletions is the later text and without its insertions the earlier.


## 2. Modules

`CorpusLoad` is the core of the back end. `LoadAll`, `SearchIndex`,
`VersionChanges` and `CorpusRead` extend it and take its actions as their own
steps, each adding the actor it is about; that each of them implements it is a
theorem. They are not composed with each other:
the index, the change rows and the readers do not write the tables, so each pair
meets only there. The reader's modules stand on what the API answers: `Browsing`
composes `Timeline` and `Addresses`, `Redline` extends `Reading`, `ReaderMemo`
extends `Currency`; `RequestLimits` and `ServiceWorker` stand alone. `Collections`
has what `Timeline` and `Addresses` take from the language: sorting, filtering and
the spread of an object, as functions a proof can reason about.

`Next` of each module is a list of named actions. The `MC*` modules give the
constants their values, the `*Proofs` modules hold the theorems. Definitions whose
comment begins "Mutant" are not part of a specification: each is the plausible mistake that the property it is paired
with in `PROJECT.json` catches. Only `Reading` and `Redline` declare RECURSIVE
operators; nothing is proved about those two.

### The back end

**CorpusLoad** — one title. `versions` and `releaseMap` are the committed
tables, `newVersions` and `newMaps` the rows of the open transaction. `row`,
`base` and `complete` are `title_versions`: the load method, the base, and
whether `sections_loaded` is set. `BeginLoad` is `load_release` up to its first
commit: it withdraws the marker, and takes away what `sections-update` had
placed. `StoreElement` is one section through `VersionStore.store` and the
release-map upsert, `CommitBatch` the commit of a full guid batch, `Finish` the
last commit with the marker, and `Interrupt` a death or a rollback. `BeginUpdate`
is `apply_title` up to its first commit, with the rows carried from the base
staged for the second and last one. Elements are stored in any order, which
includes the file's. The batch limit is left out: a batch may end anywhere.

**CorpusPublication** — what the tables promise, in three actions: publish a
file, publish an assembled release point, withdraw one. `CorpusLoad` implements
it, with `visible <- complete`.

**LoadAll** — `run_load_all` over one title: the pairs to skip are read at the
start of a run, tasks go in `seq` order, a task that raises is passed over, and a
kill ends the run. The updater starts it again. `SectionsUpdate` runs between runs.
`Download` puts any release point on disk at any time: `run_backfill` asks in order,
but goes on past one that failed or is not posted yet, and asks again another day.

**SearchIndex** — the alias's documents (`index`), the loader's two buffers, and
the physical index a rebuild fills (`spare`). `Bulk` writes any part of what it
is given, as the code logs a failed bulk and goes on. A rebuild reads one row of
each section (`DISTINCT ON`): of one that the source publishes twice, either
(`OnePerSection`).

**VersionChanges** — rows are `[to, from, windowFrom, windowTo, concurrent]`;
what a row says of texts and laws follows from these. `Span`, `Departing`,
`Unreliable` and `Change` are the derivation, `NeedingRecompute` the four cases
of `sections_needing_recompute`, `Deferred` what a deferral deletes, `Repair` the
`version-changes` pass with its count-based skip.

**CorpusRead** — requests for one section as sequences of statements (`Plan`),
beside the loader. `cache` is what Redis holds under the generation of now, and
`told` is, by label, an answer that a client holds as `immutable`. A lookup may
miss and a store may be dropped at any time, which stands for an unreachable
Redis, its cooldown, expiry and eviction.

`SearchIndex`, `VersionChanges` and `LoadAll` have observer variables (`history`;
`assembled`, and `passedOver`: the release points that a later one was loaded
before). No action reads them. They let one run say which promise survives which
event.

### The reader

**RequestLimits** — the middleware and its two tables of buckets. `bar` is the
address each browser waits for. `Redirect`, `ServeUnlimited`, `Admit` and `Shed`
are the ways one request ends; `Touch` is `check` with its sweep. Tokens are
counted in the ticks that refill them, so no fraction is lost. `spent` and
`promised` are observers: what was admitted since `OpenWindow`, and when the last
`Retry-After` of a key runs out.

**ServiceWorker** — a cache is the sequence of its entries in the order of
`keys()`. A store is a job with four steps, one for each `await`: delete (pages
only), put, keys, and the deletes of the trim. Any other store may run between
two of them. `FailPut` is a refused write, `Stop` the browser ending the worker.

**Currency** — the API's status and `footerCurrency`, as operators over the last
check and the state of each release point's load. Without a dateline the footer is
`NoFooter`: nothing is shown.

**ReaderMemo** — an entry is the fetch that fills it, as it is a promise in the
code: pages that consult it meanwhile wait for the same answer. `AskPage` is the
API's read of the generation, which the answer carries as its header, `AnswerPage`
its read of the text, and `ReceivePage` the arrival, which notes the
generation; then the page takes the memo's entry (`Serve`) or starts a fetch
(`Refetch`). A fetch's header is any generation from the one it was asked under to the
one it was computed under (`Headers`). `Evict` compares identities, as the code does.

**Timeline** — the pure functions of `versions.ts` and `compare.ts`, over a
history that gives the section's text at each release point: entries with their
rows, folding, counts, a window of dates, what to compare with, the note of a
search result. `EntriesOf(history, answer)` is what `/versions` answers when it read
the release map, found change rows and read the versions of three moments: an entry
may have no release point, and one without a change row has neither kind nor flag.

**Addresses** — an address is a page, a path and the parameters present. Every
function that writes one has the function that reads it beside it, with the edits
of scopes, pages, filters, facets and the search box, and the sorting of the
report of version changes.

**Browsing** — one reader. `Publish` moves the corpus and `List` the release list.
What a page on screen was answered is in no variable: its links, its forms and the
properties range over all `Answers` there may have been, change rows never computed
included, and over both `Ends` of a window read at any later moments. The `From...`
actions follow any link of the page on screen, the `Submit...` actions send any of its
forms, `Goto` is what the search box makes of what is typed. `typed` tells an address
written by hand or by a form from one written by a link.

**Reading** — a fragment is a tree; HTML is a sequence of tags and texts.
`render`, `outline`, `copyableIdentifiers`, `citedIdentifiers`, `resolveRef`,
`truncateFragment` and `readingBlocks` are the code's passes over it.

**Redline** — `Publish`, `OpenSection`, `OpenPreview`, `Compare` and `Leave`.
diff-match-patch is external: `Script` is any edit script that keeps as much as
can be kept, so the alignment is checked against every answer it may give.
`fetchLabels` asks in bounded calls of which any may fail.

## 3. The runs

Counts are distinct states; times are with two workers.

| run | states | shows |
|---|---|---|
| `load` | 2.0 M, 1 min | The safety of `CorpusLoad`, and that it implements `CorpusPublication`. |
| `loadall` | 0.3 M, 40 s | Every downloaded release point ends up loaded from its file and stays so; order of `first_release_id`, but for release points that a later one was loaded before. |
| `search` | 7.5 M, 2 min | `IndexedIsStored` always; at most one current document unless a write was lost or a rebuild failed or overlapped a load; the index agrees with a rebuild if loads came in order and no text came back; a promoted index is whole unless a batch was refused or a load overlapped. |
| `changes` | 6.5 M, 80 s | The rows are a chain whatever fails; hook and deferral leave nothing stale unless `history` says otherwise; every version stays mapped unless a release point was taken over. |
| `read` | 3.1 M, 1 min | Tables of contents under the generation of now are right; a section stamped with it is not torn; pins read from the label's own file agree. |
| `read_redline` | violation | The redline route reads its generation last and stores an old redline under a new generation. |
| `limits` | 0.4 M, 1 min | Two browsers behind one bucket: the budget is kept, so is what `Retry-After` promises, and every navigation is answered. |
| `offline` | 1.0 M, 30 s | The offline page is never lost, the caches stay bounded by their limits and what deaths cut off, and the pages kept are the last ones read unless stores overlapped or were cut off. |
| `pages` | 6.1 M, 2 min | No page is given a release list older than its answer's generation, a late failure costs no second request, and a footer shown without a warning rests on a recent, whole corpus. |
| `views` | 0.1 M, 3 min | Histories, windows, comparisons and notes are true of the texts for every answer a page may hold, and each view has one address that opens it. |
| `views_dated` | violation | A row of a search at a date opens another text than the one that matched. |
| `redline` | 25 k, 1 min | Reading text is whole, a redline reads both ways whatever script comes back, and every link lands. |

The two violations are the findings in `PROJECT.json`, with the line of code and
the line of documentation it contradicts.

### Bounds

- Release points: three where order between loads matters. A version can then
  lie below, at and above a load, and a base can have a release point on either
  side. `CorpusRead` has two: the one served from and the one being written.
- Sections and texts: two texts are needed for a change and for a text that comes
  back. A second section makes loads several commits long and lets a load leave a
  section out. Files include one that publishes an identifier twice (ADR-0021);
  in `search` that is the first file, and the second then lacks the section. In
  `changes` the title may have no section at all at its second release point.
- `MaxFailures`, `MaxKills`, `MaxFaults` and `MaxRebuildFailures` are one: each
  kind happens, at any point, and work goes on after it. In `SearchIndex` a death
  and a lost bulk write share `MaxFaults`, so a behaviour has one of them.
  `CorpusLoad` has no such bound: `Interrupt` may happen for ever.
- `MaxRebuilds`: two, so that one can follow a failed one.
- `MaxGeneration` bounds the corpus's commits in `CorpusRead`: 5 in the passing
  run (four commits: load and load again, or load and assemble), 7 where the
  violation needs six. Requests go on when it is reached. The `read` run has no
  redline route, as no property of that run is about redlines.
- `limits`: a preview takes one tick to refill and two fit a bucket; a redline
  takes three and one fits; a second is two ticks, so three ticks do not come to
  whole seconds. `SweepInterval` is two ticks and `MaxClock` four: a redline's
  bucket is refused, refilled, forgotten by a sweep and asked again within that.
- `offline`: three pages for two places, three assets (two of them hashed) and the
  offline page for one place beside it, two stores at a time, one fault, one deploy.
- `pages`: two pages and two fetches at a time, two release points, `TTL` one tick
  with a clock of one, and generations up to 3, so an answer can be two behind.
  `StaleAfter` is 0: a check is stale one tick later. `MCOneMemo` looks at one
  memo at a time; the two share only `seen`, which every page's own answer moves.
  What cannot matter to the memo at hand is not varied beside it: which load or poll
  moved the generation (`MCListMoves`), and the text of a page that asks for the
  status (`MCStatusText`).
- `views`: four release points, two of them on one day, three texts (of which two
  differ in their notes only) and absence, so a text can go away and come back,
  and a statute's change can have a change of notes on either side. The release
  list is behind by at most one, and so is what a page's answer has of the tables, and
  of the release map beside the versions (`MaxLag`); its change rows may be of any
  release point before it, or none. `MaxAt` keeps the corpus small (two release
  points, or none) while the reader is on a page that shows no section's history.
  Five rows match and two fit a page: a first, a middle and a short last page.
- `redline`: 49 fragments made of nested provisions, running text with markup and
  references, a block quotation, a table, an unnumbered provision, notes, and one
  that differs by a guid alone. A word is five characters and white space one. A
  preview is cut at twelve parts, which is inside some fragments and beyond
  others. Two labels go in a call and two calls to a page; one fragment cites
  five distinct provisions. The provision asked about is `a`, `b` or `a/1`.
- Symmetry is used over texts in `search`, readers in `read`, pages, hashed assets
  and stores in `offline`, pages and fetches in `pages`: no property of those runs
  names one, and none of them has a temporal property other than action properties.

### Fairness

`LoadAll` assumes weak fairness of starting a run (cron starts the updater for
ever), of a run's next task and end, of storing an element and of the last commit
(a process that is neither killed nor raising goes on). Kills, failures,
downloads, batch commits and `sections-update` are not fair. Kills and failures
are bounded, so `EventuallyLoaded` says that finitely many of them cannot stop
the loader; infinitely many can, of the code too. A downloaded file that raises
every time is never loaded and is outside the property.

`RequestLimits` assumes weak fairness of `OnRequest(b)`: the server handles a
request that has arrived. Navigating and the clock are not fair. A refusal is an
answer, so `EveryRequestAnswered` is about redirects, which are not bounded: it
holds because a cleaned address is not redirected again.

## 4. Proofs

| module | theorems | for every |
|---|---|---|
| `CorpusLoadProofs` | `TypeCorrect`, `DedupeCorrect`, `FileLoadsCorrect`, `NoForeignTextCorrect`, `InterruptedUpdateCorrect`, `LoadUnderWayCorrect`, `MapsCorrect` (the invariants of the tables), `CompletedStable` (nothing is rewritten under readers), `ImplementsPublication` (the refinement) | sections, texts, release points, files and fetches |
| `IngestProofs`, of `LoadAll` | `BulkLoadIsALoad`, `BulkLoadPublishesWhole` (refinements), `FirstIsEarliestCorrect` | the same, failures and kills |
| `IngestProofs`, of `SearchIndex` | `IndexFollowsALoad` (refinement), `IndexTypeCorrect`, `IndexedStored`, `OneCurrentCorrect`, `PromotedWhole` (an action property), `CurrentRebuilt` | the same, faults, rebuilds and their failures |
| `VersionChangesProofs` | `HooksFollowALoad` (refinement), `ChangesTypeCorrect`, `EveryVersionMapped`, `TimelineChains`, `HooksKeepCurrent` | the same, faults, loads that defer or do not |
| `CorpusReadProofs` | `ReadersFindALoad` (refinement), `ReadTypeCorrect`, `PayloadsCorrect`, `AnswersConsistent`, `OwnPinsCorrect` | the same, readers, routes and commits |
| `RequestLimitsProofs` | `LimitsTypeCorrect`, `BudgetHolds`, `PromiseHolds` | browsers, keys, addresses, costs, bursts, seconds and sweep intervals |
| `ServiceWorkerProofs` | `WorkerTypeCorrect`, `OfflinePageIsKept`, `CachesAreBounded`, `RecentlyReadKept` | pages, assets, limits, stores at a time, faults |
| `ReaderMemoProofs` | `MemoTypeCorrect`, `MemoAsNewAsThePage`, `MemoOneRequest`, `MemoUnwarnedIsCurrent` | titles, pages, fetches, release points, `TTL` and `StaleAfter` |
| `BrowsingProofs` | `TimelineSound`, `WindowSound`, `AddressesKept` | texts, release points, dates, typed entries, titles and tables |

Assumptions are named where the constants are declared: release points are
naturals, files are functions from release points to sets of elements, fetches
are sets of elements; a bucket's cost and burst and a second are positive; the
worker's three kinds of addresses are disjoint and finitely many stores are under
way at a time; the memo's `TTL` is positive and there is a first release point; a
corpus has a first generation; the model values that stand for "none" are not what
they stand beside. What `Browsing` is given is typed: what a reader types is tokens,
dates are days or none, a facet's value is a value of a scope, a classification table is
a Congress and one of its sessions, a lookup's section, if it has one, is not blank, and
the report has finitely many titles. Nothing else is assumed finite, and no bound of the runs matters
to a proof: the clocks and counters stop, but at any number.

**Tables.** None of the table invariants is inductive alone. That a finished file
load is whole needs to know what an unfinished one has passed over, and that its
rows are only the file's. So they are proved together, as `TablesInv`: `TypeOK`,
nothing is placed for a release point without a row (`AbsentIsEmpty`), the three
invariants of the tables, and `LoadUnderWay`, which says what the open
transaction owes them: `rel` is not complete; a file load has stored or staged
every element it passed; an update holds what it stored and what it carries, over
a base that is still the newest completed load below. `TablesStep` has one lemma
per action. `CompletedIsStable` and the refinement follow from it: only `Finish`
and the two beginnings change `complete`, and the others write under a release
point that is not complete (`StepPublishes`, `StepImplements`).

**The modules that extend `CorpusLoad`.** Each begins with the lemma that its
steps are steps of `CorpusLoad` or leave the tables. All of the above then holds
of the bulk loader, of the loader that writes the index, of the one with the hook
and of the one readers meet, and their own invariants stand on `TablesInv`.

**Bulk loader.** `first_release_id` says nothing about what is still to be loaded,
so `WalkInOrder` says it: no version is younger than a release point that is still to
be loaded, unless a later one was loaded before it (`NoneOvertaken`), and what the
load under way did not pass over is loaded below it (`LoadFollowsOn`). Then nothing
maps a version of a later release point but those passed over (`MappedFromBelow`). It
holds of any order of downloads and of loads that raise until a title is assembled; a
kill does not disturb it, as the next run reads the markers again.

**Search.** `StoredInv` says whose documents the index, the buffers and a rebuild
may hold; `IndexedIsStored` is a part of it. `BuffersInv` is the order of the
writes: until the retired keys are written, every other document of a section
about to become current is among them. `AloneInv` says that a rebuild and a load
exclude each other unless they were seen to overlap. With both, `CurrentInv` keeps
one current document in the index, in the one a rebuild fills, and halfway through
the loader's writes. `WholeInv` is a rebuild's promise: what it has indexed and what
it has still to index are the sections in force, whatever a failed one left.
`CurrentAsRebuilt` needs the most: for loads in order (`TopInv`), the current
documents, once what the loader owes is written (`AfterWrites`), are those of the
texts in force in the release map, the open transaction's rows included
(`AdvertisedInv`), if no text came back (`NoReturn`).

**Version changes.** `EveryVersionIsMapped` is `AllMapped` of the tables, and holds
until a release point is taken over: a version is created in the transaction that
maps it. `TimelineIsAChain` asks that the order of a section's versions is total and
that `Change` links neighbours in it. Versions are ordered by their first seq and
then by their id, so `SerialInv` says that every version has one; ids that a lost
transaction used are not given again (`Abandon`). `IsChain` is of a section's rows as
they were computed: a later load moves windows but takes no version away, so an old
chain stays a chain, stale or not (`RowsInv`).

`HooksKeepRowsCurrent` is the other half: no row is stale that `version-changes` would
pass over. What a section's rows depend on is its own versions, where each is mapped,
and the release points the title was loaded at. So the invariant says of every section
with a row for each version that they are the rows of the tables at the moment they
were computed, and what the tables may have gained since: mappings above the
range of the section's last version, which no window reads, and loads above every
release point it stands on; anything else is owed to a hook that has the section
among those it will recompute, or to a deferral that has deleted its rows. Four cases
of `sections_needing_recompute` discharge the four ways a load disturbs this. Ids are
stable and release points finitely many, so a count that agrees means that every
version has its row.

**Readers.** The three safety properties rest on one fact: while the generation a request has
read still stands, what its statements have found is what they would find now
(`ReadsAgree`, one line for each place a request can be at). A commit moves the
generation, so it makes that hold of no earlier request. A payload that is stored
under the generation of now is then right, and so is a section stamped with it,
whatever was committed between its statements. `OwnIsTold` carries
`FileLoadsAreWhole` to the clients: an answer from a label's own file is what the
file has, when it is given, and a file does not change.

**Limits.** `WithinBudget` counts what was spent and says nothing of what is left,
so it is not inductive. `LimitsInv` adds `Budgeted` (what was admitted and what
the bucket holds now are together at most the budget) and `Promised` (a refused
key holds a token now, or what it holds and what refills until the promised
moment is one). `SweepKeepsLevel` is why the sweep does not matter: a bucket is
forgotten only when it is full. `TouchTakes` is what `check` does to one bucket
and not to the others, `RetryAfterCovers` that rounding up covers what is missing.

**Service worker.** `WorkerInv` is the types with `OfflinePageKept`. What the
types carry is that no cache holds an address twice and that no store is about to
delete the offline page (`doomed` is among `Cached`, which it is not in).
`DeleteKeeps` and `PutKeeps` say what the two writes leave of a sequence. A cache
alone cannot be bounded step by step: what matters is what it will be when the
trims under way have run, and one of them may die. `BoundInv` says it of every set
of them: were those to finish, what they leave is within the limit and one entry
for each store that still owes a trim. `RecentInv` says, for the one store of a page
that is under way while nothing disturbs it, how far the cache is at each step from
the pages to be kept.

**Memos.** `MemoInv` is the chain along which a generation travels: what a page
read was seen (`PageInv`), what it waits for was asked no earlier, a fetch is
stamped with what was seen and answered no older (`FetchInv`), and a request under
way is its key's entry or has been overtaken by the generation (`CurrentInv`).
The last one is what makes `OneRequestPerGeneration` inductive: a miss starts a
fetch only when the entry's generation is not the one seen, so the new one differs
from every request under way (`MissIsNew`). For the footer, `AgeInv` adds the two
ages: a footer shown without a warning rests on a check that was fresh when the status
was asked for (`FetchAge`), and no page takes a status older than the `TTL`
(`PageAge`). `FooterMissing` is why there is none only while no load is complete.

**Histories.** The three properties of `Browsing` are about functions of its state, so
its invariant, `BrowsingInv`, is short: a history of texts, a list no longer than it,
and an address that is one of the program's (`Fit`) and, unless it was typed, is written
as its page would write it (`AtWritten`). The work is in what follows from it, for every
answer. `Partly` says what an answer's entries are, in terms of the history alone: one
for each text published by the moment its versions were read, those of mapped release
points first, in order of arrival, with the mapped release points that carry it
(`PartStand`), and whose change row was found (`Flags`). `Tells` says it of an answer in
which every version is mapped. A row of the default view is then an interval of entries,
a statute and the notes folded into it, and each release point falls in one
(`OneRun`). A redline runs forwards in the list's order, or because change rows as new
as the map mark every arrival that others stand beside (`MarksClear`), or because no
text came back (`RedlineIs`). The counts are sums over rows; `SumsOnce` says that a count
by steps is the cardinality of what is counted. For a window, a complete answer has every
version mapped (`CompleteTells`), the release points at hand are stops along the history
and the versions it shows are the texts along them (`WindowIs`, `TextsAre`, `WalkTold`).
What the list lacks is, if no text returns, the last text it knows (`KnownAlong`,
`StaleAlike`), so a window that claims to be whole is (`WindowFull`). An end, read at
whatever later moment, is the text at its release point, and one the answer maps is a
stop (`EndIs`, `EndsAre`); a change of the statute between two stops is named, or the
answer is marked as unreadable (`TurnNamed`, `ToldSound`). Inductions over numbers go
through a least counterexample (`LeastExists`).

**Addresses.** Every link of a page is `Good`: it is of the program's addresses and it
is written as it is read. Every form of a page is `Fit`; what was typed may be written
otherwise, but opens the same view (`ReadsBack`, `SearchReadsBack`,
`TableReadsBack`, `ReportGood`), and writing it twice changes nothing more. On this
stand the other parts of `AddressesKeepTheView`. A facet adds or removes its own title
and leaves the text and the other scopes (`FacetToggles`, from what `Keep` keeps of a
query, `KeepSet` and `KeepPart`). The pages drawn are those from the first to the
last (`PagesFill`, `NumbersAre`), each opens itself inside the total and the range
named lies on it (`PagesTell`). A pill's address has every filter but its own
(`PillsSound`). The report's rows are in the order asked for, whichever column and
direction: a total order lists a finite set (`RankLists`), a stable sort of a
list is one (`SortedAre`, `ReportSound`).

What the proofs corrected in the models, where the instances had been too small to
show it:
- `CachesBounded` had allowed one entry for each fault. One death of the worker cuts
  off every store under way, so it is one for each store and fault; `offline` now has
  the second hashed asset that shows the difference.
- With a `TTL` of zero the footer's bound is not strict: the code's five minutes are
  what makes it so, and the assumption says it.
- A rebuild had read every row of a section that is published twice, where the query
  reads one (`OnePerSection`); the first file of `search` now has such a section.
- A dead load's version rows had kept their place in the order of ids (`Abandon`).
- `HooksKeepRowsCurrent` had been stated of a title that always has a section. A release
  point without any is loaded and recomputes nothing (`version_changes.py:769`):
  `emptyLoad` is the event that says so, and `changes` now has such a file.

Only model-checked:
- `EventuallyLoaded` and `EveryRequestAnswered`: liveness under fairness and
  `ENABLED` are beyond this prover.
- `ReadingIsWhole`, `RedlineReadsBothWays` and `LinksLand`: `Reading` and `Redline`
  recurse over trees, which needs induction over data, beyond this prover too.
- That `RowsOpenWhatMatched` and `RedlinesAreCurrent` fail: a run shows a behaviour.

## 5. Observations without a run of their own

Eleven statements of the repository's comments and docs, or what a reader would
take from them, are false of the code and stay in their modules, with the comment
that quotes the line. Each is reproduced by adding its name to the run's cfg, as an
INVARIANT (`DedupedIsCurrent`: as a PROPERTY).

| statement | cfg | what happens |
|---|---|---|
| `FirstIsEarliest` (`load_all.py:7`) | `MCLoadAll` | A load that raised is passed over (`load_all.py:224`), and so is a release point whose download failed or was not posted yet (`backfill.py:357-371`); the later release creates the version, and the earlier one maps it when it is loaded at last. |
| `DedupedIsCurrent` (`load.py:195`) | `MCSearch` | A text that comes back deduplicates into a retired document (`load.py:194`). |
| `OneCurrentUnlessOverlapped` (`search_sync.py:298`) | `MCSearch` | A rebuild fills the index that a failed one left (`search_sync.py:301`), so a retired version is current again. A lost bulk write does it too. |
| `CountedRowsAreCurrent` (`version_changes.py:760`) | `MCChanges` | A release point taken over leaves a stale row whose count is right (`version_changes.py:814`). |
| `EmptyLoadsKeepRowsCurrent` (`version_changes.py:763`) | `MCChanges` | A load that maps no section has nothing recomputed (`version_changes.py:769`, `load.py:431`); the window of a section that arrived above it keeps a start that the title's loads no longer give. |
| `DeferralLeavesNoStaleRow` (`load.py:398`) | `MCChanges` | A deferred update below the newest release point leaves stale rows (`section_update.py:1056`). |
| `PinnedNeverChanges` (`params.py:170`) | `MCRead` | A pinned label that is not loaded yet is answered from an earlier one as `immutable` (`params.py:202`), then changes. |
| `AsNewAsTheText` (`releasecache.ts:21-30`) | `MCPages` | A load commits between the API's read of the generation and of the text (`routes.py:819-824`): the page has the new text under the old generation, and the release list of that generation beside it. |
| `NoSilentStaleness` (`currency.ts:1-10`) | `MCPages` | While no status can be had, or no load is complete, the page shows no footer and so no warning (`sitecurrency.ts:104-106`, `SiteFooter.astro:168`). |
| `RedlinesRunForwards` (`versions.ts:173`) | `MCViews` | A, B and A again are published, the change rows are not computed, and the release list failed: without a change row `concurrent` is not set (`postgres.py:978-979`), and the redline from A's last release point back to B's first is offered. |
| `WindowReachesItsEnds` (`versions.ts:305`) | `MCViews` | A load commits after the page asked for the versions and before it asked for the ends (`pages/versions/[...identifier].astro:69`, `160`): the end is a text the versions do not have, and the window is still called complete. |

Met while modelling; each is excluded by a condition of a property, or by a
comment on it:

- A process that dies between a load's last commit and the end of its hook, or a
  hook that raises in `sections_needing_recompute`, before it knows any section,
  deletes no rows (`load.py:476`, `491-503`). Stale rows whose count is right are
  then passed over by `version-changes` (`diedInHook`, `failedDeciding`).
- A retire that the cluster refuses leaves two documents of a section current; a
  loader that dies between commit and flush leaves new versions out of the index
  for good, as the retry deduplicates them (`lostBulk`, `diedUnflushed`).
- A rebuild that loses a batch promotes anyway (`search_sync.py:446`), and a load
  that overlaps a rebuild may write to the index that is about to be deleted
  (`overlapped`).
- Taking over an assembled release point can leave versions that no release
  point maps, which `version_changes.py:331` says only a manual deletion does
  (`replaced`).
- A text that went away and came back is one entry with two runs. The history
  page then folds and counts by the entry's first arrival, a window may say that
  the section entered the Code when it did not (`versions.ts:443`), and a redline
  is withheld. The properties of `Browsing` say which claims need `~Recurs`.
- The versions of a section are read in three statements (`postgres.py:835-854`), so
  an entry may have no release point yet, and change rows may be older or newer than
  the map. The properties of `Browsing` say which claims need which (`Flagged`,
  `Covers`, `answer.mapped`).
- Two stores of pages that overlap each trim by their own list of keys, so the
  page fetched last may be the one that goes (`disturbed`, `sw.js:213-218`).
- A provision that was redesignated between two texts is on the comparison under
  its later name only: asked about by the earlier one, the page may say that it is
  at neither release point (`pages/diff/[...identifier].astro:223-225`).

Read in the code, and outside the models:

- `load-all` that fails after loading something ends the updater before its dump;
  the next run loads nothing and reports the last dump as current
  (`update-corpus.sh:550`, `613-617`).
- `preview.ts:58-60` says that a `<div>` containing a `<div>` is one chunk; its
  pattern ends at the first `</div>`. A preview is cut between such pieces.
- A `<content>` that holds `<p>`s or a table and stands inside a sentence is
  flattened with no white space between them (`uslm.ts:676-687`).
- `cite.ts:45` spells the subtitle's prefix `stI`, so `t54/stIII` is cited as
  "subtit. II" and `stI` not as a subtitle.
- A reference to a Stat. page always links to govinfo (`refs.ts:54-58`), though
  `url.ts:665-670` records the volumes govinfo does not answer for.
- Facet links drop `cites`, and `/goto` drops `?date=`: modelled as they are.
- The reader's buckets use the wall clock (`Date.now`), the API's a monotonic one
  (`params.py:323`): a clock set back makes the reader's refuse for longer.

## 6. Not modelled

- **Updater chain** (`update-corpus.sh`): one sequence of commands under one lock.
  The loaders it starts are modelled, and what a failed command leaves out is said
  in section 5.
- **Source poll, inventory, backfill, mirror**: page scraping and copies of files;
  what decides is the source's pages and the disk. What a poll leaves in the tables
  is an action of `ReaderMemo` (`PollRead`, `PollFails`).
- **Rest of the loaders**: structure nodes, guid map, reading order
  (`assemble_order`), item rows. `apply_title`'s placement is one INSERT that
  Postgres would refuse if it held one version twice (`section_update.py:1071`);
  the models have sets there.
- **Rest of the reader's API**: guids, neighbours, labels of ranges; the redline's
  in-process LRU and the clock of Redis's cooldown; hashes, kinds and law
  attribution of the change rows; the index's structure documents and
  `--recreate`.
- **Accounts, sessions, login throttle**: off in the deployed build, and each
  operation is one transaction of its own.
- **API parameters and rate limits** (`params.py`): validation of one value at a
  time; the token bucket is the one of `RequestLimits` under a lock, with a rate
  that a caller's tier scales.
- **Connection pool**: SQLAlchemy's, configured.
- **Classification tables**: their parsers, and the replacement of a table in one
  transaction. The pages about them are in `Browsing`.
- **Deploy, watchdog, crons**: operations on the machine.
- **USLM ingest and citation parsing**: grammars of text without state. A citation
  is a member of a small set in the models.
- **HTTP routes, search query and the API's diff**: stateless handlers; what they
  read and cache is in `CorpusRead`.
- **Exports and verification reports**: one-shot reports over the tables.
- **Source redline** (`xmlredline.ts`): an edit script over raw characters, shown
  as it comes back; `Redline` has the same script over lines and words.
- **Wording**: summaries of changes, the paragraph on a classification note, the
  currency paragraphs, layout. No property is about them.
- **Front end tooling, vendored code, static data**: nothing of the system's own
  logic.

What would come next: `assemble_order` as a sequence, and the index's structure
documents beside its sections.
