------------------------------ MODULE Redline ------------------------------
(***************************************************************************)
(* A reader of one section: its page, the hover card that shows the start  *)
(* of it, and the comparison of its texts at two release points            *)
(* (frontend/src/lib/diffdoc.ts, pages/diff) while the source goes on      *)
(* publishing. diff-match-patch is external: it may return any edit script *)
(* that keeps as much as can be kept.                                      *)
(***************************************************************************)
EXTENDS Reading

CONSTANTS
    Fragments,  \* the texts the source publishes
    Provisions, \* what an address may ask about
    Labelled,   \* the provisions the corpus has a label for
    LABELS_PER_REQUEST, LABEL_REQUESTS, \* citations to one call, and calls to one page
    WordSize    \* characters of a word; white space is one

VARIABLES
    texts,      \* the section at the two release points compared
    page        \* what the reader has on screen

vars == <<texts, page>>

-----------------------------------------------------------------------------
(* diff-match-patch, with no timeout: what two sequences keep, in order. *)

RECURSIVE Chains(_, _, _, _)

\* The pairs of equal positions between `from` and `upto` that go up on both sides.
Chains(s, t, from, upto) ==
    {<<>>} \cup UNION {{<<p>> \o rest : rest \in Chains(s, t, <<p[1] + 1, p[2] + 1>>, upto)} :
        p \in {q \in (from[1]..upto[1]) \X (from[2]..upto[2]) : s[q[1]] = t[q[2]]}}

\* What both begin with and what both end with is kept; of the rest, as much as can.
diff_main(s, t) ==
    LET shorter == Lesser(Len(s), Len(t))
        Same(S) == CHOOSE n \in S : \A m \in S : m <= n
        head == Same({n \in 0..shorter : SubSeq(s, 1, n) = SubSeq(t, 1, n)})
        tail == Same({n \in 0..(shorter - head) :
                         SubSeq(s, Len(s) - n + 1, Len(s)) = SubSeq(t, Len(t) - n + 1, Len(t))})
        middle == Chains(s, t, <<head + 1, head + 1>>, <<Len(s) - tail, Len(t) - tail>>)
    IN  {[n \in 1..head |-> <<n, n>>] \o c
         \o [n \in 1..tail |-> <<Len(s) - tail + n, Len(t) - tail + n>>] :
            c \in {c \in middle : \A d \in middle : Len(d) <= Len(c)}}

Op(mark, part) == IF part = <<>> THEN <<>> ELSE <<[mark |-> mark, part |-> part]>>

\* A script: between what is kept, what is deleted comes before what is inserted.
\* `side` says whose form of what is kept is shown, the first's or the second's.
Script(s, t, kept, side) ==
    LET at == Append(kept, <<Len(s) + 1, Len(t) + 1>>)
        Before(k) == IF k = 1 THEN <<0, 0>> ELSE at[k - 1]
        Gap(k) == Op("delete", SubSeq(s, Before(k)[1] + 1, at[k][1] - 1))
                  \o Op("insert", SubSeq(t, Before(k)[2] + 1, at[k][2] - 1))
    IN  FlattenSeq([k \in DOMAIN at |->
            Gap(k) \o IF k = Len(at) THEN <<>>
                      ELSE Op("equal", <<<<s[at[k][1]], t[at[k][2]]>>[side]>>)])

-----------------------------------------------------------------------------
(* diffdoc.ts *)

RECURSIVE StripGuids(_)

StripGuids(node) ==
    [node EXCEPT !.guid = None, !.kids = [i \in DOMAIN @ |-> StripGuids(@[i])]]

sourceDelta(before, after) ==
    CASE before = after -> "identical"
      [] before # after /\ StripGuids(before) = StripGuids(after) -> "guids-only"
      [] OTHER -> "beyond-guids"

\* A line's code: its owner is no part of it.
encode(block) == <<block.kind, block.depth, block.text>>
Encoded(blocks) == [i \in DOMAIN blocks |-> encode(blocks[i])]

\* Mutant: what is kept is shown as it was.
AlignFrom(from, to, kept) == Script(from, to, kept, 1)

\* The edit script over the lines. A line that is kept is the later text's.
alignLines(from, to, kept) == Script(from, to, kept, 2)

\* Words and white space; words that touch are one.
tokensOf(text) ==
    FoldLeft(LAMBDA done, w :
                 IF w = Space THEN Append(done, <<Space>>)
                 ELSE IF done = <<>> \/ Last(done) = <<Space>> THEN Append(done, <<w>>)
                 ELSE Append(Front(done), Append(Last(done), w)),
             <<>>, text)

Length(text) ==
    FoldLeft(LAMBDA n, w : n + IF w = Space THEN 1 ELSE WordSize, 0, text)

\* Runs of the same mark are one span.
wordSpans(before, after) ==
    LET b == tokensOf(before)
        a == tokensOf(after)
        script == Script(b, a, CHOOSE c \in diff_main(b, a) : TRUE, 2)
        Add(spans, op) ==
            IF spans # <<>> /\ Last(spans).mark = op.mark
            THEN Append(Front(spans), [Last(spans) EXCEPT !.text = @ \o FlattenSeq(op.part)])
            ELSE Append(spans, [mark |-> op.mark, text |-> FlattenSeq(op.part)])
    IN  FoldLeft(Add, <<>>, script)

DiffLine(mark, block, spans) ==
    [mark |-> mark, depth |-> block.depth, kind |-> block.kind,
     spans |-> spans, owner |-> block.owner]

\* One whole line, kept, added or removed.
Whole(mark, block) == DiffLine(mark, block, <<[mark |-> mark, text |-> block.text]>>)

\* Two lines are one that was edited when four tenths of the longer survive.
Related(removed, added, spans) ==
    LET common == FoldLeft(LAMBDA n, span : n + IF span.mark = "equal" THEN Length(span.text)
                                                ELSE 0, 0, spans)
    IN  10 * common >= 4 * Greater(1, Greater(Length(removed.text), Length(added.text)))

\* The edited line stands where it stands now; unrelated lines are shown both.
pairLine(removed, added) ==
    LET spans == wordSpans(removed.text, added.text) IN
    IF Related(removed, added, spans) THEN <<DiffLine("changed", added, spans)>>
    ELSE <<Whole("delete", removed), Whole("insert", added)>>

AllOf(mark, blocks) == [i \in DOMAIN blocks |-> Whole(mark, blocks[i])]

\* Mutant: additions without a partner are lost.
EditedShort(removed, added) ==
    LET pairs == Lesser(Len(removed), Len(added)) IN
    FlattenSeq([p \in 1..pairs |-> pairLine(removed[p], added[p])])
    \o AllOf("delete", SubSeq(removed, pairs + 1, Len(removed)))

\* A deletion followed by an insertion: paired from the first on, then the rest.
Edited(removed, added) ==
    LET pairs == Lesser(Len(removed), Len(added)) IN
    FlattenSeq([p \in 1..pairs |-> pairLine(removed[p], added[p])])
    \o AllOf("delete", SubSeq(removed, pairs + 1, Len(removed)))
    \o AllOf("insert", SubSeq(added, pairs + 1, Len(added)))

documentDiff(from, to, kept) ==
    LET ops == alignLines(from, to, kept)
        Replaced(i) == i < Len(ops) /\ ops[i].mark = "delete" /\ ops[i + 1].mark = "insert"
        lines == FlattenSeq([i \in DOMAIN ops |->
                    IF Replaced(i) THEN Edited(ops[i].part, ops[i + 1].part)
                    ELSE IF i > 1 /\ Replaced(i - 1) THEN <<>>
                    ELSE AllOf(ops[i].mark, ops[i].part)])
        Count(mark) == Len(SelectSeq(lines, LAMBDA line : line.mark = mark))
    IN  [lines |-> lines, changed |-> Count("changed"),
         inserted |-> Count("insert"), deleted |-> Count("delete")]

\* What the lede counts: nothing is "No changes".
diffSummary(diff) ==
    {<<n, diff[n]>> : n \in {m \in {"changed", "inserted", "deleted"} : diff[m] # 0}}

InFocus(line, focus) ==
    focus # None /\ line.owner # None /\ IsPrefix(focus, line.owner)

hasFocus(lines, focus) == \E i \in DOMAIN lines : InFocus(lines[i], focus)

focusSummary(lines, focus) ==
    Cardinality({i \in DOMAIN lines : InFocus(lines[i], focus) /\ lines[i].mark # "equal"})

\* The redline as HTML: the first line in focus carries the anchor.
diffLinesHtml(lines, focus) ==
    LET first == SelectInSeq(lines, LAMBDA line : InFocus(line, focus)) IN
    [i \in DOMAIN lines |->
        [line |-> lines[i], focus |-> InFocus(lines[i], focus),
         anchor |-> IF i = first THEN "diff-focus" ELSE None]]

-----------------------------------------------------------------------------
(* The labels of a page's citations (api.ts). *)

LABELS_MAX == LABELS_PER_REQUEST * LABEL_REQUESTS

\* The calls: in batches of what one may ask, and none for the citations beyond
\* the page's bound.
labelRequests(identifiers) ==
    LET wanted == SubSeq(identifiers, 1, Lesser(LABELS_MAX, Len(identifiers)))
        First(i) == (i - 1) * LABELS_PER_REQUEST + 1
        calls == {i \in 1..LABEL_REQUESTS : First(i) <= Len(wanted)}
    IN  [i \in calls |-> SubSeq(wanted, First(i), Lesser(First(i + 1) - 1, Len(wanted)))]

\* One call that fails costs the page all its labels, and nothing else.
fetchLabels(requests, answered) ==
    IF answered = DOMAIN requests THEN ToSet(FlattenSeq(requests)) \cap Labelled ELSE {}

-----------------------------------------------------------------------------
(* The reader. *)

Closed == [kind |-> "closed"]

Init == texts \in Fragments \X Fragments /\ page = Closed

\* The source publishes again, and the pair compared moves on.
Publish(fragment) ==
    /\ page = Closed
    /\ texts' = <<texts[2], fragment>>
    /\ UNCHANGED page

\* The section's page.
OpenSection(target) ==
    LET requests == labelRequests(citedIdentifiers(hrefs(texts[2])))
    IN  /\ page = Closed
        /\ \E answered \in SUBSET DOMAIN requests :
              page' = [kind |-> "section", asked |-> requests,
                       contents |-> outline(texts[2]), copy |-> copyableIdentifiers(texts[2]),
                       html |-> render(texts[2], [target |-> target, release |-> 2,
                                                  labels |-> fetchLabels(requests, answered),
                                                  anchors |-> TRUE])]
        /\ UNCHANGED texts

\* The hover card of a citation of this section: the start of it, unmarked.
OpenPreview ==
    LET requests == labelRequests(citedIdentifiers(hrefs(texts[2])))
    IN  /\ page = Closed
        /\ \E answered \in SUBSET DOMAIN requests :
              LET html == render(texts[2], [target |-> None, release |-> 2,
                                            labels |-> fetchLabels(requests, answered),
                                            anchors |-> FALSE])
              IN  page' = [kind |-> "preview", whole |-> html,
                           cut |-> truncateFragment(html, PREVIEW_CHARS)]
        /\ UNCHANGED texts

\* The comparison, perhaps about one provision.
Compare(focus) ==
    LET from == readingBlocks(texts[1])
        to == readingBlocks(texts[2])
    IN  /\ page = Closed
        /\ \E kept \in diff_main(Encoded(from), Encoded(to)) :
              LET diff == documentDiff(from, to, kept) IN
              page' = [kind |-> "diff", from |-> from, to |-> to, diff |-> diff, focus |-> focus,
                       html |-> diffLinesHtml(diff.lines, focus),
                       touched |-> focusSummary(diff.lines, focus),
                       delta |-> sourceDelta(texts[1], texts[2])]
        /\ UNCHANGED texts

Leave == page # Closed /\ page' = Closed /\ UNCHANGED texts

Next ==
    \/ \E fragment \in Fragments : Publish(fragment)
    \/ \E provision \in Provisions \cup {None} : OpenSection(provision) \/ Compare(provision)
    \/ OpenPreview
    \/ Leave

Spec == Init /\ [][Next]_vars

-----------------------------------------------------------------------------
(* What a reader of the reading text is owed, said by where each text stands. *)

RECURSIVE Leaves(_, _)

\* The texts in document order, each with the elements it is in, from the root's
\* child down: which one, at which place, in a sentence or not.
Leaves(el, path) ==
    FlattenSeq([i \in DOMAIN el.kids |->
        IF IsText(el.kids[i]) THEN <<[words |-> el.kids[i].words, path |-> path]>>
        ELSE Leaves(el.kids[i], Append(path, [el |-> el.kids[i], i |-> i,
                                              prose |-> InSentence(el.kids, i)]))])

Breaks(step) == step.el.tag \in LINE_BREAK_TAGS /\ ~step.prose

\* The blocks a text stands in, the innermost last, and what it is part of there.
Home(path) ==
    SubSeq(path, 1, CHOOSE n \in 0..Len(path) :
                        /\ \A k \in 1..n : Breaks(path[k])
                        /\ n < Len(path) => ~Breaks(path[n + 1]))
PartOf(path) == SubSeq(path, 1, Lesser(Len(Home(path)) + 1, Len(path)))

Joins(path) ==
    PartOf(path) # Home(path)
    /\ LET part == Last(PartOf(path))
       IN  ~part.prose /\ part.el.tag \notin INLINE_TAGS \cup {"ref"}

BlockAround(root, path) ==
    LET home == Home(path)
        named == SelectSeq(home, LAMBDA step : step.el.id # None)
    IN  [depth |-> 1 + Len(SelectSeq(home, LAMBDA step : step.el.tag \in LEVEL_TAGS)),
         kind |-> IF \E k \in DOMAIN home : home[k].el.tag \in NOTE_TAGS THEN "note" ELSE "text",
         owner |-> IF named = <<>> THEN root.id ELSE Last(named).el.id]

\* Every word that belongs on the page, with its text.
WordsOf(fragment) ==
    LET shown == SelectSeq(Leaves(fragment, <<>>), LAMBDA leaf :
                     \A k \in DOMAIN leaf.path : leaf.path[k].el.tag \notin SKIP_TAGS)
    IN  FlattenSeq([n \in DOMAIN shown |->
            LET words == SelectSeq(shown[n].words, LAMBDA w : w # Space)
            IN  [k \in DOMAIN words |-> [word |-> words[k], path |-> shown[n].path]]])

\* Every word that was read, with its block and whether it touches the one before.
WordsRead(blocks) ==
    FlattenSeq([b \in DOMAIN blocks |->
        LET text == blocks[b].text
            at == SelectSeq([k \in DOMAIN text |-> k], LAMBDA k : text[k] # Space)
        IN  [n \in DOMAIN at |-> [word |-> text[at[n]], block |-> b,
                                  touches |-> at[n] > 1 /\ text[at[n] - 1] # Space]]])

\* "Drops nothing that carries text" (tests/diffdoc.test.ts), and puts each word
\* where it reads: once and in order, at the depth of the levels around it, as
\* apparatus exactly when it stands in notes, owned by the nearest provision, no
\* line across two blocks, and "`(a)` and its chapeau must not run together"
\* (uslm.ts:680-682).
ReadingIsWhole ==
    page.kind = "diff" =>
        LET source == WordsOf(texts[2])
            words == WordsRead(page.to)
        IN  /\ Len(words) = Len(source)
            /\ \A k \in DOMAIN words :
                  LET block == page.to[words[k].block] IN
                  /\ words[k].word = source[k].word
                  /\ [depth |-> block.depth, kind |-> block.kind, owner |-> block.owner]
                        = BlockAround(texts[2], source[k].path)
                  /\ k > 1 /\ words[k].block = words[k - 1].block =>
                        /\ Home(source[k].path) = Home(source[k - 1].path)
                        /\ words[k].touches /\ Joins(source[k].path) =>
                              PartOf(source[k].path) = PartOf(source[k - 1].path)

\* The text of a redline's line on one side.
SideOf(line, dropped) ==
    FlattenSeq([i \in DOMAIN line.spans |->
        IF line.spans[i].mark = dropped THEN <<>> ELSE line.spans[i].text])

\* "A redline that is subtly wrong is the one failure mode this view cannot have"
\* (diffdoc.ts:27-31), whatever script diff-match-patch returns: read without what
\* is struck out it is the later text, line by line with its depth, kind and owner;
\* read without what is inserted, the earlier one. It says "No changes" exactly
\* when both read the same, and so when only guids moved.
RedlineReadsBothWays ==
    page.kind = "diff" =>
        LET after == SelectSeq(page.diff.lines, LAMBDA line : line.mark # "delete")
            before == SelectSeq(page.diff.lines, LAMBDA line : line.mark # "insert")
        IN  /\ page.to = [i \in DOMAIN after |->
                  [depth |-> after[i].depth, kind |-> after[i].kind, owner |-> after[i].owner,
                   text |-> SideOf(after[i], "delete")]]
            /\ [i \in DOMAIN page.from |-> page.from[i].text]
                  = [i \in DOMAIN before |-> SideOf(before[i], "insert")]
            /\ diffSummary(page.diff) = {} <=> Encoded(page.from) = Encoded(page.to)
            /\ page.delta # "beyond-guids" => diffSummary(page.diff) = {}

\* Every link into a page lands. On the section's: a row of the contents and a
\* copy control name an element that is there, the apparatus is named once, and a
\* reference that opens a preview was in the requests for labels unless they are
\* full, none of them longer than the API takes: "asking for 101 is a 422, not a
\* truncated answer" (api.ts:119-121). A hover card,
\* which lands in the page it is opened on, does not name the apparatus again, is
\* the beginning of the section and says so when it is not all of it. On the
\* comparison's: a provision of the later text that was asked about is marked, and
\* "Jump to it" has one place to go.
LinksLand ==
    /\ page.kind = "section" =>
          LET ids == IdsOf(page.html)
              Times(id) == Len(SelectSeq(ids, LAMBDA other : other = id))
          IN  /\ \A id \in ToSet(page.contents) \cup ToSet(page.copy) : Times(id) > 0
              /\ Times(SOURCE_ANCHOR) <= 1 /\ Times(NOTES_ANCHOR) <= 1
              /\ \A part \in ToSet(page.html) :
                    part.part = "open" /\ part.link # None /\ part.link.identifier # None
                    => \/ Contains(FlattenSeq(page.asked), part.link.identifier)
                       \/ Cardinality(ToSet(FlattenSeq(page.asked))) = LABELS_MAX
              /\ \A i \in DOMAIN page.asked : Len(page.asked[i]) <= LABELS_PER_REQUEST
    /\ page.kind = "preview" =>
          /\ {SOURCE_ANCHOR, NOTES_ANCHOR} \cap ToSet(IdsOf(page.cut.html)) = {}
          /\ IsPrefix(page.cut.html, page.whole)
          /\ page.cut.truncated <=> page.cut.html # page.whole
    /\ page.kind = "diff" =>
          LET anchors == {i \in DOMAIN page.html : page.html[i].anchor # None} IN
          /\ hasFocus(page.diff.lines, page.focus) <=> anchors # {}
          /\ Cardinality(anchors) <= 1
          /\ (\E i \in DOMAIN page.to : InFocus(page.to[i], page.focus)) => anchors # {}

=============================================================================
