------------------------------ MODULE Reading ------------------------------
(***************************************************************************)
(* A section's fragment as the reader shows it (frontend/src/lib/uslm.ts,  *)
(* refs.ts, preview.ts): its HTML, its contents and copy controls, the     *)
(* start of it on a hover card, and its reading text, the lines a redline  *)
(* compares. A fragment is a tree of elements and texts; a text is the     *)
(* sequence of its words and the white space between them. HTML is a       *)
(* sequence of tags and texts, of which the identifiers are kept.          *)
(***************************************************************************)
EXTENDS Integers, FiniteSets, SequencesExt

CONSTANTS None, Space

CONSTANT PREVIEW_CHARS      \* here in tags and texts

\* What the source consists of. `guid` is @id, `href` a reference's target.
TextNode(words) ==
    [words |-> words, href |-> None, id |-> None, guid |-> None, kids |-> <<>>, tag |-> "#text"]
Element(tag, id, kids) ==
    [words |-> <<>>, href |-> None, id |-> id, guid |-> None, kids |-> kids, tag |-> tag]

IsText(node) == node.tag = "#text"

LEVEL_TAGS ==
    {"title", "subtitle", "chapter", "subchapter", "part", "subpart", "division",
     "subdivision", "article", "subarticle", "section", "subsection", "paragraph",
     "subparagraph", "clause", "subclause", "item", "subitem", "level"}
PARAGRAPH_TAGS == {"content", "continuation", "proviso", "chapeau"}
INLINE_TAGS == {"i", "b", "sub", "sup", "span", "inline", "a", "date", "footnote"}
CONTEXTUAL_TAGS == {"note", "quotedContent"}
QUOTE_TAGS == {"quotedContent", "quotedText"}
TABLE_TAGS == {"table", "caption", "thead", "tbody", "tr", "td", "th", "colgroup", "col"}
SKIP_TAGS == {"meta", "toc", "tocItem", "docNumber", "docPublicationName", "property"}
NOTE_TAGS == {"notes", "note", "sourceCredit"}
LINE_BREAK_TAGS ==
    LEVEL_TAGS \cup NOTE_TAGS \cup QUOTE_TAGS \cup {"p", "table", "tr", "toc"}

\* A text that is not blank stands beside the i-th of these siblings.
inRunningProse(kids, i) ==
    \E j \in {i - 1, i + 1} \cap DOMAIN kids :
        IsText(kids[j]) /\ \E k \in DOMAIN kids[j].words : kids[j].words[k] # Space

InSentence(kids, i) == kids[i].tag \in CONTEXTUAL_TAGS /\ inRunningProse(kids, i)

-----------------------------------------------------------------------------
(* Walking the fragment. *)

RECURSIVE walk(_)

\* The elements in document order, the skipped ones too.
walk(el) ==
    <<el>> \o FlattenSeq([i \in DOMAIN el.kids |->
                             IF IsText(el.kids[i]) THEN <<>> ELSE walk(el.kids[i])])

OncePerValue(seq) ==
    FoldLeft(LAMBDA seen, x : IF Contains(seen, x) THEN seen ELSE Append(seen, x), <<>>, seq)

ValuesOf(field, els) == [i \in DOMAIN els |-> els[i][field]]

hrefs(fragment) ==
    ValuesOf("href", SelectSeq(walk(fragment), LAMBDA el : el.tag = "ref" /\ el.href # None))

\* One control for each identified level, on the first that carries the name.
copyableIdentifiers(fragment) ==
    OncePerValue(ValuesOf("id", SelectSeq(walk(fragment),
                                 LAMBDA el : el.tag \in LEVEL_TAGS /\ el.id # None)))

RECURSIVE inlineText(_)

inlineText(el) ==
    FlattenSeq([i \in DOMAIN el.kids |->
        IF IsText(el.kids[i]) THEN el.kids[i].words
        ELSE IF el.kids[i].tag \in SKIP_TAGS THEN <<>>
        ELSE inlineText(el.kids[i])])

\* White space at the ends goes, a run of it becomes one.
normalizeSpace(text) ==
    LET collapsed == FoldLeft(LAMBDA done, w :
                                  IF w = Space /\ (done = <<>> \/ Last(done) = Space)
                                  THEN done ELSE Append(done, w), <<>>, text)
    IN  IF collapsed # <<>> /\ Last(collapsed) = Space THEN Front(collapsed) ELSE collapsed

childText(el, tag) ==
    LET i == SelectInSeq(el.kids, LAMBDA kid : kid.tag = tag)
    IN  IF i = 0 THEN <<>> ELSE inlineText(el.kids[i])

SOURCE_ANCHOR == <<"section-source">>
NOTES_ANCHOR == <<"section-notes">>

\* The contents of a section: the first rung, then its apparatus. A repeated name
\* has one row, of the first that carries it; a provision without a number, none.
outline(fragment) ==
    LET named == SelectSeq(fragment.kids, LAMBDA kid : kid.tag \in LEVEL_TAGS /\ kid.id # None)
        first == SelectSeq(OncePerValue(ValuesOf("id", named)), LAMBDA id :
                     normalizeSpace(childText(named[SelectInSeq(named, LAMBDA el : el.id = id)],
                                              "num")) # <<>>)
        Has(tag) == SelectInSeq(fragment.kids, LAMBDA kid : kid.tag = tag) # 0
    IN  first \o (IF Has("sourceCredit") THEN <<SOURCE_ANCHOR>> ELSE <<>>)
              \o (IF Has("notes") THEN <<NOTES_ANCHOR>> ELSE <<>>)

-----------------------------------------------------------------------------
(* References. A target names a provision, perhaps with a query or an anchor
   behind it, a page of the Statutes at Large, a public law, or something else. *)

GOVINFO_PLAW_STARTS_AT == 104

citedIdentifiers(targets) ==
    OncePerValue(ValuesOf("name", SelectSeq(targets, LAMBDA target : target.kind = "usc")))

\* Where a reference leads, the hover text it carries and the provision whose
\* preview it opens; `labels` are the identifiers that have a label.
resolveRef(target, release, labels) ==
    IF target = None THEN [href |-> None, title |-> None, identifier |-> None]
    ELSE CASE target.kind = "usc" ->
                [href |-> [site |-> "reader", name |-> target.name, release |-> release],
                 title |-> IF target.name \in labels THEN target.name ELSE None,
                 identifier |-> target.name]
           [] target.kind = "stat" \/ (target.kind = "pl" /\ target.congress >= GOVINFO_PLAW_STARTS_AT) ->
                [href |-> [site |-> "govinfo", name |-> target.name, release |-> None], title |-> None, identifier |-> None]
           [] OTHER -> [href |-> None, title |-> None, identifier |-> None]

-----------------------------------------------------------------------------
(* HTML. *)

Open(name, id, class) ==
    [part |-> "open", name |-> name, id |-> id, class |-> class, link |-> None]
Close(name) == [part |-> "close", name |-> name]
Void(name) == [part |-> "void", name |-> name]
Shown(words) == [part |-> "text", words |-> words]

HEADINGS == <<"h1", "h2", "h3", "h4", "h5", "h6">>
Lesser(a, b) == IF a < b THEN a ELSE b
Greater(a, b) == IF a < b THEN b ELSE a

RECURSIVE renderElement(_, _, _, _)

renderChildren(el, opts, depth) ==
    FlattenSeq([i \in DOMAIN el.kids |->
        IF IsText(el.kids[i]) THEN <<Shown(el.kids[i].words)>>
        ELSE renderElement(el.kids, i, opts, depth)])

\* The identifier becomes the id; the one the address names is marked.
wrapTag(name, el, opts, depth, class) ==
    <<Open(name, el.id, class \cup IF el.id # None /\ el.id = opts.target
                                   THEN {"target"} ELSE {})>>
    \o renderChildren(el, opts, depth) \o <<Close(name)>>

wrapDetails(el, opts, depth, id) ==
    <<Open("details", id, {}), Open("summary", None, {}), Close("summary")>>
    \o renderChildren(el, opts, depth) \o <<Close("details")>>

\* A table in a region that can be scrolled.
renderTable(el, opts, depth) ==
    <<Open("div", None, {"region"})>> \o wrapTag("table", el, opts, depth, {}) \o <<Close("div")>>

\* A link when the target is one this site or govinfo serves, else its text.
renderRef(el, opts) ==
    LET resolved == resolveRef(el.href, opts.release, opts.labels)
        text == renderChildren(el, opts, 0)
    IN  IF resolved.href = None THEN <<Open("span", None, {})>> \o text \o <<Close("span")>>
        ELSE <<[Open("a", None, {}) EXCEPT !.link = resolved]>> \o text \o <<Close("a")>>

\* The i-th of these siblings; `depth` counts the levels around it.
renderElement(kids, i, opts, depth) ==
    LET el == kids[i]
        tag == el.tag
        inner == IF tag \in LEVEL_TAGS THEN depth + 1 ELSE depth
        Apparatus(anchor) == IF opts.anchors /\ depth = 1 THEN anchor ELSE None
        Wrapped(name) == wrapTag(name, el, opts, inner, {})
    IN  CASE tag \in SKIP_TAGS -> <<>>
          [] tag = "heading" -> Wrapped(HEADINGS[Lesser(Greater(depth + 1, 2), 6)])
          [] tag = "ref" -> renderRef(el, opts)
          [] InSentence(kids, i) -> Wrapped("span")
          [] tag \in QUOTE_TAGS /\ ~InSentence(kids, i) -> Wrapped("blockquote")
          [] tag = "sourceCredit" -> wrapDetails(el, opts, inner, Apparatus(SOURCE_ANCHOR))
          [] tag = "notes" -> wrapDetails(el, opts, inner, Apparatus(NOTES_ANCHOR))
          [] tag = "br" -> <<Void("br")>>
          [] tag = "table" -> renderTable(el, opts, inner)
          [] tag \in TABLE_TAGS \ {"table"} -> Wrapped(tag)
          [] tag \in INLINE_TAGS -> Wrapped(IF tag \in {"i", "b", "sub", "sup"} THEN tag ELSE "span")
          [] tag = "num" -> Wrapped("span")
          [] tag \in PARAGRAPH_TAGS -> Wrapped("p")
          [] OTHER -> wrapTag("div", el, opts, inner,
                              IF tag \in LEVEL_TAGS /\ depth > 0 THEN {"prov"} ELSE {})

render(fragment, opts) == renderElement(<<fragment>>, 1, opts, 0)

IdsOf(html) ==
    LET opened == SelectSeq(html, LAMBDA part : part.part = "open" /\ part.id # None)
    IN  [i \in DOMAIN opened |-> opened[i].id]

-----------------------------------------------------------------------------
(* The hover card. *)

\* Where the chunk that begins at `i` ends: an element at the first closing tag of
\* its name, anything else where it is.
CHUNK(html, i) ==
    LET closing == {j \in i + 1..Len(html) :
                       html[j].part = "close" /\ html[j].name = html[i].name}
    IN  IF html[i].part = "open" /\ closing # {}
        THEN CHOOSE j \in closing : \A k \in closing : j <= k
        ELSE i

RECURSIVE CutAt(_, _, _)

\* Whole chunks until the budget is spent; the first is kept however long.
CutAt(html, upto, limit) ==
    IF upto = Len(html) THEN upto
    ELSE LET end == CHUNK(html, upto + 1) IN
         IF upto > 0 /\ end > limit THEN upto
         ELSE IF end >= limit THEN end
         ELSE CutAt(html, end, limit)

truncateFragment(html, limit) ==
    IF Len(html) <= limit THEN [html |-> html, truncated |-> FALSE]
    ELSE LET kept == CutAt(html, 0, limit)
         IN  [html |-> SubSeq(html, 1, kept), truncated |-> kept < Len(html)]

-----------------------------------------------------------------------------
(* Reading text. *)

\* Mutant: one text follows the other as it stands.
joinTight(left, right) == left \o right

\* White space goes between two texts that have none where they meet.
join(left, right) ==
    IF left = <<>> \/ right = <<>> \/ Last(left) = Space \/ Head(right) = Space
    THEN left \o right ELSE left \o <<Space>> \o right

\* What is collected: the line under way, and the lines done.
Collecting(line, out) == [line |-> line, out |-> out]

\* Ends the line, if there is anything on it.
flush(state, depth, kind, owner) ==
    LET text == normalizeSpace(state.line) IN
    Collecting(<<>>, IF text = <<>> THEN state.out
                     ELSE Append(state.out, [depth |-> depth, kind |-> kind,
                                             text |-> text, owner |-> owner]))

RECURSIVE collectBlocks(_, _, _, _, _)

\* An element that ends the line is collected on its own, after the line before
\* it; inline markup is part of the word it stands in, and the text of anything
\* else joins the line.
collectBlocks(el, depth, kind, out, owner) ==
    LET Collect(state, i) ==
            LET kid == el.kids[i]
                tag == kid.tag
                Onto(line) == [state EXCEPT !.line = line]
            IN  CASE IsText(kid) -> Onto(state.line \o kid.words)
                  [] tag \in SKIP_TAGS -> state
                  [] InSentence(el.kids, i) -> Onto(state.line \o inlineText(kid))
                  [] tag \in LINE_BREAK_TAGS \ SKIP_TAGS /\ ~InSentence(el.kids, i) ->
                        Collecting(<<>>, collectBlocks(kid,
                            IF tag \in LEVEL_TAGS THEN depth + 1 ELSE depth,
                            IF tag \in NOTE_TAGS THEN "note" ELSE kind,
                            flush(state, depth, kind, owner).out,
                            IF kid.id # None THEN kid.id ELSE owner))
                  [] tag \in INLINE_TAGS \cup {"ref"} -> Onto(state.line \o inlineText(kid))
                  [] OTHER -> Onto(join(state.line, inlineText(kid)))
        all == FoldLeft(Collect, Collecting(<<>>, out), [i \in DOMAIN el.kids |-> i])
    IN  flush(all, depth, kind, owner).out

readingBlocks(fragment) == collectBlocks(fragment, 1, "text", <<>>, fragment.id)

=============================================================================
