----------------------------- MODULE MCRedline -----------------------------
EXTENDS Redline

Id(path) == <<"us", "usc", "t16", "s1">> \o path
T(words) == TextNode(words)
Num(word) == Element("num", None, <<T(<<word>>)>>)
Content(words) == Element("content", None, <<T(words)>>)
Ref(kind, name, congress) ==
    [Element("ref", None, <<T(<<"sec">>)>>)
        EXCEPT !.href = [kind |-> kind, name |-> name, congress |-> congress]]
Footnote == Element("note", None, <<T(<<"see">>)>>)
Blank == T(<<Space>>)

Plainly(id, words) == Element("subsection", Id(<<id>>), <<Num(id), Content(words)>>)

\* A subsection with a paragraph inside it and words after that.
Nested(id) ==
    Element("subsection", Id(<<id>>),
        <<Num(id), Element("chapeau", None, <<T(<<"whoever">>)>>),
          Element("paragraph", Id(<<id, "1">>), <<Num("1"), Content(<<"does", Space, "it">>)>>),
          Element("continuation", None, <<T(<<"pays">>)>>)>>)

\* Cited in one sentence, one of them twice: one more than the page asks about.
Cited == <<"d", "b", "e", "f", "g">>

\* A sentence with markup, a reference, a footnote marker and a quotation in it.
Sentence ==
    Element("subsection", Id(<<"a">>),
        <<Num("a"), T(<<Space, "ten">>), Element("sup", None, <<T(<<"3">>)>>),
          T(<<Space, "acres">>), Footnote, T(<<"under">>), Ref("usc", Id(<<"b">>), 0),
          Ref("pl", <<"1">>, 103), Ref("pl", <<"1">>, 104)>>
        \o [i \in 1..5 |-> Ref("usc", Id(<<Cited[i]>>), 0)])

\* A block quotation, a table and a provision nobody numbered.
Quoted ==
    Element("subsection", Id(<<"c">>),
        <<Blank, Element("quotedContent", None,
                    <<Element("section", None, <<Num("9"), Content(<<"new">>)>>)>>),
          Element("table", None, <<Element("caption", None, <<T(<<"fees">>)>>),
                    Element("tr", None, <<Element("td", None, <<T(<<"1">>)>>),
                                          Element("td", None, <<T(<<"2">>)>>)>>)>>)>>)

Apparatus(first, second) ==
    <<Element("sourceCredit", None, <<T(<<"Pub">>)>>),
      Element("notes", None,
          <<Element("note", None, <<Element("heading", None, <<T(<<"Ex">>)>>),
                                    Element("p", None, <<T(<<first>>)>>),
                                    Element("p", None, <<T(<<second>>)>>)>>)>>)>>

Skipped == <<Element("toc", None, <<T(<<"contents">>)>>)>>

Whole1(parts, guid) ==
    [Element("section", Id(<<>>),
        <<Num("s1"), Element("heading", None, <<T(<<"Water">>)>>)>> \o parts) EXCEPT !.guid = guid]

MCFragments ==
    {Whole1(<<first>> \o second \o third, "g1") :
        first \in {Plainly("a", <<"water", Space, "rights">>),
                   Plainly("a", <<"water", Space, "fees">>), Nested("a"), Sentence},
        second \in {<<>>, <<Nested("b")>>, <<Plainly("a", <<"land">>)>>, <<Quoted>>},
        third \in {Apparatus("order", "more"), Apparatus("more", "order"), Skipped}}
    \cup {Whole1(<<Nested("a")>> \o Apparatus("order", "more"), "g2")}

MCProvisions == {Id(<<"a">>), Id(<<"b">>), Id(<<"a", "1">>)}
MCLabelled == {Id(<<"b">>), Id(<<"e">>), Id(<<"g">>)}
=============================================================================
