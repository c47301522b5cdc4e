----------------------------- MODULE MCBrowsing -----------------------------
EXTENDS Browsing

\* A statute that changes, with notes that change beside it.
MCText == {[statute |-> 1, notes |-> 1, markup |-> 1], [statute |-> 1, notes |-> 2, markup |-> 1],
           [statute |-> 2, notes |-> 1, markup |-> 1]}

MCTitle == <<"us", "usc", "t16">>
MCSection == <<"us", "usc", "t16", "s1">>

\* Before the corpus, its first day, the day of two release points, and no date.
MCDates == {[form |-> "iso", day |-> 0], [form |-> "us", day |-> 1],
            [form |-> "iso", day |-> 2], [form |-> "none", day |-> 1]}

TitleOne == [word |-> "1", t |-> FALSE, upper |-> FALSE]
MCFacets == {TitleOne}

\* Words, words with `title:T1` before them, `cites`, `history` with dates, a
\* citation.
Water == <<Plain("water")>>
MCTyped ==
    LET Entry(keyword, subject, from, to, kind) ==
            [keyword |-> keyword, subject |-> subject, from |-> from, to |-> to,
             cited |-> [kind |-> kind, identifier |-> IF kind = "title" THEN MCTitle ELSE MCSection]]
    IN  {Entry(Nothing, Water, Nothing, Nothing, "uncited"),
         Entry(Nothing, <<Scoped("title", [TitleOne EXCEPT !.t = TRUE, !.upper = TRUE])>> \o Water,
               Nothing, Nothing, "uncited"),
         Entry("cites", Water, Nothing, Nothing, "section"),
         Entry(Nothing, Water, Nothing, Nothing, "title"),
         Entry("history", Water, [form |-> "us", day |-> 1], Nothing, "section")}

MCMaxAt == [search |-> 2, classification |-> 0, data |-> 0]

\* Titles 5, 5a, 6 and 10: two tie, and one has no text changes.
MCReport ==
    (<<5, 0>> :> [kinds |-> [initial |-> 2, text |-> 1], share |-> 100]
     @@ <<5, 1>> :> [kinds |-> [initial |-> 3], share |-> Nothing]
     @@ <<6, 0>> :> [kinds |-> [initial |-> 1, text |-> 3, notes |-> 1], share |-> 33]
     @@ <<10, 0>> :> [kinds |-> [initial |-> 1, text |-> 1, structure |-> 4], share |-> 100])

MCTables == {<<118, "2">>, <<104, "all">>}

MCLookups ==
    LET Asked(pl, plSection, title, section) ==
            [pl |-> pl, plSection |-> plSection, title |-> title, section |-> section,
             table |-> <<118, "2">>] IN
    {Asked("118-33", "101", Nothing, Nothing),
     Asked(Nothing, Nothing, 16, Nothing),
     Asked(Nothing, Nothing, 16, [num |-> 45, typed |-> TRUE])}
=============================================================================
