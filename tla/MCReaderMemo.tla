---------------------------- MODULE MCReaderMemo ----------------------------
(* An instance of ReaderMemo for TLC. *)
EXTENDS ReaderMemo, TLC

CONSTANTS title, p1, p2, f1, f2

MCTitle == {title}
MCPage == {p1, p2}
MCFetch == {f1, f2}
MCReleasePoint == 1..2

\* The fetches under way or kept fill one memo: the two memos share nothing but
\* what every answer's header does to `seen`.
MCOneMemo == \A f, g \in Fetch :
    fetch[f] # Idle /\ fetch[g] # Idle => fetch[f].key = fetch[g].key

\* A release list is the same whatever the load or the poll was that moved the
\* generation: beside its memo the source lists nothing new.
MCListMoves == \A f \in Fetch :
    fetch[f] # Idle /\ fetch[f].key # STATUS =>
        /\ DOMAIN loads = {First}
        /\ check # NoCheck => ~check.ok /\ ~check.maintenance

\* The status is the same whatever text the page shows: beside its memo a page has
\* the text of its header's generation, one without a header that of the first.
MCStatusText == \A f \in Fetch, p \in Page :
    fetch[f] # Idle /\ fetch[f].key = STATUS
    /\ page[p] # Idle =>
        page[p].text <= IF page[p].header = NoGeneration THEN 1 ELSE page[p].header

MCBound == MCOneMemo /\ MCListMoves /\ MCStatusText

MCSymmetry == Permutations(MCPage) \cup Permutations(MCFetch)

=============================================================================
