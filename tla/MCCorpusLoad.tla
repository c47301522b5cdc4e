---------------------------- MODULE MCCorpusLoad ----------------------------
(* Instances of CorpusLoad for TLC. *)
EXTENDS CorpusLoad

CONSTANTS s1, s2, t1, t2

MCSection == {s1, s2}
MCText == {t1, t2}

Elem(s, t) == [sec |-> s, text |-> t]

\* Three release points. s1 has either text, is not in the file, or is published
\* twice in it (ADR-0021); s2 makes most files several commits long.
ThreeReleases == 1..3
MCFiles ==
    [Release -> {{Elem(s2, t1)},
                 {Elem(s2, t1), Elem(s1, t1)},
                 {Elem(s2, t1), Elem(s1, t2)},
                 {Elem(s1, t1), Elem(s1, t2)}}]

\* What a round of fetches brings: either text of s1, or both of them.
MCFetches == {{Elem(s1, t1)}, {Elem(s1, t2)}, {Elem(s1, t1), Elem(s1, t2)}}

=============================================================================
