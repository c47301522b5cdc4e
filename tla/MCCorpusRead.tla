---------------------------- MODULE MCCorpusRead ----------------------------
(* One section with two texts at two release points. *)
EXTENDS CorpusRead, TLC

CONSTANTS s, t1, t2

Element0(t) == [sec |-> s, text |-> t]

MCSection == {s}
MCText == {t1, t2}
MCRelease == 1..2

\* At the second release point the section has gone, or is published twice.
MCFiles ==
    {[r \in MCRelease |-> IF r = 1 THEN {Element0(t1)} ELSE second] :
        second \in {{}, {Element0(t1), Element0(t2)}}}

\* A fetch brings the new text, or nothing, and the base is carried whole.
MCFetches == {{}, {Element0(t2)}}

Symmetry == Permutations(Reader)
=============================================================================
