--------------------------- MODULE MCSearchIndex ----------------------------
(* Instances of SearchIndex for TLC. *)
EXTENDS SearchIndex, TLC

CONSTANTS s1, t1, t2

Elem(s, t) == [sec |-> s, text |-> t]

OneSection == {s1}
TwoTexts == {t1, t2}
TwoReleases == 1..2
ThreeReleases == 1..3

\* One section, published at the first release point; later with a text or
\* absent. At the first it may have two texts; the second then lacks it.
AnyFiles ==
    {f \in [Release -> {{}} \cup {{Elem(s1, t), Elem(s1, u)} : t, u \in Text}] :
        /\ f[1] # {}
        /\ \A r \in Release \ {1} : Cardinality(f[r]) <= 1
        /\ Cardinality(f[1]) = 2 => f[2] = {}}
AnyFetches == {{Elem(s1, t)} : t \in Text}
NoFetches == {}

Symmetry == Permutations(Text)

=============================================================================
