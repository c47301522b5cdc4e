-------------------------- MODULE MCVersionChanges --------------------------
(* Instances of VersionChanges for TLC. *)
EXTENDS VersionChanges

CONSTANTS s1, s2, t1, t2

Elem(s, t) == [sec |-> s, text |-> t]

MCSection == {s1, s2}
MCText == {t1, t2}
TwoReleases == 1..2
ThreeReleases == 1..3

\* s1 changes its text, is dropped or comes back; s2 is in every file, unless the
\* title has no section at its second release point. The files in which s1 has t2
\* first differ from the others in the names of its texts.
AnyFiles ==
    {f \in [Release -> {{}, {Elem(s2, t1)}, {Elem(s2, t1), Elem(s1, t1)}, {Elem(s2, t1), Elem(s1, t2)}}] :
        \A r \in Release : /\ Elem(s1, t2) \in f[r] => \E q \in Release : q < r /\ Elem(s1, t1) \in f[q]
                           /\ f[r] = {} => r = 2}

\* What is fetched is either section's text; s2's comes back unchanged.
AnyFetches == {{Elem(s1, t1)}, {Elem(s1, t2)}, {Elem(s2, t1)}}
Hooked == {FALSE}
Deferring == {TRUE}
Either == BOOLEAN

=============================================================================
