----------------------------- MODULE MCLoadAll ------------------------------
(* Instances of LoadAll for TLC. *)
EXTENDS LoadAll

CONSTANTS s1, t1, t2

MCSection == {s1}
MCText == {t1, t2}
ThreeReleases == 1..3

\* The one section has a text, or is not in the file.
MCFiles == [Release -> {{}, {[sec |-> s1, text |-> t1]}, {[sec |-> s1, text |-> t2]}}]
MCFetches == {{[sec |-> s1, text |-> t]} : t \in MCText}
NoFetches == {}

=============================================================================
