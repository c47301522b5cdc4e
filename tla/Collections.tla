----------------------------- MODULE Collections -----------------------------
(***************************************************************************)
(* What the front end takes from its language: Array.sort, Array.filter    *)
(* and the spread of an object.                                            *)
(***************************************************************************)
EXTENDS Integers, FiniteSets, Sequences

\* The members of a set by their places, no two of which are the same.
InOrder(S, place) ==
    [i \in 1..Cardinality(S) |->
        CHOOSE x \in S : Cardinality({y \in S : place[y] <= place[x]}) = i]

Ascending(S) == InOrder(S, [x \in S |-> x])

Keep(s, kept) ==
    LET upto[i \in 0..Len(s)] ==
            IF i = 0 THEN <<>>
            ELSE IF s[i] \in kept THEN Append(upto[i - 1], s[i]) ELSE upto[i - 1]
    IN  upto[Len(s)]

Spread(object, changes) ==
    [field \in DOMAIN object \cup DOMAIN changes |->
        IF field \in DOMAIN changes THEN changes[field] ELSE object[field]]

=============================================================================
