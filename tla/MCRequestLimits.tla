-------------------------- MODULE MCRequestLimits ---------------------------
(* An instance of RequestLimits for TLC. *)
EXTENDS RequestLimits

CONSTANTS b1, b2

\* Every browser whose address is not known has the key "-".
MCBrowser == {b1, b2}
MCKey == {"-"}
MCKeyOf == [b \in MCBrowser |-> "-"]

Address(method, route, given, empty) ==
    [method |-> method, route |-> route, given |-> given, empty |-> empty]

MCUrl == {Address("GET", "preview", {}, {}),
          Address("GET", "versions", {}, {"from", "to"}),
          Address("GET", "versions", {"from"}, {"to"})}

\* A token of the redline's bucket takes longer than one of the preview's, and
\* longer than the seconds of Retry-After divide.
MCCost == [l \in Limiter |-> IF l = "preview" THEN 1 ELSE 3]
MCBurst == [l \in Limiter |-> IF l = "preview" THEN 2 ELSE 1]

=============================================================================
