------------------------------ MODULE Currency ------------------------------
(***************************************************************************)
(* How current the mirror says it is: the API's status (api/routes.py,     *)
(* storage/postgres.py) and the sentence the reader makes of it            *)
(* (frontend/src/lib/currency.ts, sitecurrency.ts). Sentences are names;   *)
(* the wording is left out.                                                *)
(***************************************************************************)
EXTENDS Integers, FiniteSets

CONSTANTS StaleAfter, NoCheck, NoRelease, NoFooter

\* A poll of the source: when, whether it could read the page, and the newest
\* release point it saw there.
Check(Time, Release) == [at : Time, ok : BOOLEAN, maintenance : BOOLEAN, latest : Release]

LargestOf(S) == CHOOSE x \in S : \A y \in S : y <= x

-----------------------------------------------------------------------------
(* The API. `loads` gives for every known release point how far its title has
   been loaded; `affected` are the ones that changed the title. *)

Finished(loads) == {r \in DOMAIN loads : loads[r] = "complete"}

NewestOr(S, none) == IF S = {} THEN none ELSE LargestOf(S)

\* `SourceCheckInfo.is_stale`: a failed check confirmed nothing.
IsStale(check, now) == ~check.ok \/ now - check.at > StaleAfter

\* The gaps above the newest release point whose changed titles are all held.
Unloaded(loads, affected) ==
    LET held == {r \in DOMAIN loads : r \in affected => loads[r] = "complete"}
    IN  {r \in DOMAIN loads \ held : \A q \in held : q < r}

StatusOf(loads, affected, check, now) ==
    LET loaded == NewestOr(Finished(loads), NoRelease) IN
    [checked |-> check # NoCheck,
     at |-> IF check = NoCheck THEN 0 ELSE check.at,
     ok |-> check # NoCheck /\ check.ok,
     maintenance |-> check # NoCheck /\ check.maintenance,
     stale |-> check = NoCheck \/ IsStale(check, now),
     latest |-> loaded,
     incomplete |-> {r \in DOMAIN loads : loads[r] = "incomplete"},
     unloaded |-> Unloaded(loads, affected),
     behind |-> IF check # NoCheck /\ check.ok /\ loaded # NoRelease
                THEN Cardinality({r \in DOMAIN loads : loaded < r /\ r <= check.latest})
                ELSE 0]

-----------------------------------------------------------------------------
(* The reader. A note is a tone and what the headline says. *)

Note(tone, text) == [tone |-> tone, text |-> text]

unloadedTitles(status) == status.unloaded \cup status.incomplete

\* Mutant: the check's age is not asked.
currencyNoteUndated(status) ==
    CASE ~status.checked -> Note("warning", "no record of a check")
      [] status.checked /\ ~status.ok -> Note("warning", "the last check failed")
      [] status.ok /\ unloadedTitles(status) # {} -> Note("warning", "titles not loaded")
      [] OTHER -> Note("ok", "checked")

\* The branches in their order: what is missing here is said before how long ago
\* the source was asked.
currencyNote(status) ==
    IF ~status.checked THEN Note("warning", "no record of a check")
    ELSE IF ~status.ok /\ status.maintenance THEN Note("warning", "under maintenance")
    ELSE IF ~status.ok THEN Note("warning", "the last check failed")
    ELSE IF unloadedTitles(status) # {} THEN Note("warning", "titles not loaded")
    ELSE IF status.behind > 0 THEN Note("warning", "release points not loaded")
    ELSE IF status.stale THEN Note("warning", "checked too long ago")
    ELSE Note("ok", "checked")

\* The header's line: the newest release point loaded, if there is one.
dateline(status) == status.latest

\* The footer: the day of a check that could read the source, and the warning.
\* Without a dateline there is no footer, and no warning either.
footerCurrency(status) ==
    IF dateline(status) = NoRelease THEN NoFooter
    ELSE [label |-> dateline(status),
          checkedOn |-> IF status.ok THEN status.at ELSE NoCheck,
          warning |-> currencyNote(status).tone = "warning"]

=============================================================================
