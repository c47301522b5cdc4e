----------------------------- MODULE ReaderMemo -----------------------------
(***************************************************************************)
(* What the reader's process remembers between pages: the newest corpus    *)
(* generation any answer has carried (frontend/src/lib/generation.ts), the *)
(* release list of each title (releasecache.ts) and the site's status      *)
(* (sitecurrency.ts). A page asks the API for its own text, notes the      *)
(* generation on the answer (api.ts), and then consults the memos. The API *)
(* reads the generation before the text, so a load may commit in between;  *)
(* answers arrive in any order, late, without the header, or not at all.   *)
(*                                                                         *)
(* An entry is the fetch that fills it, as in the code: pages that consult *)
(* it while it is under way wait for the same answer.                      *)
(***************************************************************************)
EXTENDS Currency

CONSTANTS
    Title, STATUS,  \* the memos' keys: a title's release list, or the status
    Page, Fetch,    \* requests under way together
    ReleasePoint,   \* release points of the source, the first one loaded
    TTL,            \* ticks an entry may be used without a generation
    MaxClock, MaxGeneration,    \* bounds
    Idle, NoEntry

Key == Title \cup {STATUS}
NoGeneration == 0

ASSUME MemoAssumption ==
    /\ STATUS \notin Title /\ TTL \in Nat \ {0} /\ MaxClock \in Nat /\ MaxGeneration \in Nat
    /\ StaleAfter \in Nat /\ ReleasePoint \subseteq Nat
    /\ NoRelease \notin ReleasePoint /\ NoCheck \notin Nat
    /\ \E r \in ReleasePoint : \A q \in ReleasePoint : r <= q
    /\ NoEntry \notin Fetch

VARIABLES
    clock,
    generation,     \* the corpus_state row
    loads, check,   \* what is loaded, and the last poll of the source
    seen,           \* generation.ts
    entries,        \* the memos: for each key the fetch that fills it
    fetch,          \* what each fetch asked, when, and its answer
    page            \* what each page waits for

corpus == <<generation, loads, check>>
vars == <<clock, corpus, seen, entries, fetch, page>>

-----------------------------------------------------------------------------
(* The corpus, and the answers computed from it. *)

First == CHOOSE r \in ReleasePoint : \A q \in ReleasePoint : r <= q

Status == StatusOf(loads, DOMAIN loads, check, clock)

\* An answer: the generation it was computed under, and of a status what the
\* footer makes of it.
Answer(key) ==
    [version |-> generation,
     footer |-> IF key = STATUS THEN footerCurrency(Status) ELSE Idle]

\* Every write moves the generation in its own transaction.
Bump == generation < MaxGeneration /\ generation' = generation + 1

Listed(latest) == {r \in ReleasePoint : r <= latest}

\* The source lists what it listed before, and perhaps more.
PollRead(latest) ==
    /\ DOMAIN loads \subseteq Listed(latest)
    /\ Bump
    /\ check' = [at |-> clock, ok |-> TRUE, maintenance |-> FALSE, latest |-> latest]
    /\ loads' = [r \in Listed(latest) |-> IF r \in DOMAIN loads THEN loads[r] ELSE "none"]
    /\ UNCHANGED <<clock, seen, entries, fetch, page>>

PollFails(maintenance) ==
    /\ Bump
    /\ check' = [at |-> clock, ok |-> FALSE, maintenance |-> maintenance, latest |-> NoRelease]
    /\ UNCHANGED <<clock, loads, seen, entries, fetch, page>>

Load(r, from, to) ==
    /\ r \in DOMAIN loads /\ loads[r] = from
    /\ Bump
    /\ loads' = [loads EXCEPT ![r] = to]
    /\ UNCHANGED <<clock, check, seen, entries, fetch, page>>

Tick ==
    /\ clock < MaxClock /\ clock' = clock + 1
    /\ UNCHANGED <<corpus, seen, entries, fetch, page>>

-----------------------------------------------------------------------------
(* generation.ts *)

\* Mutant: the header of the answer that came last.
noteLatest(value) == IF value = NoGeneration THEN seen ELSE value

\* A missing header is passed over, and so is an older generation.
noteGeneration(value) == IF value > seen THEN value ELSE seen

-----------------------------------------------------------------------------
(* The memos. *)

\* The release list's entry is fresh while the generation has not moved; without
\* a generation on either side, for TTL. The status's is fresh for TTL at most.
fresh(key, f) ==
    LET known == fetch[f].generation # NoGeneration /\ seen # NoGeneration
        young == clock - fetch[f].at < TTL
    IN  IF key = STATUS
        THEN young /\ (known => fetch[f].generation = seen)
        ELSE IF known THEN fetch[f].generation = seen ELSE young

Hit(key) == entries[key] # NoEntry /\ fresh(key, entries[key])

\* Mutant: whatever the key holds now is deleted.
EvictAny(f) == [entries EXCEPT ![fetch[f].key] = NoEntry]

\* Mutant: a failure is kept like any other answer.
EvictNone(f) == entries

\* A fetch that failed is forgotten, unless another has replaced it.
Evict(f) == [entries EXCEPT ![fetch[f].key] = IF @ = f THEN NoEntry ELSE @]

-----------------------------------------------------------------------------

Init ==
    /\ clock = 0 /\ generation = 1
    /\ loads \in [{First} -> {"incomplete", "complete"}] /\ check = NoCheck
    /\ seen = NoGeneration
    /\ entries = [key \in Key |-> NoEntry]
    /\ fetch = [f \in Fetch |-> Idle]
    /\ page = [p \in Page |-> Idle]

\* A page asks for its own text: the API reads the generation, which the answer
\* will carry as its header unless a proxy strips it.
AskPage(p, header) ==
    /\ page[p] = Idle
    /\ header \in {generation, NoGeneration}
    /\ page' = [page EXCEPT ![p] = [at |-> "asked", header |-> header, text |-> 0,
                                   waits |-> NoEntry, since |-> 0]]
    /\ UNCHANGED <<clock, corpus, seen, entries, fetch>>

\* Then it reads the text, of the generation of that moment.
AnswerPage(p) ==
    /\ page[p] # Idle /\ page[p].at = "asked"
    /\ page' = [page EXCEPT ![p].at = "answered", ![p].text = generation]
    /\ UNCHANGED <<clock, corpus, seen, entries, fetch>>

\* `getJson`: the answer arrives.
ReceivePage(p) ==
    /\ page[p] # Idle /\ page[p].at = "answered"
    /\ seen' = noteGeneration(page[p].header)
    /\ page' = [page EXCEPT ![p].at = "received"]
    /\ UNCHANGED <<clock, corpus, entries, fetch>>

\* When a page consulted the memo; only the status's age is asked for.
Asked(key) == IF key = STATUS THEN clock ELSE 0

Serve(p, key) ==
    /\ page[p] # Idle /\ page[p].at = "received"
    /\ Hit(key)
    /\ page' = [page EXCEPT ![p].at = "waiting", ![p].waits = entries[key],
                           ![p].since = Asked(key)]
    /\ UNCHANGED <<clock, corpus, seen, entries, fetch>>

\* A miss: the fetch begins, and its entry is stamped with what was seen by then.
Refetch(p, key, f) ==
    /\ page[p] # Idle /\ page[p].at = "received"
    /\ ~Hit(key)
    /\ fetch[f] = Idle
    /\ fetch' = [fetch EXCEPT ![f] = [key |-> key, at |-> clock, generation |-> seen,
                                      state |-> "asked", answer |-> Idle]]
    /\ entries' = [entries EXCEPT ![key] = f]
    /\ page' = [page EXCEPT ![p].at = "waiting", ![p].waits = f,
                           ![p].since = Asked(key)]
    /\ UNCHANGED <<clock, corpus, seen>>

ComputeFetch(f) ==
    /\ fetch[f] # Idle /\ fetch[f].state = "asked"
    /\ fetch' = [fetch EXCEPT ![f].state = "computed", ![f].answer = Answer(fetch[f].key)]
    /\ UNCHANGED <<clock, corpus, seen, entries, page>>

\* The generations an answer may carry: the status route sends none; a release
\* list's was read after it was asked for and before it was computed.
Headers(f) ==
    {NoGeneration} \cup
        (IF fetch[f].key = STATUS THEN {} ELSE fetch[f].generation..fetch[f].answer.version)

ReceiveFetch(f, header) ==
    /\ fetch[f] # Idle /\ fetch[f].state = "computed"
    /\ header \in Headers(f)
    /\ seen' = noteGeneration(header)
    /\ fetch' = [fetch EXCEPT ![f].state = "settled"]
    /\ UNCHANGED <<clock, corpus, entries, page>>

FailFetch(f) ==
    /\ fetch[f] # Idle /\ fetch[f].state \in {"asked", "computed"}
    /\ fetch' = [fetch EXCEPT ![f].state = "failed"]
    /\ entries' = Evict(f)
    /\ UNCHANGED <<clock, corpus, seen, page>>

\* The page has its answer. What it takes from each memo is on its own, so a
\* page here consults one of them.
Proceed(p) ==
    /\ page[p] # Idle /\ page[p].at = "waiting"
    /\ fetch[page[p].waits].state \in {"settled", "failed"}
    /\ page' = [page EXCEPT ![p] = Idle]
    /\ UNCHANGED <<clock, corpus, seen, entries, fetch>>

\* A promise nobody holds any more is gone.
Collect(f) ==
    /\ fetch[f] # Idle /\ fetch[f].state \in {"settled", "failed"}
    /\ \A key \in Key : entries[key] # f
    /\ \A p \in Page : page[p] # Idle => page[p].waits # f
    /\ fetch' = [fetch EXCEPT ![f] = Idle]
    /\ UNCHANGED <<clock, corpus, seen, entries, page>>

Next ==
    \/ \E r \in ReleasePoint : PollRead(r)
    \/ \E maintenance \in BOOLEAN : PollFails(maintenance)
    \/ \E r \in ReleasePoint :
          Load(r, "none", "incomplete") \/ Load(r, "incomplete", "complete")
    \/ Tick
    \/ \E p \in Page : AnswerPage(p) \/ ReceivePage(p) \/ Proceed(p)
    \/ \E p \in Page, header \in 0..MaxGeneration : AskPage(p, header)
    \/ \E p \in Page, key \in Key : Serve(p, key) \/ \E f \in Fetch : Refetch(p, key, f)
    \/ \E f \in Fetch : ComputeFetch(f) \/ FailFetch(f) \/ Collect(f)
    \/ \E f \in Fetch, header \in 0..MaxGeneration : ReceiveFetch(f, header)

Spec == Init /\ [][Next]_vars

-----------------------------------------------------------------------------

FooterRecord == [label : {NewestOr(S, NoRelease) : S \in SUBSET ReleasePoint},
                 checkedOn : Nat \cup {NoCheck}, warning : BOOLEAN]
AnswerRecord == [version : Nat, footer : {Idle, NoFooter} \cup FooterRecord]
FetchRecord == [key : Key, at : Nat, generation : Nat,
                state : {"asked", "computed", "settled", "failed"},
                answer : {Idle} \cup AnswerRecord]
PageRecord == [at : {"asked", "answered", "received", "waiting"},
               header : Nat, text : Nat, waits : Fetch \cup {NoEntry}, since : Nat]

ASSUME IdleAssumption ==
    /\ Idle \notin FetchRecord \cup PageRecord \cup AnswerRecord
    /\ NoFooter \notin FooterRecord

\* The types; every entry is a fetch of its own key that has not failed ("must
\* not be the answer for the next generation").
MemoTypeOK ==
    /\ clock \in Nat /\ generation \in Nat /\ seen \in 0..generation
    /\ DOMAIN loads \subseteq ReleasePoint
    /\ check \in {NoCheck} \cup Check(Nat, ReleasePoint \cup {NoRelease})
    /\ fetch \in [Fetch -> {Idle} \cup FetchRecord]
    /\ page \in [Page -> {Idle} \cup PageRecord]
    /\ entries \in [Key -> Fetch \cup {NoEntry}]
    /\ \A key \in Key : entries[key] # NoEntry =>
          fetch[entries[key]] # Idle /\ fetch[entries[key]].key = key
          /\ fetch[entries[key]].state # "failed"

Settled(p) == page[p] # Idle /\ page[p].at = "waiting" /\ fetch[page[p].waits].state = "settled"

\* The generation a page's answer carried when its text was read, and what it takes
\* from a memo: "a release point published mid-load reaches the picker on the next
\* page view" (releasecache.ts:21-30), although answers arrive out of order. The
\* header is not newer than the page's text, and what is taken is not older than
\* the header, so it can miss only what was committed while the API answered the
\* page. Excepted are the entries that fall back on the TTL.
AsNewAsThePage ==
    \A p \in Page :
        /\ page[p] # Idle /\ page[p].at # "asked" => page[p].header <= page[p].text
        /\ Settled(p) /\ fetch[page[p].waits].generation # NoGeneration =>
              page[p].header <= fetch[page[p].waits].answer.version

\* What a reader would like of the same entries: never older than the text beside
\* them. It does not hold: a load that commits between the API's read of the
\* generation and its read of the text (routes.py:819-822) is in the text only.
AsNewAsTheText ==
    \A p \in Page :
        Settled(p) /\ fetch[page[p].waits].generation # NoGeneration
        /\ page[p].header # NoGeneration =>
            page[p].text <= fetch[page[p].waits].answer.version

\* "N concurrent misses for one title produce one request rather than N"
\* (releasecache.ts:32-41): under one generation a title has one request under
\* way, also when an older one fails late.
OneRequestPerGeneration ==
    \A f, g \in Fetch :
        /\ f # g /\ fetch[f] # Idle /\ fetch[g] # Idle
        /\ fetch[f].key = fetch[g].key /\ fetch[f].key # STATUS
        /\ {fetch[f].state, fetch[g].state} \subseteq {"asked", "computed"}
        /\ fetch[f].generation # NoGeneration
        => fetch[f].generation # fetch[g].generation

\* A footer that is shown and warns of nothing rests on a check that could read the
\* source, less than the week and the memo's five minutes ago, and the corpus it
\* was computed from was whole: no load unfinished, and the newest release point of
\* that check loaded, also when loads ran out of order. The status leaves the
\* footer out only while no load is complete.
UnwarnedFooterIsCurrent ==
    /\ \A p \in Page :
          Settled(p) /\ fetch[page[p].waits].key = STATUS =>
              LET footer == fetch[page[p].waits].answer.footer IN
              \/ footer = NoFooter
              \/ footer.warning
              \/ /\ footer.checkedOn # NoCheck
                 /\ page[p].since - footer.checkedOn < StaleAfter + TTL
    /\ LET footer == footerCurrency(Status) IN
          IF footer = NoFooter THEN Finished(loads) = {}
          ELSE footer.warning \/
               /\ \A r \in DOMAIN loads : loads[r] # "incomplete"
               /\ \E r \in Finished(loads) : \A q \in DOMAIN loads : q <= check.latest => q <= r

\* What a page that waited for the status shows: nothing, when it could not be had.
FooterShown(p) ==
    IF fetch[page[p].waits].state = "failed" THEN NoFooter
    ELSE fetch[page[p].waits].answer.footer

\* The silent failure currency.ts:1-10 is there for, "a mirror that stopped
\* updating renders exactly like a mirror with nothing to update": a page says
\* something, and without a warning the check was recent. It does not hold: with no
\* status, or no complete load, the page shows no footer and so no warning
\* (sitecurrency.ts:104-106, SiteFooter.astro:168).
NoSilentStaleness ==
    \A p \in Page :
        /\ page[p] # Idle /\ page[p].at = "waiting"
        /\ fetch[page[p].waits].key = STATUS
        /\ fetch[page[p].waits].state \in {"settled", "failed"}
        => /\ FooterShown(p) # NoFooter
           /\ \/ FooterShown(p).warning
              \/ page[p].since - FooterShown(p).checkedOn < StaleAfter + TTL

=============================================================================
