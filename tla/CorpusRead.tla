----------------------------- MODULE CorpusRead -----------------------------
(***************************************************************************)
(* Readers of one section beside the loaders of CorpusLoad, and the caches *)
(* between them (storage/postgres.py, api/cache.py, api/routes.py).        *)
(*                                                                         *)
(* A request reads the corpus in several statements, each of which sees    *)
(* what had been committed before it (READ COMMITTED). Every commit of a   *)
(* loader moves the corpus generation in the same transaction. Payloads    *)
(* are kept in Redis under the generation the request has read; a section  *)
(* answered at a pinned label goes out as `immutable`, and is then held by *)
(* browsers and proxies that do not ask again.                             *)
(*                                                                         *)
(* Three routes: a table of contents, a section, and a redline, of which   *)
(* one of the two ends is modelled. Every request pins a label; a redline  *)
(* is only cached when both ends do. Expiry and eviction from Redis are    *)
(* left out: a lookup may miss and a store may be dropped at any time, as  *)
(* when Redis is down. What is kept under an earlier generation than that  *)
(* of now is forgotten: only a request that had read that generation can   *)
(* still be told it, and its lookup hits or misses either way.             *)
(***************************************************************************)
EXTENDS CorpusLoad, Sequences, FiniteSetsExt

CONSTANTS
    Reader,         \* requests served at once
    Wanted,         \* the section they ask for
    Route,          \* the routes they take
    MaxGeneration   \* bound: commits of the loaders

ASSUME ReadAssumption ==
    /\ Wanted \in Section
    /\ Route \subseteq {"toc", "section", "diff"}
    /\ MaxGeneration \in Nat \ {0}

VARIABLES
    generation,   \* corpus_state.generation
    cache,        \* the payloads in Redis under the generation of now
    request,      \* what each request has read, and has still to do
    told          \* by label, the answer that clients hold as immutable

readVars == <<vars, generation, cache, request, told>>

\* What a request reads: the release point it is served from, and the
\* section's texts there. The empty answer is the 404.
Answer == [at : Release \cup {NoRelease}, texts : SUBSET Text]
NotFound == [at |-> NoRelease, texts |-> {}]

-----------------------------------------------------------------------------
(* What single statements return. *)

\* `_load_finished`: the completed loads at or before the label.
LoadedFor(asked) == {r \in complete : r <= asked}

\* The newest of them, the one a request is served from.
ServedFrom(asked) == IF LoadedFor(asked) = {} THEN NoRelease ELSE Max(LoadedFor(asked))

\* `_occurrences`.
TextsAt(r) == {v.text : v \in {w \in releaseMap[r] : w.sec = Wanted}}

\* `_last_release_holding`, whether its load is complete or not.
LastHolding(r) ==
    LET holding == {q \in Release : q < r /\ TextsAt(q) # {}} IN
    IF holding = {} THEN NoRelease ELSE Max(holding)

\* What the routes answer if nothing is committed between their statements.
TocAnswer(asked) ==
    LET r == ServedFrom(asked) IN
    IF r = NoRelease THEN NotFound ELSE [at |-> r, texts |-> TextsAt(r)]
SectionAnswer(asked) ==
    LET r == ServedFrom(asked)
        q == IF r = NoRelease \/ TextsAt(r) # {} THEN r ELSE LastHolding(r) IN
    IF q = NoRelease THEN NotFound ELSE [at |-> q, texts |-> TextsAt(q)]

-----------------------------------------------------------------------------
(* The loaders. *)

Untold == [found |-> NotFound, own |-> FALSE]
Idle == [route |-> "none", asked |-> NoRelease, plan |-> <<>>, generation |-> 0, found |-> NotFound]

InitRead ==
    /\ Init
    /\ generation = 1
    /\ cache = {}
    /\ request = [q \in Reader |-> Idle]
    /\ told = [r \in Release |-> Untold]

\* Mutant: the counter starts over.
Reseeded == 0

\* Mutant: only rows that appear move the generation.
MovedByAdding == IF complete' \subseteq complete THEN generation ELSE generation + 1

\* The triggers on the corpus tables count every transaction that writes one.
Moved == generation + 1

LoaderCommits ==
    /\ generation < MaxGeneration
    /\ \/ \E r \in Release : BeginLoad(r)
       \/ \E r, b \in Release, fetched \in Fetches : BeginUpdate(r, b, fetched)
       \/ CommitBatch
       \/ Finish
    /\ generation' = Moved
    /\ cache' = IF generation' = generation THEN cache ELSE {}
    /\ UNCHANGED <<request, told>>

LoaderWorks ==
    /\ \/ \E e \in Element : StoreElement(e)
       \/ Interrupt
    /\ UNCHANGED <<generation, cache, request, told>>

-----------------------------------------------------------------------------
(* The requests. *)

\* Mutant: a table of contents is read before the generation.
PlanDataFirst(route) ==
    CASE route = "toc"     -> <<"served", "texts", "generation", "lookup", "store">>
      [] route = "section" -> <<"generation", "served", "texts", "last", "there", "answer">>
      [] route = "diff"    -> <<"served", "texts", "last", "there", "generation", "lookup", "store">>

\* The statements of a route, in order. When the release point has the
\* section, the two that look for it further back are skipped.
Plan(route) ==
    CASE route = "toc"     -> <<"generation", "lookup", "served", "texts", "store">>
      [] route = "section" -> <<"generation", "served", "texts", "last", "there", "answer">>
      [] route = "diff"    -> <<"served", "texts", "last", "there", "generation", "lookup", "store">>

At(q, statement) == request[q].plan # <<>> /\ Head(request[q].plan) = statement

\* The request has read `found` and goes on with the next statement.
GoesOn(q, found) ==
    request' = [request EXCEPT ![q].plan = Tail(@), ![q].found = found]
Ends(q) == request' = [request EXCEPT ![q] = Idle]

Ask(q, route, asked) ==
    /\ request[q] = Idle
    /\ request' = [request EXCEPT ![q].route = route, ![q].asked = asked,
                                  ![q].plan = Plan(route)]
    /\ UNCHANGED <<vars, generation, cache, told>>

ReadGeneration(q) ==
    /\ At(q, "generation")
    /\ request' = [request EXCEPT ![q].plan = Tail(@), ![q].generation = generation]
    /\ UNCHANGED <<vars, generation, cache, told>>

\* The key of a payload: a table of contents is kept under the label asked for,
\* a redline under the release points its texts were served from.
Key(q) ==
    [route |-> request[q].route,
     label |-> IF request[q].route = "toc" THEN request[q].asked ELSE request[q].found.at]

Entries(key) == {e \in cache : e.key = key}

\* A hit is the answer; a miss, or a Redis that does not answer, goes on.
Lookup(q) ==
    /\ At(q, "lookup")
    /\ \/ /\ request[q].generation = generation => Entries(Key(q)) # {}
          /\ Ends(q)
       \/ GoesOn(q, request[q].found)
    /\ UNCHANGED <<vars, generation, cache, told>>

ReadServedFrom(q) ==
    /\ At(q, "served")
    /\ LET r == ServedFrom(request[q].asked) IN
          IF r = NoRelease THEN Ends(q) ELSE GoesOn(q, [at |-> r, texts |-> {}])
    /\ UNCHANGED <<vars, generation, cache, told>>

ReadTexts(q) ==
    /\ At(q, "texts")
    /\ GoesOn(q, [request[q].found EXCEPT !.texts = TextsAt(request[q].found.at)])
    /\ UNCHANGED <<vars, generation, cache, told>>

\* A section that is absent from the release point is looked for further back.
ReadLastHolding(q) ==
    /\ At(q, "last")
    /\ LET found == request[q].found
           r     == LastHolding(found.at) IN
          \/ /\ found.texts # {}
             /\ request' = [request EXCEPT ![q].plan = Tail(Tail(@))]
          \/ found.texts = {} /\ r = NoRelease /\ Ends(q)
          \/ found.texts = {} /\ r # NoRelease /\ GoesOn(q, [at |-> r, texts |-> {}])
    /\ UNCHANGED <<vars, generation, cache, told>>

\* Its texts there, unless they have gone since.
ReadTextsThere(q) ==
    /\ At(q, "there")
    /\ LET r == request[q].found.at IN
          IF TextsAt(r) = {} THEN Ends(q) ELSE GoesOn(q, [at |-> r, texts |-> TextsAt(r)])
    /\ UNCHANGED <<vars, generation, cache, told>>

\* SET NX: the first writer wins, and Redis may not answer.
Store(q) ==
    /\ At(q, "store")
    /\ \/ /\ request[q].generation = generation /\ Entries(Key(q)) = {}
          /\ cache' = cache \cup {[key |-> Key(q), value |-> request[q].found]}
       \/ UNCHANGED cache
    /\ Ends(q)
    /\ UNCHANGED <<vars, generation, told>>

\* Whether the answer was read from the file load of the label itself, which is
\* still complete.
IsOwn(q) ==
    LET r == request[q] IN
    /\ r.found.at = r.asked /\ r.asked \in complete /\ row[r.asked] = "file"
    /\ generation = r.generation

\* A section at a pinned label is `immutable` (`cache_control`): the first client
\* it is given to holds it.
GiveAnswer(q) ==
    /\ At(q, "answer")
    /\ told' = [told EXCEPT ![request[q].asked] =
            IF @ = Untold THEN [found |-> request[q].found, own |-> IsOwn(q)] ELSE @]
    /\ Ends(q)
    /\ UNCHANGED <<vars, generation, cache>>

RequestStep(q) ==
    \/ \E route \in Route, asked \in Release : Ask(q, route, asked)
    \/ ReadGeneration(q)
    \/ Lookup(q)
    \/ ReadServedFrom(q)
    \/ ReadTexts(q)
    \/ ReadLastHolding(q)
    \/ ReadTextsThere(q)
    \/ Store(q)
    \/ GiveAnswer(q)

NextRead ==
    \/ LoaderCommits
    \/ LoaderWorks
    \/ \E q \in Reader : RequestStep(q)

SpecRead == InitRead /\ [][NextRead]_readVars

-----------------------------------------------------------------------------
(***************************************************************************)
(* Correctness                                                             *)
(***************************************************************************)

\* Every variable of the readers has its type.
ReadTypeOK ==
    /\ generation \in 1..MaxGeneration
    /\ \A e \in cache :
          /\ e.key.route \in {"toc", "diff"} /\ e.key.label \in Release
          /\ e.value \in Answer
    /\ \A q \in Reader :
          /\ request[q].route \in Route \cup {"none"}
          /\ request[q].asked \in Release \cup {NoRelease}
          /\ request[q].generation \in 0..generation
          /\ request[q].found \in Answer
    /\ told \in [Release -> [found : Answer, own : BOOLEAN]]

\* What a later request can hit is right: a table of contents kept under the
\* generation of now is the one the corpus would give now, whatever commits
\* fell between the statements it was read with (storage/repository.py,
\* corpus_generation; api/cache.py, through).
PayloadsAreCurrent ==
    \A e \in cache :
        e.key.route = "toc" => e.value = TocAnswer(e.key.label)

\* The generation a section is stamped with vouches for it: while the corpus
\* has not moved since, the statements of the request agree with each other
\* and with the corpus (X-Corpus-Generation, api/routes.py _section_response).
AnswersAreConsistent ==
    \A q \in Reader :
        At(q, "answer") /\ request[q].generation = generation =>
            request[q].found = SectionAnswer(request[q].asked)

\* A section read from the pinned label's own file is what every client holds
\* as immutable that was given it that way, whatever was loaded, interrupted or
\* loaded again between them (params.py, cache_control).
OwnPinsAgree ==
    \A q \in Reader :
        LET held == told[request[q].asked] IN
        At(q, "answer") /\ IsOwn(q) /\ held.own => held.found = request[q].found

\* api/routes.py, _redline_ops: the generation joins the key, so a re-load can
\* never serve a stale redline. A redline kept under the generation of now is
\* of the text its release point carries now.
RedlinesAreCurrent ==
    \A e \in cache :
        e.key.route = "diff" => e.value.texts = TextsAt(e.key.label)

\* params.py: a URL with a release point names one that can never mean a
\* different one, so its answer can never change. What a request is about to be
\* answered at a label is what clients hold of it as immutable.
PinnedNeverChanges ==
    \A q \in Reader :
        LET held == told[request[q].asked] IN
        At(q, "answer") /\ held # Untold => held.found = request[q].found
=============================================================================
