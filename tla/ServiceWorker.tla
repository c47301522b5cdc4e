--------------------------- MODULE ServiceWorker ----------------------------
(***************************************************************************)
(* The reader's service worker (frontend/public/sw.js): pages network      *)
(* first, static files cache first, the offline page behind both. A store  *)
(* runs in the background, and each of its `await`s lets other stores run; *)
(* the browser may fail a write (quota) or stop the worker between two.    *)
(*                                                                         *)
(* A cache is the sequence of what it holds, in the order of `keys()`. A   *)
(* `put` replaces in place what is there, as the comment on `storePage`    *)
(* takes it to; a response is its revision and whether it may be stored.   *)
(***************************************************************************)
EXTENDS Integers, Sequences, FiniteSets

CONSTANTS
    PageUrl, HashedUrl, StableUrl, OFFLINE_URL,
    Limit,          \* PAGE_LIMIT and ASSET_LIMIT
    Job, Idle,      \* stores that can be under way together
    MaxRev,         \* bound: revisions of the site
    MaxFaults       \* bound: failed writes and deaths of the worker

PAGES == "pages"
ASSETS == "assets"
KNOWN_CACHES == {PAGES, ASSETS}
Cached == PageUrl \cup HashedUrl \cup StableUrl

ASSUME WorkerAssumption ==
    /\ OFFLINE_URL \notin Cached
    /\ PageUrl \cap (HashedUrl \cup StableUrl) = {} /\ HashedUrl \cap StableUrl = {}
    /\ Limit \in [KNOWN_CACHES -> Nat] /\ MaxRev \in Nat /\ MaxFaults \in Nat

Rev == 0..MaxRev
Entry == [url : Cached \cup {OFFLINE_URL}, rev : Rev]

\* A store: the cache, the response, the step it is at, and what it will delete.
Store == [cache : KNOWN_CACHES, url : Cached, rev : Rev,
          step : {"delete", "put", "keys", "trim"}, doomed : SUBSET Cached]

ASSUME IdleAssumption == Idle \notin Store
ASSUME JobAssumption == IsFiniteSet(Job)

VARIABLES
    rev,            \* the revision of the site the network would answer with
    active,         \* the worker has been installed and activated
    cache,
    job,
    faults,
    recent,         \* observer: the storable pages fetched, oldest first
    disturbed       \* observer: a page's store overlapped another, or failed

vars == <<rev, active, cache, job, faults, recent, disturbed>>

-----------------------------------------------------------------------------
(* The Cache API. *)

Holds(s, url) == \E i \in DOMAIN s : s[i].url = url

HeldOnce(s) == \A i, k \in DOMAIN s : s[i].url = s[k].url => i = k

At(s, url) == CHOOSE i \in DOMAIN s : s[i].url = url

Delete(s, url) ==
    IF Holds(s, url)
    THEN [i \in 1..Len(s) - 1 |-> IF i < At(s, url) THEN s[i] ELSE s[i + 1]]
    ELSE s

\* Mutant: a put never replaces.
PutAnother(s, url, r) == Append(s, [url |-> url, rev |-> r])

Put(s, url, r) ==
    IF Holds(s, url)
    THEN [s EXCEPT ![At(s, url)].rev = r]
    ELSE Append(s, [url |-> url, rev |-> r])

\* Mutant: the offline page is trimmed like any other file.
EvictableAll(c) == DOMAIN cache[c]

\* What a trim may take: the offline page is exempt.
Evictable(c) == {i \in DOMAIN cache[c] : cache[c][i].url # OFFLINE_URL}

\* Mutant: the cache is measured before the new entry.
DoomedOneLess(c) ==
    {cache[c][i].url : i \in {i \in Evictable(c) :
        Cardinality({j \in Evictable(c) : i <= j}) > Limit[c] + 1}}

\* The oldest, as many as are over the limit. They are deleted one by one; the
\* order among them is left open.
Doomed(c) ==
    {cache[c][i].url : i \in {i \in Evictable(c) :
        Cardinality({j \in Evictable(c) : i <= j}) > Limit[c]}}

-----------------------------------------------------------------------------

Busy(c) == {j \in Job : job[j] # Idle /\ job[j].cache = c}

\* What is kept of the pages fetched: the last of each, as many as the limit.
Remember(s, url, r) ==
    LET all == Append(Delete(s, url), [url |-> url, rev |-> r]) IN
    IF Len(all) > Limit[PAGES] THEN Tail(all) ELSE all

Init ==
    /\ rev = 0 /\ active = FALSE
    /\ cache = [c \in KNOWN_CACHES |-> <<>>]
    /\ job = [j \in Job |-> Idle]
    /\ faults = 0 /\ recent = <<>> /\ disturbed = FALSE

\* `install`, and `activate` behind it; also an update of the worker, which
\* fetches the offline page again while the old one's stores go on. A failed
\* fetch fails the install and changes nothing.
Install ==
    /\ cache' = [cache EXCEPT ![ASSETS] = Put(@, OFFLINE_URL, rev)]
    /\ active' = TRUE
    /\ UNCHANGED <<rev, job, faults, recent, disturbed>>

\* Mutant: what was revisited keeps its place in the queue.
FirstStepPut(c) == "put"

\* `storePage` deletes first; `storeAsset` does not.
FirstStep(c) == IF c = PAGES THEN "delete" ELSE "put"

StartStore(j, c, url) ==
    /\ job[j] = Idle
    /\ job' = [job EXCEPT ![j] = [cache |-> c, url |-> url, rev |-> rev,
                                  step |-> FirstStep(c), doomed |-> {}]]

\* A navigation the network answers with a page that may be stored. Any other
\* answer (an error status, redirected, no-store) is shown and changes nothing,
\* and so does a navigation that fails: it shows what the cache holds.
FetchPage(j, url) ==
    /\ active /\ url \in PageUrl
    /\ StartStore(j, PAGES, url)
    /\ recent' = Remember(recent, url, rev)
    /\ disturbed' = (disturbed \/ Busy(PAGES) # {})
    /\ UNCHANGED <<rev, active, cache, faults>>

\* `assetFirst` on a miss.
FetchAsset(j, url) ==
    /\ active /\ url \in HashedUrl \cup StableUrl
    /\ ~Holds(cache[ASSETS], url)
    /\ StartStore(j, ASSETS, url)
    /\ UNCHANGED <<rev, active, cache, faults, recent, disturbed>>

\* `assetFirst` on a hit: a stable name is refreshed behind the answer.
Revalidate(j, url) ==
    /\ active /\ url \in StableUrl
    /\ Holds(cache[ASSETS], url)
    /\ StartStore(j, ASSETS, url)
    /\ UNCHANGED <<rev, active, cache, faults, recent, disturbed>>

StepDelete(j) ==
    /\ job[j] # Idle /\ job[j].step = "delete"
    /\ cache' = [cache EXCEPT ![job[j].cache] = Delete(@, job[j].url)]
    /\ job' = [job EXCEPT ![j].step = "put"]
    /\ UNCHANGED <<rev, active, faults, recent, disturbed>>

StepPut(j) ==
    /\ job[j] # Idle /\ job[j].step = "put"
    /\ cache' = [cache EXCEPT ![job[j].cache] = Put(@, job[j].url, job[j].rev)]
    /\ job' = [job EXCEPT ![j].step = "keys"]
    /\ UNCHANGED <<rev, active, faults, recent, disturbed>>

StepKeys(j) ==
    /\ job[j] # Idle /\ job[j].step = "keys"
    /\ job' = [job EXCEPT ![j].step = "trim", ![j].doomed = Doomed(job[j].cache)]
    /\ UNCHANGED <<rev, active, cache, faults, recent, disturbed>>

StepTrim(j, url) ==
    /\ job[j] # Idle /\ job[j].step = "trim" /\ url \in job[j].doomed
    /\ cache' = [cache EXCEPT ![job[j].cache] = Delete(@, url)]
    /\ job' = [job EXCEPT ![j].doomed = @ \ {url}]
    /\ UNCHANGED <<rev, active, faults, recent, disturbed>>

EndStore(j) ==
    /\ job[j] # Idle /\ job[j].step = "trim" /\ job[j].doomed = {}
    /\ job' = [job EXCEPT ![j] = Idle]
    /\ UNCHANGED <<rev, active, cache, faults, recent, disturbed>>

\* A write that fails is caught: "costs the cache entry rather than the page".
FailPut(j) ==
    /\ job[j] # Idle /\ job[j].step = "put"
    /\ faults < MaxFaults /\ faults' = faults + 1
    /\ job' = [job EXCEPT ![j] = Idle]
    /\ disturbed' = (disturbed \/ job[j].cache = PAGES)
    /\ UNCHANGED <<rev, active, cache, recent>>

\* The browser stops the worker: every store ends where it is.
Stop ==
    /\ faults < MaxFaults /\ faults' = faults + 1
    /\ job' = [j \in Job |-> Idle]
    /\ disturbed' = (disturbed \/ Busy(PAGES) # {})
    /\ UNCHANGED <<rev, active, cache, recent>>

Deploy ==
    /\ rev < MaxRev /\ rev' = rev + 1
    /\ UNCHANGED <<active, cache, job, faults, recent, disturbed>>

Next ==
    \/ Install
    \/ \E j \in Job, url \in Cached :
          FetchPage(j, url) \/ FetchAsset(j, url) \/ Revalidate(j, url)
    \/ \E j \in Job, url \in Cached \cup {OFFLINE_URL} : StepTrim(j, url)
    \/ \E j \in Job : StepDelete(j) \/ StepPut(j) \/ StepKeys(j) \/ EndStore(j) \/ FailPut(j)
    \/ Stop
    \/ Deploy

Spec == Init /\ [][Next]_vars

-----------------------------------------------------------------------------

\* The types; a cache holds no address twice, whatever stores interleave.
WorkerTypeOK ==
    /\ rev \in Rev /\ active \in BOOLEAN /\ disturbed \in BOOLEAN
    /\ cache \in [KNOWN_CACHES -> Seq(Entry)]
    /\ job \in [Job -> Store \cup {Idle}]
    /\ faults \in 0..MaxFaults
    /\ recent \in Seq(Entry)
    /\ \A c \in KNOWN_CACHES : HeldOnce(cache[c])

\* "Losing it loses the fallback" (sw.js:28-31): from the install on, a
\* navigation without a network always finds the offline page, whatever stores,
\* trims and updates of the worker interleave.
OfflinePageKept == active => Holds(cache[ASSETS], OFFLINE_URL)

\* A put that no trim has followed yet.
Untrimmed(c) == Cardinality({j \in Busy(c) : job[j].step \in {"keys", "trim"}})

\* Bounded "for the life of the registration" (sw.js:28-31): trims that run
\* together, on lists of keys read before the other's deletes, leave no more than
\* the limit and what is still to be trimmed, plus what a death of the worker can
\* cut off: one entry for each store under way.
CachesBounded ==
    \A c \in KNOWN_CACHES :
        Cardinality(Evictable(c)) <= Limit[c] + Untrimmed(c) + Cardinality(Job) * faults

\* The pages kept are the last ones fetched, in that order and as they were last
\* fetched (sw.js:159-168: "least recently *fetched*"), unless stores of pages
\* overlapped or one was cut off.
RecentlyReadIsKept ==
    ~disturbed /\ Busy(PAGES) = {} => cache[PAGES] = recent

=============================================================================
