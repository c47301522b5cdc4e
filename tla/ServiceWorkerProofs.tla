------------------------ MODULE ServiceWorkerProofs -------------------------
(***************************************************************************)
(* For every set of pages and files, every limit and any number of stores  *)
(* under way together: the caches are well formed; the offline page, once  *)
(* installed, is never lost to a store or a trim; a cache never holds more *)
(* than its limit and what is still to be trimmed; and the pages kept are  *)
(* the ones read last, unless stores overlapped or were cut off.           *)
(***************************************************************************)
EXTENDS ServiceWorker, FiniteSetTheorems, SequenceTheorems, TLAPS

-----------------------------------------------------------------------------
(* The Cache API's operations on a sequence of entries. *)

LEMMA AtHolds ==
    ASSUME NEW s \in Seq(Entry), NEW url, Holds(s, url)
    PROVE  At(s, url) \in DOMAIN s /\ s[At(s, url)].url = url
BY DEF At, Holds

\* `delete` takes one address away and leaves the others where they were.
LEMMA DeleteKeeps ==
    ASSUME NEW s \in Seq(Entry), NEW url
    PROVE  /\ Delete(s, url) \in Seq(Entry)
           /\ HeldOnce(s) => HeldOnce(Delete(s, url))
           /\ \A u : u # url /\ Holds(s, u) => Holds(Delete(s, url), u)
<1>1. CASE ~Holds(s, url)
    BY <1>1 DEF Delete
<1>2. CASE Holds(s, url)
  <2> DEFINE n == At(s, url)
             t == [i \in 1..Len(s) - 1 |-> IF i < n THEN s[i] ELSE s[i + 1]]
  <2>1. n \in 1..Len(s) /\ s[n].url = url /\ Len(s) \in Nat
      BY <1>2, AtHolds
  <2>2. Delete(s, url) = t
      BY <1>2 DEF Delete
  <2> HIDE DEF n
  <2>3. \A i \in 1..Len(s) - 1 : (IF i < n THEN s[i] ELSE s[i + 1]) \in Entry
      BY <2>1
  <2>4. t \in Seq(Entry) /\ Len(t) = Len(s) - 1
      BY <2>1, <2>3
  <2>5. ASSUME HeldOnce(s) PROVE HeldOnce(t)
      BY <2>1, <2>4, <2>5 DEF HeldOnce
  <2>6. ASSUME NEW u, u # url, Holds(s, u) PROVE Holds(t, u)
    <3>1. PICK i \in 1..Len(s) : s[i].url = u
        BY <2>6 DEF Holds
    <3>2. i # n
        BY <2>1, <2>6, <3>1
    <3>3. CASE i < n
      <4>1. i \in DOMAIN t /\ t[i] = s[i]
          BY <2>1, <2>4, <3>3
      <4> QED BY <3>1, <4>1 DEF Holds
    <3>4. CASE n < i
      <4>1. i - 1 \in DOMAIN t /\ t[i - 1] = s[i]
          BY <2>1, <2>4, <3>4
      <4> QED BY <3>1, <4>1 DEF Holds
    <3> QED BY <2>1, <3>2, <3>3, <3>4
  <2> QED BY <2>2, <2>4, <2>5, <2>6
<1> QED BY <1>1, <1>2

\* `put` adds one address and leaves the others where they were.
LEMMA PutKeeps ==
    ASSUME NEW s \in Seq(Entry), NEW url \in Cached \cup {OFFLINE_URL}, NEW r \in Rev
    PROVE  /\ Put(s, url, r) \in Seq(Entry)
           /\ HeldOnce(s) => HeldOnce(Put(s, url, r))
           /\ Holds(Put(s, url, r), url)
           /\ \A u : Holds(s, u) => Holds(Put(s, url, r), u)
<1>1. CASE Holds(s, url)
  <2> DEFINE n == At(s, url)
             t == [s EXCEPT ![n].rev = r]
  <2>1. n \in DOMAIN s /\ s[n].url = url /\ Put(s, url, r) = t
      BY <1>1, AtHolds DEF Put
  <2> HIDE DEF n
  <2>2. [s[n] EXCEPT !.rev = r] \in Entry /\ [s[n] EXCEPT !.rev = r].url = s[n].url
    <3>1. s[n] \in Entry
        BY <2>1
    <3>2. \A e \in Entry : [e EXCEPT !.rev = r] \in Entry /\ [e EXCEPT !.rev = r].url = e.url
        BY DEF Entry
    <3> QED BY <3>1, <3>2
  <2>3. t \in Seq(Entry) /\ DOMAIN t = DOMAIN s /\ \A i \in DOMAIN s : t[i].url = s[i].url
    <3> DEFINE changed == [s[n] EXCEPT !.rev = r]
    <3>1. t = [s EXCEPT ![n] = changed]
        OBVIOUS
    <3>2. changed \in Entry /\ changed.url = s[n].url
        BY <2>2
    <3> HIDE DEF t, changed
    <3> QED BY <2>1, <3>1, <3>2
  <2> HIDE DEF t
  <2> QED BY <2>1, <2>3 DEF HeldOnce, Holds
<1>2. CASE ~Holds(s, url)
  <2> DEFINE e == [url |-> url, rev |-> r]
             t == Append(s, e)
  <2>1. e \in Entry /\ e.url = url /\ Put(s, url, r) = t
      BY <1>2 DEF Put, Entry
  <2> HIDE DEF e
  <2>2. /\ t \in Seq(Entry) /\ DOMAIN t = 1..Len(s) + 1 /\ Len(s) \in Nat
        /\ DOMAIN s = 1..Len(s) /\ t[Len(s) + 1] = e
        /\ \A i \in DOMAIN s : t[i] = s[i]
      BY <2>1
  <2> HIDE DEF t
  <2>3. HeldOnce(s) => HeldOnce(t)
      BY <1>2, <2>1, <2>2 DEF HeldOnce, Holds
  <2>4. Holds(t, url) /\ \A u : Holds(s, u) => Holds(t, u)
      BY <2>1, <2>2 DEF Holds
  <2> QED BY <2>1, <2>2, <2>3, <2>4
<1> QED BY <1>1, <1>2

-----------------------------------------------------------------------------
(* The invariant: the caches' types, and the offline page. No store is for the
   offline page, and no trim dooms it, so only `install` touches it. *)

WorkerInv == WorkerTypeOK /\ OfflinePageKept

\* What a store may do to one cache.
LEMMA CacheStep ==
    ASSUME WorkerInv, NEW c \in KNOWN_CACHES, NEW s \in Seq(Entry), HeldOnce(s),
           active' = active,
           cache' = [cache EXCEPT ![c] = s],
           Holds(cache[c], OFFLINE_URL) => Holds(s, OFFLINE_URL)
    PROVE  /\ cache' \in [KNOWN_CACHES -> Seq(Entry)]
           /\ \A d \in KNOWN_CACHES : HeldOnce(cache'[d])
           /\ OfflinePageKept'
BY DEF WorkerInv, WorkerTypeOK, OfflinePageKept, KNOWN_CACHES, ASSETS, PAGES

LEMMA JobType ==
    ASSUME WorkerTypeOK, NEW j \in Job, job[j] # Idle
    PROVE  /\ job[j] \in Store /\ job[j].cache \in KNOWN_CACHES
           /\ job[j].url \in Cached /\ job[j].rev \in Rev /\ job[j].doomed \subseteq Cached
BY DEF WorkerTypeOK, Store

\* A step of a store leaves a store.
LEMMA StoreFields ==
    ASSUME NEW s \in Store
    PROVE  /\ \A x \in {"delete", "put", "keys", "trim"} : [s EXCEPT !.step = x] \in Store
           /\ \A D \in SUBSET Cached : [s EXCEPT !.doomed = D] \in Store
           /\ \A D \in SUBSET Cached : [s EXCEPT !.step = "trim", !.doomed = D] \in Store
BY DEF Store

\* The offline page is never doomed.
LEMMA DoomedCached ==
    ASSUME WorkerTypeOK, NEW c \in KNOWN_CACHES
    PROVE  Doomed(c) \in SUBSET Cached
<1>1. \A i \in Evictable(c) : cache[c][i] \in Entry /\ cache[c][i].url # OFFLINE_URL
    BY DEF Evictable, WorkerTypeOK
<1>2. \A i \in Evictable(c) : cache[c][i].url \in Cached
    BY <1>1 DEF Entry
<1> QED BY <1>2 DEF Doomed

LEMMA InitWorker == Init => WorkerInv
<1> SUFFICES ASSUME Init PROVE WorkerInv
    OBVIOUS
<1>1. <<>> \in Seq(Entry) /\ HeldOnce(<<>>)
    BY DEF HeldOnce
<1>2. cache \in [KNOWN_CACHES -> Seq(Entry)] /\ \A c \in KNOWN_CACHES : HeldOnce(cache[c])
    BY <1>1 DEF Init
<1>3. rev \in Rev /\ faults \in 0..MaxFaults
    BY WorkerAssumption DEF Init, Rev
<1> QED BY <1>1, <1>2, <1>3 DEF Init, WorkerInv, WorkerTypeOK, OfflinePageKept

LEMMA InstallStep == WorkerInv /\ Install => WorkerInv'
<1> SUFFICES ASSUME WorkerInv, Install PROVE WorkerInv'
    OBVIOUS
<1> DEFINE s == Put(cache[ASSETS], OFFLINE_URL, rev)
<1>1. cache[ASSETS] \in Seq(Entry) /\ HeldOnce(cache[ASSETS]) /\ rev \in Rev
    BY DEF WorkerInv, WorkerTypeOK, KNOWN_CACHES
<1>2. s \in Seq(Entry) /\ HeldOnce(s) /\ Holds(s, OFFLINE_URL)
    BY <1>1, PutKeeps
<1>3. cache' = [cache EXCEPT ![ASSETS] = s]
    BY DEF Install
<1> HIDE DEF s
<1> QED BY <1>2, <1>3 DEF Install, WorkerInv, WorkerTypeOK, OfflinePageKept, KNOWN_CACHES

\* Any fetch: a store begins, and the pages fetched are remembered.
LEMMA StartStep ==
    ASSUME WorkerInv, NEW j \in Job, NEW c \in KNOWN_CACHES, NEW url \in Cached,
           StartStore(j, c, url),
           UNCHANGED <<rev, active, cache, faults>>,
           disturbed' \in BOOLEAN,
           recent' = recent \/ recent' = Remember(recent, url, rev)
    PROVE  WorkerInv'
<1>1. /\ rev \in Rev /\ recent \in Seq(Entry) /\ job \in [Job -> Store \cup {Idle}]
      /\ FirstStep(c) \in {"delete", "put"}
    BY DEF WorkerInv, WorkerTypeOK, FirstStep
<1>2. [cache |-> c, url |-> url, rev |-> rev, step |-> FirstStep(c), doomed |-> {}] \in Store
    BY <1>1 DEF Store
<1>3. job' \in [Job -> Store \cup {Idle}]
    BY <1>1, <1>2 DEF StartStore
<1>4. Remember(recent, url, rev) \in Seq(Entry)
  <2> DEFINE all == Append(Delete(recent, url), [url |-> url, rev |-> rev])
  <2>1. [url |-> url, rev |-> rev] \in Entry
      BY <1>1 DEF Entry
  <2>2. all \in Seq(Entry) /\ all # <<>>
      BY <1>1, <2>1, DeleteKeeps
  <2>3. Tail(all) \in Seq(Entry)
      BY <2>2
  <2>4. Remember(recent, url, rev) = IF Len(all) > Limit[PAGES] THEN Tail(all) ELSE all
      BY DEF Remember
  <2> HIDE DEF all
  <2> QED BY <2>2, <2>3, <2>4
<1> QED BY <1>1, <1>3, <1>4 DEF WorkerInv, WorkerTypeOK, OfflinePageKept

LEMMA StepStep ==
    ASSUME WorkerInv, NEW j \in Job,
           \/ StepDelete(j) \/ StepPut(j) \/ StepKeys(j) \/ EndStore(j) \/ FailPut(j)
           \/ \E url \in Cached \cup {OFFLINE_URL} : StepTrim(j, url)
    PROVE  WorkerInv'
<1> DEFINE c == job[j].cache
<1>0. job[j] # Idle /\ WorkerTypeOK
    BY DEF WorkerInv, StepDelete, StepPut, StepKeys, EndStore, FailPut, StepTrim
<1>1. /\ job[j] \in Store /\ c \in KNOWN_CACHES /\ job[j].url \in Cached
      /\ job[j].rev \in Rev /\ job[j].doomed \subseteq Cached
      /\ job \in [Job -> Store \cup {Idle}]
      /\ cache[c] \in Seq(Entry) /\ HeldOnce(cache[c])
    BY <1>0, JobType DEF WorkerTypeOK
<1>2. CASE StepDelete(j)
  <2>1. /\ Delete(cache[c], job[j].url) \in Seq(Entry) /\ HeldOnce(Delete(cache[c], job[j].url))
        /\ Holds(cache[c], OFFLINE_URL) => Holds(Delete(cache[c], job[j].url), OFFLINE_URL)
      BY <1>1, DeleteKeeps, WorkerAssumption
  <2>2. job' \in [Job -> Store \cup {Idle}]
      BY <1>1, <1>2, StoreFields DEF StepDelete
  <2>3. cache' = [cache EXCEPT ![c] = Delete(cache[c], job[j].url)]
      BY <1>2 DEF StepDelete
  <2>4. /\ cache' \in [KNOWN_CACHES -> Seq(Entry)]
        /\ \A d \in KNOWN_CACHES : HeldOnce(cache'[d])
        /\ OfflinePageKept'
      BY <1>1, <1>2, <2>1, <2>3, CacheStep DEF StepDelete
  <2> QED BY <1>2, <2>2, <2>4 DEF StepDelete, WorkerInv, WorkerTypeOK
<1>3. CASE StepPut(j)
  <2>1. /\ Put(cache[c], job[j].url, job[j].rev) \in Seq(Entry)
        /\ HeldOnce(Put(cache[c], job[j].url, job[j].rev))
        /\ Holds(cache[c], OFFLINE_URL) => Holds(Put(cache[c], job[j].url, job[j].rev), OFFLINE_URL)
      BY <1>1, PutKeeps
  <2>2. job' \in [Job -> Store \cup {Idle}]
      BY <1>1, <1>3, StoreFields DEF StepPut
  <2>3. cache' = [cache EXCEPT ![c] = Put(cache[c], job[j].url, job[j].rev)]
      BY <1>3 DEF StepPut
  <2>4. /\ cache' \in [KNOWN_CACHES -> Seq(Entry)]
        /\ \A d \in KNOWN_CACHES : HeldOnce(cache'[d])
        /\ OfflinePageKept'
      BY <1>1, <1>3, <2>1, <2>3, CacheStep DEF StepPut
  <2> QED BY <1>3, <2>2, <2>4 DEF StepPut, WorkerInv, WorkerTypeOK
<1>4. CASE StepKeys(j)
  <2>1. Doomed(c) \in SUBSET Cached
      BY <1>0, <1>1, DoomedCached
  <2>2. job' \in [Job -> Store \cup {Idle}]
      BY <1>1, <1>4, <2>1, StoreFields DEF StepKeys
  <2> QED BY <1>4, <2>2 DEF StepKeys, WorkerInv, WorkerTypeOK, OfflinePageKept
<1>5. CASE \E url \in Cached \cup {OFFLINE_URL} : StepTrim(j, url)
  <2>1. PICK url \in job[j].doomed : StepTrim(j, url)
      BY <1>5 DEF StepTrim
  <2>2. url # OFFLINE_URL
      BY <1>1, WorkerAssumption
  <2>3. /\ Delete(cache[c], url) \in Seq(Entry) /\ HeldOnce(Delete(cache[c], url))
        /\ Holds(cache[c], OFFLINE_URL) => Holds(Delete(cache[c], url), OFFLINE_URL)
      BY <1>1, <2>2, DeleteKeeps
  <2>4. job[j].doomed \ {url} \in SUBSET Cached
      BY <1>1
  <2>5. job' \in [Job -> Store \cup {Idle}]
      BY <1>1, <2>1, <2>4, StoreFields DEF StepTrim
  <2>6. cache' = [cache EXCEPT ![c] = Delete(cache[c], url)]
      BY <2>1 DEF StepTrim
  <2>7. /\ cache' \in [KNOWN_CACHES -> Seq(Entry)]
        /\ \A d \in KNOWN_CACHES : HeldOnce(cache'[d])
        /\ OfflinePageKept'
      BY <1>1, <2>1, <2>3, <2>6, CacheStep DEF StepTrim
  <2> QED BY <2>1, <2>5, <2>7 DEF StepTrim, WorkerInv, WorkerTypeOK
<1>6. CASE EndStore(j)
    BY <1>1, <1>6 DEF EndStore, WorkerInv, WorkerTypeOK, OfflinePageKept
<1>7. CASE FailPut(j)
  <2>1. faults' \in 0..MaxFaults
      BY <1>0, <1>7, WorkerAssumption DEF FailPut, WorkerTypeOK
  <2> QED BY <1>0, <1>1, <1>7, <2>1 DEF FailPut, WorkerInv, WorkerTypeOK, OfflinePageKept
<1> QED BY <1>2, <1>3, <1>4, <1>5, <1>6, <1>7

LEMMA WorkerStep == WorkerInv /\ [Next]_vars => WorkerInv'
<1> SUFFICES ASSUME WorkerInv, [Next]_vars PROVE WorkerInv'
    OBVIOUS
<1>1. ASSUME NEW j \in Job, NEW url \in Cached,
             FetchPage(j, url) \/ FetchAsset(j, url) \/ Revalidate(j, url)
      PROVE  WorkerInv'
  <2>1. disturbed \in BOOLEAN
      BY DEF WorkerInv, WorkerTypeOK
  <2>2. CASE FetchPage(j, url)
      BY <2>1, <2>2, StartStep DEF FetchPage, KNOWN_CACHES
  <2>3. CASE FetchAsset(j, url)
      BY <2>1, <2>3, StartStep DEF FetchAsset, KNOWN_CACHES
  <2>4. CASE Revalidate(j, url)
      BY <2>1, <2>4, StartStep DEF Revalidate, KNOWN_CACHES
  <2> QED BY <1>1, <2>2, <2>3, <2>4
<1>2. CASE Stop
  <2>1. faults' \in 0..MaxFaults
      BY <1>2, WorkerAssumption DEF Stop, WorkerInv, WorkerTypeOK
  <2> QED BY <1>2, <2>1 DEF Stop, WorkerInv, WorkerTypeOK, OfflinePageKept
<1>3. CASE Deploy
    BY <1>3, WorkerAssumption DEF Deploy, WorkerInv, WorkerTypeOK, OfflinePageKept, Rev
<1>4. CASE UNCHANGED vars
    BY <1>4 DEF vars, WorkerInv, WorkerTypeOK, OfflinePageKept
<1> QED BY <1>1, <1>2, <1>3, <1>4, InstallStep, StepStep DEF Next

\* The caches stay well formed: no address is held twice.
THEOREM WorkerTypeCorrect == Spec => []WorkerTypeOK
<1>1. WorkerInv => WorkerTypeOK
    BY DEF WorkerInv
<1> QED BY <1>1, InitWorker, WorkerStep, PTL DEF Spec

\* The fallback of sw.js:138-157 is never lost (sw.js:28-31, 62-68).
THEOREM OfflinePageIsKept == Spec => []OfflinePageKept
<1>1. WorkerInv => OfflinePageKept
    BY DEF WorkerInv
<1> QED BY <1>1, InitWorker, WorkerStep, PTL DEF Spec

-----------------------------------------------------------------------------
(* The bound on the caches. *)

\* The addresses a cache holds, but the offline page, which no trim counts.
UrlsOf(s) == {s[i].url : i \in DOMAIN s} \ {OFFLINE_URL}

LEMMA UrlsDelete ==
    ASSUME NEW s \in Seq(Entry), HeldOnce(s), NEW url
    PROVE  UrlsOf(Delete(s, url)) = UrlsOf(s) \ {url}
<1>1. CASE ~Holds(s, url)
    BY <1>1 DEF Delete, Holds, UrlsOf
<1>2. CASE Holds(s, url)
  <2> DEFINE n == At(s, url)
             t == [i \in 1..Len(s) - 1 |-> IF i < n THEN s[i] ELSE s[i + 1]]
  <2>1. n \in 1..Len(s) /\ s[n].url = url /\ Len(s) \in Nat /\ DOMAIN s = 1..Len(s)
      BY <1>2, AtHolds
  <2>2. Delete(s, url) = t
      BY <1>2 DEF Delete
  <2>3. DOMAIN t = 1..Len(s) - 1
      OBVIOUS
  <2>4. \A i \in DOMAIN t : t[i] = s[i] \/ t[i] = s[i + 1]
      OBVIOUS
  <2>5. \A i \in DOMAIN s : (i < n => t[i] = s[i]) /\ (n < i => t[i - 1] = s[i])
      BY <2>1
  <2>6. \A i \in DOMAIN t : t[i].url # url
    <3>1. \A i \in DOMAIN s : i # n => s[i].url # url
        BY <2>1 DEF HeldOnce
    <3>2. \A i \in DOMAIN t : (i < n /\ t[i] = s[i]) \/ (i + 1 # n /\ t[i] = s[i + 1])
        BY <2>1
    <3> QED BY <2>1, <2>3, <3>1, <3>2
  <2> HIDE DEF n, t
  <2>7. ASSUME NEW i \in DOMAIN t PROVE \E k \in DOMAIN s : t[i].url = s[k].url
      BY <2>1, <2>3, <2>4
  <2>8. ASSUME NEW i \in DOMAIN s, s[i].url # url PROVE \E k \in DOMAIN t : t[k].url = s[i].url
    <3>1. i < n \/ n < i
        BY <2>1, <2>8
    <3>2. CASE i < n
        BY <2>1, <2>3, <2>5, <3>2
    <3>3. CASE n < i
      <4>1. i - 1 \in DOMAIN t /\ t[i - 1] = s[i]
          BY <2>1, <2>3, <2>5, <3>3
      <4> QED BY <4>1
    <3> QED BY <3>1, <3>2, <3>3
  <2>9. {t[i].url : i \in DOMAIN t} = {s[i].url : i \in DOMAIN s} \ {url}
      BY <2>6, <2>7, <2>8
  <2> DEFINE A == {t[i].url : i \in DOMAIN t}
             B == {s[i].url : i \in DOMAIN s}
  <2>10. UrlsOf(Delete(s, url)) = A \ {OFFLINE_URL} /\ UrlsOf(s) = B \ {OFFLINE_URL}
      BY <2>2 DEF UrlsOf
  <2> HIDE DEF A, B
  <2>11. A = B \ {url}
      BY <2>9 DEF A, B
  <2> QED BY <2>10, <2>11
<1> QED BY <1>1, <1>2

LEMMA UrlsPut ==
    ASSUME NEW s \in Seq(Entry), NEW url \in Cached \cup {OFFLINE_URL}, NEW r \in Rev
    PROVE  UrlsOf(Put(s, url, r)) = UrlsOf(s) \cup ({url} \ {OFFLINE_URL})
<1>1. CASE Holds(s, url)
  <2> DEFINE n == At(s, url)
             changed == [s[n] EXCEPT !.rev = r]
             t == [s EXCEPT ![n] = changed]
  <2>1. n \in DOMAIN s /\ s[n].url = url /\ Put(s, url, r) = t
      BY <1>1, AtHolds DEF Put
  <2>2. changed.url = s[n].url
    <3>1. s[n] \in Entry
        BY <2>1
    <3>2. \A e \in Entry : [e EXCEPT !.rev = r].url = e.url
        BY DEF Entry
    <3> QED BY <3>1, <3>2
  <2> HIDE DEF n, changed
  <2>3. DOMAIN t = DOMAIN s /\ \A i \in DOMAIN s : t[i].url = s[i].url
      BY <2>1, <2>2
  <2> HIDE DEF t
  <2>4. {t[i].url : i \in DOMAIN t} = {s[i].url : i \in DOMAIN s}
      BY <2>3
  <2>5. UrlsOf(t) = UrlsOf(s)
      BY <2>4 DEF UrlsOf
  <2>6. url \in {s[i].url : i \in DOMAIN s}
      BY <1>1 DEF Holds
  <2>7. {url} \ {OFFLINE_URL} \subseteq UrlsOf(s)
      BY <2>6 DEF UrlsOf
  <2> QED BY <2>1, <2>5, <2>7
<1>2. CASE ~Holds(s, url)
  <2> DEFINE e == [url |-> url, rev |-> r]
             t == Append(s, e)
  <2>1. e \in Entry /\ e.url = url /\ Put(s, url, r) = t
      BY <1>2 DEF Put, Entry
  <2> HIDE DEF e
  <2>2. /\ DOMAIN t = 1..Len(s) + 1 /\ Len(s) \in Nat
        /\ DOMAIN s = 1..Len(s) /\ t[Len(s) + 1] = e
        /\ \A i \in DOMAIN s : t[i] = s[i]
      BY <2>1
  <2> HIDE DEF t
  <2>3. DOMAIN t = DOMAIN s \cup {Len(s) + 1}
      BY <2>2
  <2>4. {t[i].url : i \in DOMAIN t} = {s[i].url : i \in DOMAIN s} \cup {url}
      BY <2>1, <2>2, <2>3
  <2> QED BY <2>1, <2>4 DEF UrlsOf
<1> QED BY <1>1, <1>2

\* A trim counts each address once.
LEMMA UrlsCount ==
    ASSUME NEW s \in Seq(Entry), HeldOnce(s)
    PROVE  LET E == {i \in DOMAIN s : s[i].url # OFFLINE_URL} IN
           /\ IsFiniteSet(E) /\ E \subseteq Nat
           /\ IsFiniteSet(UrlsOf(s)) /\ Cardinality(UrlsOf(s)) = Cardinality(E)
           /\ \A D \in SUBSET E :
                 Cardinality({s[i].url : i \in D}) <= Cardinality(D)
<1> DEFINE E == {i \in DOMAIN s : s[i].url # OFFLINE_URL}
           f == [i \in E |-> s[i].url]
<1>1. IsFiniteSet(E) /\ E \subseteq Nat
  <2>1. DOMAIN s = 1..Len(s) /\ Len(s) \in Nat
      OBVIOUS
  <2>2. IsFiniteSet(1..Len(s))
      BY <2>1, FS_Interval
  <2> QED BY <2>1, <2>2, FS_Subset
<1>2. f \in Surjection(E, UrlsOf(s))
    BY DEF Surjection, UrlsOf
<1>3. f \in Injection(E, UrlsOf(s))
  <2>1. f \in [E -> UrlsOf(s)]
      BY <1>2 DEF Surjection
  <2>2. \A i, k \in E : f[i] = f[k] => i = k
      BY DEF HeldOnce
  <2> HIDE DEF E, f
  <2> QED BY <2>1, <2>2 DEF Injection, IsInjective
<1>4. IsFiniteSet(UrlsOf(s)) /\ Cardinality(UrlsOf(s)) = Cardinality(E)
  <2> HIDE DEF E, f
  <2> QED BY <1>1, <1>2, <1>3, FS_Surjection
<1>5. ASSUME NEW D \in SUBSET E
      PROVE  Cardinality({s[i].url : i \in D}) <= Cardinality(D)
  <2> DEFINE U == {s[i].url : i \in D}
             g == [i \in D |-> s[i].url]
  <2>1. g \in Surjection(D, U)
      BY DEF Surjection
  <2>2. IsFiniteSet(D)
    <3> HIDE DEF E
    <3> QED BY <1>1, FS_Subset
  <2>3. Cardinality(U) <= Cardinality(D)
    <3> HIDE DEF U, g
    <3> QED BY <2>1, <2>2, FS_Surjection
  <2> QED BY <2>3
<1> QED BY <1>1, <1>4, <1>5

\* A set of naturals has a least element.
LEMMA OldestExists ==
    ASSUME NEW S \in SUBSET Nat, S # {}
    PROVE  \E m \in S : \A x \in S : m <= x
<1>1. PICK m \in S : \A x \in S : <<x, m>> \notin OpToRel(<, Nat)
    BY NatLessThanWellFounded, WFMin
<1>2. ASSUME NEW x \in S PROVE m <= x
  <2>1. m \in Nat /\ x \in Nat
      OBVIOUS
  <2>2. <<x, m>> \notin OpToRel(<, Nat)
      BY <1>1
  <2>3. ~(x < m)
      BY <2>1, <2>2 DEF OpToRel
  <2> QED BY <2>1, <2>3
<1> QED BY <1>2

\* What a trim does not doom is within the limit: all of it is no older than its
\* oldest, which has no more than the limit from itself on.
LEMMA KeptIsLimited ==
    ASSUME WorkerTypeOK, NEW c \in KNOWN_CACHES
    PROVE  Cardinality(UrlsOf(cache[c]) \ Doomed(c)) <= Limit[c]
<1> DEFINE s == cache[c]
           E == {i \in DOMAIN s : s[i].url # OFFLINE_URL}
           K == {i \in E : s[i].url \notin Doomed(c)}
<1>1. s \in Seq(Entry) /\ HeldOnce(s) /\ Limit[c] \in Nat
    BY WorkerAssumption DEF WorkerTypeOK
<1>2. /\ IsFiniteSet(E) /\ E \subseteq Nat
      /\ \A D \in SUBSET E : Cardinality({s[i].url : i \in D}) <= Cardinality(D)
  <2> HIDE DEF s
  <2> QED BY <1>1, UrlsCount
<1>3. Evictable(c) = E
    BY DEF Evictable
<1>4. \A i \in K : ~(Cardinality({j \in E : i <= j}) > Limit[c])
    BY <1>3 DEF Doomed
<1>5. UrlsOf(s) \ Doomed(c) = {s[i].url : i \in K}
    BY DEF UrlsOf
<1>6. Cardinality({s[i].url : i \in K}) <= Cardinality(K) /\ K \in SUBSET E
    BY <1>2
<1>7. Cardinality(K) <= Limit[c]
  <2>1. CASE K = {}
    <3>1. Cardinality(K) = 0
        BY <2>1, FS_EmptySet
    <3> QED BY <1>1, <3>1
  <2>2. CASE K # {}
    <3>1. K \in SUBSET Nat
        BY <1>2
    <3>2. PICK m \in K : \A x \in K : m <= x
      <4> HIDE DEF K
      <4> QED BY <2>2, <3>1, OldestExists
    <3> DEFINE F == {j \in E : m <= j}
    <3>3. K \subseteq F /\ F \subseteq E
        BY <3>2
    <3>4. IsFiniteSet(F) /\ Cardinality(F) \in Nat
      <4> HIDE DEF F, E
      <4> QED BY <1>2, <3>3, FS_Subset, FS_CardinalityType
    <3>5. Cardinality(K) <= Cardinality(F) /\ Cardinality(K) \in Nat
      <4> HIDE DEF F, K
      <4> QED BY <3>3, <3>4, FS_Subset, FS_CardinalityType
    <3>6. ~(Cardinality(F) > Limit[c])
        BY <1>4, <3>2
    <3> HIDE DEF F
    <3> QED BY <1>1, <3>4, <3>5, <3>6
  <2> QED BY <2>1, <2>2
<1>8. Cardinality(K) \in Nat /\ Cardinality({s[i].url : i \in K}) \in Nat
  <2>1. IsFiniteSet(K) /\ IsFiniteSet(UrlsOf(s) \ Doomed(c))
    <3>1. IsFiniteSet(UrlsOf(s))
      <4> HIDE DEF s
      <4> QED BY <1>1, UrlsCount
    <3>2. UrlsOf(s) \ Doomed(c) \in SUBSET UrlsOf(s)
        OBVIOUS
    <3> HIDE DEF K, E, s
    <3> QED BY <1>2, <1>6, <3>1, <3>2, FS_Subset
  <2> HIDE DEF K
  <2> QED BY <1>5, <2>1, FS_CardinalityType
<1> HIDE DEF K, E, s
<1>9. Cardinality(UrlsOf(s) \ Doomed(c)) <= Limit[c]
  <2> DEFINE n == Cardinality({s[i].url : i \in K})
  <2>1. Cardinality(UrlsOf(s) \ Doomed(c)) = n
      BY <1>5
  <2>2. n <= Cardinality(K) /\ n \in Nat /\ Cardinality(K) \in Nat
      BY <1>6, <1>8
  <2> HIDE DEF n
  <2> QED BY <1>1, <1>7, <2>1, <2>2
<1> QED BY <1>9 DEF s

\* However many of the stores that trim have yet to finish, what they will leave
\* is within the limit and one entry for each of the others that owes a trim.
Owing(c) == {j \in Busy(c) : job[j].step \in {"keys", "trim"}}
Trimming(c) == {j \in Busy(c) : job[j].step = "trim"}
Dooms == [j \in Job |-> IF job[j] = Idle THEN {} ELSE job[j].doomed]

Left(U, dooms, T) == U \ UNION {dooms[j] : j \in T}
Within(U, dooms, trims, n) ==
    \A T \in SUBSET trims : Cardinality(Left(U, dooms, T)) + Cardinality(T) <= n

Bound(c) == Limit[c] + Cardinality(Owing(c)) + Cardinality(Job) * faults
BoundInv == \A c \in KNOWN_CACHES :
    Within(UrlsOf(cache[c]), Dooms, Trimming(c), Bound(c))

LEMMA LeftFinite ==
    ASSUME NEW U, IsFiniteSet(U), NEW trims \in SUBSET Job, NEW T \in SUBSET trims, NEW dooms
    PROVE  /\ IsFiniteSet(Left(U, dooms, T)) /\ Cardinality(Left(U, dooms, T)) \in Nat
           /\ IsFiniteSet(T) /\ Cardinality(T) \in Nat
<1>1. Left(U, dooms, T) \in SUBSET U /\ T \in SUBSET Job
    BY DEF Left
<1>2. IsFiniteSet(Left(U, dooms, T)) /\ IsFiniteSet(T)
    BY <1>1, FS_Subset, JobAssumption
<1> QED BY <1>2, FS_CardinalityType

\* Less is left, or more is allowed.
LEMMA WithinLess ==
    ASSUME NEW U, IsFiniteSet(U), NEW trims \in SUBSET Job, NEW dooms, NEW n \in Nat,
           Within(U, dooms, trims, n),
           NEW V, NEW dooms2, NEW m \in Nat, n <= m,
           \A T \in SUBSET trims : Left(V, dooms2, T) \subseteq Left(U, dooms, T)
    PROVE  Within(V, dooms2, trims, m)
<1> SUFFICES ASSUME NEW T \in SUBSET trims
             PROVE  Cardinality(Left(V, dooms2, T)) + Cardinality(T) <= m
    BY DEF Within
<1>1. /\ IsFiniteSet(Left(U, dooms, T)) /\ Cardinality(Left(U, dooms, T)) \in Nat
      /\ Cardinality(T) \in Nat
    BY LeftFinite
<1>2. Left(V, dooms2, T) \in SUBSET Left(U, dooms, T)
    OBVIOUS
<1>3. /\ Cardinality(Left(V, dooms2, T)) <= Cardinality(Left(U, dooms, T))
      /\ Cardinality(Left(V, dooms2, T)) \in Nat
    BY <1>1, <1>2, FS_Subset, FS_CardinalityType
<1>4. Cardinality(Left(U, dooms, T)) + Cardinality(T) <= n
    BY DEF Within
<1> QED BY <1>1, <1>3, <1>4

\* One entry more, and one store more that owes a trim.
LEMMA WithinPut ==
    ASSUME NEW U, IsFiniteSet(U), NEW trims \in SUBSET Job, NEW dooms, NEW n \in Nat,
           Within(U, dooms, trims, n), NEW V, NEW url, V \subseteq U \cup {url}
    PROVE  Within(V, dooms, trims, n + 1)
<1> SUFFICES ASSUME NEW T \in SUBSET trims
             PROVE  Cardinality(Left(V, dooms, T)) + Cardinality(T) <= n + 1
    BY DEF Within
<1> DEFINE A == Left(U, dooms, T)
<1>1. IsFiniteSet(A) /\ Cardinality(A) \in Nat /\ Cardinality(T) \in Nat
    BY LeftFinite
<1>2. Left(V, dooms, T) \in SUBSET (A \cup {url})
    BY DEF Left
<1>3. Cardinality(A) + Cardinality(T) <= n
    BY DEF Within
<1> HIDE DEF A
<1>4. IsFiniteSet(A \cup {url}) /\ Cardinality(A \cup {url}) <= Cardinality(A) + 1
    BY <1>1, FS_AddElement
<1>5. Cardinality(A \cup {url}) \in Nat
    BY <1>4, FS_CardinalityType
<1>6. /\ Cardinality(Left(V, dooms, T)) <= Cardinality(A \cup {url})
      /\ Cardinality(Left(V, dooms, T)) \in Nat
    BY <1>2, <1>4, FS_Subset, FS_CardinalityType
<1> QED BY <1>1, <1>3, <1>4, <1>5, <1>6

\* A store that has read the keys leaves no more than the limit by itself.
LEMMA WithinKeys ==
    ASSUME NEW U, IsFiniteSet(U), NEW trims \in SUBSET Job, NEW dooms, NEW n \in Nat,
           Within(U, dooms, trims, n),
           NEW j \in Job, NEW dooms2, \A k \in trims : k # j => dooms2[k] = dooms[k],
           NEW owing \in SUBSET Job, trims \cup {j} \subseteq owing,
           NEW limit \in Nat, limit + Cardinality(owing) <= n,
           j \notin trims, Cardinality(U \ dooms2[j]) <= limit
    PROVE  Within(U, dooms2, trims \cup {j}, n)
<1> SUFFICES ASSUME NEW T \in SUBSET (trims \cup {j})
             PROVE  Cardinality(Left(U, dooms2, T)) + Cardinality(T) <= n
    BY DEF Within
<1>1. CASE j \notin T
  <2>1. T \in SUBSET trims
      BY <1>1
  <2>2. Left(U, dooms2, T) = Left(U, dooms, T)
      BY <1>1, <2>1 DEF Left
  <2> QED BY <2>1, <2>2 DEF Within
<1>2. CASE j \in T
  <2>1. Left(U, dooms2, T) \in SUBSET (U \ dooms2[j]) /\ U \ dooms2[j] \in SUBSET U
      BY <1>2 DEF Left
  <2>2. IsFiniteSet(U \ dooms2[j]) /\ IsFiniteSet(owing) /\ T \in SUBSET owing
      BY <2>1, FS_Subset, JobAssumption
  <2>3. Cardinality(Left(U, dooms2, T)) <= Cardinality(U \ dooms2[j])
        /\ Cardinality(T) <= Cardinality(owing)
      BY <2>1, <2>2, FS_Subset
  <2>4. Cardinality(U \ dooms2[j]) \in Nat /\ Cardinality(owing) \in Nat
      BY <2>2, FS_CardinalityType
  <2>5. Cardinality(Left(U, dooms2, T)) \in Nat /\ Cardinality(T) \in Nat
      BY <2>1, <2>2, FS_Subset, FS_CardinalityType
  <2> QED BY <2>3, <2>4, <2>5
<1> QED BY <1>1, <1>2

\* A store that has deleted all it doomed owes nothing more.
LEMMA WithinEnd ==
    ASSUME NEW U, IsFiniteSet(U), NEW trims \in SUBSET Job, NEW dooms, NEW n \in Nat,
           Within(U, dooms, trims, n),
           NEW j \in trims, dooms[j] = {},
           NEW dooms2, \A k \in trims : k # j => dooms2[k] = dooms[k]
    PROVE  Within(U, dooms2, trims \ {j}, n - 1)
<1> SUFFICES ASSUME NEW T \in SUBSET (trims \ {j})
             PROVE  Cardinality(Left(U, dooms2, T)) + Cardinality(T) <= n - 1
    BY DEF Within
<1>1. T \cup {j} \in SUBSET trims /\ T \in SUBSET trims /\ j \notin T
    OBVIOUS
<1>2. Left(U, dooms2, T) = Left(U, dooms, T \cup {j})
    BY <1>1 DEF Left
<1>3. IsFiniteSet(T) /\ Cardinality(T) \in Nat /\ Cardinality(Left(U, dooms, T \cup {j})) \in Nat
    BY <1>1, LeftFinite
<1>4. Cardinality(T \cup {j}) = Cardinality(T) + 1
    BY <1>1, <1>3, FS_AddElement
<1>5. Cardinality(Left(U, dooms, T \cup {j})) + Cardinality(T \cup {j}) <= n
    BY <1>1 DEF Within
<1> QED BY <1>2, <1>3, <1>4, <1>5

LEMMA Multiples ==
    ASSUME NEW n \in Nat, NEW x \in Nat
    PROVE  n * x \in Nat /\ n * (x + 1) = n * x + n
OBVIOUS

LEMMA WorkerFinite ==
    ASSUME WorkerInv, NEW c \in KNOWN_CACHES
    PROVE  /\ cache[c] \in Seq(Entry) /\ HeldOnce(cache[c]) /\ IsFiniteSet(UrlsOf(cache[c]))
           /\ Trimming(c) \in SUBSET Owing(c) /\ Trimming(c) \in SUBSET Job
           /\ Owing(c) \in SUBSET Job /\ IsFiniteSet(Owing(c))
           /\ Cardinality(Owing(c)) \in Nat /\ Cardinality(Owing(c)) <= Cardinality(Job)
           /\ Cardinality(Job) \in Nat /\ Limit[c] \in Nat /\ faults \in Nat
           /\ Cardinality(Job) * faults \in Nat /\ Bound(c) \in Nat
<1>1. cache[c] \in Seq(Entry) /\ HeldOnce(cache[c]) /\ Limit[c] \in Nat /\ faults \in Nat
    BY WorkerAssumption DEF WorkerInv, WorkerTypeOK
<1>2. IsFiniteSet(UrlsOf(cache[c]))
    BY <1>1, UrlsCount
<1>3. Trimming(c) \in SUBSET Owing(c) /\ Owing(c) \in SUBSET Job
    BY DEF Trimming, Owing, Busy
<1>4. /\ IsFiniteSet(Owing(c)) /\ Cardinality(Owing(c)) <= Cardinality(Job)
      /\ Cardinality(Owing(c)) \in Nat /\ Cardinality(Job) \in Nat
    BY <1>3, JobAssumption, FS_Subset, FS_CardinalityType
<1>5. Cardinality(Job) * faults \in Nat
    BY <1>1, <1>4, Multiples
<1> QED BY <1>1, <1>2, <1>3, <1>4, <1>5 DEF Bound

\* The bound of the next state, cache by cache.
LEMMA BoundNext ==
    ASSUME \A c \in KNOWN_CACHES :
               Within(UrlsOf(cache'[c]), Dooms', Trimming(c)', Bound(c)')
    PROVE  BoundInv'
BY DEF BoundInv, Within, Left, UrlsOf

\* A step that neither adds an address nor starts or ends a trim.
LEMMA QuietBound ==
    ASSUME WorkerInv, BoundInv, NEW c \in KNOWN_CACHES,
           UrlsOf(cache'[c]) \subseteq UrlsOf(cache[c]),
           Owing(c)' = Owing(c), Trimming(c)' = Trimming(c),
           \A k \in Trimming(c) : Dooms'[k] = Dooms[k],
           faults' = faults \/ faults' = faults + 1
    PROVE  Within(UrlsOf(cache'[c]), Dooms', Trimming(c)', Bound(c)')
<1> DEFINE all == Cardinality(Job)
           owed == Cardinality(Owing(c))
<1>1. /\ IsFiniteSet(UrlsOf(cache[c])) /\ Trimming(c) \in SUBSET Job /\ Bound(c) \in Nat
      /\ owed \in Nat /\ all \in Nat /\ Limit[c] \in Nat /\ faults \in Nat
      /\ all * faults \in Nat
    BY WorkerFinite
<1>2. Bound(c) = Limit[c] + owed + all * faults /\ Bound(c)' = Limit[c] + owed + all * faults'
    BY DEF Bound
<1>3. all * faults' = all * faults \/ all * faults' = all * faults + all
  <2> HIDE DEF all
  <2> QED BY <1>1, Multiples
<1>4. Bound(c) <= Bound(c)' /\ Bound(c)' \in Nat
  <2> HIDE DEF all, owed
  <2> QED BY <1>1, <1>2, <1>3
<1>5. \A T \in SUBSET Trimming(c) :
          Left(UrlsOf(cache'[c]), Dooms', T) \subseteq Left(UrlsOf(cache[c]), Dooms, T)
    BY DEF Left
<1>6. Within(UrlsOf(cache[c]), Dooms, Trimming(c), Bound(c))
    BY DEF BoundInv
<1>7. Within(UrlsOf(cache'[c]), Dooms', Trimming(c), Bound(c)')
    BY <1>1, <1>4, <1>5, <1>6, WithinLess
<1> QED BY <1>7

\* Which trims are under way, after a step of one store.
LEMMA JobMoves ==
    ASSUME WorkerInv, NEW j \in Job, NEW c \in KNOWN_CACHES,
           DOMAIN job' = Job, \A k \in Job : k # j => job'[k] = job[k],
           \/ job[j] = Idle \/ job[j].cache # c \/ job[j].step \in {"delete", "put"},
           \/ job'[j] = Idle \/ job'[j].cache # c \/ job'[j].step \in {"delete", "put"}
    PROVE  /\ Owing(c)' = Owing(c) /\ Trimming(c)' = Trimming(c)
           /\ \A k \in Trimming(c) : Dooms'[k] = Dooms[k]
<1>1. \A k \in Job : k \in Owing(c)' <=> k \in Owing(c)
    BY DEF Owing, Busy
<1>2. \A k \in Job : k \in Trimming(c)' <=> k \in Trimming(c)
    BY DEF Trimming, Busy
<1>3. /\ Owing(c)' \subseteq Job /\ Owing(c) \subseteq Job
      /\ Trimming(c)' \subseteq Job /\ Trimming(c) \subseteq Job
    BY DEF Owing, Trimming, Busy
<1>4. \A k \in Trimming(c) : k # j
    BY DEF Trimming, Busy
<1>5. \A k \in Trimming(c) : Dooms'[k] = Dooms[k]
    BY <1>3, <1>4 DEF Dooms
<1> QED BY <1>1, <1>2, <1>3, <1>5

\* What a step makes of its store.
LEMMA StepFields ==
    ASSUME NEW s \in Store
    PROVE  /\ \A x : [s EXCEPT !.step = x].cache = s.cache
           /\ \A x : [s EXCEPT !.step = x].step = x
           /\ \A x : [s EXCEPT !.step = x].doomed = s.doomed
           /\ \A D : [s EXCEPT !.doomed = D].cache = s.cache
           /\ \A D : [s EXCEPT !.doomed = D].step = s.step
           /\ \A D : [s EXCEPT !.doomed = D].doomed = D
           /\ \A x, D : [s EXCEPT !.step = x, !.doomed = D].cache = s.cache
           /\ \A x, D : [s EXCEPT !.step = x, !.doomed = D].step = x
           /\ \A x, D : [s EXCEPT !.step = x, !.doomed = D].doomed = D
BY DEF Store

\* The steps that leave every trim as it is.
LEMMA QuietSteps ==
    ASSUME WorkerInv, BoundInv, WorkerInv', NEW j \in Job, NEW url \in Cached,
           \/ FetchPage(j, url) \/ FetchAsset(j, url) \/ Revalidate(j, url)
           \/ StepDelete(j) \/ FailPut(j)
    PROVE  BoundInv'
<1> SUFFICES ASSUME NEW c \in KNOWN_CACHES
             PROVE  Within(UrlsOf(cache'[c]), Dooms', Trimming(c)', Bound(c)')
    BY BoundNext
<1>1. job \in [Job -> Store \cup {Idle}] /\ job' \in [Job -> Store \cup {Idle}]
    BY DEF WorkerInv, WorkerTypeOK
<1>2. \A k \in Job : k # j => job'[k] = job[k]
    BY <1>1 DEF FetchPage, FetchAsset, Revalidate, StartStore, StepDelete, FailPut
<1>3. job[j] = Idle \/ job[j].step \in {"delete", "put"}
    BY DEF FetchPage, FetchAsset, Revalidate, StartStore, StepDelete, FailPut
<1>4. job'[j] = Idle \/ job'[j].step \in {"delete", "put"}
  <2>1. CASE FetchPage(j, url) \/ FetchAsset(j, url) \/ Revalidate(j, url)
      BY <1>1, <2>1 DEF FetchPage, FetchAsset, Revalidate, StartStore, FirstStep
  <2>2. CASE StepDelete(j)
    <3>1. job[j] \in Store /\ job'[j] = [job[j] EXCEPT !.step = "put"]
        BY <1>1, <2>2 DEF StepDelete
    <3> QED BY <3>1, StepFields
  <2>3. CASE FailPut(j)
      BY <1>1, <2>3 DEF FailPut
  <2> QED BY <2>1, <2>2, <2>3
<1>5. /\ Owing(c)' = Owing(c) /\ Trimming(c)' = Trimming(c)
      /\ \A k \in Trimming(c) : Dooms'[k] = Dooms[k]
    BY <1>1, <1>2, <1>3, <1>4, JobMoves
<1>6. UrlsOf(cache'[c]) \subseteq UrlsOf(cache[c])
  <2>1. CASE StepDelete(j)
    <3>1. cache'[c] = cache[c] \/ cache'[c] = Delete(cache[c], job[j].url)
        BY <2>1 DEF StepDelete, WorkerInv, WorkerTypeOK
    <3>2. UrlsOf(Delete(cache[c], job[j].url)) = UrlsOf(cache[c]) \ {job[j].url}
        BY WorkerFinite, UrlsDelete
    <3> QED BY <3>1, <3>2
  <2>2. CASE cache' = cache
      BY <2>2
  <2> QED BY <2>1, <2>2 DEF FetchPage, FetchAsset, Revalidate, FailPut
<1>7. faults' = faults \/ faults' = faults + 1
    BY DEF FetchPage, FetchAsset, Revalidate, StepDelete, FailPut
<1> QED BY <1>5, <1>6, <1>7, QuietBound

\* A put adds an address and a store that owes a trim.
LEMMA PutBound ==
    ASSUME WorkerInv, BoundInv, WorkerInv', NEW j \in Job, StepPut(j)
    PROVE  BoundInv'
<1> SUFFICES ASSUME NEW c \in KNOWN_CACHES
             PROVE  Within(UrlsOf(cache'[c]), Dooms', Trimming(c)', Bound(c)')
    BY BoundNext
<1>1. /\ job \in [Job -> Store \cup {Idle}] /\ job' \in [Job -> Store \cup {Idle}]
      /\ job[j] # Idle /\ job[j].step = "put" /\ job[j] \in Store
      /\ job'[j] = [job[j] EXCEPT !.step = "keys"]
      /\ \A k \in Job : k # j => job'[k] = job[k]
      /\ cache' = [cache EXCEPT ![job[j].cache] = Put(@, job[j].url, job[j].rev)]
      /\ faults' = faults
    BY DEF WorkerInv, WorkerTypeOK, StepPut
<1>2. job'[j] # Idle /\ job'[j].step = "keys" /\ job'[j].cache = job[j].cache
      /\ job'[j].doomed = job[j].doomed
  <2>1. job'[j] \in Store
      BY <1>1, StoreFields
  <2>2. job'[j] # Idle
      BY <2>1, IdleAssumption
  <2> QED BY <1>1, <2>2, StepFields
<1>3. CASE job[j].cache # c
  <2>1. /\ Owing(c)' = Owing(c) /\ Trimming(c)' = Trimming(c)
        /\ \A k \in Trimming(c) : Dooms'[k] = Dooms[k]
      BY <1>1, <1>2, <1>3, JobMoves
  <2>2. cache'[c] = cache[c]
      BY <1>1, <1>3 DEF WorkerInv, WorkerTypeOK
  <2> QED BY <1>1, <2>1, <2>2, QuietBound
<1>4. CASE job[j].cache = c
  <2>1. j \notin Owing(c) /\ Owing(c)' = Owing(c) \cup {j} /\ Trimming(c)' = Trimming(c)
    <3>1. \A k \in Job : k \in Owing(c)' <=> k \in Owing(c) \/ k = j
        BY <1>1, <1>2, <1>4 DEF Owing, Busy
    <3>2. \A k \in Job : k \in Trimming(c)' <=> k \in Trimming(c)
        BY <1>1, <1>2, <1>4 DEF Trimming, Busy
    <3>3. /\ Owing(c)' \subseteq Job /\ Owing(c) \subseteq Job
          /\ Trimming(c)' \subseteq Job /\ Trimming(c) \subseteq Job
        BY DEF Owing, Trimming, Busy
    <3>4. j \notin Owing(c)
        BY <1>1 DEF Owing
    <3> QED BY <3>1, <3>2, <3>3, <3>4
  <2>2. Dooms' = Dooms
    <3>1. \A k \in Job : Dooms'[k] = Dooms[k]
        BY <1>1, <1>2 DEF Dooms
    <3> QED BY <3>1 DEF Dooms
  <2>3. /\ cache[c] \in Seq(Entry) /\ IsFiniteSet(UrlsOf(cache[c])) /\ IsFiniteSet(Owing(c))
        /\ Trimming(c) \in SUBSET Job /\ Bound(c) \in Nat /\ Cardinality(Owing(c)) \in Nat
        /\ Limit[c] \in Nat /\ Cardinality(Job) * faults \in Nat
      BY WorkerFinite
  <2>4. Bound(c)' = Bound(c) + 1
    <3>1. Cardinality(Owing(c)') = Cardinality(Owing(c)) + 1
        BY <2>1, <2>3, FS_AddElement
    <3> QED BY <1>1, <2>3, <3>1 DEF Bound
  <2>5. UrlsOf(cache'[c]) \subseteq UrlsOf(cache[c]) \cup {job[j].url}
    <3>1. cache'[c] = Put(cache[c], job[j].url, job[j].rev)
        BY <1>1, <1>4 DEF WorkerInv, WorkerTypeOK
    <3>2. job[j].url \in Cached /\ job[j].rev \in Rev
        BY <1>1 DEF Store
    <3> QED BY <2>3, <3>1, <3>2, UrlsPut
  <2>6. Within(UrlsOf(cache[c]), Dooms, Trimming(c), Bound(c))
      BY DEF BoundInv
  <2>7. Within(UrlsOf(cache'[c]), Dooms, Trimming(c), Bound(c) + 1)
      BY <2>3, <2>5, <2>6, WithinPut
  <2> QED BY <2>1, <2>2, <2>4, <2>7
<1> QED BY <1>3, <1>4

\* A store that reads the keys dooms all but the limit.
LEMMA KeysBound ==
    ASSUME WorkerInv, BoundInv, WorkerInv', NEW j \in Job, StepKeys(j)
    PROVE  BoundInv'
<1> SUFFICES ASSUME NEW c \in KNOWN_CACHES
             PROVE  Within(UrlsOf(cache'[c]), Dooms', Trimming(c)', Bound(c)')
    BY BoundNext
<1>1. /\ job \in [Job -> Store \cup {Idle}] /\ job' \in [Job -> Store \cup {Idle}]
      /\ job[j] # Idle /\ job[j].step = "keys" /\ job[j] \in Store
      /\ job'[j] = [job[j] EXCEPT !.step = "trim", !.doomed = Doomed(job[j].cache)]
      /\ \A k \in Job : k # j => job'[k] = job[k]
      /\ cache' = cache /\ faults' = faults
    BY DEF WorkerInv, WorkerTypeOK, StepKeys
<1>2. job'[j].step = "trim" /\ job'[j].cache = job[j].cache
      /\ job'[j].doomed = Doomed(job[j].cache)
    BY <1>1, StepFields
<1>3. job'[j] # Idle
  <2>1. Doomed(job[j].cache) \in SUBSET Cached
      BY <1>1, JobType, DoomedCached DEF WorkerInv
  <2>2. job'[j] \in Store
      BY <1>1, <2>1, StoreFields
  <2> QED BY <2>2, IdleAssumption
<1>4. CASE job[j].cache # c
  <2>1. /\ Owing(c)' = Owing(c) /\ Trimming(c)' = Trimming(c)
        /\ \A k \in Trimming(c) : Dooms'[k] = Dooms[k]
      BY <1>1, <1>2, <1>4, JobMoves
  <2> QED BY <1>1, <2>1, QuietBound
<1>5. CASE job[j].cache = c
  <2>1. j \notin Trimming(c) /\ j \in Owing(c)
        /\ Owing(c)' = Owing(c) /\ Trimming(c)' = Trimming(c) \cup {j}
    <3>1. \A k \in Job : k \in Owing(c)' <=> k \in Owing(c)
        BY <1>1, <1>2, <1>3, <1>5 DEF Owing, Busy
    <3>2. \A k \in Job : k \in Trimming(c)' <=> k \in Trimming(c) \/ k = j
        BY <1>1, <1>2, <1>3, <1>5 DEF Trimming, Busy
    <3>3. /\ Owing(c)' \subseteq Job /\ Owing(c) \subseteq Job
          /\ Trimming(c)' \subseteq Job /\ Trimming(c) \subseteq Job
        BY DEF Owing, Trimming, Busy
    <3>4. j \notin Trimming(c) /\ j \in Owing(c)
        BY <1>1, <1>5 DEF Owing, Trimming, Busy
    <3> QED BY <3>1, <3>2, <3>3, <3>4
  <2>2. \A k \in Trimming(c) : k # j => Dooms'[k] = Dooms[k]
      BY <1>1 DEF Dooms, Trimming, Busy
  <2>3. Dooms'[j] = Doomed(c)
      BY <1>2, <1>3, <1>5 DEF Dooms
  <2>4. /\ IsFiniteSet(UrlsOf(cache[c])) /\ Trimming(c) \in SUBSET Owing(c)
        /\ Trimming(c) \in SUBSET Job /\ Owing(c) \in SUBSET Job /\ Bound(c) \in Nat
        /\ Cardinality(Owing(c)) \in Nat /\ Limit[c] \in Nat
        /\ Cardinality(Job) * faults \in Nat
      BY WorkerFinite
  <2>5. Limit[c] + Cardinality(Owing(c)) <= Bound(c) /\ Bound(c)' = Bound(c)
    <3>1. Bound(c)' = Bound(c)
        BY <1>1, <2>1 DEF Bound
    <3> QED BY <2>4, <3>1 DEF Bound
  <2>6. Cardinality(UrlsOf(cache[c]) \ Dooms'[j]) <= Limit[c]
      BY <2>3, KeptIsLimited DEF WorkerInv
  <2>7. Within(UrlsOf(cache[c]), Dooms, Trimming(c), Bound(c))
      BY DEF BoundInv
  <2>8. Trimming(c) \cup {j} \subseteq Owing(c)
      BY <2>1, <2>4
  <2>9. Within(UrlsOf(cache[c]), Dooms', Trimming(c) \cup {j}, Bound(c))
      BY <2>1, <2>2, <2>4, <2>5, <2>6, <2>7, <2>8, WithinKeys
  <2> QED BY <1>1, <2>1, <2>5, <2>9
<1> QED BY <1>4, <1>5

\* A delete takes away what its store was still to take away.
LEMMA TrimBound ==
    ASSUME WorkerInv, BoundInv, WorkerInv', NEW j \in Job,
           NEW url \in Cached \cup {OFFLINE_URL}, StepTrim(j, url)
    PROVE  BoundInv'
<1> SUFFICES ASSUME NEW c \in KNOWN_CACHES
             PROVE  Within(UrlsOf(cache'[c]), Dooms', Trimming(c)', Bound(c)')
    BY BoundNext
<1>1. /\ job \in [Job -> Store \cup {Idle}] /\ job' \in [Job -> Store \cup {Idle}]
      /\ job[j] # Idle /\ job[j].step = "trim" /\ job[j] \in Store
      /\ job'[j] = [job[j] EXCEPT !.doomed = job[j].doomed \ {url}]
      /\ \A k \in Job : k # j => job'[k] = job[k]
      /\ cache' = [cache EXCEPT ![job[j].cache] = Delete(@, url)] /\ faults' = faults
    BY DEF WorkerInv, WorkerTypeOK, StepTrim
<1>2. job'[j].step = "trim" /\ job'[j].cache = job[j].cache
      /\ job'[j].doomed = job[j].doomed \ {url}
    BY <1>1, StepFields
<1>3. job'[j] # Idle
  <2>1. job[j].doomed \ {url} \in SUBSET Cached
      BY <1>1 DEF Store
  <2>2. job'[j] \in Store
      BY <1>1, <2>1, StoreFields
  <2> QED BY <2>2, IdleAssumption
<1>4. CASE job[j].cache # c
  <2>1. /\ Owing(c)' = Owing(c) /\ Trimming(c)' = Trimming(c)
        /\ \A k \in Trimming(c) : Dooms'[k] = Dooms[k]
      BY <1>1, <1>2, <1>4, JobMoves
  <2>2. cache'[c] = cache[c]
      BY <1>1, <1>4 DEF WorkerInv, WorkerTypeOK
  <2> QED BY <1>1, <2>1, <2>2, QuietBound
<1>5. CASE job[j].cache = c
  <2>1. Owing(c)' = Owing(c) /\ Trimming(c)' = Trimming(c)
    <3>1. \A k \in Job : k \in Owing(c)' <=> k \in Owing(c)
        BY <1>1, <1>2, <1>3, <1>5 DEF Owing, Busy
    <3>2. \A k \in Job : k \in Trimming(c)' <=> k \in Trimming(c)
        BY <1>1, <1>2, <1>3, <1>5 DEF Trimming, Busy
    <3>3. /\ Owing(c)' \subseteq Job /\ Owing(c) \subseteq Job
          /\ Trimming(c)' \subseteq Job /\ Trimming(c) \subseteq Job
        BY DEF Owing, Trimming, Busy
    <3> QED BY <3>1, <3>2, <3>3
  <2>2. \A k \in Job : Dooms'[k] = Dooms[k] \/ Dooms'[k] = Dooms[k] \ {url}
    <3>1. Dooms[j] = job[j].doomed /\ Dooms'[j] = job'[j].doomed
        BY <1>1, <1>3 DEF Dooms
    <3>2. \A k \in Job : k # j => Dooms'[k] = Dooms[k]
        BY <1>1 DEF Dooms
    <3> QED BY <1>2, <3>1, <3>2
  <2>3. UrlsOf(cache'[c]) = UrlsOf(cache[c]) \ {url}
    <3>1. cache'[c] = Delete(cache[c], url)
        BY <1>1, <1>5 DEF WorkerInv, WorkerTypeOK
    <3> QED BY <3>1, WorkerFinite, UrlsDelete
  <2>4. /\ IsFiniteSet(UrlsOf(cache[c])) /\ Trimming(c) \in SUBSET Job /\ Bound(c) \in Nat
      BY WorkerFinite
  <2>5. \A T \in SUBSET Trimming(c) :
            Left(UrlsOf(cache'[c]), Dooms', T) \subseteq Left(UrlsOf(cache[c]), Dooms, T)
    <3> SUFFICES ASSUME NEW T \in SUBSET Trimming(c),
                        NEW u \in UrlsOf(cache'[c]), \A k \in T : u \notin Dooms'[k]
                 PROVE  u \in UrlsOf(cache[c]) /\ \A k \in T : u \notin Dooms[k]
        BY DEF Left
    <3>1. u \in UrlsOf(cache[c]) /\ u # url
        BY <2>3
    <3>2. \A k \in T : k \in Job
        BY <2>4
    <3> QED BY <2>2, <3>1, <3>2
  <2>6. Within(UrlsOf(cache[c]), Dooms, Trimming(c), Bound(c))
      BY DEF BoundInv
  <2>7. Bound(c)' = Bound(c)
      BY <1>1, <2>1 DEF Bound
  <2>8. Bound(c) <= Bound(c)
      BY <2>4
  <2>9. Within(UrlsOf(cache'[c]), Dooms', Trimming(c), Bound(c))
      BY <2>4, <2>5, <2>6, <2>8, WithinLess
  <2> QED BY <2>1, <2>7, <2>9
<1> QED BY <1>4, <1>5

\* A store that has trimmed gives its place back.
LEMMA EndBound ==
    ASSUME WorkerInv, BoundInv, WorkerInv', NEW j \in Job, EndStore(j)
    PROVE  BoundInv'
<1> SUFFICES ASSUME NEW c \in KNOWN_CACHES
             PROVE  Within(UrlsOf(cache'[c]), Dooms', Trimming(c)', Bound(c)')
    BY BoundNext
<1>1. /\ job \in [Job -> Store \cup {Idle}] /\ job' \in [Job -> Store \cup {Idle}]
      /\ job[j] # Idle /\ job[j].step = "trim" /\ job[j].doomed = {}
      /\ job'[j] = Idle
      /\ \A k \in Job : k # j => job'[k] = job[k]
      /\ cache' = cache /\ faults' = faults
    BY DEF WorkerInv, WorkerTypeOK, EndStore
<1>2. CASE job[j].cache # c
  <2>1. /\ Owing(c)' = Owing(c) /\ Trimming(c)' = Trimming(c)
        /\ \A k \in Trimming(c) : Dooms'[k] = Dooms[k]
      BY <1>1, <1>2, JobMoves
  <2> QED BY <1>1, <2>1, QuietBound
<1>3. CASE job[j].cache = c
  <2>1. j \in Trimming(c) /\ j \in Owing(c)
        /\ Owing(c)' = Owing(c) \ {j} /\ Trimming(c)' = Trimming(c) \ {j}
    <3>1. \A k \in Job : k \in Owing(c)' <=> k \in Owing(c) /\ k # j
        BY <1>1, <1>3 DEF Owing, Busy
    <3>2. \A k \in Job : k \in Trimming(c)' <=> k \in Trimming(c) /\ k # j
        BY <1>1, <1>3 DEF Trimming, Busy
    <3>3. /\ Owing(c)' \subseteq Job /\ Owing(c) \subseteq Job
          /\ Trimming(c)' \subseteq Job /\ Trimming(c) \subseteq Job
        BY DEF Owing, Trimming, Busy
    <3>4. j \in Trimming(c) /\ j \in Owing(c)
        BY <1>1, <1>3 DEF Owing, Trimming, Busy
    <3> QED BY <3>1, <3>2, <3>3, <3>4
  <2>2. /\ Dooms[j] = {}
        /\ \A k \in Trimming(c) : k # j => Dooms'[k] = Dooms[k]
      BY <1>1 DEF Dooms, Trimming, Busy
  <2>3. /\ IsFiniteSet(UrlsOf(cache[c])) /\ IsFiniteSet(Owing(c))
        /\ Trimming(c) \in SUBSET Job /\ Bound(c) \in Nat
        /\ Cardinality(Owing(c)) \in Nat /\ Limit[c] \in Nat
        /\ Cardinality(Job) * faults \in Nat
      BY WorkerFinite
  <2>4. Bound(c)' = Bound(c) - 1
    <3>1. Cardinality(Owing(c)') = Cardinality(Owing(c)) - 1
        BY <2>1, <2>3, FS_RemoveElement
    <3> QED BY <1>1, <2>3, <3>1 DEF Bound
  <2>5. Within(UrlsOf(cache[c]), Dooms, Trimming(c), Bound(c))
      BY DEF BoundInv
  <2>6. Within(UrlsOf(cache[c]), Dooms', Trimming(c) \ {j}, Bound(c) - 1)
      BY <2>1, <2>2, <2>3, <2>5, WithinEnd
  <2> QED BY <1>1, <2>1, <2>4, <2>6
<1> QED BY <1>2, <1>3

\* A death of the worker cuts off no more trims than there are stores.
LEMMA StopBound ==
    ASSUME WorkerInv, BoundInv, Stop
    PROVE  BoundInv'
<1> SUFFICES ASSUME NEW c \in KNOWN_CACHES
             PROVE  Within(UrlsOf(cache'[c]), Dooms', Trimming(c)', Bound(c)')
    BY BoundNext
<1> DEFINE all == Cardinality(Job)
           owed == Cardinality(Owing(c))
<1>1. /\ IsFiniteSet(UrlsOf(cache[c])) /\ Trimming(c) \in SUBSET Job /\ Bound(c) \in Nat
      /\ owed \in Nat /\ owed <= all /\ all \in Nat /\ Limit[c] \in Nat
      /\ faults \in Nat /\ all * faults \in Nat
    BY WorkerFinite
<1>2. cache' = cache /\ faults' = faults + 1 /\ \A k \in Job : job'[k] = Idle
    BY DEF Stop
<1>3. Owing(c)' = {} /\ Trimming(c)' = {}
    BY <1>2 DEF Owing, Trimming, Busy
<1>4. Bound(c) <= Bound(c)' /\ Bound(c)' \in Nat
  <2>1. Bound(c) = Limit[c] + owed + all * faults
      BY DEF Bound
  <2>2. Bound(c)' = Limit[c] + 0 + all * (faults + 1)
      BY <1>2, <1>3, FS_EmptySet DEF Bound
  <2> HIDE DEF all, owed
  <2>3. all * (faults + 1) = all * faults + all
      BY <1>1, Multiples
  <2> QED BY <1>1, <2>1, <2>2, <2>3
<1>5. Within(UrlsOf(cache[c]), Dooms, {}, Bound(c))
    BY DEF BoundInv, Within
<1>6. \A T \in SUBSET {} :
          Left(UrlsOf(cache[c]), Dooms', T) \subseteq Left(UrlsOf(cache[c]), Dooms, T)
    BY DEF Left
<1>7. Within(UrlsOf(cache[c]), Dooms', {}, Bound(c)')
  <2>1. {} \in SUBSET Job
      OBVIOUS
  <2> QED BY <1>1, <1>4, <1>5, <1>6, <2>1, WithinLess
<1> QED BY <1>2, <1>3, <1>7

\* What leaves the stores alone: an install, a deploy, a stutter.
LEMMA StillBound ==
    ASSUME WorkerInv, BoundInv, Install \/ Deploy \/ UNCHANGED vars
    PROVE  BoundInv'
<1> SUFFICES ASSUME NEW c \in KNOWN_CACHES
             PROVE  Within(UrlsOf(cache'[c]), Dooms', Trimming(c)', Bound(c)')
    BY BoundNext
<1>1. job' = job /\ faults' = faults
    BY DEF Install, Deploy, vars
<1>2. Owing(c)' = Owing(c) /\ Trimming(c)' = Trimming(c) /\ Dooms' = Dooms
    BY <1>1 DEF Owing, Trimming, Busy, Dooms
<1>3. UrlsOf(cache'[c]) \subseteq UrlsOf(cache[c])
  <2>1. CASE Install
    <3>1. cache'[c] = cache[c] \/ cache'[c] = Put(cache[c], OFFLINE_URL, rev)
        BY <2>1 DEF Install, WorkerInv, WorkerTypeOK
    <3>2. UrlsOf(Put(cache[c], OFFLINE_URL, rev))
              = UrlsOf(cache[c]) \cup ({OFFLINE_URL} \ {OFFLINE_URL})
        BY WorkerFinite, UrlsPut DEF WorkerInv, WorkerTypeOK
    <3> QED BY <3>1, <3>2
  <2>2. CASE Deploy \/ UNCHANGED vars
      BY <2>2 DEF Deploy, vars
  <2> QED BY <2>1, <2>2
<1> QED BY <1>1, <1>2, <1>3, QuietBound

LEMMA BoundStep == WorkerInv /\ WorkerInv' /\ BoundInv /\ [Next]_vars => BoundInv'
<1> SUFFICES ASSUME WorkerInv, WorkerInv', BoundInv, [Next]_vars PROVE BoundInv'
    OBVIOUS
<1>1. ASSUME NEW j \in Job, StepDelete(j) \/ FailPut(j)
      PROVE  BoundInv'
  <2>1. job[j].url \in Cached
      BY <1>1 DEF StepDelete, FailPut, WorkerInv, WorkerTypeOK, Store
  <2> QED BY <1>1, <2>1, QuietSteps
<1>2. ASSUME NEW j \in Job, NEW url \in Cached,
             FetchPage(j, url) \/ FetchAsset(j, url) \/ Revalidate(j, url)
      PROVE  BoundInv'
    BY <1>2, QuietSteps
<1> QED BY <1>1, <1>2, StillBound, PutBound, KeysBound, TrimBound, EndBound, StopBound DEF Next

LEMMA InitBound == Init => BoundInv
<1> SUFFICES ASSUME Init, NEW c \in KNOWN_CACHES
             PROVE  Within(UrlsOf(cache[c]), Dooms, Trimming(c), Bound(c))
    BY DEF BoundInv
<1>1. UrlsOf(cache[c]) = {} /\ Trimming(c) = {}
    BY DEF Init, UrlsOf, Trimming, Busy
<1>2. Bound(c) \in Nat
    BY InitWorker, WorkerFinite
<1>3. \A T \in SUBSET {} : Left({}, Dooms, T) = {} /\ T = {}
    BY DEF Left
<1>4. Within({}, Dooms, {}, Bound(c))
    BY <1>2, <1>3, FS_EmptySet DEF Within
<1> QED BY <1>1, <1>4

\* The caches stay bounded for the life of the registration (sw.js:28-31).
THEOREM CachesAreBounded == Spec => []CachesBounded
<1>1. WorkerInv /\ BoundInv => CachesBounded
  <2> SUFFICES ASSUME WorkerInv, BoundInv, NEW c \in KNOWN_CACHES
               PROVE  Cardinality(Evictable(c))
                          <= Limit[c] + Untrimmed(c) + Cardinality(Job) * faults
      BY DEF CachesBounded
  <2>1. /\ cache[c] \in Seq(Entry) /\ HeldOnce(cache[c])
        /\ Trimming(c) \in SUBSET Job
        /\ IsFiniteSet(UrlsOf(cache[c])) /\ Bound(c) \in Nat
      BY WorkerFinite
  <2>2. Cardinality(UrlsOf(cache[c])) = Cardinality(Evictable(c))
      BY <2>1, UrlsCount DEF Evictable
  <2>3. Cardinality(UrlsOf(cache[c])) \in Nat
      BY <2>1, FS_CardinalityType
  <2>4. Left(UrlsOf(cache[c]), Dooms, {}) = UrlsOf(cache[c]) /\ {} \in SUBSET Trimming(c)
      BY DEF Left
  <2>5. Cardinality(UrlsOf(cache[c])) + 0 <= Bound(c)
      BY <2>4, FS_EmptySet DEF BoundInv, Within
  <2>6. Bound(c) = Limit[c] + Untrimmed(c) + Cardinality(Job) * faults
      BY DEF Bound, Untrimmed, Owing
  <2> QED BY <2>1, <2>2, <2>3, <2>5, <2>6
<1> QED BY <1>1, InitWorker, InitBound, WorkerStep, BoundStep, PTL DEF Spec

-----------------------------------------------------------------------------
(* The pages kept are the last ones fetched. While nothing disturbs it, at most
   one page is being stored, and the step it is at says how far the cache is
   from what should be kept. *)

LastOf(s) == IF Len(s) > Limit[PAGES] THEN Tail(s) ELSE s

Agreed(j) ==
    LET p == cache[PAGES]
        s == job[j]
    IN  \/ s.step = "delete" /\ recent = Remember(p, s.url, s.rev)
        \/ /\ s.step = "put" /\ ~Holds(p, s.url)
           /\ recent = LastOf(Append(p, [url |-> s.url, rev |-> s.rev]))
        \/ s.step = "keys" /\ recent = LastOf(p)
        \/ s.step = "trim" /\ s.doomed = {} /\ recent = p
        \/ s.step = "trim" /\ p # <<>> /\ s.doomed = {p[1].url} /\ recent = Tail(p)

RecentInv ==
    /\ ~Holds(cache[PAGES], OFFLINE_URL)
    /\ Len(recent) <= Limit[PAGES]
    /\ disturbed \/ \A j, k \in Busy(PAGES) : j = k
    /\ disturbed \/ (Busy(PAGES) = {} => cache[PAGES] = recent)
    /\ disturbed \/ \A j \in Busy(PAGES) : Agreed(j)

\* What `delete` takes away, and nothing comes in its place.
LEMMA DeleteTakes ==
    ASSUME NEW s \in Seq(Entry), HeldOnce(s), NEW url
    PROVE  /\ ~Holds(Delete(s, url), url)
           /\ \A u : Holds(Delete(s, url), u) => Holds(s, u)
<1>1. CASE ~Holds(s, url)
    BY <1>1 DEF Delete
<1>2. CASE Holds(s, url)
  <2> DEFINE n == At(s, url)
             t == [i \in 1..Len(s) - 1 |-> IF i < n THEN s[i] ELSE s[i + 1]]
  <2>1. n \in 1..Len(s) /\ s[n].url = url /\ Len(s) \in Nat /\ DOMAIN s = 1..Len(s)
      BY <1>2, AtHolds
  <2>2. Delete(s, url) = t
      BY <1>2 DEF Delete
  <2>3. DOMAIN t = 1..Len(s) - 1
      OBVIOUS
  <2>5. \A i \in DOMAIN t : \E k \in DOMAIN s : k # n /\ t[i] = s[k]
    <3> SUFFICES ASSUME NEW i \in DOMAIN t
                 PROVE  \E k \in DOMAIN s : k # n /\ t[i] = s[k]
        OBVIOUS
    <3>1. CASE i < n
      <4>1. i \in DOMAIN s /\ i # n /\ t[i] = s[i]
          BY <2>1, <2>3, <3>1
      <4> QED BY <4>1
    <3>2. CASE ~(i < n)
      <4>1. i + 1 \in DOMAIN s /\ i + 1 # n /\ t[i] = s[i + 1]
          BY <2>1, <2>3, <3>2
      <4> QED BY <4>1
    <3> QED BY <3>1, <3>2
  <2> HIDE DEF n, t
  <2>6. \A k \in DOMAIN s : k # n => s[k].url # url
      BY <2>1 DEF HeldOnce
  <2>7. ~Holds(t, url) /\ \A u : Holds(t, u) => Holds(s, u)
      BY <2>5, <2>6 DEF Holds
  <2> QED BY <2>2, <2>7
<1> QED BY <1>1, <1>2

LEMMA DeleteShort ==
    ASSUME NEW s \in Seq(Entry), NEW url
    PROVE  Len(Delete(s, url)) <= Len(s)
<1> DEFINE t == [i \in 1..Len(s) - 1 |-> IF i < At(s, url) THEN s[i] ELSE s[i + 1]]
<1>1. CASE ~Holds(s, url)
  <2>1. Len(s) \in Nat /\ Delete(s, url) = s
      BY <1>1 DEF Delete
  <2> QED BY <2>1
<1>2. CASE Holds(s, url)
  <2>1. Len(s) \in Nat /\ 1 <= Len(s) /\ Delete(s, url) = t
      BY <1>2 DEF Delete, Holds
  <2>2. Len(t) = Len(s) - 1
      BY <2>1
  <2> QED BY <2>1, <2>2
<1> QED BY <1>1, <1>2

\* To delete the oldest is to take the tail.
LEMMA DeleteOldest ==
    ASSUME NEW s \in Seq(Entry), HeldOnce(s), s # <<>>
    PROVE  Delete(s, s[1].url) = Tail(s)
<1> DEFINE n == At(s, s[1].url)
           t == [i \in 1..Len(s) - 1 |-> IF i < n THEN s[i] ELSE s[i + 1]]
<1>1. Len(s) \in Nat /\ DOMAIN s = 1..Len(s) /\ 1 \in DOMAIN s
    OBVIOUS
<1>2. Holds(s, s[1].url)
    BY <1>1 DEF Holds
<1>3. n = 1
  <2>1. n \in DOMAIN s /\ s[n].url = s[1].url
      BY <1>2, AtHolds
  <2> HIDE DEF n
  <2> QED BY <1>1, <2>1 DEF HeldOnce
<1>4. Delete(s, s[1].url) = t
    BY <1>2 DEF Delete
<1>5. t = [i \in 1..Len(s) - 1 |-> s[i + 1]]
    BY <1>3
<1>6. Tail(s) = [i \in 1..Len(s) - 1 |-> s[i + 1]]
  <2>1. /\ Tail(s) \in Seq(Entry) /\ Len(Tail(s)) = Len(s) - 1
        /\ \A i \in 1..Len(s) - 1 : Tail(s)[i] = s[i + 1]
      OBVIOUS
  <2>2. Tail(s) \in [1..Len(s) - 1 -> Entry]
      BY <2>1, LenProperties
  <2> QED BY <2>1, <2>2
<1> QED BY <1>4, <1>5, <1>6

LEMMA PutAdds ==
    ASSUME NEW s \in Seq(Entry), NEW url \in Cached, NEW r \in Rev,
           ~Holds(s, url), ~Holds(s, OFFLINE_URL)
    PROVE  /\ Put(s, url, r) = Append(s, [url |-> url, rev |-> r])
           /\ ~Holds(Put(s, url, r), OFFLINE_URL)
<1>1. Put(s, url, r) = Append(s, [url |-> url, rev |-> r])
    BY DEF Put
<1>2. OFFLINE_URL \notin UrlsOf(s) /\ url # OFFLINE_URL
    BY WorkerAssumption DEF UrlsOf
<1> DEFINE e == [url |-> url, rev |-> r]
           t == Append(s, e)
<1>3. e \in Entry /\ e.url = url
    BY DEF Entry
<1> HIDE DEF e
<1>4. /\ DOMAIN t = 1..Len(s) + 1 /\ Len(s) \in Nat
      /\ DOMAIN s = 1..Len(s) /\ t[Len(s) + 1] = e
      /\ \A i \in DOMAIN s : t[i] = s[i]
    BY <1>3
<1> HIDE DEF t
<1>5. ~Holds(t, OFFLINE_URL)
    BY <1>2, <1>3, <1>4 DEF Holds
<1> QED BY <1>1, <1>5 DEF t, e

\* A put that replaces adds no address.
LEMMA PutKeepsOffline ==
    ASSUME NEW s \in Seq(Entry), NEW url \in Cached, NEW r \in Rev,
           ~Holds(s, OFFLINE_URL)
    PROVE  ~Holds(Put(s, url, r), OFFLINE_URL)
<1>1. CASE ~Holds(s, url)
    BY <1>1, PutAdds
<1>2. CASE Holds(s, url)
  <2> DEFINE n == At(s, url)
             changed == [s[n] EXCEPT !.rev = r]
             t == [s EXCEPT ![n] = changed]
  <2>1. n \in DOMAIN s /\ Put(s, url, r) = t
      BY <1>2, AtHolds DEF Put
  <2>2. changed.url = s[n].url
    <3>1. s[n] \in Entry
        BY <2>1
    <3>2. \A e \in Entry : [e EXCEPT !.rev = r].url = e.url
        BY DEF Entry
    <3> QED BY <3>1, <3>2
  <2> HIDE DEF n, changed
  <2>3. DOMAIN t = DOMAIN s /\ \A i \in DOMAIN s : t[i].url = s[i].url
      BY <2>1, <2>2
  <2> HIDE DEF t
  <2> QED BY <2>1, <2>3 DEF Holds
<1> QED BY <1>1, <1>2

\* With one page over the limit, a trim dooms the oldest and no other.
LEMMA DoomedPages ==
    ASSUME WorkerTypeOK, ~Holds(cache[PAGES], OFFLINE_URL)
    PROVE  /\ Len(cache[PAGES]) <= Limit[PAGES] => Doomed(PAGES) = {}
           /\ Len(cache[PAGES]) = Limit[PAGES] + 1 =>
                  cache[PAGES] # <<>> /\ Doomed(PAGES) = {cache[PAGES][1].url}
<1> DEFINE s == cache[PAGES]
           n == Len(s)
           L == Limit[PAGES]
           Over == {i \in 1..n : Cardinality({j \in 1..n : i <= j}) > L}
<1>1. s \in Seq(Entry) /\ n \in Nat /\ L \in Nat /\ DOMAIN s = 1..n
    BY WorkerAssumption DEF WorkerTypeOK, KNOWN_CACHES
<1>2. Evictable(PAGES) = 1..n
    BY <1>1 DEF Evictable, Holds
<1>3. Doomed(PAGES) = {s[i].url : i \in Over}
    BY <1>2 DEF Doomed
<1>4. \A i \in 1..n : Cardinality({j \in 1..n : i <= j}) = n - i + 1
  <2> SUFFICES ASSUME NEW i \in 1..n PROVE Cardinality({j \in 1..n : i <= j}) = n - i + 1
      OBVIOUS
  <2> HIDE DEF n
  <2>1. {j \in 1..n : i <= j} = i..n
      BY <1>1
  <2>2. Cardinality(i..n) = n - i + 1
      BY <1>1, FS_Interval
  <2> QED BY <2>1, <2>2
<1>5. Over = {i \in 1..n : n - i + 1 > L}
    BY <1>4
<1> HIDE DEF Over, L
<1>6. ASSUME n <= L PROVE Doomed(PAGES) = {}
  <2>1. Over = {}
    <3> HIDE DEF n
    <3> QED BY <1>1, <1>5, <1>6
  <2> QED BY <1>3, <2>1
<1>7. ASSUME n = L + 1 PROVE s # <<>> /\ Doomed(PAGES) = {s[1].url}
  <2>1. Over = {1}
    <3> HIDE DEF n
    <3> QED BY <1>1, <1>5, <1>7
  <2>2. s # <<>>
      BY <1>1, <1>7
  <2> QED BY <1>3, <2>1, <2>2
<1> QED BY <1>6, <1>7 DEF L

\* A step that concerns no page.
LEMMA Elsewhere ==
    ASSUME RecentInv, cache'[PAGES] = cache[PAGES], recent' = recent,
           disturbed \in BOOLEAN, disturbed' \in BOOLEAN, disturbed => disturbed',
           \A k \in Job : \/ job'[k] = job[k]
                          \/ k \notin Busy(PAGES) /\ k \notin Busy(PAGES)'
    PROVE  RecentInv'
<1>1. Busy(PAGES)' = Busy(PAGES)
  <2>1. \A k \in Job : k \in Busy(PAGES)' <=> k \in Busy(PAGES)
      BY DEF Busy
  <2>2. Busy(PAGES)' \subseteq Job /\ Busy(PAGES) \subseteq Job
      BY DEF Busy
  <2> QED BY <2>1, <2>2
<1>2. ASSUME NEW k \in Busy(PAGES), Agreed(k) PROVE Agreed(k)'
  <2>1. job'[k] = job[k]
      BY <1>2 DEF Busy
  <2>2. Agreed(k)' <=> Agreed(k)
      BY <2>1 DEF Agreed, Remember, LastOf, Holds, Delete, At
  <2> QED BY <1>2, <2>2
<1>3. ~Holds(cache[PAGES], OFFLINE_URL)' /\ (Len(recent) <= Limit[PAGES])'
    BY DEF RecentInv, Holds
<1>4. (disturbed \/ \A j, k \in Busy(PAGES) : j = k)'
    BY <1>1 DEF RecentInv
<1>5. (disturbed \/ (Busy(PAGES) = {} => cache[PAGES] = recent))'
    BY <1>1 DEF RecentInv
<1>6. (disturbed \/ \A j \in Busy(PAGES) : Agreed(j))'
    BY <1>1, <1>2 DEF RecentInv
<1> QED BY <1>3, <1>4, <1>5, <1>6 DEF RecentInv

\* A step of a page's store, which is the only one unless something disturbed it.
LEMMA Alone ==
    ASSUME RecentInv, WorkerTypeOK, WorkerTypeOK', NEW j \in Busy(PAGES),
           j \in Busy(PAGES)', \A k \in Job : k # j => job'[k] = job[k],
           recent' = recent, disturbed' = disturbed,
           ~Holds(cache'[PAGES], OFFLINE_URL),
           Agreed(j) => Agreed(j)'
    PROVE  RecentInv'
<1>1. Busy(PAGES)' = Busy(PAGES)
  <2>1. \A k \in Job : k \in Busy(PAGES)' <=> k \in Busy(PAGES)
      BY DEF Busy
  <2>2. Busy(PAGES)' \subseteq Job /\ Busy(PAGES) \subseteq Job
      BY DEF Busy
  <2> QED BY <2>1, <2>2
<1>2. ~Holds(cache[PAGES], OFFLINE_URL)' /\ (Len(recent) <= Limit[PAGES])'
    BY DEF RecentInv, Holds
<1>3. (disturbed \/ \A i, k \in Busy(PAGES) : i = k)'
    BY <1>1 DEF RecentInv
<1>4. (disturbed \/ (Busy(PAGES) = {} => cache[PAGES] = recent))'
    BY <1>1
<1>5. CASE disturbed
    BY <1>2, <1>3, <1>4, <1>5 DEF RecentInv
<1>6. CASE ~disturbed
  <2>1. \A k \in Busy(PAGES) : k = j
      BY <1>6 DEF RecentInv
  <2>2. Agreed(j)
      BY <1>6 DEF RecentInv
  <2>3. (\A k \in Busy(PAGES) : Agreed(k))'
      BY <1>1, <2>1, <2>2
  <2> QED BY <1>2, <1>3, <1>4, <2>3 DEF RecentInv
<1> QED BY <1>5, <1>6

LEMMA StepKeeps ==
    ASSUME NEW s \in Store
    PROVE  /\ \A x : [s EXCEPT !.step = x].url = s.url
           /\ \A x : [s EXCEPT !.step = x].rev = s.rev
BY DEF Store

LEMMA InitRecent == Init => RecentInv
<1> SUFFICES ASSUME Init PROVE RecentInv
    OBVIOUS
<1>1. cache[PAGES] = <<>> /\ recent = <<>> /\ Limit[PAGES] \in Nat
    BY WorkerAssumption DEF Init, KNOWN_CACHES
<1>2. Busy(PAGES) = {}
    BY DEF Init, Busy
<1> QED BY <1>1, <1>2 DEF RecentInv, Holds

\* A page fetched is remembered, and its store sets out to keep it.
LEMMA FetchRecent ==
    ASSUME RecentInv, WorkerInv, WorkerTypeOK', NEW j \in Job, NEW url \in Cached,
           FetchPage(j, url)
    PROVE  RecentInv'
<1> DEFINE new == [cache |-> PAGES, url |-> url, rev |-> rev,
                   step |-> "delete", doomed |-> {}]
<1>1. /\ job[j] = Idle /\ job'[j] = new /\ \A k \in Job : k # j => job'[k] = job[k]
      /\ recent' = Remember(recent, url, rev) /\ cache' = cache
      /\ disturbed' = (disturbed \/ Busy(PAGES) # {})
      /\ disturbed \in BOOLEAN /\ recent \in Seq(Entry) /\ rev \in Rev
      /\ cache[PAGES] \in Seq(Entry) /\ HeldOnce(cache[PAGES])
    BY DEF FetchPage, StartStore, FirstStep, WorkerInv, WorkerTypeOK, KNOWN_CACHES
<1>2. new.cache = PAGES /\ new.url = url /\ new.rev = rev /\ new.step = "delete"
    OBVIOUS
<1>3. job'[j] # Idle
  <2>1. new \in Store
      BY <1>1 DEF Store, FetchPage, KNOWN_CACHES
  <2> QED BY <1>1, <2>1, IdleAssumption
<1> HIDE DEF new
<1>4. ~Holds(cache'[PAGES], OFFLINE_URL)
    BY <1>1 DEF RecentInv
<1>5. Len(recent') <= Limit[PAGES]
  <2>1. Len(recent) <= Limit[PAGES] /\ Len(recent) \in Nat /\ Limit[PAGES] \in Nat
      BY <1>1, WorkerAssumption DEF RecentInv, KNOWN_CACHES
  <2> DEFINE e == [url |-> url, rev |-> rev]
             d == Delete(recent, url)
  <2>2. d \in Seq(Entry) /\ Len(d) <= Len(recent) /\ e \in Entry
      BY <1>1, DeleteKeeps, DeleteShort DEF Entry
  <2>3. recent' = IF Len(Append(d, e)) > Limit[PAGES] THEN Tail(Append(d, e)) ELSE Append(d, e)
      BY <1>1 DEF Remember
  <2> HIDE DEF d, e
  <2>4. Len(Append(d, e)) = Len(d) + 1 /\ Len(Tail(Append(d, e))) = Len(d) /\ Len(d) \in Nat
      BY <2>2
  <2> QED BY <2>1, <2>2, <2>3, <2>4
<1>6. ASSUME ~disturbed'
      PROVE  Busy(PAGES)' = {j} /\ Agreed(j)'
  <2>1. ~disturbed /\ Busy(PAGES) = {} /\ cache[PAGES] = recent
      BY <1>1, <1>6 DEF RecentInv
  <2>2. \A k \in Job : k \in Busy(PAGES)' <=> k = j
      BY <1>1, <1>2, <1>3, <2>1 DEF Busy
  <2>3. Busy(PAGES)' \subseteq Job
      BY DEF Busy
  <2>4. recent' = Remember(cache[PAGES], url, rev)
      BY <1>1, <2>1
  <2>5. recent' = Remember(cache[PAGES], url, rev)'
      BY <1>1, <2>4 DEF FetchPage
  <2>6. Agreed(j)'
      BY <1>1, <1>2, <2>4 DEF Agreed, Remember, Delete, Holds, At
  <2> QED BY <2>2, <2>3, <2>6
<1>7. disturbed' \in BOOLEAN
    BY DEF WorkerTypeOK
<1>8. CASE disturbed'
    BY <1>4, <1>5, <1>8 DEF RecentInv
<1>9. CASE ~disturbed'
  <2>1. Busy(PAGES)' = {j} /\ Agreed(j)'
      BY <1>6, <1>9
  <2>2. (\A i, k \in Busy(PAGES) : i = k)' /\ (Busy(PAGES) # {})'
      BY <2>1
  <2>3. (\A k \in Busy(PAGES) : Agreed(k))'
      BY <2>1
  <2> QED BY <1>4, <1>5, <2>2, <2>3 DEF RecentInv
<1> QED BY <1>7, <1>8, <1>9

\* What the step of a page's store may assume.
LEMMA PageStore ==
    ASSUME RecentInv, WorkerInv, NEW j \in Busy(PAGES)
    PROVE  /\ job[j] \in Store /\ job[j] # Idle /\ job[j].cache = PAGES
           /\ job[j].url \in Cached /\ job[j].rev \in Rev
           /\ cache[PAGES] \in Seq(Entry) /\ HeldOnce(cache[PAGES])
           /\ ~Holds(cache[PAGES], OFFLINE_URL)
           /\ recent \in Seq(Entry) /\ Len(recent) <= Limit[PAGES]
           /\ Limit[PAGES] \in Nat
<1>1. job[j] # Idle /\ job[j].cache = PAGES /\ j \in Job
    BY DEF Busy
<1>2. job[j] \in Store /\ job[j].url \in Cached /\ job[j].rev \in Rev
    BY <1>1, JobType DEF WorkerInv
<1> QED BY <1>1, <1>2, WorkerAssumption DEF RecentInv, WorkerInv, WorkerTypeOK, KNOWN_CACHES

LEMMA DeleteRecent ==
    ASSUME RecentInv, WorkerInv, WorkerTypeOK', NEW j \in Busy(PAGES), StepDelete(j)
    PROVE  RecentInv'
<1> DEFINE p == cache[PAGES]
           u == job[j].url
           r == job[j].rev
<1>1. /\ job[j] \in Store /\ job[j] # Idle /\ job[j].cache = PAGES /\ u \in Cached /\ r \in Rev
      /\ p \in Seq(Entry) /\ HeldOnce(p) /\ ~Holds(p, OFFLINE_URL) /\ j \in Job
    BY PageStore DEF Busy
<1>2. /\ job'[j] = [job[j] EXCEPT !.step = "put"]
      /\ \A k \in Job : k # j => job'[k] = job[k]
      /\ cache'[PAGES] = Delete(p, u)
      /\ job[j].step = "delete"
      /\ recent' = recent /\ disturbed' = disturbed
    BY <1>1 DEF StepDelete, WorkerInv, WorkerTypeOK, KNOWN_CACHES
<1>3. /\ job'[j].step = "put" /\ job'[j].url = u /\ job'[j].rev = r /\ job'[j].cache = PAGES
    BY <1>1, <1>2, StepFields, StepKeeps
<1>4. job'[j] # Idle
    BY <1>1, <1>2, StoreFields, IdleAssumption
<1>5. j \in Busy(PAGES)'
    BY <1>1, <1>3, <1>4 DEF Busy
<1>6. ~Holds(Delete(p, u), u) /\ ~Holds(Delete(p, u), OFFLINE_URL)
    BY <1>1, DeleteTakes
<1>7. ASSUME Agreed(j) PROVE Agreed(j)'
  <2>1. recent = Remember(p, u, r)
      BY <1>2, <1>7 DEF Agreed
  <2>2. recent = LastOf(Append(Delete(p, u), [url |-> u, rev |-> r]))
      BY <2>1 DEF Remember, LastOf
  <2> HIDE DEF p, u, r
  <2>3. (~Holds(cache'[PAGES], job'[j].url))
        /\ recent' = LastOf(Append(cache'[PAGES], [url |-> job'[j].url, rev |-> job'[j].rev]))
      BY <1>2, <1>3, <1>6, <2>2
  <2> QED BY <1>3, <2>3 DEF Agreed, LastOf, Holds
<1> QED BY <1>2, <1>5, <1>6, <1>7, Alone DEF WorkerInv

LEMMA PutRecent ==
    ASSUME RecentInv, WorkerInv, WorkerTypeOK', NEW j \in Busy(PAGES), StepPut(j)
    PROVE  RecentInv'
<1> DEFINE p == cache[PAGES]
           u == job[j].url
           r == job[j].rev
<1>1. /\ job[j] \in Store /\ job[j] # Idle /\ job[j].cache = PAGES /\ u \in Cached /\ r \in Rev
      /\ p \in Seq(Entry) /\ HeldOnce(p) /\ ~Holds(p, OFFLINE_URL) /\ j \in Job
    BY PageStore DEF Busy
<1>2. /\ job'[j] = [job[j] EXCEPT !.step = "keys"]
      /\ \A k \in Job : k # j => job'[k] = job[k]
      /\ cache'[PAGES] = Put(p, u, r)
      /\ job[j].step = "put"
      /\ recent' = recent /\ disturbed' = disturbed
    BY <1>1 DEF StepPut, WorkerInv, WorkerTypeOK, KNOWN_CACHES
<1>3. job'[j].step = "keys" /\ job'[j].cache = PAGES
    BY <1>1, <1>2, StepFields
<1>4. job'[j] # Idle
    BY <1>1, <1>2, StoreFields, IdleAssumption
<1>5. j \in Busy(PAGES)'
    BY <1>1, <1>3, <1>4 DEF Busy
<1>6. ~Holds(Put(p, u, r), OFFLINE_URL)
    BY <1>1, PutKeepsOffline
<1>7. ASSUME Agreed(j) PROVE Agreed(j)'
  <2>1. ~Holds(p, u) /\ recent = LastOf(Append(p, [url |-> u, rev |-> r]))
      BY <1>2, <1>7 DEF Agreed
  <2>2. recent' = LastOf(cache'[PAGES])
      BY <1>1, <1>2, <2>1, PutAdds
  <2> QED BY <1>3, <2>2 DEF Agreed, LastOf
<1> QED BY <1>2, <1>5, <1>6, <1>7, Alone DEF WorkerInv

LEMMA KeysRecent ==
    ASSUME RecentInv, WorkerInv, WorkerTypeOK', NEW j \in Busy(PAGES), StepKeys(j)
    PROVE  RecentInv'
<1> DEFINE p == cache[PAGES]
<1>1. /\ job[j] \in Store /\ job[j] # Idle /\ job[j].cache = PAGES
      /\ p \in Seq(Entry) /\ HeldOnce(p) /\ ~Holds(p, OFFLINE_URL) /\ j \in Job
      /\ recent \in Seq(Entry) /\ Len(recent) <= Limit[PAGES] /\ Limit[PAGES] \in Nat
    BY PageStore DEF Busy
<1>2. /\ job'[j] = [job[j] EXCEPT !.step = "trim", !.doomed = Doomed(PAGES)]
      /\ \A k \in Job : k # j => job'[k] = job[k]
      /\ cache'[PAGES] = p
      /\ job[j].step = "keys"
      /\ recent' = recent /\ disturbed' = disturbed
    BY <1>1 DEF StepKeys, WorkerInv, WorkerTypeOK, KNOWN_CACHES
<1>3. job'[j].step = "trim" /\ job'[j].cache = PAGES /\ job'[j].doomed = Doomed(PAGES)
    BY <1>1, <1>2, StepFields
<1>4. job'[j] # Idle
  <2>1. Doomed(PAGES) \in SUBSET Cached
      BY DoomedCached DEF WorkerInv, KNOWN_CACHES
  <2>2. \A X \in SUBSET Cached : [job[j] EXCEPT !.step = "trim", !.doomed = X] \in Store
      BY <1>1, StoreFields
  <2> DEFINE D == Doomed(PAGES)
  <2>3. D \in SUBSET Cached /\ job'[j] = [job[j] EXCEPT !.step = "trim", !.doomed = D]
      BY <1>2, <2>1
  <2> HIDE DEF D
  <2>4. job'[j] \in Store
      BY <2>2, <2>3
  <2> QED BY <2>4, IdleAssumption
<1>5. j \in Busy(PAGES)'
    BY <1>1, <1>3, <1>4 DEF Busy
<1>6. /\ Len(p) <= Limit[PAGES] => Doomed(PAGES) = {}
      /\ Len(p) = Limit[PAGES] + 1 => p # <<>> /\ Doomed(PAGES) = {p[1].url}
    BY <1>1, DoomedPages DEF WorkerInv
<1>7. ASSUME Agreed(j) PROVE Agreed(j)'
  <2>1. recent = LastOf(p) /\ Len(p) \in Nat
      BY <1>1, <1>2, <1>7 DEF Agreed
  <2>2. CASE Len(p) <= Limit[PAGES]
    <3>1. recent = p
        BY <1>1, <2>1, <2>2 DEF LastOf
    <3>2. job'[j].doomed = {} /\ recent' = cache'[PAGES]
        BY <1>2, <1>3, <1>6, <2>2, <3>1
    <3> QED BY <1>3, <3>2 DEF Agreed
  <2>3. CASE Len(p) > Limit[PAGES]
    <3>1. recent = Tail(p)
        BY <2>1, <2>3 DEF LastOf
    <3>2. p # <<>> /\ Len(Tail(p)) = Len(p) - 1
        BY <1>1, <2>1, <2>3
    <3>3. Len(p) = Limit[PAGES] + 1
        BY <1>1, <2>1, <2>3, <3>1, <3>2
    <3>4. /\ cache'[PAGES] # <<>> /\ job'[j].doomed = {cache'[PAGES][1].url}
          /\ recent' = Tail(cache'[PAGES])
        BY <1>2, <1>3, <1>6, <3>1, <3>3
    <3> QED BY <1>3, <3>4 DEF Agreed
  <2> QED BY <1>1, <2>1, <2>2, <2>3
<1>8. ~Holds(cache'[PAGES], OFFLINE_URL)
    BY <1>1, <1>2
<1> HIDE DEF p
<1> QED BY <1>2, <1>5, <1>7, <1>8, Alone DEF WorkerInv

LEMMA TrimRecent ==
    ASSUME RecentInv, WorkerInv, WorkerTypeOK', NEW j \in Busy(PAGES), NEW url, StepTrim(j, url)
    PROVE  RecentInv'
<1> DEFINE p == cache[PAGES]
           D == job[j].doomed \ {url}
<1>1. /\ job[j] \in Store /\ job[j] # Idle /\ job[j].cache = PAGES
      /\ p \in Seq(Entry) /\ HeldOnce(p) /\ ~Holds(p, OFFLINE_URL) /\ j \in Job
    BY PageStore DEF Busy
<1>2. /\ job'[j] = [job[j] EXCEPT !.doomed = D]
      /\ \A k \in Job : k # j => job'[k] = job[k]
      /\ cache'[PAGES] = Delete(p, url)
      /\ job[j].step = "trim" /\ url \in job[j].doomed
      /\ recent' = recent /\ disturbed' = disturbed
    BY <1>1 DEF StepTrim, WorkerInv, WorkerTypeOK, KNOWN_CACHES
<1>3. job'[j].step = "trim" /\ job'[j].cache = PAGES /\ job'[j].doomed = D
    BY <1>1, <1>2, StepFields
<1>4. job'[j] # Idle
  <2>1. D \in SUBSET Cached
      BY <1>1 DEF Store
  <2> HIDE DEF D
  <2> QED BY <1>1, <1>2, <2>1, StoreFields, IdleAssumption
<1>5. j \in Busy(PAGES)'
    BY <1>1, <1>3, <1>4 DEF Busy
<1>6. ~Holds(Delete(p, url), OFFLINE_URL)
    BY <1>1, DeleteTakes
<1>7. ASSUME Agreed(j) PROVE Agreed(j)'
  <2>1. p # <<>> /\ job[j].doomed = {p[1].url} /\ recent = Tail(p)
      BY <1>2, <1>7 DEF Agreed
  <2>2. url = p[1].url
      BY <1>2, <2>1
  <2>3. D = {}
      BY <2>1, <2>2
  <2>4. cache'[PAGES] = recent'
      BY <1>1, <1>2, <2>1, <2>2, DeleteOldest
  <2> QED BY <1>3, <2>3, <2>4 DEF Agreed
<1> HIDE DEF p
<1> QED BY <1>2, <1>5, <1>6, <1>7, Alone DEF WorkerInv

\* The store is over: it left what should be kept.
LEMMA EndRecent ==
    ASSUME RecentInv, WorkerInv, WorkerTypeOK', NEW j \in Busy(PAGES),
           EndStore(j) \/ FailPut(j)
    PROVE  RecentInv'
<1>1. /\ job[j].cache = PAGES /\ j \in Job /\ cache' = cache /\ recent' = recent
      /\ \A k \in Job : k # j => job'[k] = job[k]
      /\ job'[j] = Idle /\ disturbed \in BOOLEAN
    BY DEF Busy, EndStore, FailPut, WorkerInv, WorkerTypeOK
<1>2. ~Holds(cache[PAGES], OFFLINE_URL)' /\ (Len(recent) <= Limit[PAGES])'
    BY <1>1 DEF RecentInv, Holds
<1>3. CASE FailPut(j)
  <2>1. disturbed'
      BY <1>1, <1>3 DEF FailPut
  <2> QED BY <1>2, <2>1 DEF RecentInv
<1>4. CASE EndStore(j) /\ disturbed
  <2>1. disturbed'
      BY <1>4 DEF EndStore
  <2> QED BY <1>2, <2>1 DEF RecentInv
<1>5. CASE EndStore(j) /\ ~disturbed
  <2>1. \A k \in Busy(PAGES) : k = j
      BY <1>5 DEF RecentInv
  <2>2. Agreed(j) /\ job[j].step = "trim" /\ job[j].doomed = {}
      BY <1>5 DEF RecentInv, EndStore
  <2>3. recent = cache[PAGES]
      BY <2>2 DEF Agreed
  <2>4. Busy(PAGES)' = {}
      BY <1>1, <2>1 DEF Busy
  <2>5. (Busy(PAGES) = {} => cache[PAGES] = recent)'
      BY <1>1, <2>3
  <2> QED BY <1>2, <2>4, <2>5 DEF RecentInv
<1> QED BY <1>1, <1>3, <1>4, <1>5

LEMMA StopRecent ==
    ASSUME RecentInv, WorkerInv, WorkerTypeOK', Stop
    PROVE  RecentInv'
<1>1. /\ cache' = cache /\ recent' = recent /\ \A k \in Job : job'[k] = Idle
      /\ disturbed' = (disturbed \/ Busy(PAGES) # {})
    BY DEF Stop
<1>2. Busy(PAGES)' = {}
    BY <1>1 DEF Busy
<1>3. ~Holds(cache[PAGES], OFFLINE_URL)' /\ (Len(recent) <= Limit[PAGES])'
    BY <1>1 DEF RecentInv, Holds
<1>4. disturbed' \/ cache'[PAGES] = recent'
    BY <1>1 DEF RecentInv
<1> QED BY <1>2, <1>3, <1>4 DEF RecentInv

\* A step of a store of the other cache.
LEMMA OtherStore ==
    ASSUME RecentInv, WorkerInv, WorkerTypeOK', NEW j \in Job, j \notin Busy(PAGES),
           \/ StepDelete(j) \/ StepPut(j) \/ StepKeys(j) \/ EndStore(j) \/ FailPut(j)
           \/ \E url \in Cached \cup {OFFLINE_URL} : StepTrim(j, url)
           \/ \E url \in Cached : FetchAsset(j, url) \/ Revalidate(j, url)
    PROVE  RecentInv'
<1>1. /\ job \in [Job -> Store \cup {Idle}] /\ job' \in [Job -> Store \cup {Idle}]
      /\ disturbed \in BOOLEAN /\ disturbed' \in BOOLEAN
      /\ cache \in [KNOWN_CACHES -> Seq(Entry)]
    BY DEF WorkerInv, WorkerTypeOK
<1>2. CASE \E url \in Cached : FetchAsset(j, url) \/ Revalidate(j, url)
  <2>1. /\ job'[j].cache = ASSETS /\ \A k \in Job : k # j => job'[k] = job[k]
        /\ UNCHANGED <<cache, recent, disturbed>>
      BY <1>1, <1>2 DEF FetchAsset, Revalidate, StartStore
  <2>2. j \notin Busy(PAGES)'
      BY <2>1 DEF Busy, ASSETS, PAGES
  <2> QED BY <1>1, <2>1, <2>2, Elsewhere
<1>3. ASSUME job[j] # Idle PROVE job[j].cache # PAGES /\ job[j] \in Store
    BY <1>1, <1>3 DEF Busy
<1>4. CASE \/ StepDelete(j) \/ StepPut(j) \/ StepKeys(j) \/ EndStore(j) \/ FailPut(j)
           \/ \E url \in Cached \cup {OFFLINE_URL} : StepTrim(j, url)
  <2>1. job[j] # Idle /\ recent' = recent /\ \A k \in Job : k # j => job'[k] = job[k]
      BY <1>4, <1>1 DEF StepDelete, StepPut, StepKeys, EndStore, FailPut, StepTrim
  <2>2. disturbed' = disturbed
      BY <1>1, <1>3, <1>4, <2>1 DEF StepDelete, StepPut, StepKeys, EndStore, FailPut, StepTrim
  <2>3. /\ cache'[PAGES] = cache[PAGES]
        /\ job'[j] = Idle \/ job'[j].cache = job[j].cache
    <3>1. job[j] \in Store /\ job[j].cache # PAGES
        BY <1>3, <2>1
    <3>2. CASE StepDelete(j)
      <4>1. job'[j] = [job[j] EXCEPT !.step = "put"]
          BY <1>1, <3>2 DEF StepDelete
      <4>2. cache'[PAGES] = cache[PAGES]
          BY <1>1, <3>1, <3>2 DEF StepDelete
      <4> QED BY <3>1, <4>1, <4>2, StepFields
    <3>3. CASE StepPut(j)
      <4>1. job'[j] = [job[j] EXCEPT !.step = "keys"]
          BY <1>1, <3>3 DEF StepPut
      <4>2. cache'[PAGES] = cache[PAGES]
          BY <1>1, <3>1, <3>3 DEF StepPut
      <4> QED BY <3>1, <4>1, <4>2, StepFields
    <3>4. CASE StepKeys(j)
      <4>1. job'[j] = [job[j] EXCEPT !.step = "trim", !.doomed = Doomed(job[j].cache)]
          BY <1>1, <3>4 DEF StepKeys
      <4>2. cache'[PAGES] = cache[PAGES]
          BY <3>4 DEF StepKeys
      <4> QED BY <3>1, <4>1, <4>2, StepFields
    <3>5. CASE EndStore(j) \/ FailPut(j)
        BY <1>1, <3>5 DEF EndStore, FailPut
    <3>6. ASSUME NEW url \in Cached \cup {OFFLINE_URL}, StepTrim(j, url)
          PROVE  /\ cache'[PAGES] = cache[PAGES]
                 /\ job'[j] = Idle \/ job'[j].cache = job[j].cache
      <4>1. job'[j] = [job[j] EXCEPT !.doomed = job[j].doomed \ {url}]
          BY <1>1, <3>6 DEF StepTrim
      <4>2. cache'[PAGES] = cache[PAGES]
          BY <1>1, <3>1, <3>6 DEF StepTrim
      <4> QED BY <3>1, <4>1, <4>2, StepFields
    <3> QED BY <1>4, <3>2, <3>3, <3>4, <3>5, <3>6
  <2>5. j \notin Busy(PAGES)'
      BY <1>3, <2>1, <2>3 DEF Busy
  <2> QED BY <1>1, <2>1, <2>2, <2>3, <2>5, Elsewhere
<1> QED BY <1>2, <1>4

LEMMA RecentStep == WorkerInv /\ WorkerInv' /\ RecentInv /\ [Next]_vars => RecentInv'
<1> SUFFICES ASSUME WorkerInv, WorkerInv', RecentInv, [Next]_vars PROVE RecentInv'
    OBVIOUS
<1>0. WorkerTypeOK' /\ disturbed \in BOOLEAN /\ disturbed' \in BOOLEAN
    BY DEF WorkerInv, WorkerTypeOK
<1>1. CASE Install \/ Deploy \/ UNCHANGED vars
  <2>1. recent' = recent /\ disturbed' = disturbed /\ job' = job
      BY <1>1 DEF Install, Deploy, vars
  <2>2. cache'[PAGES] = cache[PAGES]
      BY <1>1 DEF Install, Deploy, vars, WorkerInv, WorkerTypeOK, KNOWN_CACHES, ASSETS, PAGES
  <2> QED BY <1>0, <2>1, <2>2, Elsewhere
<1>2. ASSUME NEW j \in Job, NEW url \in Cached,
             FetchPage(j, url) \/ FetchAsset(j, url) \/ Revalidate(j, url)
      PROVE  RecentInv'
  <2>1. CASE FetchPage(j, url)
      BY <1>0, <2>1, FetchRecent
  <2>2. CASE FetchAsset(j, url) \/ Revalidate(j, url)
    <3>1. j \notin Busy(PAGES)
        BY <2>2 DEF FetchAsset, Revalidate, StartStore, Busy
    <3> QED BY <1>0, <2>2, <3>1, OtherStore
  <2> QED BY <1>2, <2>1, <2>2
<1>3. ASSUME NEW j \in Job, NEW url \in Cached \cup {OFFLINE_URL}, StepTrim(j, url)
      PROVE  RecentInv'
  <2>1. CASE j \in Busy(PAGES)
      BY <1>0, <1>3, <2>1, TrimRecent
  <2>2. CASE j \notin Busy(PAGES)
      BY <1>0, <1>3, <2>2, OtherStore
  <2> QED BY <2>1, <2>2
<1>4. ASSUME NEW j \in Job,
             StepDelete(j) \/ StepPut(j) \/ StepKeys(j) \/ EndStore(j) \/ FailPut(j)
      PROVE  RecentInv'
  <2>1. CASE j \in Busy(PAGES)
      BY <1>0, <1>4, <2>1, DeleteRecent, PutRecent, KeysRecent, EndRecent
  <2>2. CASE j \notin Busy(PAGES)
      BY <1>0, <1>4, <2>2, OtherStore
  <2> QED BY <2>1, <2>2
<1>5. CASE Stop
    BY <1>0, <1>5, StopRecent
<1> QED BY <1>1, <1>2, <1>3, <1>4, <1>5 DEF Next

\* The pages kept are the last ones fetched (sw.js:159-168).
THEOREM RecentlyReadKept == Spec => []RecentlyReadIsKept
<1>1. RecentInv => RecentlyReadIsKept
    BY DEF RecentInv, RecentlyReadIsKept
<1> QED BY <1>1, InitWorker, InitRecent, WorkerStep, RecentStep, PTL DEF Spec

=============================================================================
