-------------------------- MODULE ReaderMemoProofs --------------------------
(***************************************************************************)
(* For every set of titles, pages, fetches and release points, every TTL   *)
(* and any order of answers: the memos are well formed, what a page takes  *)
(* from one is as new as the generation its own answer carried, a title    *)
(* has one request per generation under way, and a footer without a        *)
(* warning rests on a recent check and a whole corpus.                     *)
(***************************************************************************)
EXTENDS ReaderMemo, FiniteSetTheorems, WellFoundedInduction, TLAPS

\* What a page has read was seen, and what it waits for was asked no earlier.
PageInv(p) ==
    page[p] # Idle =>
        /\ page[p].header <= generation
        /\ page[p].at # "asked" => page[p].header <= page[p].text
        /\ page[p].at \notin {"asked", "answered"} => page[p].header <= seen
        /\ page[p].at = "waiting" =>
              /\ page[p].waits \in Fetch /\ fetch[page[p].waits] # Idle
              /\ fetch[page[p].waits].generation # NoGeneration =>
                    page[p].header <= fetch[page[p].waits].generation

\* A fetch is stamped with what was seen, and its answer is no older.
FetchInv(f) ==
    fetch[f] # Idle =>
        /\ fetch[f].generation <= seen
        /\ fetch[f].state \in {"computed", "settled"} =>
              /\ fetch[f].answer # Idle
              /\ fetch[f].generation <= fetch[f].answer.version
              /\ fetch[f].answer.version <= generation

UnderWay(f) ==
    fetch[f] # Idle /\ fetch[f].key # STATUS /\ fetch[f].state \in {"asked", "computed"}
    /\ fetch[f].generation # NoGeneration

\* A request under way was replaced only because the generation had moved on.
CurrentInv(f) ==
    UnderWay(f) => entries[fetch[f].key] = f \/ fetch[f].generation < seen

MemoInv ==
    /\ MemoTypeOK
    /\ \A p \in Page : PageInv(p)
    /\ \A f \in Fetch : FetchInv(f)
    /\ \A f \in Fetch : CurrentInv(f)
    /\ OneRequestPerGeneration

USE DEF NoGeneration

-----------------------------------------------------------------------------

LEMMA Records ==
    ASSUME MemoTypeOK
    PROVE  /\ \A p \in Page : page[p] # Idle => page[p] \in PageRecord
           /\ \A f \in Fetch : fetch[f] # Idle => fetch[f] \in FetchRecord
           /\ \A f \in Fetch : fetch[f] # Idle /\ fetch[f].answer # Idle =>
                 fetch[f].answer \in AnswerRecord
<1>1. \A p \in Page : page[p] # Idle => page[p] \in PageRecord
    BY DEF MemoTypeOK
<1>2. \A f \in Fetch : fetch[f] # Idle => fetch[f] \in FetchRecord
    BY DEF MemoTypeOK
<1>3. \A r \in FetchRecord : r.answer # Idle => r.answer \in AnswerRecord
    BY DEF FetchRecord
<1> QED BY <1>1, <1>2, <1>3

\* With a dateline there is a footer.
LEMMA FooterTyped ==
    ASSUME MemoTypeOK, dateline(Status) # NoRelease
    PROVE  footerCurrency(Status) \in FooterRecord
<1>1. Finished(loads) \in SUBSET ReleasePoint
    BY DEF MemoTypeOK, Finished
<1>2. Status.latest = NewestOr(Finished(loads), NoRelease)
    BY DEF Status, StatusOf
<1>3. Status.at \in Nat
  <2>1. check # NoCheck => check.at \in Nat
      BY DEF MemoTypeOK, Check
  <2> QED BY <2>1 DEF Status, StatusOf
<1>4. footerCurrency(Status) =
        [label |-> Status.latest,
         checkedOn |-> IF Status.ok THEN Status.at ELSE NoCheck,
         warning |-> currencyNote(Status).tone = "warning"]
    BY DEF footerCurrency, dateline
<1>5. (currencyNote(Status).tone = "warning") \in BOOLEAN
    OBVIOUS
<1>6. Status.latest \in {NewestOr(S, NoRelease) : S \in SUBSET ReleasePoint}
    BY <1>1, <1>2
<1>7. (IF Status.ok THEN Status.at ELSE NoCheck) \in Nat \cup {NoCheck}
    BY <1>3
<1>8. ASSUME NEW l \in {NewestOr(S, NoRelease) : S \in SUBSET ReleasePoint},
             NEW c \in Nat \cup {NoCheck}, NEW w \in BOOLEAN
      PROVE  [label |-> l, checkedOn |-> c, warning |-> w] \in FooterRecord
    BY <1>8 DEF FooterRecord
<1> QED BY <1>4, <1>5, <1>6, <1>7, <1>8, Zenon

LEMMA AnswerTyped ==
    ASSUME MemoTypeOK, NEW key \in Key
    PROVE  Answer(key) \in AnswerRecord /\ Answer(key).version = generation
<1> DEFINE footer == footerCurrency(Status)
<1>1. footer \in {Idle, NoFooter} \cup FooterRecord
    BY FooterTyped DEF footerCurrency
<1>2. generation \in Nat
    BY DEF MemoTypeOK
<1> HIDE DEF footer
<1>3. Answer(key) = [version |-> generation, footer |-> IF key = STATUS THEN footer ELSE Idle]
    BY DEF Answer, footer
<1> QED BY <1>1, <1>2, <1>3 DEF AnswerRecord

-----------------------------------------------------------------------------

LEMMA InitMemo == Init => MemoInv
<1> SUFFICES ASSUME Init PROVE MemoInv
    OBVIOUS
<1>1. First \in ReleasePoint
    BY MemoAssumption DEF First
<1>2. MemoTypeOK
    BY <1>1, MemoAssumption DEF Init, MemoTypeOK
<1> QED BY <1>2 DEF Init, MemoInv, PageInv, FetchInv, CurrentInv, UnderWay, OneRequestPerGeneration

\* The corpus and the clock move on: the generation never goes back.
LEMMA CorpusKeepsMemo ==
    ASSUME MemoInv, UNCHANGED <<seen, entries, fetch, page>>,
           clock' \in Nat, generation' \in Nat, generation <= generation',
           DOMAIN loads' \subseteq ReleasePoint,
           check' \in {NoCheck} \cup Check(Nat, ReleasePoint \cup {NoRelease})
    PROVE  MemoInv'
<1>1. MemoTypeOK'
    BY DEF MemoInv, MemoTypeOK
<1>2. \A p \in Page : PageInv(p)'
  <2> SUFFICES ASSUME NEW p \in Page, page[p] # Idle PROVE PageInv(p)'
      BY DEF PageInv
  <2>1. PageInv(p) /\ page[p] \in PageRecord
      BY Records DEF MemoInv
  <2>2. page[p].header \in Nat /\ generation \in Nat
      BY <2>1 DEF PageRecord, MemoInv, MemoTypeOK
  <2> QED BY <2>1, <2>2 DEF PageInv
<1>3. \A f \in Fetch : FetchInv(f)'
  <2> SUFFICES ASSUME NEW f \in Fetch, fetch[f] # Idle PROVE FetchInv(f)'
      BY DEF FetchInv
  <2>1. FetchInv(f) /\ generation \in Nat
      BY DEF MemoInv, MemoTypeOK
  <2>2. fetch[f].answer # Idle => fetch[f].answer.version \in Nat
      BY Records DEF MemoInv, AnswerRecord
  <2> QED BY <2>1, <2>2 DEF FetchInv
<1> QED BY <1>1, <1>2, <1>3 DEF MemoInv, CurrentInv, UnderWay, OneRequestPerGeneration

\* Something was seen: `seen` only goes up, and not past the generation.
LEMMA SeenKeepsFetches ==
    ASSUME MemoInv, seen' \in Nat, seen <= seen', UNCHANGED <<corpus, fetch, entries>>
    PROVE  /\ \A f \in Fetch : FetchInv(f)'
           /\ \A f \in Fetch : CurrentInv(f)'
           /\ OneRequestPerGeneration'
<1>1. seen \in Nat
    BY DEF MemoInv, MemoTypeOK
<1>2. \A f \in Fetch : fetch[f] # Idle => fetch[f].generation \in Nat
    BY Records DEF MemoInv, FetchRecord
<1> QED BY <1>1, <1>2 DEF MemoInv, FetchInv, CurrentInv, UnderWay, OneRequestPerGeneration, corpus

LEMMA NotedGeneration ==
    ASSUME MemoTypeOK, NEW value \in 0..generation
    PROVE  noteGeneration(value) \in 0..generation /\ seen <= noteGeneration(value)
           /\ value <= noteGeneration(value)
BY DEF MemoTypeOK, noteGeneration

LEMMA CorpusSteps ==
    ASSUME MemoInv, (\E r \in ReleasePoint : PollRead(r))
                    \/ (\E maintenance \in BOOLEAN : PollFails(maintenance))
                    \/ (\E r \in ReleasePoint :
                          Load(r, "none", "incomplete") \/ Load(r, "incomplete", "complete"))
                    \/ Tick
    PROVE  MemoInv'
<1>1. ASSUME NEW r \in ReleasePoint, PollRead(r) PROVE MemoInv'
  <2>1. check' \in Check(Nat, ReleasePoint \cup {NoRelease})
      BY <1>1 DEF PollRead, Check, MemoInv, MemoTypeOK
  <2>2. DOMAIN loads' \subseteq ReleasePoint
      BY <1>1 DEF PollRead, Listed
  <2> QED BY <1>1, <2>1, <2>2, CorpusKeepsMemo DEF PollRead, Bump, MemoInv, MemoTypeOK
<1>2. ASSUME NEW maintenance \in BOOLEAN, PollFails(maintenance) PROVE MemoInv'
  <2>1. check' \in Check(Nat, ReleasePoint \cup {NoRelease})
      BY <1>2 DEF PollFails, Check, MemoInv, MemoTypeOK
  <2> QED BY <1>2, <2>1, CorpusKeepsMemo DEF PollFails, Bump, MemoInv, MemoTypeOK
<1>3. ASSUME NEW r \in ReleasePoint, NEW from, NEW to, Load(r, from, to) PROVE MemoInv'
    BY <1>3, CorpusKeepsMemo DEF Load, Bump, MemoInv, MemoTypeOK
<1>4. ASSUME Tick PROVE MemoInv'
    BY <1>4, CorpusKeepsMemo DEF Tick, corpus, MemoInv, MemoTypeOK
<1> QED BY <1>1, <1>2, <1>3, <1>4

\* Only a page moved, to where its own invariant holds.
LEMMA PageKeepsMemo ==
    ASSUME MemoInv, NEW p \in Page, NEW record \in {Idle} \cup PageRecord,
           page' = [page EXCEPT ![p] = record], PageInv(p)',
           UNCHANGED <<clock, corpus, seen, entries, fetch>>
    PROVE  MemoInv'
<1>1. MemoTypeOK'
    BY DEF MemoInv, MemoTypeOK, corpus
<1>2. ASSUME NEW q \in Page PROVE PageInv(q)'
  <2>1. q # p => page'[q] = page[q]
      BY DEF MemoInv, MemoTypeOK
  <2> QED BY <2>1 DEF MemoInv, PageInv, corpus
<1> QED BY <1>1, <1>2 DEF MemoInv, FetchInv, CurrentInv, UnderWay, OneRequestPerGeneration, corpus

LEMMA AskPageKeeps ==
    ASSUME MemoInv, NEW p \in Page, NEW header \in 0..MaxGeneration, AskPage(p, header)
    PROVE  MemoInv'
<1> DEFINE record == [at |-> "asked", header |-> header, text |-> 0,
                      waits |-> NoEntry, since |-> 0]
<1>1. record \in PageRecord
    BY DEF PageRecord
<1>2. page' = [page EXCEPT ![p] = record] /\ UNCHANGED <<clock, corpus, seen, entries, fetch>>
    BY DEF AskPage
<1>3. page'[p] = record /\ header <= generation
    BY <1>2 DEF AskPage, MemoInv, MemoTypeOK
<1>4. PageInv(p)'
    BY <1>2, <1>3 DEF PageInv, corpus
<1> HIDE DEF record
<1> QED BY <1>1, <1>2, <1>4, PageKeepsMemo

LEMMA AnswerPageKeeps ==
    ASSUME MemoInv, NEW p \in Page, AnswerPage(p)
    PROVE  MemoInv'
<1> DEFINE record == [page[p] EXCEPT !.at = "answered", !.text = generation]
<1>1. page[p] \in PageRecord /\ page[p].header <= generation /\ generation \in Nat
    BY Records DEF AnswerPage, MemoInv, MemoTypeOK, PageInv
<1>2. /\ record \in PageRecord /\ record.header = page[p].header
      /\ record.text = generation /\ record.at = "answered"
    BY <1>1 DEF PageRecord
<1>3. page' = [page EXCEPT ![p] = record] /\ UNCHANGED <<clock, corpus, seen, entries, fetch>>
    BY DEF AnswerPage
<1> HIDE DEF record
<1>4. page'[p] = record
    BY <1>3 DEF MemoInv, MemoTypeOK
<1>5. PageInv(p)'
    BY <1>1, <1>2, <1>3, <1>4 DEF PageInv, corpus
<1> QED BY <1>2, <1>3, <1>5, PageKeepsMemo

LEMMA ReceivePageKeeps ==
    ASSUME MemoInv, NEW p \in Page, ReceivePage(p)
    PROVE  MemoInv'
<1>1. page[p] \in PageRecord /\ page[p].header \in 0..generation
      /\ page[p].header <= page[p].text
    BY Records DEF ReceivePage, MemoInv, MemoTypeOK, PageInv, PageRecord
<1>2. seen' \in 0..generation /\ seen <= seen' /\ page[p].header <= seen'
    BY <1>1, NotedGeneration DEF ReceivePage, MemoInv
<1>3. [page[p] EXCEPT !.at = "received"] \in PageRecord
      /\ [page[p] EXCEPT !.at = "received"].header = page[p].header
      /\ [page[p] EXCEPT !.at = "received"].text = page[p].text
      /\ [page[p] EXCEPT !.at = "received"].at = "received"
    BY <1>1 DEF PageRecord
<1>4. MemoTypeOK'
    BY <1>2, <1>3 DEF ReceivePage, MemoInv, MemoTypeOK, corpus
<1>5. ASSUME NEW q \in Page PROVE PageInv(q)'
  <2>1. CASE q = p
    <3>1. page'[p] = [page[p] EXCEPT !.at = "received"]
        BY DEF ReceivePage, MemoInv, MemoTypeOK
    <3> QED BY <1>1, <1>2, <1>3, <2>1, <3>1 DEF PageInv, ReceivePage, corpus
  <2>2. CASE q # p
    <3>1. page'[q] = page[q]
        BY <2>2 DEF ReceivePage, MemoInv, MemoTypeOK
    <3>2. page[q] # Idle => page[q].header \in Nat
        BY Records DEF MemoInv, PageRecord
    <3>3. seen \in Nat /\ seen' \in Nat
        BY <1>2 DEF MemoInv, MemoTypeOK
    <3> QED BY <1>2, <3>1, <3>2, <3>3 DEF MemoInv, PageInv, ReceivePage, corpus
  <2> QED BY <2>1, <2>2
<1>6. seen' \in Nat /\ UNCHANGED <<corpus, fetch, entries>>
    BY <1>2 DEF ReceivePage, MemoInv, MemoTypeOK
<1> QED BY <1>2, <1>4, <1>5, <1>6, SeenKeepsFetches DEF MemoInv

LEMMA ServeKeeps ==
    ASSUME MemoInv, NEW p \in Page, NEW key \in Key, Serve(p, key)
    PROVE  MemoInv'
<1> DEFINE f == entries[key]
           record == [page[p] EXCEPT !.at = "waiting", !.waits = f, !.since = Asked(key)]
<1>1. page[p] \in PageRecord /\ page[p].header <= seen /\ page[p].header <= page[p].text
    BY Records DEF Serve, MemoInv, PageInv
<1>2. f \in Fetch /\ fetch[f] # Idle /\ fetch[f] \in FetchRecord
    BY Records DEF Serve, Hit, MemoInv, MemoTypeOK
<1>3. fetch[f].generation # 0 => page[p].header <= fetch[f].generation
  <2>1. page[p].header \in Nat /\ seen \in Nat /\ fetch[f].generation \in Nat
      BY <1>1, <1>2 DEF PageRecord, FetchRecord, MemoInv, MemoTypeOK
  <2> QED BY <1>1, <2>1 DEF Serve, Hit, fresh
<1>4. record \in PageRecord /\ record.header = page[p].header /\ record.waits = f
      /\ record.text = page[p].text
  <2>1. Asked(key) \in Nat
      BY DEF Asked, MemoInv, MemoTypeOK
  <2> QED BY <1>1, <1>2, <2>1 DEF PageRecord
<1>5. page' = [page EXCEPT ![p] = record] /\ UNCHANGED <<clock, corpus, seen, entries, fetch>>
    BY DEF Serve
<1> HIDE DEF f, record
<1>6. page'[p] = record
    BY <1>5 DEF MemoInv, MemoTypeOK
<1>7. page[p].header <= generation
    BY DEF MemoInv, PageInv, Serve
<1>8. PageInv(p)'
    BY <1>1, <1>2, <1>3, <1>4, <1>5, <1>6, <1>7 DEF PageInv, corpus
<1> QED BY <1>4, <1>5, <1>8, PageKeepsMemo

LEMMA ProceedKeeps ==
    ASSUME MemoInv, NEW p \in Page, Proceed(p)
    PROVE  MemoInv'
<1>1. page'[p] = Idle
    BY DEF Proceed, MemoInv, MemoTypeOK
<1>2. PageInv(p)'
    BY <1>1 DEF PageInv
<1> QED BY <1>2, PageKeepsMemo DEF Proceed

\* A fetch asked before got further: its key and its stamp stay.
LEMMA FetchKeepsPages ==
    ASSUME MemoInv, NEW f \in Fetch, NEW record \in FetchRecord,
           fetch[f] # Idle, record.generation = fetch[f].generation,
           fetch' = [fetch EXCEPT ![f] = record],
           generation' = generation, seen' \in Nat, seen <= seen', page' = page
    PROVE  \A p \in Page : PageInv(p)'
<1> SUFFICES ASSUME NEW p \in Page, page[p] # Idle PROVE PageInv(p)'
    BY DEF PageInv
<1>1. PageInv(p) /\ page[p].header \in Nat /\ seen \in Nat
    BY Records DEF MemoInv, MemoTypeOK, PageRecord
<1>2. record # Idle
    BY IdleAssumption
<1>3. \A g \in Fetch : fetch'[g] = IF g = f THEN record ELSE fetch[g]
    BY DEF MemoInv, MemoTypeOK
<1> QED BY <1>1, <1>2, <1>3 DEF PageInv

LEMMA ComputeFetchKeeps ==
    ASSUME MemoInv, NEW f \in Fetch, ComputeFetch(f)
    PROVE  MemoInv'
<1> DEFINE record == [fetch[f] EXCEPT !.state = "computed", !.answer = Answer(fetch[f].key)]
<1>1. fetch[f] # Idle /\ fetch[f] \in FetchRecord /\ fetch[f].state = "asked"
    BY Records DEF ComputeFetch, MemoInv
<1>2. Answer(fetch[f].key) \in AnswerRecord /\ Answer(fetch[f].key).version = generation
    BY <1>1, AnswerTyped DEF MemoInv, FetchRecord
<1>3. /\ record \in FetchRecord /\ record.key = fetch[f].key /\ record.state = "computed"
      /\ record.generation = fetch[f].generation /\ record.answer = Answer(fetch[f].key)
    BY <1>1, <1>2 DEF FetchRecord
<1>4. fetch' = [fetch EXCEPT ![f] = record] /\ UNCHANGED <<clock, corpus, seen, entries, page>>
    BY DEF ComputeFetch
<1> HIDE DEF record
<1>5. \A g \in Fetch : fetch'[g] = IF g = f THEN record ELSE fetch[g]
    BY <1>4 DEF MemoInv, MemoTypeOK
<1>6. record # Idle /\ record.answer # Idle
    BY <1>2, <1>3, IdleAssumption
<1>7. MemoTypeOK'
  <2>1. fetch' \in [Fetch -> {Idle} \cup FetchRecord]
      BY <1>3, <1>4 DEF MemoInv, MemoTypeOK
  <2> QED BY <1>3, <1>4, <1>5, <1>6, <2>1 DEF MemoInv, MemoTypeOK, corpus
<1>8. \A p \in Page : PageInv(p)'
  <2>1. generation' = generation /\ page' = page /\ seen' \in Nat /\ seen <= seen'
      BY <1>4 DEF corpus, MemoInv, MemoTypeOK
  <2> QED BY <1>1, <1>3, <1>4, <2>1, FetchKeepsPages
<1>9. \A g \in Fetch : FetchInv(g)'
  <2>1. fetch[f].generation \in Nat /\ seen <= generation /\ seen \in Nat /\ generation \in Nat
      BY <1>1 DEF FetchRecord, MemoInv, MemoTypeOK
  <2>2. fetch[f].generation <= seen
      BY <1>1 DEF MemoInv, FetchInv
  <2> QED BY <1>2, <1>3, <1>4, <1>5, <1>6, <2>1, <2>2 DEF MemoInv, FetchInv, corpus
<1>10. \A g \in Fetch : (UnderWay(g)' => UnderWay(g))
                          /\ (fetch'[g] # Idle => fetch[g] # Idle
                                  /\ fetch'[g].key = fetch[g].key
                                  /\ fetch'[g].generation = fetch[g].generation)
    BY <1>1, <1>3, <1>5 DEF UnderWay
<1>11. \A g \in Fetch : CurrentInv(g)'
    BY <1>4, <1>10 DEF MemoInv, CurrentInv, UnderWay
<1>12. OneRequestPerGeneration'
    BY <1>1, <1>3, <1>5, <1>10 DEF MemoInv, OneRequestPerGeneration
<1> QED BY <1>7, <1>8, <1>9, <1>11, <1>12 DEF MemoInv

LEMMA ReceiveFetchKeeps ==
    ASSUME MemoInv, NEW f \in Fetch, NEW header \in 0..MaxGeneration, ReceiveFetch(f, header)
    PROVE  MemoInv'
<1> DEFINE record == [fetch[f] EXCEPT !.state = "settled"]
<1>1. fetch[f] # Idle /\ fetch[f] \in FetchRecord /\ fetch[f].state = "computed"
    BY Records DEF ReceiveFetch, MemoInv
<1>2. fetch[f].answer \in AnswerRecord /\ fetch[f].answer.version \in 0..generation
    BY <1>1, Records DEF MemoInv, MemoTypeOK, FetchInv, AnswerRecord
<1>3. seen' \in 0..generation /\ seen <= seen'
  <2>1. header \in 0..generation
      BY <1>2 DEF ReceiveFetch, Headers, MemoInv, MemoTypeOK
  <2> QED BY <2>1, NotedGeneration DEF ReceiveFetch, MemoInv
<1>4. /\ record \in FetchRecord /\ record.key = fetch[f].key /\ record.state = "settled"
      /\ record.generation = fetch[f].generation /\ record.answer = fetch[f].answer
    BY <1>1 DEF FetchRecord
<1>5. fetch' = [fetch EXCEPT ![f] = record] /\ UNCHANGED <<clock, corpus, entries, page>>
    BY DEF ReceiveFetch
<1> HIDE DEF record
<1>6. \A g \in Fetch : fetch'[g] = IF g = f THEN record ELSE fetch[g]
    BY <1>5 DEF MemoInv, MemoTypeOK
<1>7. record # Idle
    BY <1>4, IdleAssumption
<1>8. MemoTypeOK'
  <2>1. fetch' \in [Fetch -> {Idle} \cup FetchRecord]
      BY <1>4, <1>5 DEF MemoInv, MemoTypeOK
  <2> QED BY <1>3, <1>4, <1>5, <1>6, <1>7, <2>1 DEF MemoInv, MemoTypeOK, corpus
<1>9. \A p \in Page : PageInv(p)'
  <2>1. generation' = generation /\ page' = page /\ seen' \in Nat /\ seen <= seen'
      BY <1>3, <1>5 DEF corpus, MemoInv, MemoTypeOK
  <2> QED BY <1>1, <1>4, <1>5, <2>1, FetchKeepsPages
<1>10. \A g \in Fetch : fetch[g] # Idle => fetch[g].generation \in Nat
    BY Records DEF MemoInv, FetchRecord
<1>11. seen \in Nat /\ seen' \in Nat
    BY <1>3 DEF MemoInv, MemoTypeOK
<1>12. \A g \in Fetch : FetchInv(g)'
    BY <1>1, <1>3, <1>4, <1>5, <1>6, <1>10, <1>11 DEF MemoInv, FetchInv, corpus
<1>13. \A g \in Fetch : (UnderWay(g)' => UnderWay(g))
                          /\ (fetch'[g] # Idle => fetch[g] # Idle
                                  /\ fetch'[g].key = fetch[g].key
                                  /\ fetch'[g].generation = fetch[g].generation)
    BY <1>1, <1>4, <1>6 DEF UnderWay
<1>14. \A g \in Fetch : CurrentInv(g)'
  <2> SUFFICES ASSUME NEW g \in Fetch, UnderWay(g)'
               PROVE  entries[fetch[g].key] = g \/ fetch[g].generation < seen'
      BY <1>5, <1>13 DEF CurrentInv, UnderWay
  <2>1. UnderWay(g) /\ fetch[g].generation \in Nat
      BY <1>10, <1>13 DEF UnderWay
  <2> QED BY <1>3, <1>11, <2>1 DEF MemoInv, CurrentInv
<1>15. OneRequestPerGeneration'
    BY <1>1, <1>4, <1>6, <1>13 DEF MemoInv, OneRequestPerGeneration
<1> QED BY <1>8, <1>9, <1>12, <1>14, <1>15 DEF MemoInv

LEMMA FailFetchKeeps ==
    ASSUME MemoInv, NEW f \in Fetch, FailFetch(f)
    PROVE  MemoInv'
<1> DEFINE record == [fetch[f] EXCEPT !.state = "failed"]
<1>1. fetch[f] # Idle /\ fetch[f] \in FetchRecord /\ fetch[f].key \in Key
    BY Records DEF FailFetch, MemoInv, FetchRecord
<1>2. /\ record \in FetchRecord /\ record.key = fetch[f].key /\ record.state = "failed"
      /\ record.generation = fetch[f].generation /\ record.answer = fetch[f].answer
    BY <1>1 DEF FetchRecord
<1>3. /\ fetch' = [fetch EXCEPT ![f] = record]
      /\ entries' = Evict(f)
      /\ UNCHANGED <<clock, corpus, seen, page>>
    BY DEF FailFetch
<1> HIDE DEF record
<1>4. \A g \in Fetch : fetch'[g] = IF g = f THEN record ELSE fetch[g]
    BY <1>3 DEF MemoInv, MemoTypeOK
<1>5. \A key \in Key : entries'[key] = IF key = fetch[f].key /\ entries[key] = f
                                       THEN NoEntry ELSE entries[key]
    BY <1>1, <1>3 DEF Evict, MemoInv, MemoTypeOK
<1>6. record # Idle
    BY <1>2, IdleAssumption
<1>7. MemoTypeOK'
  <2>1. fetch' \in [Fetch -> {Idle} \cup FetchRecord]
      BY <1>2, <1>3 DEF MemoInv, MemoTypeOK
  <2>2. entries' \in [Key -> Fetch \cup {NoEntry}]
      BY <1>1, <1>3 DEF Evict, MemoInv, MemoTypeOK
  <2>3. ASSUME NEW key \in Key, entries'[key] # NoEntry
        PROVE  fetch'[entries'[key]] # Idle /\ fetch'[entries'[key]].key = key
               /\ fetch'[entries'[key]].state # "failed"
    <3>1. entries'[key] = entries[key] /\ entries[key] \in Fetch
        BY <1>5, <2>3 DEF MemoInv, MemoTypeOK
    <3>2. entries[key] # f
        BY <1>1, <1>5, <2>3, <3>1 DEF MemoInv, MemoTypeOK
    <3> QED BY <1>4, <2>3, <3>1, <3>2 DEF MemoInv, MemoTypeOK
  <2> QED BY <1>3, <2>1, <2>2, <2>3 DEF MemoInv, MemoTypeOK, corpus
<1>8. seen \in Nat /\ seen' = seen
    BY <1>3 DEF MemoInv, MemoTypeOK
<1>9. \A p \in Page : PageInv(p)'
  <2>1. generation' = generation /\ page' = page /\ seen' \in Nat /\ seen <= seen'
      BY <1>3, <1>8 DEF corpus, MemoInv, MemoTypeOK
  <2> QED BY <1>1, <1>2, <1>3, <2>1, FetchKeepsPages
<1>10. \A g \in Fetch : FetchInv(g)'
    BY <1>1, <1>2, <1>3, <1>4 DEF MemoInv, FetchInv, corpus
<1>11. \A g \in Fetch : UnderWay(g)' => g # f /\ UnderWay(g) /\ fetch'[g] = fetch[g]
    BY <1>2, <1>4 DEF UnderWay
<1>12. \A g \in Fetch : CurrentInv(g)'
  <2> SUFFICES ASSUME NEW g \in Fetch, UnderWay(g)'
               PROVE  entries'[fetch[g].key] = g \/ fetch[g].generation < seen
      BY <1>3, <1>11 DEF CurrentInv
  <2>1. g # f /\ fetch[g].key \in Key /\ UnderWay(g)
      BY <1>11, Records DEF UnderWay, MemoInv, FetchRecord
  <2> QED BY <1>5, <2>1 DEF MemoInv, CurrentInv
<1>13. OneRequestPerGeneration'
    BY <1>2, <1>4 DEF MemoInv, OneRequestPerGeneration
<1> QED BY <1>7, <1>9, <1>10, <1>12, <1>13 DEF MemoInv

LEMMA CollectKeeps ==
    ASSUME MemoInv, NEW f \in Fetch, Collect(f)
    PROVE  MemoInv'
<1>1. /\ fetch' = [fetch EXCEPT ![f] = Idle] /\ UNCHANGED <<clock, corpus, seen, entries, page>>
      /\ \A g \in Fetch : fetch'[g] = IF g = f THEN Idle ELSE fetch[g]
    BY DEF Collect, MemoInv, MemoTypeOK
<1>2. MemoTypeOK'
  <2>1. fetch' \in [Fetch -> {Idle} \cup FetchRecord]
      BY <1>1 DEF MemoInv, MemoTypeOK
  <2>2. \A key \in Key : entries[key] # f
      BY DEF Collect
  <2> QED BY <1>1, <2>1, <2>2 DEF MemoInv, MemoTypeOK, corpus
<1>3. \A p \in Page : PageInv(p)'
    BY <1>1 DEF Collect, MemoInv, PageInv, corpus
<1>4. \A g \in Fetch : FetchInv(g)' /\ CurrentInv(g)'
    BY <1>1 DEF MemoInv, FetchInv, CurrentInv, UnderWay, corpus
<1>5. OneRequestPerGeneration'
    BY <1>1 DEF MemoInv, OneRequestPerGeneration
<1> QED BY <1>2, <1>3, <1>4, <1>5 DEF MemoInv

\* A miss under a generation that is known: the entry is of an older one, so no
\* request of this generation is under way.
LEMMA MissIsNew ==
    ASSUME MemoInv, NEW key \in Key, key # STATUS, ~Hit(key),
           NEW g \in Fetch, UnderWay(g), fetch[g].key = key
    PROVE  fetch[g].generation < seen
<1>1. entries[key] = g \/ fetch[g].generation < seen
    BY DEF MemoInv, CurrentInv
<1>2. CASE entries[key] = g
  <2>1. g # NoEntry /\ fetch[g].generation \in Nat /\ seen \in Nat /\ fetch[g].generation <= seen
      BY MemoAssumption, Records DEF MemoInv, MemoTypeOK, FetchInv, UnderWay, FetchRecord
  <2>2. ~fresh(key, g)
      BY <1>2, <2>1 DEF Hit
  <2>3. fetch[g].generation # 0
      BY DEF UnderWay
  <2>4. fetch[g].generation # seen
      BY <2>2, <2>3 DEF fresh
  <2> QED BY <2>1, <2>4
<1> QED BY <1>1, <1>2

LEMMA RefetchKeeps ==
    ASSUME MemoInv, NEW p \in Page, NEW key \in Key, NEW f \in Fetch, Refetch(p, key, f)
    PROVE  MemoInv'
<1> DEFINE asked == [key |-> key, at |-> clock, generation |-> seen,
                     state |-> "asked", answer |-> Idle]
           waiting == [page[p] EXCEPT !.at = "waiting", !.waits = f, !.since = Asked(key)]
<1>1. page[p] \in PageRecord /\ page[p].header <= seen /\ page[p].header <= generation
      /\ page[p].header <= page[p].text
    BY Records DEF Refetch, MemoInv, PageInv
<1>2. clock \in Nat /\ seen \in Nat /\ Asked(key) \in Nat
    BY DEF MemoInv, MemoTypeOK, Asked
<1>3. asked \in FetchRecord /\ asked # Idle
    BY <1>2, IdleAssumption DEF FetchRecord
<1>4. waiting \in PageRecord /\ waiting.header = page[p].header /\ waiting.waits = f
      /\ waiting.text = page[p].text
    BY <1>1, <1>2 DEF PageRecord
<1>5. /\ fetch[f] = Idle /\ ~Hit(key)
      /\ fetch' = [fetch EXCEPT ![f] = asked] /\ entries' = [entries EXCEPT ![key] = f]
      /\ page' = [page EXCEPT ![p] = waiting] /\ UNCHANGED <<clock, corpus, seen>>
    BY DEF Refetch
<1>6. asked.key = key /\ asked.generation = seen /\ asked.state = "asked"
    OBVIOUS
<1> HIDE DEF asked, waiting
<1>7. /\ \A g \in Fetch : fetch'[g] = IF g = f THEN asked ELSE fetch[g]
      /\ \A k \in Key : entries'[k] = IF k = key THEN f ELSE entries[k]
      /\ \A q \in Page : page'[q] = IF q = p THEN waiting ELSE page[q]
    BY <1>5 DEF MemoInv, MemoTypeOK
<1>8. MemoTypeOK'
  <2>1. /\ fetch' \in [Fetch -> {Idle} \cup FetchRecord]
        /\ entries' \in [Key -> Fetch \cup {NoEntry}]
        /\ page' \in [Page -> {Idle} \cup PageRecord]
      BY <1>3, <1>4, <1>5 DEF MemoInv, MemoTypeOK
  <2>2. \A k \in Key : entries'[k] # NoEntry =>
            fetch'[entries'[k]] # Idle /\ fetch'[entries'[k]].key = k
            /\ fetch'[entries'[k]].state # "failed"
      BY <1>3, <1>5, <1>6, <1>7 DEF MemoInv, MemoTypeOK
  <2> QED BY <1>5, <2>1, <2>2 DEF MemoInv, MemoTypeOK, corpus
<1>9. ASSUME NEW q \in Page PROVE PageInv(q)'
  <2>1. CASE q = p
      BY <1>1, <1>3, <1>4, <1>5, <1>6, <1>7, <2>1 DEF PageInv, corpus
  <2>2. CASE q # p
      BY <1>5, <1>7, <2>2 DEF MemoInv, PageInv, corpus
  <2> QED BY <2>1, <2>2
<1>10. ASSUME NEW g \in Fetch PROVE FetchInv(g)'
    BY <1>2, <1>5, <1>6, <1>7 DEF MemoInv, FetchInv, corpus
<1>11. ASSUME NEW g \in Fetch, UnderWay(g)', g # f
       PROVE  UnderWay(g) /\ fetch'[g] = fetch[g] /\ fetch[g].key \in Key
              /\ (fetch[g].key = key => fetch[g].generation < seen)
  <2>1. UnderWay(g) /\ fetch'[g] = fetch[g]
      BY <1>7, <1>11 DEF UnderWay
  <2>2. fetch[g].key \in Key
      BY <2>1, Records DEF UnderWay, MemoInv, FetchRecord
  <2> QED BY <1>5, <2>1, <2>2, MissIsNew DEF UnderWay
<1>12. ASSUME NEW g \in Fetch PROVE CurrentInv(g)'
  <2>1. CASE g = f
      BY <1>6, <1>7, <2>1 DEF CurrentInv
  <2>2. CASE g # f
      BY <1>5, <1>7, <1>11, <2>2 DEF MemoInv, CurrentInv
  <2> QED BY <2>1, <2>2
<1>13. OneRequestPerGeneration'
  <2> SUFFICES ASSUME NEW g \in Fetch, NEW h \in Fetch, g # h,
                      UnderWay(g)', UnderWay(h)', fetch'[g].key = fetch'[h].key
               PROVE  fetch'[g].generation # fetch'[h].generation
      BY DEF OneRequestPerGeneration, UnderWay
  <2>1. CASE g # f /\ h # f
      BY <1>11, <2>1 DEF MemoInv, OneRequestPerGeneration, UnderWay
  <2>2. CASE g = f
      BY <1>2, <1>6, <1>7, <1>11, <2>2
  <2>3. CASE h = f
      BY <1>2, <1>6, <1>7, <1>11, <2>3
  <2> QED BY <2>1, <2>2, <2>3
<1> QED BY <1>8, <1>9, <1>10, <1>12, <1>13 DEF MemoInv

-----------------------------------------------------------------------------

\* MemoInv is inductive.
THEOREM MemoInvariant == Spec => []MemoInv
<1>1. MemoInv /\ [Next]_vars => MemoInv'
  <2> SUFFICES ASSUME MemoInv, [Next]_vars PROVE MemoInv'
      OBVIOUS
  <2>1. CASE UNCHANGED vars
      BY <2>1, CorpusKeepsMemo DEF vars, corpus, MemoInv, MemoTypeOK
  <2>2. CASE Next
      BY <2>2, CorpusSteps, AskPageKeeps, AnswerPageKeeps, ReceivePageKeeps, ServeKeeps, RefetchKeeps,
         ProceedKeeps, ComputeFetchKeeps, ReceiveFetchKeeps, FailFetchKeeps, CollectKeeps
         DEF Next
  <2> QED BY <2>1, <2>2
<1> QED BY <1>1, InitMemo, PTL DEF Spec

\* The memos are well formed, and no entry is a fetch that failed.
THEOREM MemoTypeCorrect == Spec => []MemoTypeOK
<1>1. MemoInv => MemoTypeOK
    BY DEF MemoInv
<1> QED BY <1>1, MemoInvariant, PTL

\* The header of a page's answer is not newer than its text, and what the page
\* takes from a memo is not older than that header, however the answers that moved
\* the generation arrived and whatever was committed while the API answered.
THEOREM MemoAsNewAsThePage == Spec => []AsNewAsThePage
<1>1. ASSUME MemoInv PROVE AsNewAsThePage
  <2> SUFFICES ASSUME NEW p \in Page, Settled(p), fetch[page[p].waits].generation # NoGeneration
               PROVE  page[p].header <= fetch[page[p].waits].answer.version
      BY <1>1 DEF AsNewAsThePage, MemoInv, PageInv
  <2> DEFINE f == page[p].waits
  <2>1. page[p] \in PageRecord /\ f \in Fetch /\ fetch[f] # Idle
        /\ page[p].header <= fetch[f].generation
      BY <1>1, Records DEF MemoInv, PageInv, Settled
  <2>2. /\ fetch[f] \in FetchRecord /\ fetch[f].answer \in AnswerRecord
        /\ fetch[f].generation <= fetch[f].answer.version
      BY <1>1, <2>1, Records DEF MemoInv, FetchInv, Settled
  <2>3. page[p].header \in Nat /\ fetch[f].generation \in Nat /\ fetch[f].answer.version \in Nat
      BY <2>1, <2>2 DEF PageRecord, FetchRecord, AnswerRecord
  <2> QED BY <2>1, <2>2, <2>3
<1> QED BY <1>1, MemoInvariant, PTL

\* One request per title and generation, also when an older one fails late.
THEOREM MemoOneRequest == Spec => []OneRequestPerGeneration
<1>1. MemoInv => OneRequestPerGeneration
    BY DEF MemoInv
<1> QED BY <1>1, MemoInvariant, PTL

-----------------------------------------------------------------------------
(* The footer. What it says is an inference from the status; how old it may be
   is the week of a check, the time the fetch took, and the memo's TTL. *)

\* What is loaded is bounded by a release point the source listed.
CorpusInv ==
    /\ First \in DOMAIN loads
    /\ \E n \in ReleasePoint : \A r \in DOMAIN loads : r <= n
    /\ check # NoCheck /\ check.ok => check.latest \in ReleasePoint

\* A footer without a warning rests on a check that was fresh when it was asked.
Confirmed(f) ==
    LET footer == fetch[f].answer.footer IN
    footer = NoFooter \/ footer.warning \/
        (footer.checkedOn \in Nat /\ fetch[f].at - footer.checkedOn <= StaleAfter)

FetchAge(f) ==
    fetch[f] # Idle =>
        /\ fetch[f].at <= clock
        /\ fetch[f].key = STATUS /\ fetch[f].state \in {"computed", "settled"} => Confirmed(f)

PageAge(p) ==
    page[p] # Idle /\ page[p].at = "waiting" /\ fetch[page[p].waits].key = STATUS =>
        page[p].since - fetch[page[p].waits].at < TTL

AgeInv == CorpusInv /\ (\A f \in Fetch : FetchAge(f)) /\ (\A p \in Page : PageAge(p))

\* A set of naturals has a least element, and a bounded one a greatest.
LEMMA OldestExists ==
    ASSUME NEW S \in SUBSET Nat, S # {}
    PROVE  \E m \in S : \A x \in S : m <= x
<1>1. PICK m \in S : \A x \in S : <<x, m>> \notin OpToRel(<, Nat)
    BY NatLessThanWellFounded, WFMin
<1>2. ASSUME NEW x \in S PROVE m <= x
  <2>1. m \in Nat /\ x \in Nat
      OBVIOUS
  <2>2. <<x, m>> \notin OpToRel(<, Nat)
      BY <1>1
  <2>3. ~(x < m)
      BY <2>1, <2>2 DEF OpToRel
  <2> QED BY <2>1, <2>3
<1> QED BY <1>2

LEMMA LargestExists ==
    ASSUME NEW S \in SUBSET Nat, S # {}, NEW n \in Nat, \A x \in S : x <= n
    PROVE  LargestOf(S) \in S /\ \A x \in S : x <= LargestOf(S)
<1> DEFINE T == {n - x : x \in S}
<1>1. T \in SUBSET Nat /\ T # {}
  <2>1. \A x \in S : n - x \in Nat
      OBVIOUS
  <2>2. PICK x \in S : TRUE
      OBVIOUS
  <2> QED BY <2>1, <2>2
<1>2. PICK m \in T : \A x \in T : m <= x
  <2> HIDE DEF T
  <2> QED BY <1>1, OldestExists
<1>3. PICK y \in S : m = n - y
    BY <1>2
<1>4. \A x \in S : n - y <= n - x
    BY <1>2, <1>3
<1>5. \A x \in S : x <= y
    BY <1>4
<1> QED BY <1>5 DEF LargestOf

\* The only sentence without a warning is the last branch.
LEMMA NoteWithoutWarning ==
    ASSUME NEW s, currencyNote(s).tone # "warning"
    PROVE  s.checked /\ s.ok /\ unloadedTitles(s) = {} /\ ~(s.behind > 0) /\ ~s.stale
BY DEF currencyNote, Note

LEMMA CheckedStatus ==
    ASSUME MemoTypeOK, footerCurrency(Status) # NoFooter, ~footerCurrency(Status).warning
    PROVE  /\ check # NoCheck /\ check.ok /\ check.at \in Nat
           /\ clock - check.at <= StaleAfter
           /\ footerCurrency(Status).checkedOn = check.at
           /\ {r \in DOMAIN loads : loads[r] = "incomplete"} = {}
           /\ Unloaded(loads, DOMAIN loads) = {}
           /\ ~(Status.behind > 0)
<1>1. currencyNote(Status).tone # "warning"
    BY DEF footerCurrency
<1>2. /\ Status.checked /\ Status.ok /\ Status.unloaded \cup Status.incomplete = {}
      /\ ~(Status.behind > 0) /\ ~Status.stale
    BY <1>1, NoteWithoutWarning DEF unloadedTitles
<1>3. check # NoCheck
    BY <1>2 DEF Status, StatusOf
<1>4. check.ok /\ ~IsStale(check, clock)
    BY <1>2, <1>3 DEF Status, StatusOf
<1>5. check.at \in Nat /\ clock \in Nat /\ StaleAfter \in Nat
    BY <1>3, MemoAssumption DEF MemoTypeOK, Check
<1>6. clock - check.at <= StaleAfter
  <2>1. ~(clock - check.at > StaleAfter)
      BY <1>4 DEF IsStale
  <2> QED BY <1>5, <2>1
<1>7. footerCurrency(Status).checkedOn = check.at
    BY <1>2, <1>3 DEF footerCurrency, Status, StatusOf
<1>8. /\ Status.incomplete = {r \in DOMAIN loads : loads[r] = "incomplete"}
      /\ Status.unloaded = Unloaded(loads, DOMAIN loads)
    BY DEF Status, StatusOf
<1> QED BY <1>2, <1>3, <1>4, <1>5, <1>6, <1>7, <1>8

\* Without a warning the corpus is whole.
LEMMA WholeStatus ==
    ASSUME MemoTypeOK, CorpusInv,
           footerCurrency(Status) # NoFooter, ~footerCurrency(Status).warning
    PROVE  /\ \A r \in DOMAIN loads : loads[r] # "incomplete"
           /\ \E r \in Finished(loads) : \A q \in DOMAIN loads : q <= check.latest => q <= r
<1> DEFINE F == Finished(loads)
           m == LargestOf(F)
           B == {r \in DOMAIN loads : m < r /\ r <= check.latest}
<1>1. /\ check # NoCheck /\ check.ok
      /\ {r \in DOMAIN loads : loads[r] = "incomplete"} = {}
      /\ Unloaded(loads, DOMAIN loads) = {} /\ ~(Status.behind > 0)
    BY CheckedStatus
<1>2. DOMAIN loads \subseteq Nat /\ check.latest \in Nat
    BY <1>1, MemoAssumption DEF MemoTypeOK, CorpusInv
<1>3. PICK n \in Nat : \A r \in DOMAIN loads : r <= n
    BY MemoAssumption DEF CorpusInv
<1>4. F \subseteq DOMAIN loads /\ F = {r \in DOMAIN loads : r \in DOMAIN loads => loads[r] = "complete"}
    BY DEF Finished
<1>5. F # {}
  <2>1. First \in DOMAIN loads
      BY DEF CorpusInv
  <2> HIDE DEF F
  <2> QED BY <1>1, <1>4, <2>1 DEF Unloaded
<1>6. m \in F /\ m \in ReleasePoint
  <2>1. F \in SUBSET Nat /\ \A x \in F : x <= n
      BY <1>2, <1>3, <1>4
  <2>2. m \in F
    <3> HIDE DEF F
    <3> QED BY <1>5, <2>1, LargestExists
  <2> QED BY <1>4, <2>2 DEF MemoTypeOK
<1>7. m # NoRelease
    BY <1>6, MemoAssumption
<1>8. Status.behind = Cardinality(B)
    BY <1>1, <1>5, <1>7 DEF Status, StatusOf, NewestOr
<1>9. IsFiniteSet(B)
  <2>1. B \in SUBSET Nat /\ \A x \in B : x <= n
      BY <1>2, <1>3
  <2> HIDE DEF B
  <2> QED BY <2>1, FS_BoundedSetOfNaturals
<1>10. B = {}
  <2>1. Cardinality(B) \in Nat /\ (Cardinality(B) = 0 <=> B = {})
    <3> HIDE DEF B
    <3> QED BY <1>9, FS_EmptySet, FS_CardinalityType
  <2>2. ~(Cardinality(B) > 0)
      BY <1>1, <1>8
  <2> HIDE DEF B
  <2> QED BY <2>1, <2>2
<1>11. \A q \in DOMAIN loads : q <= check.latest => q <= m
  <2>1. m \in Nat
      BY <1>6, MemoAssumption
  <2> HIDE DEF m
  <2> QED BY <1>2, <1>10, <2>1
<1> QED BY <1>1, <1>6, <1>11

\* There is a footer as soon as a load is complete.
LEMMA FooterMissing ==
    ASSUME MemoTypeOK, CorpusInv, footerCurrency(Status) = NoFooter
    PROVE  Finished(loads) = {}
<1> DEFINE F == Finished(loads)
<1> SUFFICES ASSUME F # {} PROVE FALSE
    OBVIOUS
<1>1. /\ F \in SUBSET Nat /\ F \subseteq ReleasePoint
      /\ \E n \in Nat : \A x \in F : x <= n
    BY MemoAssumption DEF MemoTypeOK, CorpusInv, Finished
<1>2. Status.latest = LargestOf(F)
    BY DEF Status, StatusOf, NewestOr
<1> HIDE DEF F
<1>3. LargestOf(F) \in F
    BY <1>1, LargestExists
<1>4. dateline(Status) # NoRelease
    BY <1>1, <1>2, <1>3, MemoAssumption DEF dateline
<1>5. footerCurrency(Status) \in FooterRecord
    BY <1>4, FooterTyped
<1> QED BY <1>5, IdleAssumption

LEMMA InitAge == Init => AgeInv
<1> SUFFICES ASSUME Init PROVE AgeInv
    OBVIOUS
<1>1. First \in ReleasePoint
    BY MemoAssumption DEF First
<1>2. CorpusInv
  <2>1. DOMAIN loads = {First} /\ check = NoCheck /\ First <= First
      BY <1>1, MemoAssumption DEF Init
  <2> QED BY <1>1, <2>1 DEF CorpusInv
<1> QED BY <1>2 DEF Init, AgeInv, FetchAge, PageAge

\* The corpus and the clock move on.
LEMMA CorpusKeepsAge ==
    ASSUME MemoInv, AgeInv, CorpusInv', UNCHANGED <<fetch, page>>,
           clock' \in Nat, clock <= clock'
    PROVE  AgeInv'
<1>1. clock \in Nat /\ \A f \in Fetch : fetch[f] # Idle => fetch[f].at \in Nat
    BY Records DEF MemoInv, MemoTypeOK, FetchRecord
<1>2. \A f \in Fetch : FetchAge(f)'
    BY <1>1 DEF AgeInv, FetchAge, Confirmed
<1>3. \A p \in Page : PageAge(p)'
    BY DEF AgeInv, PageAge
<1> QED BY <1>2, <1>3 DEF AgeInv

LEMMA CorpusAge ==
    ASSUME MemoInv, AgeInv,
           \/ \E r \in ReleasePoint : PollRead(r)
           \/ \E maintenance \in BOOLEAN : PollFails(maintenance)
           \/ \E r \in ReleasePoint :
                 Load(r, "none", "incomplete") \/ Load(r, "incomplete", "complete")
           \/ Tick
    PROVE  AgeInv'
<1>0. clock \in Nat /\ CorpusInv
    BY DEF MemoInv, MemoTypeOK, AgeInv
<1>1. ASSUME NEW r \in ReleasePoint, PollRead(r) PROVE CorpusInv' /\ clock' = clock
  <2>1. /\ DOMAIN loads' = Listed(r) /\ DOMAIN loads \subseteq Listed(r)
        /\ check'.latest = r /\ clock' = clock
      BY <1>1 DEF PollRead
  <2>2. First \in DOMAIN loads'
      BY <1>0, <2>1 DEF CorpusInv
  <2>3. \A q \in DOMAIN loads' : q <= r
      BY <2>1 DEF Listed
  <2> QED BY <2>1, <2>2, <2>3 DEF CorpusInv
<1>2. ASSUME NEW maintenance \in BOOLEAN, PollFails(maintenance)
      PROVE  CorpusInv' /\ clock' = clock
    BY <1>0, <1>2 DEF PollFails, CorpusInv
<1>3. ASSUME NEW r \in ReleasePoint, NEW from, NEW to, Load(r, from, to)
      PROVE  CorpusInv' /\ clock' = clock
    BY <1>0, <1>3 DEF Load, CorpusInv
<1>4. ASSUME Tick PROVE CorpusInv' /\ clock' = clock + 1
    BY <1>0, <1>4 DEF Tick, corpus, CorpusInv
<1>5. UNCHANGED <<fetch, page>>
    BY DEF PollRead, PollFails, Load, Tick
<1>6. CorpusInv' /\ (clock' = clock \/ clock' = clock + 1)
    BY <1>1, <1>2, <1>3, <1>4
<1>7. clock' \in Nat /\ clock <= clock'
    BY <1>0, <1>6
<1> QED BY <1>5, <1>6, <1>7, CorpusKeepsAge

\* Only a page moved.
LEMMA PageKeepsAge ==
    ASSUME MemoInv, AgeInv, NEW p \in Page, \A q \in Page : q # p => page'[q] = page[q],
           PageAge(p)', UNCHANGED <<clock, corpus, fetch>>
    PROVE  AgeInv'
<1>1. CorpusInv'
    BY DEF AgeInv, CorpusInv, corpus
<1>2. \A f \in Fetch : FetchAge(f)'
    BY DEF AgeInv, FetchAge, Confirmed
<1>3. \A q \in Page : PageAge(q)'
    BY DEF AgeInv, PageAge
<1> QED BY <1>1, <1>2, <1>3 DEF AgeInv

LEMMA PageSteps ==
    ASSUME MemoInv, AgeInv, NEW p \in Page,
           \/ AnswerPage(p) \/ ReceivePage(p) \/ Proceed(p)
           \/ \E header \in 0..MaxGeneration : AskPage(p, header)
    PROVE  AgeInv'
<1>1. \A q \in Page : q # p => page'[q] = page[q]
    BY DEF ReceivePage, Proceed, AskPage, AnswerPage, MemoInv, MemoTypeOK
<1>2. page'[p] = Idle \/ page'[p].at # "waiting"
  <2>1. CASE ReceivePage(p)
    <3>1. page[p] \in PageRecord
        BY <2>1, Records DEF ReceivePage, MemoInv
    <3>2. page'[p] = [page[p] EXCEPT !.at = "received"]
        BY <2>1 DEF ReceivePage, MemoInv, MemoTypeOK
    <3> QED BY <3>1, <3>2 DEF PageRecord
  <2>2. CASE Proceed(p)
      BY <2>2 DEF Proceed, MemoInv, MemoTypeOK
  <2>3. CASE \E header \in 0..MaxGeneration : AskPage(p, header)
      BY <2>3 DEF AskPage, MemoInv, MemoTypeOK
  <2>4. CASE AnswerPage(p)
    <3>1. page[p] \in PageRecord
        BY <2>4, Records DEF AnswerPage, MemoInv
    <3>2. page'[p] = [page[p] EXCEPT !.at = "answered", !.text = generation]
        BY <2>4 DEF AnswerPage, MemoInv, MemoTypeOK
    <3> QED BY <3>1, <3>2 DEF PageRecord
  <2> QED BY <2>1, <2>2, <2>3, <2>4
<1>3. PageAge(p)'
    BY <1>2 DEF PageAge
<1>4. UNCHANGED <<clock, corpus, fetch>>
    BY DEF ReceivePage, Proceed, AskPage, AnswerPage
<1> QED BY <1>1, <1>3, <1>4, PageKeepsAge

\* A hit on the status is younger than the TTL when the page consults it.
LEMMA ServeAge ==
    ASSUME MemoInv, AgeInv, NEW p \in Page, NEW key \in Key, Serve(p, key)
    PROVE  AgeInv'
<1> DEFINE f == entries[key]
           record == [page[p] EXCEPT !.at = "waiting", !.waits = f, !.since = Asked(key)]
<1>1. page[p] \in PageRecord
    BY Records DEF Serve, MemoInv
<1>2. f \in Fetch /\ fetch[f].key = key
    BY DEF Serve, Hit, MemoInv, MemoTypeOK
<1>3. key = STATUS => clock - fetch[f].at < TTL
    BY DEF Serve, Hit, fresh
<1>4. record.waits = f /\ record.since = Asked(key)
    BY <1>1 DEF PageRecord
<1>5. /\ page'[p] = record /\ \A q \in Page : q # p => page'[q] = page[q]
      /\ UNCHANGED <<clock, corpus, fetch>>
    BY DEF Serve, MemoInv, MemoTypeOK
<1> HIDE DEF f, record
<1>6. PageAge(p)'
    BY <1>2, <1>3, <1>4, <1>5 DEF PageAge, Asked
<1> QED BY <1>5, <1>6, PageKeepsAge

\* A miss is asked now.
LEMMA RefetchAge ==
    ASSUME MemoInv, AgeInv, NEW p \in Page, NEW key \in Key, NEW f \in Fetch, Refetch(p, key, f)
    PROVE  AgeInv'
<1> DEFINE asked == [key |-> key, at |-> clock, generation |-> seen,
                     state |-> "asked", answer |-> Idle]
           waiting == [page[p] EXCEPT !.at = "waiting", !.waits = f, !.since = Asked(key)]
<1>1. page[p] \in PageRecord /\ clock \in Nat
    BY Records DEF Refetch, MemoInv, MemoTypeOK
<1>2. waiting.waits = f /\ waiting.since = Asked(key)
    BY <1>1 DEF PageRecord
<1>3. /\ fetch[f] = Idle /\ UNCHANGED <<clock, corpus>>
      /\ \A g \in Fetch : fetch'[g] = IF g = f THEN asked ELSE fetch[g]
      /\ \A q \in Page : page'[q] = IF q = p THEN waiting ELSE page[q]
    BY DEF Refetch, MemoInv, MemoTypeOK
<1>4. asked.key = key /\ asked.at = clock /\ asked.state = "asked"
    OBVIOUS
<1> HIDE DEF asked, waiting
<1>5. CorpusInv'
    BY <1>3 DEF AgeInv, CorpusInv, corpus
<1>6. ASSUME NEW g \in Fetch PROVE FetchAge(g)'
  <2>1. CASE g = f
      BY <1>1, <1>3, <1>4, <2>1 DEF FetchAge
  <2>2. CASE g # f
      BY <1>3, <2>2 DEF AgeInv, FetchAge, Confirmed
  <2> QED BY <2>1, <2>2
<1>7. ASSUME NEW q \in Page PROVE PageAge(q)'
  <2>1. CASE q = p
    <3>1. page'[q].since - fetch'[page'[q].waits].at = Asked(key) - clock
          /\ fetch'[page'[q].waits].key = key
        BY <1>2, <1>3, <1>4, <2>1
    <3>2. key = STATUS => Asked(key) - clock = 0
        BY <1>1 DEF Asked
    <3> QED BY <3>1, <3>2, MemoAssumption DEF PageAge
  <2>2. CASE q # p
    <3>1. page'[q] = page[q]
        BY <1>3, <2>2
    <3>2. page[q] # Idle /\ page[q].at = "waiting" =>
              page[q].waits \in Fetch /\ fetch[page[q].waits] # Idle
        BY DEF MemoInv, PageInv
    <3> QED BY <1>3, <3>1, <3>2 DEF AgeInv, PageAge
  <2> QED BY <2>1, <2>2
<1> QED BY <1>5, <1>6, <1>7 DEF AgeInv

\* A fetch asked before got further: its key and its time stay.
LEMMA FetchKeepsAge ==
    ASSUME MemoInv, AgeInv, NEW f \in Fetch, NEW record,
           fetch[f] # Idle, record.key = fetch[f].key, record.at = fetch[f].at,
           \A g \in Fetch : fetch'[g] = IF g = f THEN record ELSE fetch[g],
           UNCHANGED <<clock, corpus, page>>,
           fetch[f].key = STATUS /\ record.state \in {"computed", "settled"} => Confirmed(f)'
    PROVE  AgeInv'
<1>1. CorpusInv'
    BY DEF AgeInv, CorpusInv, corpus
<1>2. ASSUME NEW g \in Fetch PROVE FetchAge(g)'
  <2>1. CASE g = f
      BY <2>1 DEF AgeInv, FetchAge
  <2>2. CASE g # f
      BY <2>2 DEF AgeInv, FetchAge, Confirmed
  <2> QED BY <2>1, <2>2
<1>3. ASSUME NEW p \in Page PROVE PageAge(p)'
  <2>1. page[p] # Idle /\ page[p].at = "waiting" => page[p].waits \in Fetch
      BY DEF MemoInv, PageInv
  <2> QED BY <2>1 DEF AgeInv, PageAge
<1> QED BY <1>1, <1>2, <1>3 DEF AgeInv

LEMMA ComputeAge ==
    ASSUME MemoInv, AgeInv, NEW f \in Fetch, ComputeFetch(f)
    PROVE  AgeInv'
<1> DEFINE answer == Answer(fetch[f].key)
           record == [fetch[f] EXCEPT !.state = "computed", !.answer = answer]
<1>1. fetch[f] # Idle /\ fetch[f] \in FetchRecord /\ clock \in Nat /\ fetch[f].at \in Nat
    BY Records DEF ComputeFetch, MemoInv, MemoTypeOK, FetchRecord
<1>2. /\ \A g \in Fetch : fetch'[g] = IF g = f THEN record ELSE fetch[g]
      /\ UNCHANGED <<clock, corpus, page>>
    BY DEF ComputeFetch, MemoInv, MemoTypeOK
<1>3. record.key = fetch[f].key /\ record.at = fetch[f].at /\ record.answer = answer
    BY <1>1 DEF FetchRecord
<1>4. fetch[f].key = STATUS => answer.footer = footerCurrency(Status)
    BY DEF Answer
<1> HIDE DEF record, answer
<1>5. ASSUME fetch[f].key = STATUS PROVE Confirmed(f)'
  <2> DEFINE footer == footerCurrency(Status)
  <2>1. fetch'[f].answer.footer = footer /\ fetch'[f].at = fetch[f].at
      BY <1>2, <1>3, <1>4, <1>5
  <2>2. fetch[f].at <= clock
      BY <1>1 DEF AgeInv, FetchAge
  <2>3. footer = NoFooter \/ footer.warning
        \/ (footer.checkedOn \in Nat /\ clock - footer.checkedOn <= StaleAfter)
      BY CheckedStatus DEF MemoInv
  <2> HIDE DEF footer
  <2>4. footer = NoFooter \/ footer.warning
        \/ (footer.checkedOn \in Nat /\ fetch[f].at - footer.checkedOn <= StaleAfter)
      BY <1>1, <2>2, <2>3, MemoAssumption
  <2> QED BY <2>1, <2>4 DEF Confirmed
<1> QED BY <1>1, <1>2, <1>3, <1>5, FetchKeepsAge

LEMMA SettleAge ==
    ASSUME MemoInv, AgeInv, NEW f \in Fetch,
           (\E header \in 0..MaxGeneration : ReceiveFetch(f, header)) \/ FailFetch(f)
    PROVE  AgeInv'
<1> DEFINE received == \E header \in 0..MaxGeneration : ReceiveFetch(f, header)
           state == IF received THEN "settled" ELSE "failed"
           record == [fetch[f] EXCEPT !.state = state]
<1>1. fetch[f] # Idle /\ fetch[f] \in FetchRecord
    BY Records DEF ReceiveFetch, FailFetch, MemoInv
<1>2. /\ \A g \in Fetch : fetch'[g] = IF g = f THEN record ELSE fetch[g]
      /\ UNCHANGED <<clock, corpus, page>>
    BY DEF ReceiveFetch, FailFetch, MemoInv, MemoTypeOK
<1>3. /\ record.key = fetch[f].key /\ record.at = fetch[f].at /\ record.answer = fetch[f].answer
      /\ record.state = state
    BY <1>1 DEF FetchRecord
<1>4. state = "failed" \/ fetch[f].state = "computed"
    BY DEF ReceiveFetch
<1> HIDE DEF record
<1>5. fetch[f].key = STATUS /\ record.state \in {"computed", "settled"} => Confirmed(f)'
  <2>1. fetch[f].key = STATUS /\ fetch[f].state = "computed" => Confirmed(f)
      BY <1>1 DEF AgeInv, FetchAge
  <2>2. Confirmed(f) => Confirmed(f)'
      BY <1>2, <1>3 DEF Confirmed
  <2> QED BY <1>3, <1>4, <2>1, <2>2
<1> QED BY <1>1, <1>2, <1>3, <1>5, FetchKeepsAge

LEMMA CollectAge ==
    ASSUME MemoInv, AgeInv, NEW f \in Fetch, Collect(f)
    PROVE  AgeInv'
<1>1. /\ \A g \in Fetch : fetch'[g] = IF g = f THEN Idle ELSE fetch[g]
      /\ UNCHANGED <<clock, corpus, page>>
      /\ \A p \in Page : page[p] # Idle => page[p].waits # f
    BY DEF Collect, MemoInv, MemoTypeOK
<1>2. CorpusInv'
    BY <1>1 DEF AgeInv, CorpusInv, corpus
<1>3. \A g \in Fetch : FetchAge(g)'
    BY <1>1 DEF AgeInv, FetchAge, Confirmed
<1>4. ASSUME NEW p \in Page PROVE PageAge(p)'
  <2>1. page[p] # Idle /\ page[p].at = "waiting" => page[p].waits \in Fetch
      BY DEF MemoInv, PageInv
  <2> QED BY <1>1, <2>1 DEF AgeInv, PageAge
<1> QED BY <1>2, <1>3, <1>4 DEF AgeInv

LEMMA AgeStep == MemoInv /\ AgeInv /\ [Next]_vars => AgeInv'
<1> SUFFICES ASSUME MemoInv, AgeInv, [Next]_vars PROVE AgeInv'
    OBVIOUS
<1>1. CASE UNCHANGED vars
  <2>1. CorpusInv' /\ clock' = clock /\ clock \in Nat
      BY <1>1 DEF vars, corpus, AgeInv, CorpusInv, MemoInv, MemoTypeOK
  <2> QED BY <1>1, <2>1, CorpusKeepsAge DEF vars
<1>2. CASE Next
    BY <1>2, CorpusAge, PageSteps, ServeAge, RefetchAge, ComputeAge, SettleAge, CollectAge DEF Next
<1> QED BY <1>1, <1>2

\* A footer that is shown without a warning is true of a recent check, and of a
\* whole corpus; the status leaves it out only while no load is complete.
THEOREM MemoUnwarnedIsCurrent == Spec => []UnwarnedFooterIsCurrent
<1>1. ASSUME MemoInv, AgeInv PROVE UnwarnedFooterIsCurrent
  <2>1. ASSUME NEW p \in Page, Settled(p), fetch[page[p].waits].key = STATUS,
               fetch[page[p].waits].answer.footer # NoFooter,
               ~fetch[page[p].waits].answer.footer.warning
        PROVE  LET footer == fetch[page[p].waits].answer.footer IN
               /\ footer.checkedOn # NoCheck
               /\ page[p].since - footer.checkedOn < StaleAfter + TTL
    <3> DEFINE f == page[p].waits
               day == fetch[f].answer.footer.checkedOn
    <3>1. page[p] \in PageRecord /\ f \in Fetch /\ fetch[f] # Idle /\ fetch[f] \in FetchRecord
        BY <1>1, <2>1, Records DEF MemoInv, PageInv, Settled
    <3>2. day \in Nat /\ fetch[f].at - day <= StaleAfter
        BY <1>1, <2>1, <3>1 DEF AgeInv, FetchAge, Confirmed, Settled
    <3>3. page[p].since - fetch[f].at < TTL
        BY <1>1, <2>1 DEF AgeInv, PageAge, Settled
    <3>4. page[p].since \in Nat /\ fetch[f].at \in Nat /\ StaleAfter \in Nat /\ TTL \in Nat
        BY <3>1, MemoAssumption DEF PageRecord, FetchRecord
    <3>5. day # NoCheck
        BY <3>2, MemoAssumption
    <3> HIDE DEF f, day
    <3>6. page[p].since - day < StaleAfter + TTL
        BY <3>2, <3>3, <3>4
    <3> QED BY <3>5, <3>6 DEF f, day
  <2>2. footerCurrency(Status) # NoFooter /\ ~footerCurrency(Status).warning =>
            /\ \A r \in DOMAIN loads : loads[r] # "incomplete"
            /\ \E r \in Finished(loads) : \A q \in DOMAIN loads : q <= check.latest => q <= r
      BY <1>1, WholeStatus DEF MemoInv, AgeInv
  <2>3. footerCurrency(Status) = NoFooter => Finished(loads) = {}
      BY <1>1, FooterMissing DEF MemoInv, AgeInv
  <2> QED BY <2>1, <2>2, <2>3 DEF UnwarnedFooterIsCurrent
<1>2. Spec => []AgeInv
    BY MemoInvariant, InitAge, AgeStep, PTL DEF Spec
<1> QED BY <1>1, <1>2, MemoInvariant, PTL

=============================================================================
