-------------------------- MODULE CorpusReadProofs --------------------------
(***************************************************************************)
(* Proofs about CorpusRead for every title, any number of readers and any  *)
(* number of commits between their statements.                             *)
(***************************************************************************)
EXTENDS CorpusRead, CorpusLoadProofs

\* Readers write nothing: every step is a step of the loaders, or leaves the tables.
LEMMA ReadStep ==
    ASSUME [NextRead]_readVars
    PROVE  [Next]_vars
<1>1. CASE LoaderCommits \/ LoaderWorks
    BY <1>1 DEF LoaderCommits, LoaderWorks, Next
<1>2. ASSUME NEW q \in Reader, RequestStep(q) PROVE UNCHANGED vars
    BY <1>2 DEF RequestStep, Ask, ReadGeneration, Lookup, ReadServedFrom, ReadTexts,
                ReadLastHolding, ReadTextsThere, Store, GiveAnswer
<1>3. CASE UNCHANGED readVars
    BY <1>3 DEF readVars
<1> QED
    BY <1>1, <1>2, <1>3 DEF NextRead

\* Under any readers the loaders are those of CorpusLoad: all that is proved of
\* the tables holds of what the readers' statements find there.
THEOREM ReadersFindALoad == SpecRead => Spec
<1>1. InitRead => Init
    BY DEF InitRead
<1> QED
    BY <1>1, ReadStep, PTL DEF SpecRead, Spec

-----------------------------------------------------------------------------
(***************************************************************************)
(* What single statements return                                           *)
(***************************************************************************)

LEMMA ServedFromType ==
    ASSUME TypeOK, NEW asked \in Release
    PROVE  ServedFrom(asked) \in Release \cup {NoRelease}
<1>1. LoadedFor(asked) \in SUBSET Nat /\ asked \in Nat
    BY ReleaseAssumption DEF TypeOK, LoadedFor
<1>2. \A r \in LoadedFor(asked) : r <= asked /\ r \in Release
    BY DEF LoadedFor, TypeOK
<1>3. ASSUME LoadedFor(asked) # {} PROVE Max(LoadedFor(asked)) \in LoadedFor(asked)
    BY <1>1, <1>2, <1>3, MaxIsNewest
<1> QED
    BY <1>2, <1>3 DEF ServedFrom

LEMMA LastHoldingType ==
    ASSUME NEW r \in Release
    PROVE  LastHolding(r) \in Release \cup {NoRelease}
<1> DEFINE holding == {q \in Release : q < r /\ TextsAt(q) # {}}
<1>1. holding \in SUBSET Nat /\ r \in Nat
    BY ReleaseAssumption
<1>2. \A q \in holding : q <= r /\ q \in Release
    BY <1>1
<1>3. ASSUME holding # {} PROVE Max(holding) \in Release
    <2> HIDE DEF holding
    <2> QED
        BY <1>1, <1>2, <1>3, MaxIsNewest
<1> QED
    BY <1>3 DEF LastHolding

LEMMA TextsAtType ==
    ASSUME TypeOK, NEW r \in Release
    PROVE  TextsAt(r) \in SUBSET Text
BY DEF TypeOK, TextsAt, Version

\* While the tables stand still, so does what the statements return.
LEMMA AnswersUnmoved ==
    ASSUME complete' = complete, releaseMap' = releaseMap
    PROVE  /\ \A r : TextsAt(r)' = TextsAt(r) /\ LastHolding(r)' = LastHolding(r)
           /\ \A a : /\ ServedFrom(a)' = ServedFrom(a)
                     /\ TocAnswer(a)' = TocAnswer(a)
                     /\ SectionAnswer(a)' = SectionAnswer(a)
<1>1. ASSUME NEW r PROVE TextsAt(r)' = TextsAt(r)
    BY DEF TextsAt
<1>2. ASSUME NEW r PROVE LastHolding(r)' = LastHolding(r)
    BY <1>1 DEF LastHolding
<1>3. ASSUME NEW a PROVE ServedFrom(a)' = ServedFrom(a)
    BY DEF ServedFrom, LoadedFor
<1>4. ASSUME NEW a PROVE TocAnswer(a)' = TocAnswer(a)
    BY <1>1, <1>3 DEF TocAnswer, NotFound
<1>5. ASSUME NEW a PROVE SectionAnswer(a)' = SectionAnswer(a)
    BY <1>1, <1>2, <1>3 DEF SectionAnswer, NotFound
<1> QED
    BY <1>1, <1>2, <1>3, <1>4, <1>5

-----------------------------------------------------------------------------
(***************************************************************************)
(* The statements a request has left                                       *)
(***************************************************************************)

TocPlans ==
    {<<"generation", "lookup", "served", "texts", "store">>,
     <<"lookup", "served", "texts", "store">>,
     <<"served", "texts", "store">>,
     <<"texts", "store">>,
     <<"store">>}

SectionPlans ==
    {<<"generation", "served", "texts", "last", "there", "answer">>,
     <<"served", "texts", "last", "there", "answer">>,
     <<"texts", "last", "there", "answer">>,
     <<"last", "there", "answer">>,
     <<"there", "answer">>,
     <<"answer">>}

DiffPlans ==
    {<<"served", "texts", "last", "there", "generation", "lookup", "store">>,
     <<"texts", "last", "there", "generation", "lookup", "store">>,
     <<"last", "there", "generation", "lookup", "store">>,
     <<"there", "generation", "lookup", "store">>,
     <<"generation", "lookup", "store">>,
     <<"lookup", "store">>,
     <<"store">>}

LEMMA TocSteps ==
    ASSUME NEW plan \in TocPlans
    PROVE  /\ plan # <<>>
           /\ Head(plan) \in {"generation", "lookup", "served", "texts", "store"}
           /\ Head(plan) # "store" => Tail(plan) \in TocPlans
           /\ Head(plan) = "generation" => Head(Tail(plan)) = "lookup"
           /\ Head(plan) = "lookup" => Head(Tail(plan)) = "served"
           /\ Head(plan) = "served" => Head(Tail(plan)) = "texts"
           /\ Head(plan) = "texts" => Head(Tail(plan)) = "store"
<1>1. CASE plan = <<"generation", "lookup", "served", "texts", "store">>
    <2>1. Tail(plan) = <<"lookup", "served", "texts", "store">>
        BY <1>1
    <2> QED
        BY <1>1, <2>1 DEF TocPlans
<1>2. CASE plan = <<"lookup", "served", "texts", "store">>
    <2>1. Tail(plan) = <<"served", "texts", "store">>
        BY <1>2
    <2> QED
        BY <1>2, <2>1 DEF TocPlans
<1>3. CASE plan = <<"served", "texts", "store">>
    <2>1. Tail(plan) = <<"texts", "store">>
        BY <1>3
    <2> QED
        BY <1>3, <2>1 DEF TocPlans
<1>4. CASE plan = <<"texts", "store">>
    <2>1. Tail(plan) = <<"store">>
        BY <1>4
    <2> QED
        BY <1>4, <2>1 DEF TocPlans
<1>5. CASE plan = <<"store">>
    BY <1>5
<1> QED
    BY <1>1, <1>2, <1>3, <1>4, <1>5 DEF TocPlans

LEMMA SectionSteps ==
    ASSUME NEW plan \in SectionPlans
    PROVE  /\ plan # <<>>
           /\ Head(plan) \in {"generation", "served", "texts", "last", "there", "answer"}
           /\ Head(plan) # "answer" => Tail(plan) \in SectionPlans
           /\ Head(plan) = "generation" => Head(Tail(plan)) = "served"
           /\ Head(plan) = "served" => Head(Tail(plan)) = "texts"
           /\ Head(plan) = "texts" => Head(Tail(plan)) = "last"
           /\ Head(plan) = "last" => /\ Head(Tail(plan)) = "there"
                                     /\ Tail(Tail(plan)) \in SectionPlans
                                     /\ Head(Tail(Tail(plan))) = "answer"
           /\ Head(plan) = "there" => Head(Tail(plan)) = "answer"
<1>1. CASE plan = <<"generation", "served", "texts", "last", "there", "answer">>
    <2>1. Tail(plan) = <<"served", "texts", "last", "there", "answer">>
        BY <1>1
    <2> QED
        BY <1>1, <2>1 DEF SectionPlans
<1>2. CASE plan = <<"served", "texts", "last", "there", "answer">>
    <2>1. Tail(plan) = <<"texts", "last", "there", "answer">>
        BY <1>2
    <2> QED
        BY <1>2, <2>1 DEF SectionPlans
<1>3. CASE plan = <<"texts", "last", "there", "answer">>
    <2>1. Tail(plan) = <<"last", "there", "answer">>
        BY <1>3
    <2> QED
        BY <1>3, <2>1 DEF SectionPlans
<1>4. CASE plan = <<"last", "there", "answer">>
    <2>1. Tail(plan) = <<"there", "answer">>
        BY <1>4
    <2>2. Tail(<<"there", "answer">>) = <<"answer">>
        OBVIOUS
    <2> QED
        BY <1>4, <2>1, <2>2 DEF SectionPlans
<1>5. CASE plan = <<"there", "answer">>
    <2>1. Tail(plan) = <<"answer">>
        BY <1>5
    <2> QED
        BY <1>5, <2>1 DEF SectionPlans
<1>6. CASE plan = <<"answer">>
    BY <1>6
<1> QED
    BY <1>1, <1>2, <1>3, <1>4, <1>5, <1>6 DEF SectionPlans

LEMMA DiffSteps ==
    ASSUME NEW plan \in DiffPlans
    PROVE  /\ plan # <<>>
           /\ Head(plan) \in {"served", "texts", "last", "there", "generation",
                              "lookup", "store"}
           /\ Head(plan) # "store" => Tail(plan) \in DiffPlans
           /\ Head(plan) = "served" => Head(Tail(plan)) = "texts"
           /\ Head(plan) = "texts" => Head(Tail(plan)) = "last"
           /\ Head(plan) = "last" => /\ Head(Tail(plan)) = "there"
                                     /\ Tail(Tail(plan)) \in DiffPlans
                                     /\ Head(Tail(Tail(plan))) = "generation"
           /\ Head(plan) = "there" => Head(Tail(plan)) = "generation"
           /\ Head(plan) = "generation" => Head(Tail(plan)) = "lookup"
           /\ Head(plan) = "lookup" => Head(Tail(plan)) = "store"
<1>1. CASE plan = <<"served", "texts", "last", "there", "generation", "lookup", "store">>
    <2>1. Tail(plan) = <<"texts", "last", "there", "generation", "lookup", "store">>
        BY <1>1
    <2> QED
        BY <1>1, <2>1 DEF DiffPlans
<1>2. CASE plan = <<"texts", "last", "there", "generation", "lookup", "store">>
    <2>1. Tail(plan) = <<"last", "there", "generation", "lookup", "store">>
        BY <1>2
    <2> QED
        BY <1>2, <2>1 DEF DiffPlans
<1>3. CASE plan = <<"last", "there", "generation", "lookup", "store">>
    <2>1. Tail(plan) = <<"there", "generation", "lookup", "store">>
        BY <1>3
    <2>2. Tail(<<"there", "generation", "lookup", "store">>) = <<"generation", "lookup", "store">>
        OBVIOUS
    <2> QED
        BY <1>3, <2>1, <2>2 DEF DiffPlans
<1>4. CASE plan = <<"there", "generation", "lookup", "store">>
    <2>1. Tail(plan) = <<"generation", "lookup", "store">>
        BY <1>4
    <2> QED
        BY <1>4, <2>1 DEF DiffPlans
<1>5. CASE plan = <<"generation", "lookup", "store">>
    <2>1. Tail(plan) = <<"lookup", "store">>
        BY <1>5
    <2> QED
        BY <1>5, <2>1 DEF DiffPlans
<1>6. CASE plan = <<"lookup", "store">>
    <2>1. Tail(plan) = <<"store">>
        BY <1>6
    <2> QED
        BY <1>6, <2>1 DEF DiffPlans
<1>7. CASE plan = <<"store">>
    BY <1>7
<1> QED
    BY <1>1, <1>2, <1>3, <1>4, <1>5, <1>6, <1>7 DEF DiffPlans

-----------------------------------------------------------------------------
(***************************************************************************)
(* The invariant                                                           *)
(***************************************************************************)

Plans(route) ==
    CASE route = "toc"     -> TocPlans
      [] route = "section" -> SectionPlans
      [] route = "diff"    -> DiffPlans

\* A request that is not idle: its label, its route, what it has left.
Asked ==
    [route : Route, asked : Release, plan : TocPlans \cup SectionPlans \cup DiffPlans,
     generation : Nat, found : Answer]

\* Once its release point is known, a request has an answer at one.
Placed(r) ==
    \/ Head(r.plan) = "served"
    \/ r.route # "diff" /\ Head(r.plan) \in {"generation", "lookup"}
    \/ r.found.at \in Release

\* The plan is the rest of the route's, the generation read is not of the future.
RequestOK(r) ==
    \/ r = Idle
    \/ /\ r \in Asked
       /\ r.plan \in Plans(r.route)
       /\ r.generation \in 0..generation
       /\ Placed(r)

\* While the generation the request read stands, what its statements found is
\* what they would find now.
ReadsAgree(r) ==
    r # Idle /\ r.route # "diff" /\ r.generation = generation =>
        LET at == ServedFrom(r.asked) IN
        /\ Head(r.plan) = "texts" => r.found.at = at
        /\ Head(r.plan) = "last" => r.found = [at |-> at, texts |-> TextsAt(at)]
        /\ Head(r.plan) = "there" =>
              at # NoRelease /\ TextsAt(at) = {} /\ r.found.at = LastHolding(at)
        /\ Head(r.plan) = "answer" => r.found = SectionAnswer(r.asked)
        /\ Head(r.plan) = "store" => r.found = TocAnswer(r.asked)

CacheTypeOK ==
    \A e \in cache :
        /\ e.key.route \in {"toc", "diff"} /\ e.key.label \in Release
        /\ e.value \in Answer

\* The section as the file of a release point has it.
OwnAnswer(r) ==
    [at |-> r, texts |-> {v.text : v \in {e \in file[r] : e.sec = Wanted}}]

\* What clients hold of a label's own file is what the file has.
OwnIsTold == \A r \in Release : told[r].own => told[r].found = OwnAnswer(r)

ReadInv ==
    /\ generation \in 1..MaxGeneration
    /\ CacheTypeOK
    /\ told \in [Release -> [found : Answer, own : BOOLEAN]]
    /\ request \in [Reader -> Asked \cup {Idle}]
    /\ \A q \in Reader : RequestOK(request[q]) /\ ReadsAgree(request[q])
    /\ PayloadsAreCurrent
    /\ OwnIsTold

\* Nothing has been asked of the empty corpus.
LEMMA ReadInit == InitRead => ReadInv
<1> SUFFICES ASSUME InitRead PROVE ReadInv
    OBVIOUS
<1>1. request \in [Reader -> Asked \cup {Idle}] /\ \A q \in Reader : request[q] = Idle
    BY DEF InitRead
<1>2. \A q \in Reader : RequestOK(request[q]) /\ ReadsAgree(request[q])
    BY <1>1 DEF RequestOK, ReadsAgree
<1>3. NotFound \in Answer
    BY DEF NotFound, Answer
<1>4. told \in [Release -> [found : Answer, own : BOOLEAN]] /\ OwnIsTold
    BY <1>3 DEF InitRead, Untold, OwnIsTold
<1>5. CacheTypeOK /\ PayloadsAreCurrent /\ generation \in 1..MaxGeneration
    BY ReadAssumption DEF InitRead, CacheTypeOK, PayloadsAreCurrent
<1> QED
    BY <1>1, <1>2, <1>4, <1>5 DEF ReadInv

\* A step of one request leaves the others, and what they have found.
LEMMA RequestMoves ==
    ASSUME ReadInv, complete' = complete, releaseMap' = releaseMap,
           generation' = generation,
           NEW q \in Reader, NEW r \in Asked \cup {Idle},
           request' = [request EXCEPT ![q] = r],
           RequestOK(r), ReadsAgree(r)
    PROVE  /\ request' \in [Reader -> Asked \cup {Idle}]
           /\ \A p \in Reader : RequestOK(request[p])' /\ ReadsAgree(request[p])'
<1>1. request' \in [Reader -> Asked \cup {Idle}]
    BY DEF ReadInv
<1>2. ASSUME NEW x, RequestOK(x) PROVE RequestOK(x)'
    BY <1>2 DEF RequestOK
<1>3. ASSUME NEW x, ReadsAgree(x) PROVE ReadsAgree(x)'
    BY <1>3, AnswersUnmoved DEF ReadsAgree
<1>4. ASSUME NEW p \in Reader PROVE RequestOK(request[p])' /\ ReadsAgree(request[p])'
    <2>1. PICK x : x = request'[p]
        OBVIOUS
    <2>2. x = IF p = q THEN r ELSE request[p]
        BY <2>1 DEF ReadInv
    <2>3. RequestOK(x) /\ ReadsAgree(x)
        BY <2>2 DEF ReadInv
    <2> QED
        BY <1>2, <1>3, <2>1, <2>3
<1> QED
    BY <1>1, <1>4

\* What a statement leads to, by the route it belongs to.
LEMMA Succession ==
    ASSUME NEW r \in Asked, RequestOK(r)
    PROVE  LET next == Tail(r.plan) IN
           /\ r # Idle /\ r.route \in {"toc", "section", "diff"}
           /\ Head(r.plan) \in {"texts", "last", "there", "answer", "store"} =>
                 r.found.at \in Release
           /\ Head(r.plan) \notin {"answer", "store"} => next \in Plans(r.route)
           /\ Head(r.plan) = "generation" =>
                 /\ r.route # "diff" => Head(next) \in {"lookup", "served"}
                 /\ r.route = "diff" => Head(next) = "lookup" /\ r.found.at \in Release
           /\ Head(r.plan) = "lookup" =>
                 /\ r.route # "diff" => Head(next) = "served"
                 /\ r.route = "diff" => Head(next) = "store" /\ r.found.at \in Release
           /\ Head(r.plan) = "served" => Head(next) = "texts"
           /\ Head(r.plan) = "texts" =>
                 Head(next) = IF r.route = "toc" THEN "store" ELSE "last"
           /\ Head(r.plan) = "last" =>
                 /\ Tail(next) \in Plans(r.route) /\ Head(next) = "there"
                 /\ Head(Tail(next)) = IF r.route = "diff" THEN "generation" ELSE "answer"
           /\ Head(r.plan) = "there" =>
                 Head(next) = IF r.route = "diff" THEN "generation" ELSE "answer"
           /\ Head(r.plan) = "store" => r.route \in {"toc", "diff"}
           /\ Head(r.plan) = "answer" => r.route = "section"
<1>1. r.route \in {"toc", "section", "diff"} /\ r.plan # <<>>
    BY ReadAssumption, TocSteps, SectionSteps, DiffSteps DEF Asked
<1>2. r # Idle
    BY <1>1 DEF Idle
<1>3. r.plan \in Plans(r.route) /\ Placed(r)
    BY <1>2 DEF RequestOK
<1>4. CASE r.route = "toc"
    <2>1. Plans(r.route) = TocPlans
        BY <1>4 DEF Plans
    <2> QED
        BY <1>2, <1>3, <1>4, <2>1, TocSteps DEF Placed
<1>5. CASE r.route = "section"
    <2>1. Plans(r.route) = SectionPlans
        BY <1>5 DEF Plans
    <2> QED
        BY <1>2, <1>3, <1>5, <2>1, SectionSteps DEF Placed
<1>6. CASE r.route = "diff"
    <2>1. Plans(r.route) = DiffPlans
        BY <1>6 DEF Plans
    <2> QED
        BY <1>2, <1>3, <1>6, <2>1, DiffSteps DEF Placed
<1> QED
    BY <1>1, <1>4, <1>5, <1>6

-----------------------------------------------------------------------------
(***************************************************************************)
(* The statements keep it                                                  *)
(***************************************************************************)

RequestsOK ==
    /\ request \in [Reader -> Asked \cup {Idle}]
    /\ \A p \in Reader : RequestOK(request[p]) /\ ReadsAgree(request[p])

LEMMA EndsMoves ==
    ASSUME ReadInv, UNCHANGED <<vars, generation>>, NEW q \in Reader, Ends(q)
    PROVE  RequestsOK'
<1>1. RequestOK(Idle) /\ ReadsAgree(Idle)
    BY DEF RequestOK, ReadsAgree
<1>2. complete' = complete /\ releaseMap' = releaseMap
    BY DEF vars, corpus
<1> QED
    BY <1>1, <1>2, RequestMoves DEF Ends, RequestsOK

\* A request at a statement is one that was asked.
LEMMA AtStatement ==
    ASSUME ReadInv, NEW q \in Reader, NEW statement, At(q, statement)
    PROVE  /\ request[q] \in Asked
           /\ RequestOK(request[q]) /\ ReadsAgree(request[q])
           /\ Head(request[q].plan) = statement
BY DEF ReadInv, At, Idle

\* The record of a request that goes on.
Onward(q, found) == [request[q] EXCEPT !.plan = Tail(@), !.found = found]

LEMMA OnwardIs ==
    ASSUME NEW q, request[q] \in Asked, NEW found
    PROVE  /\ Onward(q, found).plan = Tail(request[q].plan)
           /\ Onward(q, found).found = found
           /\ Onward(q, found).route = request[q].route
           /\ Onward(q, found).asked = request[q].asked
           /\ Onward(q, found).generation = request[q].generation
BY DEF Onward, Asked

LEMMA GoesOnMoves ==
    ASSUME ReadInv, UNCHANGED <<vars, generation>>, NEW q \in Reader,
           request[q] \in Asked, NEW found \in Answer, GoesOn(q, found),
           Tail(request[q].plan) \in Plans(request[q].route),
           request[q].route \in {"toc", "section", "diff"},
           request[q].generation <= generation,
           Placed(Onward(q, found)), ReadsAgree(Onward(q, found))
    PROVE  RequestsOK'
<1> DEFINE r == Onward(q, found)
<1>1. /\ r.plan = Tail(request[q].plan) /\ r.found = found
      /\ r.route = request[q].route /\ r.generation = request[q].generation
      /\ r.asked = request[q].asked
    BY OnwardIs
<1>2. r \in Asked
    BY <1>1 DEF Asked, Plans, Onward
<1>3. r.generation \in 0..generation
    BY <1>1 DEF Asked, ReadInv
<1>4. RequestOK(r) /\ ReadsAgree(r)
    BY <1>1, <1>2, <1>3 DEF RequestOK
<1>5. request' = [request EXCEPT ![q] = r]
    BY DEF GoesOn, ReadInv, Onward
<1>6. complete' = complete /\ releaseMap' = releaseMap /\ generation' = generation
    BY DEF vars, corpus
<1> HIDE DEF r
<1> QED
    BY <1>2, <1>4, <1>5, <1>6, RequestMoves DEF RequestsOK

LEMMA AskStep ==
    ASSUME ReadInv, NEW q \in Reader, NEW route \in Route, NEW asked \in Release,
           Ask(q, route, asked)
    PROVE  RequestsOK'
<1> DEFINE r == [Idle EXCEPT !.route = route, !.asked = asked, !.plan = Plan(route)]
<1>1. /\ r.route = route /\ r.asked = asked /\ r.plan = Plan(route)
      /\ r.generation = 0 /\ r.found = NotFound
    BY DEF Idle
<1>2. route \in {"toc", "section", "diff"} /\ NotFound \in Answer
    BY ReadAssumption DEF NotFound, Answer
<1>3. /\ Plan(route) \in Plans(route)
      /\ route = "diff" => Head(Plan(route)) = "served"
      /\ route # "diff" => Head(Plan(route)) = "generation"
    BY <1>2 DEF Plan, Plans, TocPlans, SectionPlans, DiffPlans
<1>4. r \in Asked
    BY <1>1, <1>2, <1>3 DEF Asked, Plans, Idle
<1>5. RequestOK(r)
    BY <1>1, <1>3, <1>4 DEF RequestOK, Placed, ReadInv
<1>6. ReadsAgree(r)
    BY <1>1, <1>3 DEF ReadsAgree
<1>7. request' = [request EXCEPT ![q] = r]
    BY DEF Ask, ReadInv
<1>8. complete' = complete /\ releaseMap' = releaseMap /\ generation' = generation
    BY DEF Ask, vars, corpus
<1> HIDE DEF r
<1> QED
    BY <1>4, <1>5, <1>6, <1>7, <1>8, RequestMoves DEF RequestsOK

LEMMA ReadGenerationStep ==
    ASSUME ReadInv, NEW q \in Reader, ReadGeneration(q)
    PROVE  RequestsOK'
<1> DEFINE r == [request[q] EXCEPT !.plan = Tail(@), !.generation = generation]
<1>1. /\ request[q] \in Asked /\ RequestOK(request[q])
      /\ Head(request[q].plan) = "generation"
    BY AtStatement DEF ReadGeneration
<1>2. /\ r.route = request[q].route /\ r.asked = request[q].asked
      /\ r.plan = Tail(request[q].plan)
      /\ r.generation = generation /\ r.found = request[q].found
    BY <1>1 DEF Asked
<1>3. /\ r.plan \in Plans(r.route) /\ r.route \in {"toc", "section", "diff"}
      /\ \/ r.route # "diff" /\ Head(r.plan) \in {"lookup", "served"}
         \/ r.route = "diff" /\ Head(r.plan) = "lookup" /\ r.found.at \in Release
    BY <1>1, <1>2, Succession
<1>4. r \in Asked
    <2>1. generation \in Nat
        BY DEF ReadInv
    <2>2. Tail(request[q].plan) \in TocPlans \cup SectionPlans \cup DiffPlans
        BY <1>2, <1>3 DEF Plans
    <2> QED
        BY <1>1, <2>1, <2>2 DEF Asked
<1>5. RequestOK(r) /\ ReadsAgree(r)
    <2> HIDE DEF r
    <2>1. r.generation \in 0..generation
        BY <1>2 DEF ReadInv
    <2>2. Placed(r)
        BY <1>3 DEF Placed
    <2> QED
        BY <1>3, <1>4, <2>1, <2>2 DEF RequestOK, ReadsAgree
<1>6. request' = [request EXCEPT ![q] = r]
    BY DEF ReadGeneration, ReadInv
<1>7. complete' = complete /\ releaseMap' = releaseMap /\ generation' = generation
    BY DEF ReadGeneration, vars, corpus
<1> HIDE DEF r
<1> QED
    BY <1>4, <1>5, <1>6, <1>7, RequestMoves DEF RequestsOK

LEMMA LookupStep ==
    ASSUME ReadInv, NEW q \in Reader, Lookup(q)
    PROVE  RequestsOK'
<1>1. /\ request[q] \in Asked /\ RequestOK(request[q])
      /\ Head(request[q].plan) = "lookup"
    BY AtStatement DEF Lookup
<1>2. CASE Ends(q)
    BY <1>2, EndsMoves DEF Lookup
<1>3. CASE GoesOn(q, request[q].found)
    <2> DEFINE found == request[q].found
    <2>1. /\ Tail(request[q].plan) \in Plans(request[q].route)
          /\ request[q].route \in {"toc", "section", "diff"}
          /\ \/ request[q].route # "diff" /\ Head(Tail(request[q].plan)) = "served"
             \/ request[q].route = "diff" /\ Head(Tail(request[q].plan)) = "store"
                /\ found.at \in Release
        BY <1>1, Succession
    <2>2. Placed(Onward(q, found)) /\ ReadsAgree(Onward(q, found))
        BY <1>1, <2>1, OnwardIs DEF Placed, ReadsAgree
    <2>3. found \in Answer /\ request[q].generation <= generation
        BY <1>1, Succession DEF Asked, RequestOK
    <2> QED
        BY <1>1, <1>3, <2>1, <2>2, <2>3, GoesOnMoves DEF Lookup
<1> QED
    BY <1>2, <1>3 DEF Lookup

\* The release point a request is served from, as the corpus has it now.
LEMMA ReadServedFromStep ==
    ASSUME ReadInv, TypeOK, NEW q \in Reader, ReadServedFrom(q)
    PROVE  RequestsOK'
<1> DEFINE at    == ServedFrom(request[q].asked)
           found == [at |-> at, texts |-> {}]
<1>1. /\ request[q] \in Asked /\ RequestOK(request[q])
      /\ Head(request[q].plan) = "served"
    BY AtStatement DEF ReadServedFrom
<1>2. CASE Ends(q)
    BY <1>2, EndsMoves DEF ReadServedFrom
<1>3. CASE at # NoRelease /\ GoesOn(q, found)
    <2>1. at \in Release
        BY <1>1, <1>3, ServedFromType DEF Asked
    <2>2. found \in Answer /\ found.at = at /\ request[q].generation <= generation
        BY <1>1, <2>1, Succession DEF Asked, RequestOK, Answer
    <2> HIDE DEF found
    <2>3. Placed(Onward(q, found)) /\ ReadsAgree(Onward(q, found))
        <3> DEFINE x == Onward(q, found)
        <3>1. /\ x.asked = request[q].asked /\ x.found = found
              /\ x.plan = Tail(request[q].plan)
            BY <1>1, OnwardIs
        <3>2. Head(x.plan) = "texts"
            BY <1>1, <3>1, Succession
        <3> HIDE DEF x
        <3>3. Placed(x) /\ ReadsAgree(x)
            BY <2>1, <2>2, <3>1, <3>2 DEF Placed, ReadsAgree
        <3> QED
            BY <3>3 DEF x
    <2> QED
        BY <1>1, <1>3, <2>2, <2>3, GoesOnMoves, Succession DEF ReadServedFrom
<1> QED
    BY <1>2, <1>3 DEF ReadServedFrom

\* The texts there: with them a table of contents is what the corpus gives now.
LEMMA ReadTextsStep ==
    ASSUME ReadInv, TypeOK, NEW q \in Reader, ReadTexts(q)
    PROVE  RequestsOK'
<1> DEFINE at    == request[q].found.at
           found == [request[q].found EXCEPT !.texts = TextsAt(at)]
<1>1. /\ request[q] \in Asked /\ RequestOK(request[q]) /\ ReadsAgree(request[q])
      /\ Head(request[q].plan) = "texts"
    BY AtStatement DEF ReadTexts
<1>2. at \in Release
    BY <1>1, Succession
<1>3. found = [at |-> at, texts |-> TextsAt(at)]
    BY <1>1 DEF Asked, Answer
<1>4. found \in Answer /\ request[q].generation <= generation
    BY <1>1, <1>2, <1>3, TextsAtType, Succession DEF Asked, RequestOK, Answer
<1>5. ReadsAgree(Onward(q, found))
    <2>1. ASSUME request[q].route # "diff", request[q].generation = generation
          PROVE  /\ at = ServedFrom(request[q].asked)
                 /\ found = TocAnswer(request[q].asked)
        <3>1. at = ServedFrom(request[q].asked)
            BY <1>1, <2>1, Succession DEF ReadsAgree
        <3>2. at # NoRelease
            BY <1>2, ReleaseAssumption DEF NoRelease
        <3> QED
            BY <1>3, <3>1, <3>2 DEF TocAnswer
    <2> HIDE DEF found
    <2> DEFINE x == Onward(q, found)
    <2>2. /\ x.route = request[q].route /\ x.asked = request[q].asked
          /\ x.generation = request[q].generation /\ x.found = found
          /\ x.plan = Tail(request[q].plan)
        BY <1>1, OnwardIs
    <2>3. Head(x.plan) = IF x.route = "toc" THEN "store" ELSE "last"
        BY <1>1, <2>2, Succession
    <2> HIDE DEF x
    <2>4. ReadsAgree(x)
        BY <1>3, <2>1, <2>2, <2>3 DEF ReadsAgree
    <2> QED
        BY <2>4 DEF x
<1>6. Placed(Onward(q, found))
    <2>1. found.at \in Release
        BY <1>2, <1>3
    <2> HIDE DEF found
    <2> QED
        BY <1>1, <2>1, OnwardIs DEF Placed
<1>7. GoesOn(q, found) /\ UNCHANGED <<vars, generation>>
    BY DEF ReadTexts
<1> HIDE DEF found
<1> QED
    BY <1>1, <1>4, <1>5, <1>6, <1>7, GoesOnMoves, Succession

\* The section is there, or is looked for further back.
LEMMA ReadLastHoldingStep ==
    ASSUME ReadInv, TypeOK, NEW q \in Reader, ReadLastHolding(q)
    PROVE  RequestsOK'
<1> DEFINE was == request[q].found
           r   == LastHolding(was.at)
<1>1. /\ request[q] \in Asked /\ RequestOK(request[q]) /\ ReadsAgree(request[q])
      /\ Head(request[q].plan) = "last"
    BY AtStatement DEF ReadLastHolding
<1>2. was.at \in Release /\ was.at # NoRelease
    BY <1>1, Succession, ReleaseAssumption DEF NoRelease
<1>3. ASSUME request[q].route # "diff", request[q].generation = generation
      PROVE  /\ was.at = ServedFrom(request[q].asked)
             /\ was = [at |-> was.at, texts |-> TextsAt(was.at)]
    BY <1>1, <1>3, Succession DEF ReadsAgree
<1>4. UNCHANGED <<vars, generation>>
    BY DEF ReadLastHolding
<1>5. CASE was.texts # {} /\ request' = [request EXCEPT ![q].plan = Tail(Tail(@))]
    <2> DEFINE x == [request[q] EXCEPT !.plan = Tail(Tail(@))]
    <2>1. /\ x.plan = Tail(Tail(request[q].plan)) /\ x.found = was
          /\ x.route = request[q].route /\ x.asked = request[q].asked
          /\ x.generation = request[q].generation
        BY <1>1 DEF Asked
    <2>2. x.plan \in Plans(x.route) /\ x.route \in {"toc", "section", "diff"}
        BY <1>1, <2>1, Succession
    <2>3. x \in Asked
        <3>1. Tail(Tail(request[q].plan)) \in TocPlans \cup SectionPlans \cup DiffPlans
            BY <2>1, <2>2 DEF Plans
        <3> QED
            BY <1>1, <3>1 DEF Asked
    <2>4. request' = [request EXCEPT ![q] = x]
        BY <1>5 DEF ReadInv
    <2> HIDE DEF x
    <2>5. RequestOK(x)
        <3>1. x.generation \in 0..generation
            BY <1>1, <2>1, Succession DEF RequestOK
        <3> QED
            BY <1>2, <2>1, <2>2, <2>3, <3>1 DEF RequestOK, Placed
    <2>6. ReadsAgree(x)
        <3>1. ASSUME x.route # "diff", x.generation = generation
              PROVE  x.found = SectionAnswer(x.asked)
            <4>1. was.at = ServedFrom(x.asked) /\ was.texts = TextsAt(was.at)
                BY <1>3, <2>1, <3>1
            <4> QED
                BY <1>2, <1>3, <1>5, <2>1, <3>1, <4>1 DEF SectionAnswer
        <3>2. x.route # "diff" => Head(x.plan) = "answer"
            BY <1>1, <2>1, Succession
        <3> QED
            BY <3>1, <3>2 DEF ReadsAgree
    <2>7. complete' = complete /\ releaseMap' = releaseMap /\ generation' = generation
        BY <1>4 DEF vars, corpus
    <2> QED
        BY <2>3, <2>4, <2>5, <2>6, <2>7, RequestMoves DEF RequestsOK
<1>6. CASE Ends(q)
    BY <1>4, <1>6, EndsMoves
<1>7. CASE was.texts = {} /\ r # NoRelease /\ GoesOn(q, [at |-> r, texts |-> {}])
    <2> DEFINE found == [at |-> r, texts |-> {}]
    <2>1. r \in Release
        BY <1>2, <1>7, LastHoldingType
    <2>2. found \in Answer /\ request[q].generation <= generation
        BY <1>1, <2>1, Succession DEF Asked, RequestOK, Answer
    <2>3. found.at = r /\ GoesOn(q, found)
        BY <1>7
    <2> HIDE DEF found
    <2>4. Placed(Onward(q, found))
        BY <1>1, <2>1, <2>3, OnwardIs DEF Placed
    <2>5. ReadsAgree(Onward(q, found))
        <3>1. ASSUME request[q].route # "diff", request[q].generation = generation
              PROVE  LET at == ServedFrom(request[q].asked) IN
                     at # NoRelease /\ TextsAt(at) = {} /\ found.at = LastHolding(at)
            BY <1>2, <1>3, <1>7, <2>3, <3>1
        <3> DEFINE x == Onward(q, found)
        <3>2. /\ x.route = request[q].route /\ x.asked = request[q].asked
              /\ x.generation = request[q].generation /\ x.found = found
              /\ x.plan = Tail(request[q].plan)
            BY <1>1, OnwardIs
        <3>3. Head(x.plan) = "there"
            BY <1>1, <3>2, Succession
        <3> HIDE DEF x
        <3>4. ReadsAgree(x)
            BY <3>1, <3>2, <3>3 DEF ReadsAgree
        <3> QED
            BY <3>4 DEF x
    <2> QED
        BY <1>1, <1>4, <2>2, <2>3, <2>4, <2>5, GoesOnMoves, Succession
<1> QED
    BY <1>5, <1>6, <1>7 DEF ReadLastHolding

\* What is found further back is the section's answer.
LEMMA ReadTextsThereStep ==
    ASSUME ReadInv, TypeOK, NEW q \in Reader, ReadTextsThere(q)
    PROVE  RequestsOK'
<1> DEFINE at    == request[q].found.at
           found == [at |-> at, texts |-> TextsAt(at)]
<1>1. /\ request[q] \in Asked /\ RequestOK(request[q]) /\ ReadsAgree(request[q])
      /\ Head(request[q].plan) = "there"
    BY AtStatement DEF ReadTextsThere
<1>2. at \in Release /\ at # NoRelease
    BY <1>1, Succession, ReleaseAssumption DEF NoRelease
<1>3. UNCHANGED <<vars, generation>>
    BY DEF ReadTextsThere
<1>4. CASE Ends(q)
    BY <1>3, <1>4, EndsMoves
<1>5. CASE TextsAt(at) # {} /\ GoesOn(q, found)
    <2>1. found \in Answer /\ request[q].generation <= generation
        BY <1>1, <1>2, TextsAtType, Succession DEF Asked, RequestOK, Answer
    <2>2. ASSUME request[q].route # "diff", request[q].generation = generation
          PROVE  found = SectionAnswer(request[q].asked)
        <3>1. LET here == ServedFrom(request[q].asked) IN
              here # NoRelease /\ TextsAt(here) = {} /\ at = LastHolding(here)
            BY <1>1, <2>2, Succession DEF ReadsAgree
        <3> QED
            BY <1>2, <3>1 DEF SectionAnswer
    <2>3. found.at = at
        OBVIOUS
    <2> HIDE DEF found
    <2>4. Placed(Onward(q, found)) /\ ReadsAgree(Onward(q, found))
        <3> DEFINE x == Onward(q, found)
        <3>1. /\ x.route = request[q].route /\ x.asked = request[q].asked
              /\ x.generation = request[q].generation /\ x.found = found
              /\ x.plan = Tail(request[q].plan)
            BY <1>1, OnwardIs
        <3>2. Head(x.plan) = IF x.route = "diff" THEN "generation" ELSE "answer"
            BY <1>1, <3>1, Succession
        <3> HIDE DEF x
        <3>3. Placed(x) /\ ReadsAgree(x)
            BY <1>2, <2>2, <2>3, <3>1, <3>2 DEF Placed, ReadsAgree
        <3> QED
            BY <3>3 DEF x
    <2> QED
        BY <1>1, <1>3, <1>5, <2>1, <2>4, GoesOnMoves, Succession
<1> QED
    BY <1>4, <1>5 DEF ReadTextsThere

\* Whatever a request does, what the requests have found still agrees with the
\* generations they have read.
LEMMA RequestStepKeeps ==
    ASSUME ReadInv, TypeOK, NEW q \in Reader, RequestStep(q)
    PROVE  RequestsOK'
<1>1. CASE Store(q) \/ GiveAnswer(q)
    BY <1>1, EndsMoves DEF Store, GiveAnswer
<1> QED
    BY <1>1, AskStep, ReadGenerationStep, LookupStep, ReadServedFromStep,
       ReadTextsStep, ReadLastHoldingStep, ReadTextsThereStep DEF RequestStep

\* A payload is only kept under the generation it was read at.
LEMMA StoreKeeps ==
    ASSUME ReadInv, NEW q \in Reader, Store(q)
    PROVE  CacheTypeOK' /\ PayloadsAreCurrent'
<1> DEFINE r == request[q]
<1>1. /\ r \in Asked /\ RequestOK(r) /\ ReadsAgree(r)
      /\ Head(r.plan) = "store"
    BY AtStatement DEF Store
<1>2. complete' = complete /\ releaseMap' = releaseMap
    BY DEF Store, vars, corpus
<1>3. r.route \in {"toc", "diff"} /\ r.found \in Answer /\ r.found.at \in Release
      /\ r.asked \in Release /\ r # Idle
    BY <1>1, Succession DEF Asked
<1>4. CASE cache' = cache
    BY <1>2, <1>4, AnswersUnmoved DEF ReadInv, CacheTypeOK, PayloadsAreCurrent
<1>5. CASE /\ r.generation = generation
           /\ cache' = cache \cup {[key |-> Key(q), value |-> r.found]}
    <2>1. PICK e : e = [key |-> Key(q), value |-> r.found]
        OBVIOUS
    <2>2. /\ e.key.route = r.route
          /\ e.key.label = IF r.route = "toc" THEN r.asked ELSE r.found.at
          /\ e.value = r.found
        BY <2>1 DEF Key
    <2>3. r.route = "toc" => e.value = TocAnswer(e.key.label)
        BY <1>1, <1>3, <1>5, <2>2 DEF ReadsAgree
    <2>4. CacheTypeOK'
        BY <1>3, <1>5, <2>1, <2>2 DEF ReadInv, CacheTypeOK
    <2>5. \A d \in cache' : d.key.route = "toc" => d.value = TocAnswer(d.key.label)
        BY <1>5, <2>1, <2>2, <2>3 DEF ReadInv, PayloadsAreCurrent
    <2>6. PayloadsAreCurrent'
        BY <1>2, <2>5, AnswersUnmoved DEF PayloadsAreCurrent
    <2> QED
        BY <2>4, <2>6
<1> QED
    BY <1>4, <1>5 DEF Store

\* A section answered at the label of its own complete file load is the file's.
LEMMA OwnIsOfFile ==
    ASSUME ReadInv, TablesInv, NEW q \in Reader, At(q, "answer"), IsOwn(q)
    PROVE  request[q].found = OwnAnswer(request[q].asked)
<1> DEFINE r  == request[q]
           at == ServedFrom(r.asked)
<1>1. /\ r \in Asked /\ RequestOK(r) /\ ReadsAgree(r)
      /\ Head(r.plan) = "answer"
    BY AtStatement
<1>2. /\ r.found.at = r.asked /\ r.asked \in complete /\ row[r.asked] = "file"
      /\ generation = r.generation
    BY DEF IsOwn
<1>3. r.asked \in Release /\ r.asked # NoRelease /\ r.route = "section" /\ r # Idle
    BY <1>1, Succession, ReleaseAssumption DEF Asked, NoRelease
<1>4. r.found = SectionAnswer(r.asked)
    BY <1>1, <1>2, <1>3 DEF ReadsAgree
<1>5. r.found = [at |-> r.asked, texts |-> TextsAt(r.asked)]
    BY <1>2, <1>3, <1>4 DEF SectionAnswer, NotFound
<1>6. ElementsAt(r.asked) = file[r.asked]
    BY <1>2 DEF TablesInv, FileLoadsAreWhole
<1>7. TextsAt(r.asked) = {v.text : v \in {e \in file[r.asked] : e.sec = Wanted}}
    <2>1. \A v \in releaseMap[r.asked] :
             ElementOf(v).sec = v.sec /\ ElementOf(v).text = v.text
        BY DEF ElementOf
    <2>2. file[r.asked] = {ElementOf(v) : v \in releaseMap[r.asked]}
        BY <1>6 DEF ElementsAt, ElementsOf
    <2> QED
        BY <2>1, <2>2 DEF TextsAt
<1> QED
    BY <1>5, <1>7 DEF OwnAnswer

\* What a client is first told of its label's own file is the file's.
LEMMA GiveAnswerKeeps ==
    ASSUME ReadInv, TablesInv, NEW q \in Reader, GiveAnswer(q)
    PROVE  told' \in [Release -> [found : Answer, own : BOOLEAN]] /\ OwnIsTold'
<1>1. /\ request[q] \in Asked /\ RequestOK(request[q])
      /\ request[q].asked \in Release /\ request[q].found \in Answer
    BY AtStatement DEF GiveAnswer, Asked
<1>2. PICK a \in Release : a = request[q].asked
    BY <1>1
<1>3. PICK new : new = [found |-> request[q].found, own |-> IsOwn(q)]
    OBVIOUS
<1>4. IsOwn(q) \in BOOLEAN
    BY DEF IsOwn
<1>5. told' = told \/ told' = [told EXCEPT ![a] = new]
    BY <1>2, <1>3 DEF GiveAnswer, ReadInv
<1>6. new.own => new.found = OwnAnswer(a)
    BY <1>2, <1>3, OwnIsOfFile DEF GiveAnswer
<1>7. \A r : OwnAnswer(r)' = OwnAnswer(r)
    BY DEF OwnAnswer, GiveAnswer, vars
<1>8. told' \in [Release -> [found : Answer, own : BOOLEAN]]
    BY <1>1, <1>3, <1>4, <1>5 DEF ReadInv
<1>9. OwnIsTold'
    BY <1>5, <1>6, <1>7 DEF ReadInv, OwnIsTold
<1> QED
    BY <1>8, <1>9

-----------------------------------------------------------------------------
(***************************************************************************)
(* The loaders keep it                                                     *)
(***************************************************************************)

\* A commit outdates every request that is under way, and every payload.
LEMMA CommitKeeps ==
    ASSUME ReadInv, LoaderCommits
    PROVE  ReadInv'
<1>1. /\ generation' = generation + 1 /\ generation' \in 1..MaxGeneration
      /\ generation \in Nat
    BY ReadAssumption DEF LoaderCommits, Moved, ReadInv
<1>2. cache' = {} /\ UNCHANGED <<request, told>>
    BY <1>1 DEF LoaderCommits
<1>3. file' = file
    BY DEF LoaderCommits, BeginLoad, BeginUpdate, CommitBatch, Finish
<1>4. ASSUME NEW r, RequestOK(r) PROVE RequestOK(r)' /\ ReadsAgree(r)'
    <2>1. r = Idle \/ r.generation \in 0..generation
        BY <1>4 DEF RequestOK
    <2>2. r = Idle \/ (r.generation \in 0..generation' /\ r.generation # generation')
        BY <1>1, <2>1
    <2>3. RequestOK(r)'
        BY <1>4, <2>2 DEF RequestOK, Placed
    <2> QED
        BY <2>2, <2>3 DEF ReadsAgree
<1>5. \A q \in Reader : RequestOK(request[q])' /\ ReadsAgree(request[q])'
    BY <1>2, <1>4 DEF ReadInv
<1>6. CacheTypeOK' /\ PayloadsAreCurrent'
    BY <1>2 DEF CacheTypeOK, PayloadsAreCurrent
<1>7. OwnIsTold'
    BY <1>2, <1>3 DEF ReadInv, OwnIsTold, OwnAnswer
<1> QED
    BY <1>1, <1>2, <1>5, <1>6, <1>7 DEF ReadInv

\* What an open transaction does is not seen.
LEMMA NothingSeen ==
    ASSUME ReadInv, LoaderWorks \/ UNCHANGED readVars
    PROVE  ReadInv'
<1>1. /\ complete' = complete /\ releaseMap' = releaseMap /\ file' = file
      /\ UNCHANGED <<generation, cache, request, told>>
    BY DEF LoaderWorks, StoreElement, Interrupt, corpus, readVars, vars
<1>2. ASSUME NEW r, RequestOK(r), ReadsAgree(r) PROVE RequestOK(r)' /\ ReadsAgree(r)'
    BY <1>1, <1>2, AnswersUnmoved DEF RequestOK, ReadsAgree
<1>3. \A q \in Reader : RequestOK(request[q])' /\ ReadsAgree(request[q])'
    BY <1>1, <1>2 DEF ReadInv
<1>4. PayloadsAreCurrent'
    BY <1>1, AnswersUnmoved DEF ReadInv, PayloadsAreCurrent
<1>5. OwnIsTold' /\ CacheTypeOK'
    BY <1>1 DEF ReadInv, OwnIsTold, OwnAnswer, CacheTypeOK
<1> QED
    BY <1>1, <1>3, <1>4, <1>5 DEF ReadInv

\* The invariant is inductive.
LEMMA ReadInvStep == TablesInv /\ ReadInv /\ [NextRead]_readVars => ReadInv'
<1> SUFFICES ASSUME TablesInv, ReadInv, [NextRead]_readVars PROVE ReadInv'
    OBVIOUS
<1>1. ASSUME NEW q \in Reader, RequestStep(q) PROVE ReadInv'
    <2>1. UNCHANGED <<vars, generation>>
        BY <1>1 DEF RequestStep, Ask, ReadGeneration, Lookup, ReadServedFrom, ReadTexts,
                    ReadLastHolding, ReadTextsThere, Store, GiveAnswer
    <2>2. RequestsOK'
        BY <1>1, RequestStepKeeps DEF TablesInv
    <2>3. CacheTypeOK' /\ PayloadsAreCurrent'
        <3>1. CASE Store(q)
            BY <3>1, StoreKeeps
        <3>2. CASE cache' = cache
            <4>1. complete' = complete /\ releaseMap' = releaseMap
                BY <2>1 DEF vars, corpus
            <4> QED
                BY <3>2, <4>1, AnswersUnmoved DEF ReadInv, CacheTypeOK, PayloadsAreCurrent
        <3> QED
            BY <1>1, <3>1, <3>2
               DEF RequestStep, Ask, ReadGeneration, Lookup, ReadServedFrom, ReadTexts,
                   ReadLastHolding, ReadTextsThere, GiveAnswer
    <2>4. told' \in [Release -> [found : Answer, own : BOOLEAN]] /\ OwnIsTold'
        <3>1. CASE GiveAnswer(q)
            BY <3>1, GiveAnswerKeeps
        <3>2. CASE told' = told
            BY <2>1, <3>2 DEF ReadInv, OwnIsTold, OwnAnswer, vars
        <3> QED
            BY <1>1, <3>1, <3>2
               DEF RequestStep, Ask, ReadGeneration, Lookup, ReadServedFrom, ReadTexts,
                   ReadLastHolding, ReadTextsThere, Store
    <2> QED
        BY <2>1, <2>2, <2>3, <2>4 DEF ReadInv, RequestsOK
<1> QED
    BY <1>1, CommitKeeps, NothingSeen DEF NextRead

THEOREM ReadInvariant == SpecRead => []ReadInv
<1>1. SpecRead => []TablesInv
    BY ReadersFindALoad, TablesCorrect, PTL
<1> QED
    BY <1>1, ReadInit, ReadInvStep, PTL DEF SpecRead

-----------------------------------------------------------------------------
(***************************************************************************)
(* The theorems                                                            *)
(***************************************************************************)

\* The readers, the caches and what clients hold are well typed.
THEOREM ReadTypeCorrect == SpecRead => []ReadTypeOK
<1>1. ReadInv => ReadTypeOK
    <2> SUFFICES ASSUME ReadInv, NEW q \in Reader
                 PROVE  /\ request[q].route \in Route \cup {"none"}
                        /\ request[q].asked \in Release \cup {NoRelease}
                        /\ request[q].generation \in 0..generation
                        /\ request[q].found \in Answer
        BY DEF ReadInv, CacheTypeOK, ReadTypeOK
    <2>1. CASE request[q] = Idle
        BY <2>1 DEF Idle, NotFound, Answer, ReadInv
    <2>2. CASE request[q] # Idle
        BY <2>2 DEF ReadInv, RequestOK, Asked
    <2> QED
        BY <2>1, <2>2
<1> QED
    BY <1>1, ReadInvariant, PTL

\* A table of contents in Redis is the one the corpus would give now, whatever
\* was committed between the statements it was read with.
THEOREM PayloadsCorrect == SpecRead => []PayloadsAreCurrent
<1>1. ReadInv => PayloadsAreCurrent
    BY DEF ReadInv
<1> QED
    BY <1>1, ReadInvariant, PTL

\* The statements of a section's request agree with each other and with the
\* corpus while the generation it is stamped with stands.
THEOREM AnswersConsistent == SpecRead => []AnswersAreConsistent
<1>1. ReadInv => AnswersAreConsistent
    <2> SUFFICES ASSUME ReadInv, NEW q \in Reader,
                        At(q, "answer"), request[q].generation = generation
                 PROVE  request[q].found = SectionAnswer(request[q].asked)
        BY DEF AnswersAreConsistent
    <2>1. /\ request[q] \in Asked /\ RequestOK(request[q]) /\ ReadsAgree(request[q])
          /\ Head(request[q].plan) = "answer"
        BY AtStatement
    <2>2. request[q] # Idle /\ request[q].route = "section"
        BY <2>1, Succession
    <2> QED
        BY <2>1, <2>2 DEF ReadsAgree
<1> QED
    BY <1>1, ReadInvariant, PTL

\* Of a section at the label of its own complete file load, no client ever holds
\* as immutable anything but what every other request is answered there.
THEOREM OwnPinsCorrect == SpecRead => []OwnPinsAgree
<1>1. ReadInv /\ TablesInv => OwnPinsAgree
    <2> SUFFICES ASSUME ReadInv, TablesInv, NEW q \in Reader, At(q, "answer"),
                        IsOwn(q), told[request[q].asked].own
                 PROVE  told[request[q].asked].found = request[q].found
        BY DEF OwnPinsAgree
    <2>1. request[q].asked \in Release
        BY AtStatement DEF Asked
    <2> QED
        BY <2>1, OwnIsOfFile DEF ReadInv, OwnIsTold
<1>2. SpecRead => []TablesInv
    BY ReadersFindALoad, TablesCorrect, PTL
<1> QED
    BY <1>1, <1>2, ReadInvariant, PTL

=============================================================================
