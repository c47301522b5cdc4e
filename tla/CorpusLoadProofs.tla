-------------------------- MODULE CorpusLoadProofs --------------------------
(***************************************************************************)
(* Proofs about CorpusLoad for every title: any sections, texts, release   *)
(* points, files and fetches.                                              *)
(***************************************************************************)
EXTENDS CorpusLoad, FiniteSetsExt, WellFoundedInduction, TLAPS

-----------------------------------------------------------------------------
(***************************************************************************)
(* Sets of release points                                                  *)
(***************************************************************************)

\* A set of naturals has a least element.
LEMMA OldestExists ==
    ASSUME NEW S \in SUBSET Nat, S # {}
    PROVE  \E m \in S : \A x \in S : m <= x
<1>1. PICK m \in S : \A x \in S : <<x, m>> \notin OpToRel(<, Nat)
    BY NatLessThanWellFounded, WFMin
<1>2. ASSUME NEW x \in S PROVE m <= x
    <2>1. m \in Nat /\ x \in Nat
        OBVIOUS
    <2>2. <<x, m>> \notin OpToRel(<, Nat)
        BY <1>1
    <2>3. ~(x < m)
        BY <2>1, <2>2 DEF OpToRel
    <2> QED
        BY <2>1, <2>3
<1> QED
    BY <1>2

\* A set of naturals that is bounded has a greatest: its mirror image a least.
LEMMA NewestExists ==
    ASSUME NEW S \in SUBSET Nat, S # {}, NEW n \in Nat, \A x \in S : x <= n
    PROVE  \E m \in S : \A x \in S : x <= m
<1> DEFINE T == {n - x : x \in S}
<1>1. PICK s \in S : TRUE
    OBVIOUS
<1>2. \A x \in S : n - x \in Nat
    OBVIOUS
<1>3. T \in SUBSET Nat /\ T # {}
    BY <1>1, <1>2
<1>4. PICK m \in T : \A x \in T : m <= x
    <2> HIDE DEF T
    <2> QED
        BY <1>3, OldestExists
<1>5. PICK y \in S : m = n - y
    BY <1>4
<1>6. \A x \in S : n - y <= n - x
    BY <1>4, <1>5
<1>7. \A x \in S : x <= y
    BY <1>6
<1> QED
    BY <1>7

\* What Min and Max return.
LEMMA MinIsOldest ==
    ASSUME NEW S \in SUBSET Nat, S # {}
    PROVE  Min(S) \in S /\ \A x \in S : Min(S) <= x
BY OldestExists DEF Min

LEMMA MaxIsNewest ==
    ASSUME NEW S \in SUBSET Nat, S # {}, NEW n \in Nat, \A x \in S : x <= n
    PROVE  Max(S) \in S /\ \A x \in S : x <= Max(S)
<1>1. PICK m \in S : \A x \in S : m >= x
    BY NewestExists
<1>2. Max(S) \in S /\ \A x \in S : Max(S) >= x
    BY <1>1 DEF Max
<1> QED
    BY <1>2

-----------------------------------------------------------------------------

\* The element a version row stands for.
LEMMA ElementOfType ==
    ASSUME NEW v \in Version
    PROVE  ElementOf(v) \in Element
BY DEF ElementOf, Element, Version

\* The elements of a union of version rows.
LEMMA ElementsOfUnion ==
    ASSUME NEW A, NEW B
    PROVE  ElementsOf(A \cup B) = ElementsOf(A) \cup ElementsOf(B)
BY DEF ElementsOf

-----------------------------------------------------------------------------
(***************************************************************************)
(* Type correctness                                                        *)
(***************************************************************************)

\* No step takes a variable out of its type.
LEMMA TypeStep == TypeOK /\ [Next]_vars => TypeOK'
<1> SUFFICES ASSUME TypeOK, [Next]_vars PROVE TypeOK'
    OBVIOUS
<1> USE FilesAssumption, FetchesAssumption DEF TypeOK
<1>1. CASE \E r \in Release : BeginLoad(r)
    <2> PICK r \in Release : BeginLoad(r)
        BY <1>1
    <2>1. releaseMap' \in [Release -> SUBSET Version]
        BY DEF BeginLoad, PlacementsUnderFile
    <2>2. complete' \subseteq Release
        BY DEF BeginLoad, CompleteWhileRedone
    <2> QED
        BY <2>1, <2>2 DEF BeginLoad
<1>2. CASE \E r, b \in Release, fetched \in Fetches : BeginUpdate(r, b, fetched)
    <2> PICK r \in Release, b \in Release, fetched \in Fetches :
             BeginUpdate(r, b, fetched)
        BY <1>2
    <2>1. releaseMap' \in [Release -> SUBSET Version]
        BY DEF BeginUpdate, PlacementsUnderUpdate
    <2>2. newMaps' \subseteq Version
        BY DEF BeginUpdate, Carried
    <2> QED
        BY <2>1, <2>2 DEF BeginUpdate
<1>3. CASE \E e \in Element : StoreElement(e)
    <2> PICK e \in Element : StoreElement(e)
        BY <1>3
    <2>1. CASE \E v \in Known(e) : newMaps' = newMaps \cup {v} /\ UNCHANGED newVersions
        BY <2>1 DEF StoreElement, Known, corpus
    <2>2. CASE ~(\E v \in Known(e) : newMaps' = newMaps \cup {v} /\ UNCHANGED newVersions)
        <3>1. PICK v : /\ v = [sec |-> e.sec, text |-> e.text, first |-> rel]
                       /\ newVersions' = newVersions \cup {v}
                       /\ newMaps' = newMaps \cup {v}
            BY <2>2 DEF StoreElement
        <3>2. rel \in Release
            BY DEF StoreElement
        <3>3. v \in Version
            BY <3>1, <3>2 DEF Version, Element
        <3> QED
            BY <3>1, <3>3 DEF StoreElement, corpus
    <2> QED
        BY <2>1, <2>2
<1>4. CASE CommitBatch
    BY <1>4 DEF CommitBatch, CommitRows, CompleteAfterBatch
<1>5. CASE Finish
    BY <1>5 DEF Finish, CommitRows, EndSession
<1>6. CASE Interrupt
    BY <1>6 DEF Interrupt, corpus, EndSession
<1>7. CASE UNCHANGED vars
    BY <1>7 DEF vars, corpus, loader
<1> QED
    BY <1>1, <1>2, <1>3, <1>4, <1>5, <1>6, <1>7 DEF Next

\* Every reachable state is well typed.
THEOREM TypeCorrect == Spec => []TypeOK
<1>1. Init => TypeOK
    BY FilesAssumption DEF Init, TypeOK
<1> QED
    BY <1>1, TypeStep, PTL DEF Spec

-----------------------------------------------------------------------------
(***************************************************************************)
(* Content dedupe                                                          *)
(***************************************************************************)

\* A version row is only added for a text that has none.
LEMMA DedupeStep ==
    TypeOK /\ OneVersionPerText /\ [Next]_vars => OneVersionPerText'
<1> SUFFICES ASSUME TypeOK, OneVersionPerText, [Next]_vars
             PROVE  OneVersionPerText'
    OBVIOUS
<1> USE DEF OneVersionPerText
<1>1. ASSUME NEW r \in Release, BeginLoad(r) PROVE OneVersionPerText'
    BY <1>1 DEF BeginLoad, ElementOf
<1>2. ASSUME NEW r \in Release, NEW b \in Release, NEW fetched \in Fetches,
             BeginUpdate(r, b, fetched)
      PROVE  OneVersionPerText'
    BY <1>2 DEF BeginUpdate, ElementOf
<1>3. ASSUME NEW e \in Element, StoreElement(e) PROVE OneVersionPerText'
    <2>1. versions' = versions
        BY <1>3 DEF StoreElement, corpus
    <2>2. CASE newVersions' = newVersions
        BY <2>1, <2>2 DEF ElementOf
    <2>3. CASE newVersions' # newVersions
        \* Only content no version has makes a row.
        <3>1. PICK v : /\ Known(e) = {}
                       /\ newVersions' = newVersions \cup {v}
                       /\ ElementOf(v) = e
            BY <1>3, <2>3 DEF StoreElement, ElementOf, Element
        <3>2. \A w \in versions \cup newVersions : ElementOf(w) # e
            BY <3>1 DEF Known
        <3> QED
            BY <2>1, <3>1, <3>2 DEF ElementOf
    <2> QED
        BY <2>2, <2>3
<1>4. CASE CommitBatch
    BY <1>4 DEF CommitBatch, CommitRows, ElementOf
<1>5. CASE Finish
    BY <1>5 DEF Finish, CommitRows, EndSession, ElementOf
<1>6. CASE Interrupt
    BY <1>6 DEF Interrupt, corpus, EndSession, ElementOf
<1>7. CASE UNCHANGED vars
    BY <1>7 DEF vars, corpus, loader, ElementOf
<1> QED
    BY <1>1, <1>2, <1>3, <1>4, <1>5, <1>6, <1>7 DEF Next

\* No order of loads, updates, interruptions and retries gives a section two
\* version rows with one content.
THEOREM DedupeCorrect == Spec => []OneVersionPerText
<1>1. Init => OneVersionPerText
    BY DEF Init, OneVersionPerText
<1> QED
    BY <1>1, TypeCorrect, DedupeStep, PTL DEF Spec

-----------------------------------------------------------------------------
(***************************************************************************)
(* What the tables hold                                                    *)
(***************************************************************************)

\* A release point without a title_versions row is neither complete nor mapped.
AbsentIsEmpty ==
    \A r \in Release :
        row[r] = "absent" => r \notin complete /\ releaseMap[r] = {}

TablesInv ==
    /\ TypeOK
    /\ AbsentIsEmpty
    /\ FileLoadsAreWhole
    /\ NoForeignText
    /\ InterruptedUpdateIsEmpty
    /\ LoadUnderWay

\* The invariant holds of the empty corpus.
LEMMA TablesInit == Init => TablesInv
BY FilesAssumption
   DEF Init, TablesInv, TypeOK, AbsentIsEmpty, FileLoadsAreWhole, NoForeignText,
       InterruptedUpdateIsEmpty, LoadUnderWay, ElementsAt, ElementsOf


\* A commit of the open transaction maps its rows at the release it writes and
\* touches no other.
LEMMA CommitEffect ==
    ASSUME TypeOK, CommitRows, pc # "idle"
    PROVE  /\ ElementsOf(releaseMap'[rel]) = ElementsOf(releaseMap[rel] \cup newMaps)
           /\ \A r \in Release \ {rel} : ElementsAt(r)' = ElementsAt(r)
           /\ \A r \in Release \ {rel} : releaseMap'[r] = releaseMap[r]
<1>1. rel \in Release
    BY DEF TypeOK
<1>2. releaseMap'[rel] = releaseMap[rel] \cup newMaps
    BY <1>1 DEF TypeOK, CommitRows
<1>3. \A r \in Release \ {rel} : releaseMap'[r] = releaseMap[r]
    BY <1>1 DEF TypeOK, CommitRows
<1>4. \A r \in Release \ {rel} : ElementsAt(r)' = ElementsAt(r)
    BY <1>3 DEF ElementsAt, ElementsOf, ElementOf
<1> QED
    BY <1>2, <1>3, <1>4

\* A file takes its release point over: marker withdrawn, assembled rows gone.
LEMMA BeginLoadStep ==
    ASSUME TablesInv, NEW r \in Release, BeginLoad(r)
    PROVE  TablesInv'
<1> USE DEF TablesInv, BeginLoad, CompleteWhileRedone, PlacementsUnderFile
<1>1. TypeOK'
    BY TypeStep DEF Next
<1>2. \A q \in Release \ {r} : /\ row'[q] = row[q]
                               /\ releaseMap'[q] = releaseMap[q]
                               /\ q \in complete' <=> q \in complete
    BY DEF TypeOK
<1>3. r \notin complete' /\ row'[r] = "file" /\ rel' = r /\ file' = file
    BY DEF TypeOK
<1>4. releaseMap'[r] = {} \/ (row[r] # "sections" /\ releaseMap'[r] = releaseMap[r])
    BY DEF TypeOK
<1>5. ElementsOf(releaseMap'[r]) \subseteq file[r]
    BY <1>4 DEF TypeOK, AbsentIsEmpty, NoForeignText, ElementsAt, ElementsOf
<1>6. AbsentIsEmpty'
    BY <1>2, <1>3 DEF AbsentIsEmpty
<1>7. FileLoadsAreWhole'
    BY <1>2, <1>3 DEF FileLoadsAreWhole, ElementsAt, ElementsOf, ElementOf
<1>8. NoForeignText'
    BY <1>2, <1>3, <1>5 DEF NoForeignText, ElementsAt, ElementsOf, ElementOf
<1>9. InterruptedUpdateIsEmpty'
    BY <1>2, <1>3 DEF InterruptedUpdateIsEmpty
<1>10. LoadUnderWay'
    <2>1. newMaps' = {} /\ todo' = file'[rel']
        BY DEF TypeOK
    <2>2. ElementsOf(releaseMap'[rel'] \cup newMaps') = ElementsOf(releaseMap'[r])
        BY <1>3, <2>1
    <2> QED
        BY <1>3, <1>5, <2>1, <2>2 DEF LoadUnderWay, ElementsOf, ElementOf
<1> QED
    BY <1>1, <1>6, <1>7, <1>8, <1>9, <1>10

\* An update takes its release point over: placements gone, base carried.
LEMMA BeginUpdateStep ==
    ASSUME TablesInv, NEW r \in Release, NEW b \in Release,
           NEW fetched \in Fetches, BeginUpdate(r, b, fetched)
    PROVE  TablesInv'
<1> USE DEF TablesInv, BeginUpdate, PlacementsUnderUpdate
<1>1. TypeOK'
    BY TypeStep DEF Next
<1>2. \A q \in Release \ {r} : /\ row'[q] = row[q]
                               /\ releaseMap'[q] = releaseMap[q]
    BY DEF TypeOK
<1>3. /\ complete' = complete /\ r \notin complete /\ file' = file
      /\ row'[r] = "sections" /\ releaseMap'[r] = {} /\ rel' = r
    BY DEF TypeOK
<1>4. AbsentIsEmpty'
    BY <1>2, <1>3 DEF AbsentIsEmpty
<1>5. FileLoadsAreWhole'
    BY <1>2, <1>3 DEF FileLoadsAreWhole, ElementsAt, ElementsOf, ElementOf
<1>6. NoForeignText'
    BY <1>2, <1>3 DEF NoForeignText, ElementsAt, ElementsOf, ElementOf
<1>7. InterruptedUpdateIsEmpty'
    BY <1>2, <1>3 DEF InterruptedUpdateIsEmpty
<1>8. LoadUnderWay'
    <2>1. base'[r] = b /\ IsBaseFor(b, r)'
        BY <1>3 DEF TypeOK, IsBaseFor, LoadedBelow
    <2>2. b # r
        BY <1>3, ReleaseAssumption DEF IsBaseFor, LoadedBelow
    <2>3. Carried(b, fetched)' = Carried(b, fetched)
        BY <1>2, <2>2 DEF Carried, Sections
    <2>4. newMaps' = Carried(b, fetched)'
        BY <2>3
    <2>5. todo' = fetched /\ pc' = "update"
        OBVIOUS
    <2>6. ElementsOf(newMaps)' = (fetched \ todo') \cup ElementsOf(Carried(b, fetched))'
        BY <2>4, <2>5 DEF ElementsOf, ElementOf
    <2>7. base'[rel'] = b
        BY <1>3, <2>1
    <2>8. IsBaseFor(base[rel], rel)'
        BY <1>3, <2>1, <2>7 DEF IsBaseFor, LoadedBelow
    <2>9. Carried(base[rel], fetched)' = Carried(b, fetched)'
        BY <2>7 DEF Carried
    <2>10. ElementsOf(newMaps)'
              = (fetched \ todo') \cup ElementsOf(Carried(base[rel], fetched))'
        BY <2>6, <2>9 DEF ElementsOf, ElementOf
    <2> QED
        BY <1>3, <2>5, <2>8, <2>10 DEF LoadUnderWay
<1> QED
    BY <1>1, <1>4, <1>5, <1>6, <1>7, <1>8

\* Storing an element moves it from what is left to what is staged.
LEMMA StoreStep ==
    ASSUME TablesInv, NEW e \in Element, StoreElement(e)
    PROVE  TablesInv'
<1> USE DEF TablesInv
<1>1. TypeOK'
    BY TypeStep DEF Next
<1>2. UNCHANGED <<file, versions, releaseMap, row, base, complete, pc, rel>>
    BY DEF StoreElement, corpus
<1>3. AbsentIsEmpty' /\ FileLoadsAreWhole' /\ NoForeignText' /\ InterruptedUpdateIsEmpty'
    BY <1>2 DEF AbsentIsEmpty, FileLoadsAreWhole, NoForeignText,
                InterruptedUpdateIsEmpty, ElementsAt, ElementsOf, ElementOf
<1>4. PICK v : newMaps' = newMaps \cup {v} /\ ElementOf(v) = e
    <2>1. CASE \E v \in Known(e) : newMaps' = newMaps \cup {v} /\ UNCHANGED newVersions
        BY <2>1 DEF Known
    <2>2. CASE \E v : /\ v = [sec |-> e.sec, text |-> e.text, first |-> rel]
                      /\ newMaps' = newMaps \cup {v}
        BY <2>2 DEF ElementOf, Element
    <2> QED
        BY <2>1, <2>2 DEF StoreElement
<1>5. e \in todo /\ todo' = todo \ {e} /\ pc # "idle"
    BY DEF StoreElement
<1>6. ElementsOf(newMaps)' = ElementsOf(newMaps) \cup {e}
    BY <1>4 DEF ElementsOf, ElementOf
<1>7. ElementsOf(releaseMap[rel] \cup newMaps)'
         = ElementsOf(releaseMap[rel] \cup newMaps) \cup {e}
    BY <1>2, <1>4 DEF ElementsOf, ElementOf
<1>8. LoadUnderWay'
    <2>1. CASE pc = "load"
        BY <1>2, <1>5, <1>7, <2>1 DEF LoadUnderWay
    <2>2. CASE pc = "update"
        <3>1. PICK fetched \in Fetches :
                 /\ todo \subseteq fetched
                 /\ ElementsOf(newMaps)
                       = (fetched \ todo) \cup ElementsOf(Carried(base[rel], fetched))
            BY <2>2 DEF LoadUnderWay
        <3>2. /\ ElementsOf(Carried(base[rel], fetched))' = ElementsOf(Carried(base[rel], fetched))
              /\ IsBaseFor(base[rel], rel)' <=> IsBaseFor(base[rel], rel)
            BY <1>2 DEF Carried, ElementsOf, ElementOf, IsBaseFor, LoadedBelow
        <3>3. /\ todo' \subseteq fetched
              /\ ElementsOf(newMaps)'
                    = (fetched \ todo') \cup ElementsOf(Carried(base[rel], fetched))'
            BY <1>5, <1>6, <3>1, <3>2
        <3> QED
            BY <1>2, <2>2, <3>2, <3>3 DEF LoadUnderWay
    <2> QED
        BY <1>5, <2>1, <2>2 DEF TypeOK
<1> QED
    BY <1>1, <1>3, <1>8

\* A batch moves staged rows to the tables and leaves the marker.
LEMMA CommitBatchStep ==
    ASSUME TablesInv, CommitBatch
    PROVE  TablesInv'
<1> USE DEF TablesInv
<1>1. TypeOK'
    BY TypeStep DEF Next
<1>2. /\ UNCHANGED <<file, row, base, complete, pc, rel, todo>>
      /\ pc = "load" /\ newMaps' = {} /\ CommitRows
    BY DEF CommitBatch, CompleteAfterBatch
<1>3. /\ rel \in Release /\ rel \notin complete /\ row[rel] = "file"
      /\ todo \subseteq file[rel]
      /\ ElementsOf(releaseMap[rel] \cup newMaps) \subseteq file[rel]
      /\ file[rel] \ todo \subseteq ElementsOf(releaseMap[rel] \cup newMaps)
    BY <1>2 DEF LoadUnderWay, TypeOK
<1>4. /\ ElementsOf(releaseMap'[rel]) = ElementsOf(releaseMap[rel] \cup newMaps)
      /\ \A r \in Release \ {rel} : ElementsAt(r)' = ElementsAt(r)
      /\ \A r \in Release \ {rel} : releaseMap'[r] = releaseMap[r]
    BY <1>2, CommitEffect
<1>5. ElementsAt(rel)' = ElementsOf(releaseMap[rel] \cup newMaps)
    BY <1>2, <1>4 DEF ElementsAt, ElementsOf, ElementOf
<1>6. AbsentIsEmpty'
    BY <1>2, <1>3, <1>4 DEF AbsentIsEmpty
<1>7. FileLoadsAreWhole'
    BY <1>2, <1>3, <1>4 DEF FileLoadsAreWhole, TypeOK
<1>8. NoForeignText'
    BY <1>2, <1>3, <1>4, <1>5 DEF NoForeignText
<1>9. InterruptedUpdateIsEmpty'
    BY <1>2, <1>3, <1>4 DEF InterruptedUpdateIsEmpty
<1>10. LoadUnderWay'
    <2>1. ElementsOf(releaseMap[rel] \cup newMaps)'
             = ElementsOf(releaseMap[rel] \cup newMaps)
        BY <1>2, <1>4 DEF ElementsOf, ElementOf
    <2> QED
        BY <1>2, <1>3, <2>1 DEF LoadUnderWay
<1> QED
    BY <1>1, <1>6, <1>7, <1>8, <1>9, <1>10


\* What `Finish` publishes: the file, or the base with the fetched sections.
LEMMA FinishPublishes ==
    ASSUME TablesInv, Finish
    PROVE  /\ rel \in Release \ complete
           /\ row[rel] # "absent"
           /\ row[rel] = "file" => pc = "load"
           /\ pc = "load" => ElementsOf(releaseMap'[rel]) = file[rel]
           /\ pc = "update" => \E fetched \in Fetches :
                 /\ IsBaseFor(base[rel], rel)
                 /\ ElementsOf(releaseMap'[rel])
                       = fetched \cup ElementsOf(Carried(base[rel], fetched))
           /\ \A r \in Release \ {rel} : /\ ElementsAt(r)' = ElementsAt(r)
                                        /\ releaseMap'[r] = releaseMap[r]
<1> USE DEF TablesInv
<1>1. pc \in {"load", "update"} /\ todo = {} /\ CommitRows /\ rel \in Release
    BY DEF Finish, TypeOK
<1>2. rel \notin complete /\ row[rel] # "absent" /\ (row[rel] = "file" => pc = "load")
    BY <1>1 DEF LoadUnderWay
<1>3. /\ ElementsOf(releaseMap'[rel]) = ElementsOf(releaseMap[rel] \cup newMaps)
      /\ \A r \in Release \ {rel} : ElementsAt(r)' = ElementsAt(r)
      /\ \A r \in Release \ {rel} : releaseMap'[r] = releaseMap[r]
    BY <1>1, CommitEffect
<1>4. ASSUME pc = "load" PROVE ElementsOf(releaseMap'[rel]) = file[rel]
    BY <1>1, <1>3, <1>4 DEF LoadUnderWay
<1>5. ASSUME pc = "update"
      PROVE  \E fetched \in Fetches :
                 /\ IsBaseFor(base[rel], rel)
                 /\ ElementsOf(releaseMap'[rel])
                       = fetched \cup ElementsOf(Carried(base[rel], fetched))
    <2>1. releaseMap[rel] = {}
        BY <1>1, <1>2, <1>5 DEF LoadUnderWay, InterruptedUpdateIsEmpty
    <2>2. releaseMap[rel] \cup newMaps = newMaps
        BY <2>1
    <2>3. PICK fetched \in Fetches :
             ElementsOf(newMaps)
                = (fetched \ todo) \cup ElementsOf(Carried(base[rel], fetched))
        BY <1>5 DEF LoadUnderWay
    <2>4. IsBaseFor(base[rel], rel)
        BY <1>5 DEF LoadUnderWay
    <2>5. fetched \ todo = fetched
        BY <1>1
    <2> QED
        BY <1>3, <2>2, <2>3, <2>4, <2>5
<1> QED
    BY <1>1, <1>2, <1>3, <1>4, <1>5

\* The last commit sets the marker on a release point that is whole.
LEMMA FinishStep ==
    ASSUME TablesInv, Finish
    PROVE  TablesInv'
<1> USE DEF TablesInv
<1>1. TypeOK'
    BY TypeStep DEF Next
<1>2. /\ UNCHANGED <<file, row, base>>
      /\ complete' = complete \cup {rel} /\ pc' = "idle"
    BY DEF Finish, EndSession
<1>3. /\ rel \in Release \ complete /\ row[rel] # "absent"
      /\ row[rel] = "file" => ElementsOf(releaseMap'[rel]) = file[rel]
      /\ \A r \in Release \ {rel} : /\ ElementsAt(r)' = ElementsAt(r)
                                   /\ releaseMap'[r] = releaseMap[r]
    BY FinishPublishes
<1>4. AbsentIsEmpty'
    BY <1>2, <1>3 DEF AbsentIsEmpty
<1>5. ASSUME NEW r \in Release PROVE r = rel => ElementsAt(r)' = ElementsOf(releaseMap'[rel])
    BY DEF ElementsAt, ElementsOf, ElementOf
<1>6. FileLoadsAreWhole'
    BY <1>1, <1>2, <1>3, <1>5 DEF FileLoadsAreWhole, TypeOK
<1>7. NoForeignText'
    BY <1>2, <1>3, <1>5 DEF NoForeignText
<1>8. InterruptedUpdateIsEmpty'
    BY <1>2, <1>3 DEF InterruptedUpdateIsEmpty
<1>9. LoadUnderWay'
    BY <1>2 DEF LoadUnderWay
<1> QED
    BY <1>1, <1>4, <1>6, <1>7, <1>8, <1>9

\* A rollback loses only what was staged.
LEMMA QuietStep ==
    ASSUME TablesInv, Interrupt \/ UNCHANGED vars
    PROVE  TablesInv'
<1> USE DEF TablesInv
<1>1. TypeOK'
    BY TypeStep DEF Next
<1>2. UNCHANGED <<file, versions, releaseMap, row, base, complete>>
    BY DEF Interrupt, corpus, vars
<1>3. AbsentIsEmpty' /\ FileLoadsAreWhole' /\ NoForeignText' /\ InterruptedUpdateIsEmpty'
    BY <1>2 DEF AbsentIsEmpty, FileLoadsAreWhole, NoForeignText,
                InterruptedUpdateIsEmpty, ElementsAt, ElementsOf, ElementOf
<1>4. CASE Interrupt
    BY <1>1, <1>3, <1>4 DEF Interrupt, EndSession, LoadUnderWay
<1>5. CASE UNCHANGED vars
    BY <1>1, <1>3, <1>5 DEF vars, corpus, loader, LoadUnderWay, ElementsOf, ElementOf,
                            IsBaseFor, LoadedBelow, Carried
<1> QED
    BY <1>4, <1>5

\* The invariant is inductive.
LEMMA TablesStep == TablesInv /\ [Next]_vars => TablesInv'
<1> SUFFICES ASSUME TablesInv, [Next]_vars PROVE TablesInv'
    OBVIOUS
<1> QED
    BY BeginLoadStep, BeginUpdateStep, StoreStep, CommitBatchStep, FinishStep,
       QuietStep DEF Next

\* The tables' invariant, the safety properties the runs check among its parts.
THEOREM TablesCorrect == Spec => []TablesInv
BY TablesInit, TablesStep, PTL DEF Spec


\* A completed file load carries its file's sections, no more and no fewer.
THEOREM FileLoadsCorrect == Spec => []FileLoadsAreWhole
BY TablesCorrect, PTL DEF TablesInv

\* An unfinished file load has committed nothing that is not in its file.
THEOREM NoForeignTextCorrect == Spec => []NoForeignText
BY TablesCorrect, PTL DEF TablesInv

\* An interrupted update has no placements.
THEOREM InterruptedUpdateCorrect == Spec => []InterruptedUpdateIsEmpty
BY TablesCorrect, PTL DEF TablesInv

\* The open transaction always agrees with the tables it will be committed to.
THEOREM LoadUnderWayCorrect == Spec => []LoadUnderWay
BY TablesCorrect, PTL DEF TablesInv

-----------------------------------------------------------------------------
(***************************************************************************)
(* What the release map holds                                              *)
(***************************************************************************)

\* Only stored versions are mapped; only a load under way has rows staged.
MapsHold ==
    /\ \A r \in Release : releaseMap[r] \subseteq versions
    /\ newMaps \subseteq versions \cup newVersions
    /\ pc = "idle" => newMaps = {} /\ newVersions = {}

LEMMA MapsStep == TypeOK /\ MapsHold /\ [Next]_vars => MapsHold'
<1> SUFFICES ASSUME TypeOK, MapsHold, [Next]_vars PROVE MapsHold'
    OBVIOUS
<1> USE DEF TypeOK, MapsHold
<1>1. ASSUME NEW r \in Release, BeginLoad(r) PROVE MapsHold'
    BY <1>1 DEF BeginLoad, PlacementsUnderFile
<1>2. ASSUME NEW r \in Release, NEW b \in Release, NEW fetched \in Fetches,
             BeginUpdate(r, b, fetched)
      PROVE  MapsHold'
    BY <1>2 DEF BeginUpdate, PlacementsUnderUpdate, Carried
<1>3. ASSUME NEW e \in Element, StoreElement(e) PROVE MapsHold'
    BY <1>3 DEF StoreElement, Known, corpus
<1>4. CASE CommitBatch \/ Finish
    <2>1. rel \in Release /\ CommitRows /\ newMaps' = {} /\ newVersions' = {}
        BY <1>4 DEF CommitBatch, Finish, EndSession
    <2>2. \A r \in Release : releaseMap'[r] \subseteq releaseMap[r] \cup newMaps
        BY <2>1 DEF CommitRows
    <2>3. versions' = versions \cup newVersions
        BY <2>1 DEF CommitRows
    <2> QED
        BY <2>1, <2>2, <2>3
<1>5. CASE Interrupt \/ UNCHANGED vars
    BY <1>5 DEF Interrupt, EndSession, vars, corpus, loader
<1> QED
    BY <1>1, <1>2, <1>3, <1>4, <1>5 DEF Next

\* The release map points at stored versions only.
THEOREM MapsCorrect == Spec => []MapsHold
<1>1. Init => MapsHold
    BY DEF Init, MapsHold
<1> QED
    BY <1>1, TypeCorrect, MapsStep, PTL DEF Spec

\* A program that begins again where it has begun drops no placement that a
\* commit made.
LEMMA BeginKeepsMaps ==
    ASSUME TablesInv, row[rel'] \in {"absent", row'[rel']},
           \/ \E r \in Release : BeginLoad(r)
           \/ \E r, b \in Release, fetched \in Fetches : BeginUpdate(r, b, fetched)
    PROVE  releaseMap' = releaseMap
<1>1. ASSUME NEW r \in Release, BeginLoad(r) PROVE releaseMap' = releaseMap
    BY <1>1 DEF BeginLoad, PlacementsUnderFile, TablesInv, TypeOK
<1>2. ASSUME NEW r \in Release, NEW b \in Release, NEW fetched \in Fetches,
             BeginUpdate(r, b, fetched)
      PROVE  releaseMap' = releaseMap
    <2>1. row[r] \in {"absent", "sections"} /\ r \notin complete
        BY <1>2 DEF BeginUpdate, TablesInv, TypeOK
    <2>2. releaseMap[r] = {}
        BY <2>1 DEF TablesInv, AbsentIsEmpty, InterruptedUpdateIsEmpty
    <2> QED
        BY <1>2, <2>2 DEF BeginUpdate, PlacementsUnderUpdate, TablesInv, TypeOK
<1> QED
    BY <1>1, <1>2

\* Every stored version is mapped, and every one the open transaction creates it
\* maps too: so it stays while no placement is dropped.
AllMapped ==
    /\ newVersions \subseteq newMaps
    /\ \A v \in versions : \E r \in Release : v \in releaseMap[r]

LEMMA AllMappedStep ==
    ASSUME TypeOK, AllMapped, [Next]_vars,
           \A r \in Release : releaseMap[r] \subseteq releaseMap'[r]
    PROVE  AllMapped'
<1>1. CASE \/ \E r \in Release : BeginLoad(r)
           \/ \E r, b \in Release, fetched \in Fetches : BeginUpdate(r, b, fetched)
           \/ Interrupt \/ UNCHANGED vars
    <2>1. versions' = versions /\ (newVersions' = {} \/ UNCHANGED <<newVersions, newMaps>>)
        BY <1>1 DEF BeginLoad, BeginUpdate, Interrupt, EndSession, vars, corpus, loader
    <2> QED
        BY <2>1 DEF AllMapped
<1>2. ASSUME NEW e \in Element, StoreElement(e) PROVE AllMapped'
    BY <1>2 DEF AllMapped, StoreElement, corpus
<1>3. CASE CommitBatch \/ Finish
    <2>1. rel \in Release /\ CommitRows /\ newVersions' = {}
        BY <1>3 DEF CommitBatch, Finish, EndSession, TypeOK
    <2>2. newMaps \subseteq releaseMap'[rel]
        BY <2>1 DEF CommitRows, TypeOK
    <2> QED
        BY <2>1, <2>2 DEF AllMapped, CommitRows
<1> QED
    BY <1>1, <1>2, <1>3 DEF Next

-----------------------------------------------------------------------------
(***************************************************************************)
(* Publication                                                             *)
(***************************************************************************)

\* How each step moves what readers of completed loads see.
LEMMA StepPublishes ==
    ASSUME TablesInv, [Next]_vars
    PROVE  \/ /\ complete' = complete
              /\ \A r \in complete : ElementsAt(r)' = ElementsAt(r)
           \/ \E r \in complete :
              /\ complete' = complete \ {r}
              /\ \A q \in complete \ {r} : ElementsAt(q)' = ElementsAt(q)
           \/ Finish
<1> USE DEF TablesInv
<1>1. ASSUME NEW r \in Release, BeginLoad(r)
      PROVE  /\ complete' = complete \ {r}
             /\ \A q \in complete \ {r} : ElementsAt(q)' = ElementsAt(q)
    <2>1. \A q \in complete \ {r} : releaseMap'[q] = releaseMap[q]
        BY <1>1 DEF BeginLoad, PlacementsUnderFile, TypeOK
    <2> QED
        BY <1>1, <2>1 DEF BeginLoad, CompleteWhileRedone, ElementsAt, ElementsOf, ElementOf
<1>2. ASSUME NEW r \in Release, NEW b \in Release, NEW fetched \in Fetches,
             BeginUpdate(r, b, fetched)
      PROVE  /\ complete' = complete
             /\ \A q \in complete : ElementsAt(q)' = ElementsAt(q)
    <2>1. \A q \in complete : releaseMap'[q] = releaseMap[q]
        BY <1>2 DEF BeginUpdate, PlacementsUnderUpdate, TypeOK
    <2> QED
        BY <1>2, <2>1 DEF BeginUpdate, ElementsAt, ElementsOf, ElementOf
<1>3. ASSUME CommitBatch
      PROVE  /\ complete' = complete
             /\ \A q \in complete : ElementsAt(q)' = ElementsAt(q)
    <2>1. \A q \in Release \ {rel} : ElementsAt(q)' = ElementsAt(q)
        BY <1>3, CommitEffect DEF CommitBatch
    <2> QED
        BY <1>3, <2>1 DEF CommitBatch, CompleteAfterBatch, LoadUnderWay, TypeOK
<1>4. ASSUME \/ \E e \in Element : StoreElement(e)
             \/ Interrupt
             \/ UNCHANGED vars
      PROVE  /\ complete' = complete
             /\ \A q \in complete : ElementsAt(q)' = ElementsAt(q)
    <2>1. complete' = complete /\ releaseMap' = releaseMap
        BY <1>4 DEF StoreElement, Interrupt, vars, corpus
    <2> QED
        BY <2>1 DEF ElementsAt, ElementsOf, ElementOf
<1>5. CASE \E r \in Release : BeginLoad(r)
    <2> PICK r \in Release : BeginLoad(r)
        BY <1>5
    <2>1. CASE r \in complete
        BY <1>1, <2>1
    <2>2. CASE r \notin complete
        <3>1. complete \ {r} = complete
            BY <2>2
        <3> QED
            BY <1>1, <3>1
    <2> QED
        BY <2>1, <2>2
<1> QED
    BY <1>2, <1>3, <1>4, <1>5 DEF Next

\* As long as a release point stays complete, its sections do not change.
THEOREM CompletedStable == Spec => CompletedIsStable
<1>1. TablesInv /\ [Next]_vars =>
         [\A r \in complete \cap complete' : ElementsAt(r)' = ElementsAt(r)]_vars
    <2> SUFFICES ASSUME TablesInv, [Next]_vars
                 PROVE  \A r \in complete \cap complete' : ElementsAt(r)' = ElementsAt(r)
        OBVIOUS
    <2>1. CASE Finish
        <3>1. \A r \in Release \ {rel} : ElementsAt(r)' = ElementsAt(r)
            BY <2>1, FinishPublishes
        <3>2. rel \notin complete
            BY <2>1, FinishPublishes
        <3> QED
            BY <3>1, <3>2 DEF TablesInv, TypeOK
    <2> QED
        BY <2>1, StepPublishes
<1> QED
    BY <1>1, TablesCorrect, PTL DEF Spec, CompletedIsStable


\* The abstract content, as the refinement mapping gives it.
Visible == [r \in Release |-> IF r \in complete THEN ElementsAt(r) ELSE {}]

\* Steps that leave completed release points alone are stutters of the publication.
LEMMA VisibleUnchanged ==
    ASSUME TablesInv, complete' = complete,
           \A r \in complete : ElementsAt(r)' = ElementsAt(r)
    PROVE  Visible' = Visible
BY DEF Visible, ElementsAt, ElementsOf, ElementOf

\* The empty corpus shows nothing.
LEMMA InitPublishes == Init => Publication!Init
BY DEF Init, Publication!Init

\* What an update commits is its base's content with the fetched sections in place.
LEMMA UpdateContent ==
    ASSUME TablesInv, NEW b \in complete, NEW fetched
    PROVE  ElementsOf(Carried(b, fetched))
              = {e \in Visible[b] : \A f \in fetched : f.sec # e.sec}
<1>1. Visible[b] = ElementsOf(releaseMap[b])
    BY DEF Visible, ElementsAt, TablesInv, TypeOK
<1>2. \A v \in releaseMap[b] : ElementOf(v).sec = v.sec
    BY DEF ElementOf
<1> QED
    BY <1>1, <1>2 DEF Carried, Sections, ElementsOf

\* The last commit publishes a file or an assembled title.
LEMMA FinishImplements ==
    ASSUME TablesInv, Finish
    PROVE  Publication!Next
<1>1. /\ complete' = complete \cup {rel} /\ file' = file
      /\ rel \in Release \ complete /\ pc \in {"load", "update"}
    BY FinishPublishes DEF Finish, TablesInv, TypeOK
<1>2. \A r \in Release \ {rel} : ElementsAt(r)' = ElementsAt(r)
    BY FinishPublishes
<1>4. PICK r \in Release : r = rel
    BY <1>1
<1>5. ASSUME NEW elements, ElementsOf(releaseMap'[rel]) = elements
      PROVE  Publication!Publish(r, elements)
    <2>1. \A q \in Release : q = r => ElementsAt(q)' = elements
        BY <1>4, <1>5 DEF ElementsAt, ElementsOf, ElementOf
    <2>2. Visible' = [Visible EXCEPT ![r] = elements]
        BY <1>1, <1>2, <1>4, <2>1 DEF Visible
    <2> QED
        BY <1>1, <1>4, <2>2 DEF Publication!Publish, Visible
<1>6. CASE pc = "load"
    <2>1. PICK elements : elements = file[r]
        OBVIOUS
    <2>2. Publication!Publish(r, elements)
        BY <1>4, <1>5, <1>6, <2>1, FinishPublishes
    <2>3. Publication!PublishFile(r)
        BY <2>1, <2>2 DEF Publication!PublishFile, Publication!Publish
    <2> QED
        BY <2>3 DEF Publication!Next
<1>7. CASE pc = "update"
    <2>1. PICK fetched \in Fetches :
             /\ IsBaseFor(base[rel], rel)
             /\ ElementsOf(releaseMap'[rel])
                   = fetched \cup ElementsOf(Carried(base[rel], fetched))
        BY <1>7, FinishPublishes
    <2>2. PICK b \in Release : b = base[rel]
        BY <2>1 DEF IsBaseFor, LoadedBelow, TablesInv, TypeOK
    <2>3. b \in complete /\ b < r /\ (\A c \in complete : c < r => c <= b)
        BY <1>4, <2>1, <2>2 DEF IsBaseFor, LoadedBelow
    <2>4. PICK elements : elements = fetched \cup
                 {e \in Visible[b] : \A f \in fetched : f.sec # e.sec}
        OBVIOUS
    <2>5. Publication!Publish(r, elements)
        BY <1>5, <2>1, <2>2, <2>3, <2>4, UpdateContent
    <2>6. Publication!PublishAssembled(r, b, fetched)
        BY <2>3, <2>4, <2>5
           DEF Publication!PublishAssembled, Publication!Publish, Visible
    <2> QED
        BY <2>6 DEF Publication!Next
<1> QED
    BY <1>1, <1>6, <1>7

\* Every step of the loaders is a step of the publication or a stutter.
LEMMA StepImplements ==
    ASSUME TablesInv, [Next]_vars
    PROVE  [Publication!Next]_(Publication!vars)
<1>1. file' = file
    BY DEF Next, BeginLoad, BeginUpdate, StoreElement, CommitBatch, Finish, Interrupt, vars
<1>2. CASE /\ complete' = complete
           /\ \A r \in complete : ElementsAt(r)' = ElementsAt(r)
    BY <1>1, <1>2, VisibleUnchanged DEF Publication!vars, Visible
<1>3. ASSUME NEW r \in complete,
             complete' = complete \ {r},
             \A q \in complete \ {r} : ElementsAt(q)' = ElementsAt(q)
      PROVE  Publication!Next
    <2>1. r \in Release
        BY DEF TablesInv, TypeOK
    <2>2. Visible' = [Visible EXCEPT ![r] = {}]
        BY <1>3 DEF Visible
    <2>3. Publication!Withdraw(r)
        BY <1>1, <1>3, <2>2 DEF Publication!Withdraw, Visible
    <2> QED
        BY <2>1, <2>3 DEF Publication!Next
<1> QED
    BY <1>2, <1>3, StepPublishes, FinishImplements

\* The tables, read through the completion marker, implement the abstract
\* publication: whole release points appear and disappear in single steps.
THEOREM ImplementsPublication == Spec => PublishesWhole
<1>1. TablesInv /\ [Next]_vars => [Publication!Next]_(Publication!vars)
    BY StepImplements
<1> QED
    BY <1>1, InitPublishes, TablesCorrect, PTL DEF Spec, PublishesWhole, Publication!Spec

=============================================================================
