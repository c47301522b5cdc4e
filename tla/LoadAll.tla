------------------------------ MODULE LoadAll -------------------------------
(***************************************************************************)
(* The bulk loader `load-all` (ingest/load_all.py) over one title, started *)
(* again and again by the updater, with `sections-update` between runs.    *)
(* A run reads once which loads are complete, then walks the downloaded    *)
(* release points in `seq` order. A title that raises is recorded and      *)
(* passed over; a run that is killed leaves nothing but the database.      *)
(***************************************************************************)
EXTENDS CorpusLoad

CONSTANTS
    MaxFailures,  \* bound: loads that raise
    MaxKills      \* bound: deaths of the process

ASSUME BoundsAssumption == MaxFailures \in Nat /\ MaxKills \in Nat

VARIABLES
    available,    \* release points whose zip is on disk with an `ok` entry
    running,      \* a run is under way
    queue,        \* the run's tasks that are left
    failures, kills,
    passedOver,   \* observer: release points a later one was loaded before
    assembled     \* observer: `sections-update` has begun a title

driver == <<available, running, queue, failures, kills, passedOver, assembled>>
loadAllVars == <<vars, driver>>

InitLoadAll ==
    /\ Init
    /\ available = {} /\ running = FALSE /\ queue = {}
    /\ failures = 0 /\ kills = 0
    /\ passedOver = {} /\ assembled = FALSE

\* `run_backfill` asks for the release points oldest first, but records one
\* that failed or is not posted yet and goes on to the next; a later run of it
\* asks again. So they reach the disk in any order, also during a bulk load.
Download(r) ==
    /\ r \notin available
    /\ available' = available \cup {r}
    /\ UNCHANGED <<vars, running, queue, failures, kills, passedOver, assembled>>

\* Mutant: a load that `sections-update` assembled counts.
EveryCompleteRow == complete

\* The loads a run skips: complete, and of the title's file.
CompletedPairs == {r \in complete : row[r] = "file"}

StartRun ==
    /\ ~running /\ pc = "idle"
    /\ running' = TRUE
    /\ queue' = available \ CompletedPairs
    /\ UNCHANGED <<vars, available, failures, kills, passedOver, assembled>>

\* Mutant: newest release point first.
NewestFirst(r) == \A q \in queue : q <= r

\* `plan_loads` sorts by `seq`.
NextInOrder(r) == \A q \in queue : r <= q

\* Earlier release points that are neither loaded nor left to this run: they
\* were not on disk when it began, or their load raised.
Missed(r) == {q \in Release : q < r} \ (complete \cup queue)

StartTask(r) ==
    /\ running /\ r \in queue /\ NextInOrder(r)
    /\ BeginLoad(r)
    /\ queue' = queue \ {r}
    /\ passedOver' = passedOver \cup Missed(r)
    /\ UNCHANGED <<available, running, failures, kills, assembled>>

\* One step of the load, or of the update, that is under way.
LoaderStep ==
    /\ \/ \E e \in Element : StoreElement(e)
       \/ CommitBatch
       \/ Finish
    /\ UNCHANGED driver

\* One bad title must not end the run.
TaskFails ==
    /\ failures < MaxFailures
    /\ failures' = failures + 1
    /\ Interrupt
    /\ UNCHANGED <<available, running, queue, kills, passedOver, assembled>>

EndRun ==
    /\ running /\ pc = "idle" /\ queue = {}
    /\ running' = FALSE
    /\ UNCHANGED <<vars, available, queue, failures, kills, passedOver, assembled>>

Kill ==
    /\ kills < MaxKills
    /\ kills' = kills + 1
    /\ running' = FALSE /\ queue' = {}
    /\ IF pc = "idle" THEN UNCHANGED vars ELSE Interrupt
    /\ UNCHANGED <<available, failures, passedOver, assembled>>

SectionsUpdate(r, b, fetched) ==
    /\ ~running
    /\ BeginUpdate(r, b, fetched)
    /\ assembled' = TRUE
    /\ UNCHANGED <<available, running, queue, failures, kills, passedOver>>

NextLoadAll ==
    \/ \E r \in Release : Download(r) \/ StartTask(r)
    \/ StartRun
    \/ LoaderStep
    \/ TaskFails
    \/ EndRun
    \/ Kill
    \/ \E r, b \in Release, fetched \in Fetches : SectionsUpdate(r, b, fetched)

\* The updater starts runs for ever, and a process that is not killed runs on.
Fairness ==
    /\ WF_loadAllVars(StartRun)
    /\ WF_loadAllVars(EndRun)
    /\ WF_loadAllVars(\E r \in Release : StartTask(r))
    /\ WF_loadAllVars(\E e \in Element : StoreElement(e) /\ UNCHANGED driver)
    /\ WF_loadAllVars(Finish /\ UNCHANGED driver)

SpecLoadAll == InitLoadAll /\ [][NextLoadAll]_loadAllVars /\ Fairness

-----------------------------------------------------------------------------

\* Resumable: whatever is interrupted or fails, and although a run decides from
\* one read of the markers what to skip, every downloaded release point ends up
\* loaded from its file, also when `sections-update` had it first, and is not
\* taken back.
EventuallyLoaded ==
    \A r \in Release :
        r \in available ~> [](r \in complete /\ row[r] = "file")

\* `first_release_id` is on the earliest release that carries the text
\* (load_all.py:4-8): no release maps a version that a later one created. No
\* title of this corpus was assembled.
FirstIsEarliest ==
    ~assembled => \A r \in Release : \A v \in releaseMap[r] : v.first <= r

\* It is, whatever is killed and started again, downloaded late or raises, for
\* every release point but those a later one was loaded before: such a one was
\* not on disk when that run began, or its own load had raised.
FirstIsEarliestUnlessPassedOver ==
    ~assembled =>
        \A r \in Release \ passedOver : \A v \in releaseMap[r] : v.first <= r

=============================================================================
