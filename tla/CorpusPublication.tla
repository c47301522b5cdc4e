------------------------- MODULE CorpusPublication --------------------------
(***************************************************************************)
(* What a title of the corpus promises its readers. At any moment some     *)
(* release points are visible, and each visible one has a content that was *)
(* put there in one step: the whole of the file published for it, or its   *)
(* base's content with the fetched sections in place of the base's. A      *)
(* release point is withdrawn before it is written again.                  *)
(***************************************************************************)
EXTENDS Integers

CONSTANTS Section, Text, Release, Files, Fetches

Element == [sec : Section, text : Text]

VARIABLES
    file,      \* what the source publishes for each release point
    visible,   \* the release points readers are served from
    content    \* their elements; empty for the others

vars == <<file, visible, content>>

Init ==
    /\ file \in Files
    /\ visible = {}
    /\ content = [r \in Release |-> {}]

Publish(r, elements) ==
    /\ r \in Release \ visible
    /\ visible' = visible \cup {r}
    /\ content' = [content EXCEPT ![r] = elements]
    /\ UNCHANGED file

PublishFile(r) == Publish(r, file[r])

\* The base is the newest visible release point below `r`.
PublishAssembled(r, b, fetched) ==
    /\ b \in visible /\ b < r
    /\ \A c \in visible : c < r => c <= b
    /\ Publish(r, fetched \cup
            {e \in content[b] : \A f \in fetched : f.sec # e.sec})

Withdraw(r) ==
    /\ r \in visible
    /\ visible' = visible \ {r}
    /\ content' = [content EXCEPT ![r] = {}]
    /\ UNCHANGED file

Next ==
    \E r \in Release :
        \/ PublishFile(r)
        \/ \E b \in Release, fetched \in Fetches : PublishAssembled(r, b, fetched)
        \/ Withdraw(r)

Spec == Init /\ [][Next]_vars

=============================================================================
