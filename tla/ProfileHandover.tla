---------------------------- MODULE ProfileHandover ---------------------------
(***************************************************************************)
(* The profile tab keeps the contract of Handover.                         *)
(***************************************************************************)
EXTENDS Profile, Handover

RememberingSpec ==
    /\ Init /\ VersionsInit
    /\ [][Next /\ Remember]_<<vars, versions>>
-------------------------------------------------------------------------------
(* What it holds of a listing anywhere is something it once was.           *)
CopiesWereWritten ==
    /\ HeldWasWritten
    /\ \A i \in DOMAIN answers, d \in DocIDs :
          answers[i].docs[d] \in Books => answers[i].docs[d] \in versions[d]
    /\ \A r \in DOMAIN myPosts : \E d \in DocIDs : myPosts[r] \in versions[d]
===============================================================================
