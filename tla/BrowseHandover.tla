---------------------------- MODULE BrowseHandover ----------------------------
(***************************************************************************)
(* The search tab keeps the contract of Handover.                          *)
(***************************************************************************)
EXTENDS Browse, Handover

RememberingSpec ==
    /\ Init /\ VersionsInit
    /\ [][Next /\ Remember]_<<vars, versions>>
-------------------------------------------------------------------------------
(* What it holds of a listing anywhere is something it once was.           *)
CopiesWereWritten ==
    /\ HeldWasWritten
    /\ \A i \in DOMAIN answers, d \in DocIDs :
          answers[i].docs[d] \in Books => answers[i].docs[d] \in versions[d]
    /\ \A i \in DOMAIN everyBook : \E d \in DocIDs : everyBook[i] \in versions[d]
===============================================================================
