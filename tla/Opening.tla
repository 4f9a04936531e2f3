------------------------------- MODULE Opening --------------------------------
(***************************************************************************)
(* What the search tab and the profile tab have in common: a dictionary of *)
(* the listings that were loaded, and the BrowseDetails screen that a tap  *)
(* opens with an ID looked up in it.                                       *)
(***************************************************************************)
EXTENDS Postings

CONSTANT NoDetail   \* no BrowseDetails screen is open

ASSUME OpeningAssumption ==
    NoDetail \notin [book : Books, image : Pictures, refString : DocIDs \cup {NoRef}]

VARIABLES
    idToBook,       \* the book last loaded under each ID
    detail          \* the BrowseDetails screen on top, if any

Refs    == DocIDs \cup {NoRef}
Details == [book : Books, image : Pictures, refString : Refs]

OpeningTypeOK ==
    /\ idToBook \in [DocIDs -> Books \cup {NoBook}]
    /\ detail \in Details \cup {NoDetail}

NoEntries == [d \in DocIDs |-> NoBook]

(* prepare(for:sender:) looks the row's ID up by ==; among several matches *)
(* the last in the dictionary's order, which is arbitrary, wins.           *)
RefsOf(b) ==
    LET matches == {d \in DocIDs : idToBook[d] # NoBook /\ BookEq(idToBook[d], b)}
    IN  IF matches = {} THEN {NoRef} ELSE matches
===============================================================================
