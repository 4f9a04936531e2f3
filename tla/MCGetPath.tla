------------------------------- MODULE MCGetPath ------------------------------
(* The Firestore client's answers to getDocuments, for TLC: two calls, for *)
(* the same query or for different ones.                                   *)
EXTENDS GetPath

CONSTANTS feed1, feed2, mine1, feed, mine

MCQueryOf == [g \in Gets |-> IF g = mine1 THEN mine ELSE feed]
===============================================================================
