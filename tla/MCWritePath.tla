------------------------------ MODULE MCWritePath -----------------------------
(* The Firestore client's writes, for TLC.                                 *)
EXTENDS WritePath

CONSTANTS ann, bob, none
===============================================================================
