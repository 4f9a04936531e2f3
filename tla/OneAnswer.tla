------------------------------- MODULE OneAnswer ------------------------------
(***************************************************************************)
(* What every screen of the app relies on when it asks for documents: the  *)
(* closure it passed is called after that, and never twice.                *)
(***************************************************************************)
EXTENDS Sequences

CONSTANTS Gets, Outcomes

VARIABLES asked, answers

answerVars == <<asked, answers>>

Init == asked = {} /\ answers = [g \in Gets |-> <<>>]

Ask(g) ==
    /\ g \notin asked
    /\ asked' = asked \cup {g}
    /\ UNCHANGED answers

Answer(g, outcome) ==
    /\ g \in asked
    /\ answers[g] = <<>>
    /\ answers' = [answers EXCEPT ![g] = <<outcome>>]
    /\ UNCHANGED asked

Next == \E g \in Gets : Ask(g) \/ \E o \in Outcomes : Answer(g, o)

Spec == Init /\ [][Next]_answerVars
===============================================================================
