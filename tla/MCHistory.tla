------------------------------- MODULE MCHistory -------------------------------
(* Constants for model checking History.                                   *)
EXTENDS History

Book(title, picture) ==
    [title |-> title, author |-> "stewart", course |-> "math131",
     details |-> "$50", condition |-> "new", seller |-> "ann",
     picture |-> picture]

MCBooks == {Book("calculus", "none.jpg"), Book("hamlet", "hamlet.jpg")}
===============================================================================
