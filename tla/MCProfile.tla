------------------------------- MODULE MCProfile -------------------------------
(* Constants for model checking Profile: two listings of the user that      *)
(* differ in their pictures, and one of another user.                      *)
EXTENDS Profile

Book(seller, picture) ==
    [title |-> "calculus", author |-> "stewart", course |-> "math131",
     details |-> "$50", condition |-> "new", seller |-> seller,
     picture |-> picture]

MCBooks == {Book("ann", "none.jpg"), Book("ann", "cover.jpg"), Book("bob", "none.jpg")}
===============================================================================
