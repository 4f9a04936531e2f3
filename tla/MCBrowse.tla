------------------------------- MODULE MCBrowse -------------------------------
(* Constants for model checking Browse: two listings' worth of documents,  *)
(* books that differ in one respect each.                                  *)
EXTENDS Browse

Book(details, condition, seller) ==
    [title |-> "calculus", author |-> "stewart", course |-> "math131",
     details |-> details, condition |-> condition, seller |-> seller,
     picture |-> "none.jpg"]

\* `worn' is `fresh' in another condition, `cheap' is `fresh' with the price
\* edited, `other' is another seller's copy.
fresh == Book("$50", "new", "ann")
worn  == Book("$50", "used", "ann")
cheap == Book("$20", "new", "ann")
other == Book("$50", "new", "bob")

MCBooks       == {fresh, cheap, other}
MCBooksTarget == {fresh, worn}
MCDocIDs      == 1 .. 2
\* A text that is in all of them, and one that is in none.
MCQueries     == {{"calculus"}, {}}
===============================================================================
