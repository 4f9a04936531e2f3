------------------------------- MODULE MCMarket -------------------------------
(* Constants for model checking Market: a listing can be in two states of  *)
(* editing and belong to two sellers.                                      *)
EXTENDS Market

Content(price) ==
    [author |-> "stewart", course |-> "math131", details |-> price,
     condition |-> "new"]

Book(price, seller) ==
    [title |-> "calculus", author |-> "stewart", course |-> "math131",
     details |-> price, condition |-> "new", seller |-> seller,
     picture |-> "none.jpg"]

MCPrices   == {"$50", "$20"}
MCContents == {Content(p) : p \in MCPrices}
MCBooks    == {Book(p, s) : p \in MCPrices, s \in {"ann", "bob"}}
MCContent  == {Content("$50")}
MCBookAnn  == {Book("$50", "ann")}

\* One seller on two devices; two sellers.
MCDevices == {"phone", "tablet"}
Ann       == [v \in MCDevices |-> "ann"]
AnnAndBob == [v \in MCDevices |-> IF v = "phone" THEN "ann" ELSE "bob"]
===============================================================================
