--------------------------- MODULE ListingLifecycle ---------------------------
(***************************************************************************)
(* What the users of BookUp may rely on about one listing, whatever        *)
(* devices, caches and queues lie between them: it is published, revised   *)
(* any number of times without changing hands, title or picture, and       *)
(* withdrawn. Until the device that published it knows that it is, the     *)
(* publication may be repeated, which undoes the revisions, or the         *)
(* withdrawal, that came between; from then on withdrawn is for good.      *)
(***************************************************************************)
EXTENDS Listing

VARIABLES
    listing,
    unconfirmed \* the publication that may be repeated, or NoBook

listingVars == <<listing, unconfirmed>>

Init ==
    /\ listing \in [DocIDs -> Books \cup {Unborn}]
    /\ unconfirmed = [d \in DocIDs |-> NoBook]

Publish(d, b) ==
    /\ listing[d] = Unborn
    /\ listing' = [listing EXCEPT ![d] = b]
    /\ unconfirmed' = [unconfirmed EXCEPT ![d] = b]

Repeat(d) ==
    /\ unconfirmed[d] # NoBook
    /\ listing' = [listing EXCEPT ![d] = unconfirmed[d]]
    /\ UNCHANGED unconfirmed

Confirm(d) ==
    /\ unconfirmed[d] # NoBook
    /\ unconfirmed' = [unconfirmed EXCEPT ![d] = NoBook]
    /\ UNCHANGED listing

Revise(d, b) ==
    /\ listing[d] \in Books
    /\ b.title = listing[d].title
    /\ b.seller = listing[d].seller
    /\ b.picture = listing[d].picture
    /\ listing' = [listing EXCEPT ![d] = b]
    /\ UNCHANGED unconfirmed

Withdraw(d) ==
    /\ listing[d] \in Books
    /\ listing' = [listing EXCEPT ![d] = Deleted]
    /\ UNCHANGED unconfirmed

Next ==
    \E d \in DocIDs :
        \/ \E b \in Books : Publish(d, b) \/ Revise(d, b)
        \/ Repeat(d) \/ Confirm(d) \/ Withdraw(d)

Spec == Init /\ [][Next]_listingVars
===============================================================================
