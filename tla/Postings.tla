------------------------------- MODULE Postings -------------------------------
(***************************************************************************)
(* The collection /Postings/ as one screen sees it: others write to it,    *)
(* and the Firestore client of the device keeps a persistent copy of what  *)
(* it last read, from which it answers while it is offline. A write counts *)
(* from the moment it is issued. What others may do to a listing is what   *)
(* ListingLifecycle says; Market's Seen states the correspondence.         *)
(***************************************************************************)
EXTENDS Listing

CONSTANT Returning      \* bound: the listings that may be posted again

ASSUME ReturningAssumption == Returning \subseteq DocIDs

VARIABLES
    postings,       \* the documents of /Postings/, as written
    mayReturn,      \* what each withdrawn listing may yet be posted again as
    cache           \* the client's persistent copy of the documents

written == <<postings, mayReturn>>

PostingsTypeOK ==
    /\ postings \in [DocIDs -> Documents]
    /\ mayReturn \in [DocIDs -> Books \cup {NoBook}]
    /\ \A d \in DocIDs : mayReturn[d] # NoBook => postings[d] = Deleted
    /\ cache \in [DocIDs -> Documents]

WrittenInit ==
    /\ postings \in [DocIDs -> Books \cup {Unborn}]
    /\ mayReturn = [d \in DocIDs |-> NoBook]

PostingsInit ==
    /\ WrittenInit
    /\ cache = [d \in DocIDs |-> Unborn]

(* updateData leaves BookTitle and Seller alone.                           *)
SameListing(b, c) == b.title = c.title /\ b.seller = c.seller

(* Firestore gives a new document an ID that was never used. Documents     *)
(* that are not made by the app need not decode.                           *)
Create(d, b) ==
    /\ postings[d] = Unborn
    /\ postings' = [postings EXCEPT ![d] = b]
    /\ UNCHANGED mayReturn

(* An edit, or an older write that a client sends again.                   *)
Edit(d, b) ==
    /\ postings[d] \in Books
    /\ b # postings[d]
    /\ SameListing(b, postings[d])
    /\ postings' = [postings EXCEPT ![d] = b]
    /\ UNCHANGED mayReturn

(* What the client that posted listing d posted, edited or not since.      *)
AsPosted(d) == {b \in Books :
    d \in Returning /\ postings[d] \in Books /\ SameListing(b, postings[d])}

(* The client that posted the listing may not know yet that it did.        *)
Delete(d) ==
    /\ postings[d] \in Books \cup {Malformed}
    /\ postings' = [postings EXCEPT ![d] = Deleted]
    /\ \E b \in {NoBook} \cup AsPosted(d) :
          mayReturn' = [mayReturn EXCEPT ![d] = b]

(* It sends its addDocument again and the listing is back ...              *)
Return(d) ==
    /\ mayReturn[d] # NoBook
    /\ postings' = [postings EXCEPT ![d] = mayReturn[d]]
    /\ mayReturn' = [mayReturn EXCEPT ![d] = NoBook]

(* ... or it reads the answer to it.                                       *)
StayAway(d) ==
    /\ mayReturn[d] # NoBook
    /\ mayReturn' = [mayReturn EXCEPT ![d] = NoBook]
    /\ UNCHANGED postings

OthersNext ==
    \E d \in DocIDs :
        \/ \E b \in Books \cup {Malformed} : Create(d, b)
        \/ \E b \in Books : Edit(d, b)
        \/ Delete(d) \/ Return(d) \/ StayAway(d)

WritePosting == OthersNext /\ UNCHANGED cache

WrittenSpec == WrittenInit /\ [][OthersNext]_written
-------------------------------------------------------------------------------
(* A copy b of document d, however stale, is one of what d is or was: d has*)
(* the title and the seller of b, or was deleted and will not come back    *)
(* with others.                                                            *)
Descends(b, d) ==
    /\ postings[d] \in Books \cup {Deleted}
    /\ postings[d] \in Books => SameListing(postings[d], b)
    /\ mayReturn[d] # NoBook => SameListing(mayReturn[d], b)
===============================================================================
