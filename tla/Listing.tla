------------------------------- MODULE Listing -------------------------------
(***************************************************************************)
(* The data every screen of BookUp works on: the listings kept in the      *)
(* remote collection /Postings/ and the operators of Book.swift on them.   *)
(*                                                                         *)
(* A listing is a record with the fields of `struct Book'; Comments,       *)
(* Price, ISBN and Version, which the program only ever copies and         *)
(* compares together, are one field, `details'.                            *)
(***************************************************************************)
EXTENDS Naturals, FiniteSets, Sequences

CONSTANTS
    Books,      \* the listings users may write
    DocIDs,     \* document IDs of /Postings/; a query answers in their order
    Unborn,     \* the state of a document not yet written,
    Deleted,    \* of one that was deleted,
    Malformed,  \* and of one that does not decode as a Book
    NoBook,     \* "idToBook has no entry under this ID"
    NoRef       \* the empty document ID ""

BookFields ==
    {"title", "author", "course", "details", "condition", "seller", "picture"}

ASSUME BooksAssumption ==
    \A b \in Books : DOMAIN b = BookFields

ASSUME DocIDsAssumption ==
    DocIDs \subseteq Nat /\ IsFiniteSet(DocIDs)

ASSUME SpecialValuesAssumption ==
    /\ Books \cap {Unborn, Deleted, Malformed, NoBook} = {}
    /\ Unborn # Deleted /\ Unborn # Malformed /\ Deleted # Malformed
    /\ NoRef \notin DocIDs

Pictures == {b.picture : b \in Books}
Sellers  == {b.seller  : b \in Books}

(* What a document of /Postings/ may hold.                                 *)
Documents == Books \cup {Unborn, Deleted, Malformed}

(* Mutant: == forgets one guard more.                                      *)
BookEqNoSeller(lhs, rhs) ==
    /\ lhs.title   = rhs.title
    /\ lhs.author  = rhs.author
    /\ lhs.course  = rhs.course
    /\ lhs.details = rhs.details
    /\ lhs.picture = rhs.picture

(* Book.==, one conjunct per guard. It does not look at Condition.         *)
BookEq(lhs, rhs) ==
    /\ lhs.title   = rhs.title
    /\ lhs.author  = rhs.author
    /\ lhs.course  = rhs.course
    /\ lhs.details = rhs.details
    /\ lhs.seller  = rhs.seller
    /\ lhs.picture = rhs.picture

(* The documents of a snapshot that a load decodes: the catch of each      *)
(* grab function skips a malformed one.                                    *)
Decodable(docs) == {d \in DocIDs : docs[d] \in Books}

(* The enumerations of S in document order: one, since S is finite.        *)
InOrder(S) ==
    {f \in [1 .. Cardinality(S) -> S] :
        \A i, j \in DOMAIN f : i < j => f[i] < f[j]}

(* The listings and the pictures a load reads off a snapshot.              *)
BooksOf(docs, ids) == [i \in DOMAIN ids |-> docs[ids[i]]]
PicturesOf(books)  == [i \in DOMAIN books |-> books[i].picture]
=============================================================================
