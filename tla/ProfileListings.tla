--------------------------- MODULE ProfileListings ---------------------------
(***************************************************************************)
(* The collection of one's own listings on the profile tab                 *)
(* (Profile.swift): loaded each time the tab appears, opened with a tap.   *)
(***************************************************************************)
EXTENDS Opening

CONSTANTS
    username,   \* the user who was signed in when the tab was made
    MaxLoads,   \* bound: loads under way at once
    MaxPictures \* bound: visits end once imageCache, never emptied, is longer

ASSUME ProfileAssumption == MaxLoads \in Nat /\ MaxPictures \in Nat

VARIABLES
    asked,      \* gets of /Postings/ issued and not answered
    answers,    \* their answers queued for the main thread
    myPosts, imageCache,
    shown,      \* the cells the collection view last asked for
    saysNone,   \* the label says "You have no listings yet..."
    overlapped  \* history: the last appearance met a load under way

listingVars == <<written, cache, asked, answers, myPosts, imageCache, idToBook,
                 shown, saysNone, detail, overlapped>>

Answers  == [ok : BOOLEAN, docs : [DocIDs -> Documents]]
UnderWay == asked + Len(answers)

ListingsTypeOK ==
    /\ PostingsTypeOK /\ OpeningTypeOK
    /\ asked \in Nat /\ answers \in Seq(Answers)
    /\ myPosts \in Seq(Books) /\ shown \in Seq(Books)
    /\ imageCache \in Seq(Pictures)
    /\ saysNone \in BOOLEAN /\ overlapped \in BOOLEAN

ListingsInit ==
    /\ PostingsInit
    /\ asked = 0 /\ answers = <<>>
    /\ myPosts = <<>> /\ imageCache = <<>> /\ shown = <<>>
    /\ idToBook = NoEntries
    /\ saysNone = FALSE /\ overlapped = FALSE
    /\ detail = NoDetail
-------------------------------------------------------------------------------
OthersWrite ==
    /\ WritePosting
    /\ UNCHANGED <<asked, answers, myPosts, imageCache, idToBook, shown, saysNone,
                   detail, overlapped>>

ReloadData == shown' = myPosts'

(* Mutant: the collection view is not told that the listings are gone.     *)
ClearOnly ==
    /\ myPosts' = <<>>
    /\ idToBook' = NoEntries
    /\ UNCHANGED shown

(* Mutant: the listings of the last visit stay.                            *)
KeepListings ==
    /\ UNCHANGED myPosts
    /\ idToBook' = NoEntries
    /\ ReloadData

(* viewWillAppear empties what the callback will append to, but for the    *)
(* pictures, and has the collection view read it.                          *)
ClearAndReload ==
    /\ myPosts' = <<>>
    /\ idToBook' = NoEntries
    /\ ReloadData

AskForListings ==
    /\ UnderWay < MaxLoads
    /\ Len(imageCache) =< MaxPictures
    /\ ClearAndReload
    /\ asked' = asked + 1
    /\ overlapped' = (UnderWay > 0)
    /\ UNCHANGED <<written, cache, answers, imageCache, saysNone>>

(* Mutant: the listener behind a get stays and answers it again.           *)
ListenerStays == TRUE

Unanswered == asked > 0

AnswerListings ==
    /\ Unanswered
    /\ asked' = asked - 1
    /\ \E a \in [ok : {TRUE}, docs : {postings, cache}]
                  \cup [ok : {FALSE}, docs : {postings}] :
          /\ answers' = Append(answers, a)
          /\ cache' \in IF a = [ok |-> TRUE, docs |-> postings]
                          THEN {postings, cache} ELSE {cache}
    /\ UNCHANGED <<written, myPosts, imageCache, idToBook, shown, saysNone, detail,
                   overlapped>>

(* Mutant: all listings, as in Browse.                                     *)
AllListings(docs) == Decodable(docs)

(* The listings of a snapshot whose Seller is the user.                    *)
Mine(docs) == {d \in Decodable(docs) : docs[d].seller = username}

(* Mutant: an error explains nothing.                                      *)
ExplainAnswers == saysNone' = (saysNone \/ (Head(answers).ok /\ myPosts' = <<>>))

(* The label under an empty collection; it is never reset.                 *)
Explain == saysNone' = (saysNone \/ myPosts' = <<>>)

(* grabBookData's callback.                                                *)
ListingsCallback ==
    /\ answers # <<>>
    /\ answers' = Tail(answers)
    /\ IF Head(answers).ok
         THEN LET docs == Head(answers).docs
                  mine == Mine(docs)
              IN  \E ids \in InOrder(mine) :
                    /\ myPosts' = myPosts \o BooksOf(docs, ids)
                    /\ imageCache' = imageCache \o PicturesOf(BooksOf(docs, ids))
                    /\ idToBook' = [d \in DocIDs |->
                                       IF d \in mine THEN docs[d] ELSE idToBook[d]]
         ELSE UNCHANGED <<myPosts, imageCache, idToBook>>
    /\ Explain
    /\ ReloadData
    /\ UNCHANGED <<written, cache, asked, detail, overlapped>>

(* prepare(for:sender:): the picture is loaded again, from the book's own  *)
(* URL.                                                                    *)
OpenListing(r) ==
    /\ detail = NoDetail
    /\ r \in DOMAIN shown
    /\ \E ref \in RefsOf(myPosts[r]) :
          detail' = [book |-> myPosts[r], image |-> myPosts[r].picture, refString |-> ref]
    /\ UNCHANGED <<written, cache, asked, answers, myPosts, imageCache, idToBook,
                   shown, saysNone, overlapped>>

PictureTrap ==
    \/ answers # <<>> /\ Head(answers).ok /\ Mine(Head(answers).docs) # {}
    \/ detail = NoDetail /\ shown # <<>>

LoseListings ==
    /\ asked' = 0 /\ answers' = <<>>
    /\ myPosts' = <<>> /\ imageCache' = <<>> /\ shown' = <<>>
    /\ idToBook' = NoEntries
    /\ saysNone' = FALSE /\ overlapped' = FALSE
    /\ detail' = NoDetail
    /\ UNCHANGED <<written, cache>>
-------------------------------------------------------------------------------
(* Every cell the collection view may ask for can be read: its listing and *)
(* a picture at its index are there, whatever loads are still to come.     *)
CellsInBounds ==
    /\ shown = myPosts
    /\ DOMAIN myPosts \subseteq DOMAIN imageCache

(* The tab hands BrowseDetails, which offers to edit and delete, only IDs  *)
(* of listings of the user, and shows only his.                            *)
OnlyMine ==
    /\ \A r \in DOMAIN myPosts : myPosts[r].seller = username
    /\ (detail # NoDetail /\ detail.refString # NoRef) =>
          LET now == postings[detail.refString]
          IN  now \in Books => now.seller = username

(* A visit that met no load of an earlier one shows each listing once.     *)
OneCellPerListing ==
    ~overlapped =>
        \E id \in [DOMAIN myPosts -> DocIDs] :
            /\ \A i, j \in DOMAIN myPosts : i # j => id[i] # id[j]
            /\ \A i \in DOMAIN myPosts : idToBook[id[i]] = myPosts[i]
===============================================================================
