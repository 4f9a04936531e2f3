-------------------------------- MODULE Browse --------------------------------
(***************************************************************************)
(* The search tab (Browse.swift) on one device: loading the feed of        *)
(* listings, searching it, refreshing it and opening a listing.            *)
(*                                                                         *)
(* All handlers run on the main thread, one at a time. A load is           *)
(* asynchronous: grabFirebaseData only asks, the Firestore client takes a  *)
(* snapshot on its own queue, from the server or, offline, from its cache, *)
(* and the callback applies the snapshot later. Equal queries are answered *)
(* in the order they were asked. Meanwhile the user goes on and other      *)
(* clients go on writing.                                                  *)
(*                                                                         *)
(* A force unwrap or an index out of range ends the process (a trap): all  *)
(* but `postings', `cache' and `recentlyViewed' is lost.                   *)
(***************************************************************************)
EXTENDS Opening

CONSTANTS
    Queries,    \* texts to search for, each given as the set of titles,
                \* authors and courses it is part of
    MaxLoads    \* bound: loads under way at once

ASSUME BrowseAssumption == MaxLoads \in Nat \ {0}

VARIABLES
    recentlyViewed, \* RecentlyViewed of the user's document in /Users/
    alive,          \* the app runs and the tab was loaded
    asked,          \* gets issued and not answered
    answers,        \* answers queued for the main thread
    everyBook, allImages,       \* the feed as loaded
    bookResults, imageCache,    \* the part of it that the search leaves
    shown,          \* the rows the table view last asked for
    overlapped      \* history: the last refresh met a load under way

feed   == <<everyBook, allImages, bookResults, imageCache, idToBook, shown>>
loads  == <<asked, answers>>
remote == <<written, cache, recentlyViewed>>
vars   == <<remote, alive, loads, feed, detail, overlapped>>

Answers == [ok : BOOLEAN, docs : [DocIDs -> Documents]]

UnderWay == asked + Len(answers)

TypeOK ==
    /\ PostingsTypeOK /\ OpeningTypeOK
    /\ recentlyViewed \subseteq Refs
    /\ alive \in BOOLEAN
    /\ asked \in Nat
    /\ answers \in Seq(Answers)
    /\ everyBook \in Seq(Books)
    /\ bookResults \in Seq(Books)
    /\ allImages \in Seq(Pictures)
    /\ imageCache \in Seq(Pictures)
    /\ shown \in Seq(Books)
    /\ overlapped \in BOOLEAN
-------------------------------------------------------------------------------
(* viewDidLoad: nothing is shown and the first load is asked for.          *)
Init ==
    /\ PostingsInit
    /\ recentlyViewed = {}
    /\ alive = TRUE
    /\ asked = 1
    /\ answers = <<>>
    /\ everyBook = <<>> /\ allImages = <<>>
    /\ bookResults = <<>> /\ imageCache = <<>>
    /\ idToBook = NoEntries
    /\ shown = <<>>
    /\ detail = NoDetail
    /\ overlapped = FALSE
-------------------------------------------------------------------------------
(* Other clients, other screens and the web site write to /Postings/.      *)
Environment ==
    /\ WritePosting
    /\ UNCHANGED <<recentlyViewed, alive, loads, feed, detail, overlapped>>
-------------------------------------------------------------------------------
(* Mutant: the listener behind a get stays and answers it again.           *)
ListenerStays == TRUE

Unanswered == asked > 0

(* The Firestore client answers the oldest get.                            *)
Answer(ok, docs) ==
    /\ alive
    /\ Unanswered
    /\ asked' = asked - 1
    /\ answers' = Append(answers, [ok |-> ok, docs |-> docs])
    /\ UNCHANGED <<written, recentlyViewed, alive, feed, detail, overlapped>>

AnswerFromServer == Answer(TRUE, postings)  /\ cache' = postings
AnswerFromCache  == Answer(TRUE, cache)     /\ UNCHANGED cache
AnswerError      == Answer(FALSE, postings) /\ UNCHANGED cache

(* Mutant: reloadData is forgotten.                                        *)
SkipReload == UNCHANGED shown

(* The table view reads the results again, now and while it scrolls.       *)
ReloadData == shown' = bookResults'

(* The loop of grabFirebaseData's callback: append each decoded book with  *)
(* its picture and register it under its ID.                               *)
AppendLoaded(docs, ids) ==
    /\ everyBook' = everyBook \o BooksOf(docs, ids)
    /\ allImages' = allImages \o PicturesOf(BooksOf(docs, ids))

Register(docs) ==
    idToBook' = [d \in DocIDs |->
        IF d \in Decodable(docs) THEN docs[d] ELSE idToBook[d]]

GetCallback ==
    /\ alive
    /\ answers # <<>>
    /\ answers' = Tail(answers)
    /\ IF Head(answers).ok
         THEN LET docs == Head(answers).docs
              IN  \E ids \in InOrder(Decodable(docs)) :
                    AppendLoaded(docs, ids) /\ Register(docs)
         ELSE UNCHANGED <<everyBook, allImages, idToBook>>
    /\ bookResults' = everyBook'
    /\ imageCache' = allImages'
    /\ ReloadData
    /\ UNCHANGED <<remote, alive, asked, detail, overlapped>>
-------------------------------------------------------------------------------
(* The user, while no BrowseDetails screen covers the tab.                 *)
Browsing == alive /\ detail = NoDetail

Mentions(b, q) == {b.title, b.author, b.course} \cap q # {}

(* Mutant: the last results' pictures stay in front of the new ones.       *)
ShowResultsKeepImages(books, images) ==
    /\ bookResults' = books
    /\ imageCache' = imageCache \o images

ShowResults(books, images) ==
    /\ bookResults' = books
    /\ imageCache' = images

(* searchBarSearchButtonClicked with an empty search bar, and with text.   *)
SearchAll ==
    /\ Browsing
    /\ ShowResults(everyBook, allImages)
    /\ ReloadData
    /\ UNCHANGED <<remote, alive, loads, everyBook, allImages, idToBook, detail,
                   overlapped>>

Hits(q) == {i \in DOMAIN everyBook : Mentions(everyBook[i], q)}

Search(q) ==
    /\ Browsing
    /\ \E hits \in InOrder(Hits(q)) :
          LET books == BooksOf(everyBook, hits)
          IN  ShowResults(books, PicturesOf(books))
    /\ ReloadData
    /\ UNCHANGED <<remote, alive, loads, everyBook, allImages, idToBook, detail,
                   overlapped>>

(* Mutant: the loaded feed is not emptied.                                 *)
ClearResults ==
    /\ bookResults' = <<>> /\ imageCache' = <<>>
    /\ UNCHANGED <<everyBook, allImages, idToBook>>

ClearFeed ==
    /\ everyBook' = <<>> /\ allImages' = <<>>
    /\ bookResults' = <<>> /\ imageCache' = <<>>
    /\ UNCHANGED idToBook

(* refresh: the arrays are emptied, the table is not told.                 *)
Refresh ==
    /\ Browsing
    /\ UnderWay < MaxLoads
    /\ ClearFeed
    /\ asked' = asked + 1
    /\ overlapped' = (UnderWay > 0)
    /\ UNCHANGED <<remote, alive, answers, shown, detail>>

Select(r) ==
    /\ Browsing
    /\ r \in DOMAIN shown
    /\ r \in DOMAIN bookResults
    /\ \E ref \in RefsOf(bookResults[r]) :
          /\ detail' = [book |-> bookResults[r], image |-> imageCache[r],
                        refString |-> ref]
          /\ recentlyViewed' = recentlyViewed \cup {ref}
    /\ UNCHANGED <<written, cache, alive, loads, feed, overlapped>>

Back ==
    /\ detail # NoDetail
    /\ detail' = NoDetail
    /\ UNCHANGED <<remote, alive, loads, feed, overlapped>>
-------------------------------------------------------------------------------
(* The three ways the tab ends the process: a picture of a load or of a    *)
(* search result does not load, or the table touches a row that is gone.   *)
LoadPictureTrap ==
    /\ answers # <<>>
    /\ Head(answers).ok
    /\ Decodable(Head(answers).docs) # {}

SearchPictureTrap == Browsing /\ \E q \in Queries : Hits(q) # {}

RowTrap == Browsing /\ \E r \in DOMAIN shown : r \notin DOMAIN bookResults

Trap ==
    /\ alive
    /\ LoadPictureTrap \/ SearchPictureTrap \/ RowTrap
    /\ alive' = FALSE
    /\ asked' = 0 /\ answers' = <<>>
    /\ everyBook' = <<>> /\ allImages' = <<>>
    /\ bookResults' = <<>> /\ imageCache' = <<>>
    /\ idToBook' = NoEntries
    /\ shown' = <<>>
    /\ detail' = NoDetail
    /\ overlapped' = FALSE
    /\ UNCHANGED remote

(* The user starts the app again and signs in.                             *)
Relaunch ==
    /\ ~alive
    /\ alive' = TRUE
    /\ asked' = 1
    /\ UNCHANGED <<remote, answers, feed, detail, overlapped>>
-------------------------------------------------------------------------------
User ==
    \/ SearchAll
    \/ \E q \in Queries : Search(q)
    \/ Refresh
    \/ \E r \in DOMAIN shown : Select(r)
    \/ Back

Next ==
    \/ Environment
    \/ AnswerFromServer \/ AnswerFromCache \/ AnswerError
    \/ GetCallback
    \/ User
    \/ Trap
    \/ Relaunch

Spec == Init /\ [][Next]_vars

(* The client answers every get, from its cache if it must, and the main   *)
(* thread runs every callback. Nothing is assumed of the user.             *)
Fairness ==
    /\ WF_vars(AnswerFromServer \/ AnswerFromCache \/ AnswerError)
    /\ WF_vars(GetCallback)

FairSpec == Spec /\ Fairness
-------------------------------------------------------------------------------
(* Rows and pictures are parallel arrays (cellForRowAt reads both at one   *)
(* index): each picture is the picture of the book at its index, after any *)
(* mix of loads, searches and refreshes.                                   *)
ImagesPaired ==
    /\ allImages = PicturesOf(everyBook)
    /\ imageCache = PicturesOf(bookResults)

(* The table shows the results, or it was emptied by a refresh and a load  *)
(* that will fill it is still under way: never other rows, and nothing to  *)
(* wait for once all loads are in.                                         *)
TableInSync ==
    /\ bookResults \in {<<>>, shown}
    /\ UnderWay = 0 => bookResults = shown

(* A feed loaded by one load at a time has one row per listing: its rows   *)
(* can be given distinct IDs under which idToBook holds exactly the row.   *)
RowsDistinct ==
    ~overlapped =>
        \E id \in [DOMAIN everyBook -> DocIDs] :
            /\ \A i, j \in DOMAIN everyBook : i # j => id[i] # id[j]
            /\ \A i \in DOMAIN everyBook : idToBook[id[i]] = everyBook[i]

(* ... and the lookup in prepare finds an ID for each row of the results.  *)
RowsResolve ==
    ~overlapped =>
        \A r \in DOMAIN bookResults : NoRef \notin RefsOf(bookResults[r])

(* The screen that offers to edit or delete a listing acts on a listing    *)
(* of the seller it displays: whatever has been edited, deleted or loaded  *)
(* twice since, the ID it got was never that of another user's listing.    *)
RefOwner ==
    (detail # NoDetail /\ detail.refString # NoRef) =>
        LET now == postings[detail.refString]
        IN  now \in Books => now.seller = detail.book.seller

(* Every copy of a listing the device holds, however stale (cached, on its *)
(* way to the main thread or under an ID in idToBook), is a copy of what   *)
(* that document is or was: it exists, or did, with that title and seller. *)
Lineage ==
    /\ \A d \in DocIDs : cache[d] \in Books => Descends(cache[d], d)
    /\ \A i \in DOMAIN answers, d \in DocIDs :
          answers[i].docs[d] \in Books => Descends(answers[i].docs[d], d)
    /\ \A d \in DocIDs : idToBook[d] # NoBook => Descends(idToBook[d], d)
    /\ (detail # NoDetail /\ detail.refString # NoRef) =>
          Descends(detail.book, detail.refString)

(* While loads do not overlap there is at most one, and it fills an empty  *)
(* feed; a dead app has none; the results are always rows of the feed.     *)
LoadsAlone ==
    /\ ~overlapped => UnderWay =< 1 /\ (UnderWay = 1 => everyBook = <<>>)
    /\ ~alive => UnderWay = 0 /\ everyBook = <<>>
    /\ \A r \in DOMAIN bookResults :
          \E i \in DOMAIN everyBook : bookResults[r] = everyBook[i]

(* RecentlyViewed only ever holds IDs of listings that were written.       *)
ViewedWereWritten ==
    \A d \in recentlyViewed \ {NoRef} : postings[d] # Unborn

(* Rows the table still shows are not lost for ever: the refresh that      *)
(* emptied the arrays is followed by a load that fills the table.          *)
TableCatchesUp == (bookResults # shown) ~> (bookResults = shown)
-------------------------------------------------------------------------------
(* What the code assumes and does not ensure.                              *)

(* A screen opened on the listing it displays, as loaded: the ID is one    *)
(* under which this very book was loaded.                                  *)
OpensThatListing ==
    [][(detail' # detail /\ detail' # NoDetail /\ detail'.refString # NoRef) =>
          idToBook[detail'.refString] = detail'.book]_vars
===============================================================================
