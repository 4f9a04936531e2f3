-------------------------------- MODULE History --------------------------------
(***************************************************************************)
(* The history tab (History.swift): the listings the user has viewed. Two  *)
(* loads in a row fill it, the user's document for the IDs and then        *)
(* /Postings/ for the books; the user may clear it at any time.            *)
(***************************************************************************)
EXTENDS Postings

CONSTANTS
    MaxLoads    \* bound: loads under way at once, of both kinds together

ASSUME HistoryAssumption == MaxLoads \in Nat

VARIABLES
    recentlyViewed, \* RecentlyViewed of the user's document in /Users/
    userAsked,      \* gets of the document issued and not answered
    userAnswers,    \* their answers queued for the main thread
    asked, answers, \* the same for the gets of /Postings/
    recents,        \* the IDs last loaded
    recentBooks, imageCache,
    shown,          \* the rows the table last asked for
    alive,
    everViewed,     \* history: all IDs ever viewed
    cleared,        \* history: "alone" or "racing" if cleared, without or with
                    \* an answer with IDs waiting, and nothing viewed since
    overlapped      \* history: the last appearance met a load under way

remote == <<written, cache, recentlyViewed, everViewed>>
loads  == <<userAsked, userAnswers, asked, answers>>
rows   == <<recents, recentBooks, imageCache, shown>>
vars   == <<remote, loads, rows, alive, cleared, overlapped>>

UserAnswers == [ok : BOOLEAN, ids : SUBSET DocIDs]
Answers     == [ok : BOOLEAN, docs : [DocIDs -> Documents]]

UnderWay == userAsked + Len(userAnswers) + asked + Len(answers)

TypeOK ==
    /\ PostingsTypeOK
    /\ recentlyViewed \subseteq DocIDs /\ everViewed \subseteq DocIDs
    /\ userAsked \in Nat /\ userAnswers \in Seq(UserAnswers)
    /\ asked \in Nat /\ answers \in Seq(Answers)
    /\ recents \subseteq DocIDs
    /\ recentBooks \in Seq(Books) /\ shown \in Seq(Books)
    /\ imageCache \in Seq(Pictures)
    /\ alive \in BOOLEAN /\ overlapped \in BOOLEAN
    /\ cleared \in {"no", "alone", "racing"}

Init ==
    /\ PostingsInit
    /\ recentlyViewed \in SUBSET {d \in DocIDs : postings[d] # Unborn}
    /\ everViewed = recentlyViewed
    /\ userAsked = 0 /\ userAnswers = <<>>
    /\ asked = 0 /\ answers = <<>>
    /\ recents = {}
    /\ recentBooks = <<>> /\ imageCache = <<>> /\ shown = <<>>
    /\ alive = TRUE /\ cleared = "no" /\ overlapped = FALSE
-------------------------------------------------------------------------------
OthersWrite ==
    /\ WritePosting
    /\ UNCHANGED <<recentlyViewed, everViewed, loads, rows, alive, cleared, overlapped>>

(* The user opens a listing in Browse, which adds its ID.                  *)
View(d) ==
    /\ postings[d] # Unborn
    /\ recentlyViewed' = recentlyViewed \cup {d}
    /\ everViewed' = everViewed \cup {d}
    /\ cleared' = "no"
    /\ UNCHANGED <<written, cache, loads, rows, alive, overlapped>>
-------------------------------------------------------------------------------
(* Mutant: the rows of the last visit stay.                                *)
EmptyRecents ==
    /\ recents' = {}
    /\ UNCHANGED <<recentBooks, imageCache>>

(* Mutant: imageCache is not emptied, as in Profile.                       *)
EmptyRowsKeepPictures ==
    /\ recents' = {}
    /\ recentBooks' = <<>>
    /\ UNCHANGED imageCache

EmptyRows ==
    /\ recents' = {}
    /\ recentBooks' = <<>> /\ imageCache' = <<>>

(* viewWillAppear: the arrays are emptied, the table is not told.          *)
ViewWillAppear ==
    /\ alive
    /\ UnderWay < MaxLoads
    /\ EmptyRows
    /\ userAsked' = userAsked + 1
    /\ overlapped' = (UnderWay > 0)
    /\ UNCHANGED <<remote, userAnswers, asked, answers, shown, alive, cleared>>

AnswerUser ==
    /\ alive
    /\ userAsked > 0
    /\ userAsked' = userAsked - 1
    /\ \E ok \in BOOLEAN :
          userAnswers' = Append(userAnswers, [ok |-> ok, ids |-> recentlyViewed])
    /\ UNCHANGED <<remote, asked, answers, rows, alive, cleared, overlapped>>

(* grabFirebaseData's callback. An error or a missing document ends the    *)
(* load here, with the table still not told.                               *)
UserCallback ==
    /\ alive
    /\ userAnswers # <<>>
    /\ userAnswers' = Tail(userAnswers)
    /\ IF Head(userAnswers).ok
         THEN recents' = Head(userAnswers).ids /\ asked' = asked + 1
         ELSE UNCHANGED <<recents, asked>>
    /\ UNCHANGED <<remote, userAsked, answers, recentBooks, imageCache, shown, alive,
                   cleared, overlapped>>

Unanswered == asked > 0

AnswerPostings ==
    /\ alive
    /\ Unanswered
    /\ asked' = asked - 1
    /\ \E a \in [ok : {TRUE}, docs : {postings, cache}]
                  \cup [ok : {FALSE}, docs : {postings}] :
          /\ answers' = Append(answers, a)
          /\ cache' \in IF a = [ok |-> TRUE, docs |-> postings]
                          THEN {postings, cache} ELSE {cache}
    /\ UNCHANGED <<written, recentlyViewed, everViewed, userAsked, userAnswers, rows,
                   alive, cleared, overlapped>>

(* Mutant: every listing, viewed or not.                                   *)
AllListings(docs) == Decodable(docs)

(* The listings of a snapshot whose ID is among `recents' by now.          *)
Recent(docs) == {d \in Decodable(docs) : d \in recents}

ReloadData == shown' = recentBooks'

(* grabFirebaseDataPosts' callback.                                        *)
PostingsCallback ==
    /\ alive
    /\ answers # <<>>
    /\ answers' = Tail(answers)
    /\ IF Head(answers).ok
         THEN LET docs == Head(answers).docs
              IN  \E ids \in InOrder(Recent(docs)) :
                    /\ recentBooks' = recentBooks \o BooksOf(docs, ids)
                    /\ imageCache' = imageCache \o PicturesOf(BooksOf(docs, ids))
         ELSE UNCHANGED <<recentBooks, imageCache>>
    /\ ReloadData
    /\ UNCHANGED <<remote, userAsked, userAnswers, asked, recents, alive, cleared,
                   overlapped>>

(* Mutant: the list of IDs is not emptied with the rows.                   *)
EmptyBooks ==
    /\ UNCHANGED recents
    /\ recentBooks' = <<>> /\ imageCache' = <<>>

ForgetRows == EmptyRows

(* clear: the document and the table are emptied at once.                  *)
Clear ==
    /\ alive
    /\ recentlyViewed' = {}
    /\ ForgetRows
    /\ ReloadData
    /\ cleared' = IF userAnswers = <<>> THEN "alone" ELSE "racing"
    /\ UNCHANGED <<written, cache, everViewed, loads, alive, overlapped>>

(* A picture does not load; the table touches a row that is gone; or the   *)
(* system ends the process.                                                *)
PictureTrap == answers # <<>> /\ Head(answers).ok /\ Recent(Head(answers).docs) # {}
RowTrap     == \E r \in DOMAIN shown : r \notin DOMAIN recentBooks

Die ==
    /\ alive' = FALSE
    /\ userAsked' = 0 /\ userAnswers' = <<>> /\ asked' = 0 /\ answers' = <<>>
    /\ recents' = {}
    /\ recentBooks' = <<>> /\ imageCache' = <<>> /\ shown' = <<>>
    /\ overlapped' = FALSE
    /\ UNCHANGED <<remote, cleared>>

Trap   == alive /\ (PictureTrap \/ RowTrap) /\ Die
Killed == alive /\ Die

Relaunch ==
    /\ ~alive
    /\ alive' = TRUE
    /\ UNCHANGED <<remote, loads, rows, cleared, overlapped>>

Next ==
    \/ OthersWrite
    \/ \E d \in DocIDs : View(d)
    \/ ViewWillAppear
    \/ AnswerUser \/ UserCallback
    \/ AnswerPostings \/ PostingsCallback
    \/ Clear
    \/ Trap \/ Killed
    \/ Relaunch

Spec == Init /\ [][Next]_vars
-------------------------------------------------------------------------------
(* Each row has its own picture (cellForRowAt reads both at one index),    *)
(* after any mix of visits, loads and clears.                              *)
ImagesPaired == imageCache = PicturesOf(recentBooks)

(* Every listing shown is one the user viewed: some viewed document is or  *)
(* was that seller's listing of that title.                                *)
RowsWereViewed ==
    \A r \in DOMAIN recentBooks : \E d \in everViewed :
        postings[d] \in Books => /\ postings[d].seller = recentBooks[r].seller
                                 /\ postings[d].title = recentBooks[r].title

(* A visit that met no load of an earlier one lists no more than was found *)
(* under the IDs viewed.                                                   *)
NoRowTwice == ~overlapped => Len(recentBooks) =< Cardinality(everViewed)

(* A history that was cleared while no answer with IDs was waiting stays   *)
(* empty until something is viewed: loads of /Postings/ that are still     *)
(* under way find no ID to show.                                           *)
ClearStaysEmpty == cleared = "alone" => recentBooks = <<>>
===============================================================================
