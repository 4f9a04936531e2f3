----------------------------- MODULE BrowseProofs -----------------------------
(***************************************************************************)
(* Proofs about the search tab, for every set of books, documents and      *)
(* queries and every bound on the loads under way.                         *)
(***************************************************************************)
EXTENDS BrowseHandover, TLAPS, PostingsProofs

USE DEF OpeningTypeOK

(* The callback takes the oldest answer and leaves the others in order.    *)
LEMMA CallbackAnswers ==
    ASSUME TypeOK, GetCallback
    PROVE  /\ Head(answers) = answers[1] /\ 1 \in DOMAIN answers
           /\ Head(answers) \in Answers
           /\ answers' \in Seq(Answers)
           /\ Len(answers) \in Nat \ {0} /\ Len(answers') = Len(answers) - 1
           /\ \A i \in DOMAIN answers' :
                 i + 1 \in DOMAIN answers /\ answers'[i] = answers[i + 1]
PROOF
  <1>1. answers \in Seq(Answers) /\ answers # <<>> /\ answers' = Tail(answers)
    BY DEF TypeOK, GetCallback
  <1> QED
    BY <1>1, TailOfQueue

(* What one load leaves behind, whatever was there before.                 *)
LEMMA CallbackFeed ==
    ASSUME TypeOK, GetCallback
    PROVE  /\ everyBook' \in Seq(Books) /\ allImages' \in Seq(Pictures)
           /\ idToBook' \in [DocIDs -> Books \cup {NoBook}]
           /\ bookResults' = everyBook' /\ imageCache' = allImages'
           /\ shown' = bookResults'
           /\ allImages = PicturesOf(everyBook) => allImages' = PicturesOf(everyBook')
PROOF
  <1>1. everyBook \in Seq(Books) /\ allImages \in Seq(Pictures)
        /\ idToBook \in [DocIDs -> Books \cup {NoBook}]
    BY DEF TypeOK
  <1>2. bookResults' = everyBook' /\ imageCache' = allImages' /\ shown' = bookResults'
    BY DEF GetCallback, ReloadData
  <1>3. CASE Head(answers).ok
    <2> DEFINE docs == Head(answers).docs
    <2>1. PICK ids \in InOrder(Decodable(docs)) :
              AppendLoaded(docs, ids) /\ Register(docs)
      BY <1>3 DEF GetCallback
    <2> DEFINE new == BooksOf(docs, ids)
    <2>2. new \in Seq(Books)
      BY BooksOfSnapshot
    <2>3. PicturesOf(new) \in Seq(Pictures)
      BY <2>2, PicturesOfSeq
    <2>4. everyBook' = everyBook \o new /\ allImages' = allImages \o PicturesOf(new)
      BY <2>1 DEF AppendLoaded
    <2>5. everyBook' \in Seq(Books) /\ allImages' \in Seq(Pictures)
      BY <1>1, <2>2, <2>3, <2>4, ConcatProperties
    <2>6. idToBook' \in [DocIDs -> Books \cup {NoBook}]
      <3> HIDE DEF docs
      <3> QED
        BY <1>1, <2>1 DEF Register, Decodable
    <2>7. PicturesOf(everyBook') = PicturesOf(everyBook) \o PicturesOf(new)
      BY <1>1, <2>2, <2>4, PicturesOfConcat
    <2> QED
      BY <1>2, <2>4, <2>5, <2>6, <2>7
  <1>4. CASE ~Head(answers).ok
    BY <1>1, <1>2, <1>4 DEF GetCallback
  <1> QED
    BY <1>3, <1>4

(* Every row after a load was there, or is a document of the snapshot.     *)
LEMMA CallbackRows ==
    ASSUME TypeOK, GetCallback, NEW i \in DOMAIN everyBook'
    PROVE  \/ \E j \in DOMAIN everyBook : everyBook'[i] = everyBook[j]
           \/ \E d \in DocIDs : /\ Head(answers).docs[d] \in Books
                                /\ everyBook'[i] = Head(answers).docs[d]
PROOF
  <1> DEFINE docs == Head(answers).docs
  <1>1. CASE Head(answers).ok
    <2>1. PICK ids \in InOrder(Decodable(docs)) : AppendLoaded(docs, ids)
      BY <1>1 DEF GetCallback
    <2> DEFINE new == BooksOf(docs, ids)
               n   == Cardinality(Decodable(docs))
    <2>2. /\ new \in Seq(Books) /\ DOMAIN new = 1 .. n
          /\ \A k \in 1 .. n : new[k] = docs[ids[k]]
      BY BooksOfSnapshot
    <2>3. ids \in [1 .. n -> Decodable(docs)]
      BY DEF InOrder
    <2>4. \A k \in DOMAIN new :
              ids[k] \in DocIDs /\ docs[ids[k]] \in Books /\ new[k] = docs[ids[k]]
      <3> HIDE DEF docs, n
      <3> QED
        BY <2>2, <2>3 DEF Decodable
    <2>5. everyBook \in Seq(Books) /\ everyBook' = everyBook \o new
      BY <2>1 DEF AppendLoaded, TypeOK
    <2> HIDE DEF docs, new, n
    <2>6. /\ DOMAIN everyBook = 1 .. Len(everyBook) /\ Len(everyBook) \in Nat
          /\ DOMAIN new = 1 .. Len(new) /\ Len(new) \in Nat
      BY <2>2, <2>5, LenProperties
    <2>7. /\ DOMAIN everyBook' = 1 .. Len(everyBook) + Len(new)
          /\ everyBook'[i] = IF i <= Len(everyBook) THEN everyBook[i]
                                                   ELSE new[i - Len(everyBook)]
      BY <2>2, <2>5, <2>6, ConcatProperties, LenProperties
    <2>8. i \in DOMAIN everyBook \/ i - Len(everyBook) \in DOMAIN new
      BY <2>6, <2>7
    <2> QED
      BY <2>4, <2>6, <2>7, <2>8 DEF docs
  <1>2. CASE ~Head(answers).ok
    BY <1>2 DEF GetCallback
  <1> QED
    BY <1>1, <1>2

(* Answers are appended behind those that wait.                            *)
LEMMA AnswerAnswers ==
    ASSUME TypeOK, NEW ok \in BOOLEAN, NEW docs \in [DocIDs -> Documents],
           Answer(ok, docs)
    PROVE  /\ answers' \in Seq(Answers)
           /\ Len(answers) \in Nat /\ Len(answers') = Len(answers) + 1
           /\ asked' \in Nat /\ asked' = asked - 1
           /\ \A i \in DOMAIN answers' :
                 \/ i \in DOMAIN answers /\ answers'[i] = answers[i]
                 \/ answers'[i].docs = docs
PROOF
  <1> DEFINE a == [ok |-> ok, docs |-> docs]
  <1>1. a \in Answers
    BY DEF Answers
  <1>2. answers \in Seq(Answers) /\ answers' = Append(answers, a)
    BY DEF TypeOK, Answer, Unanswered
  <1>3. asked' \in Nat /\ asked' = asked - 1
    BY DEF TypeOK, Answer, Unanswered
  <1> QED
    BY <1>1, <1>2, <1>3, AppendToQueue

(* The rows a search leaves are rows of the feed, with their pictures.     *)
LEMMA SearchResults ==
    ASSUME TypeOK, NEW q, Search(q)
    PROVE  /\ bookResults' \in Seq(Books) /\ imageCache' \in Seq(Pictures)
           /\ imageCache' = PicturesOf(bookResults')
           /\ \A r \in DOMAIN bookResults' :
                 \E i \in DOMAIN everyBook : bookResults'[r] = everyBook[i]
PROOF
  <1>1. PICK hits \in InOrder(Hits(q)) :
            LET books == BooksOf(everyBook, hits)
            IN  ShowResults(books, PicturesOf(books))
    BY DEF Search
  <1> DEFINE books == BooksOf(everyBook, hits)
  <1>2. bookResults' = books /\ imageCache' = PicturesOf(books)
    BY <1>1 DEF ShowResults
  <1>3. everyBook \in Seq(Books) /\ Hits(q) \in SUBSET DOMAIN everyBook
    BY DEF TypeOK, Hits
  <1>4. /\ books \in Seq(Books)
        /\ \A r \in DOMAIN books : \E i \in DOMAIN everyBook : books[r] = everyBook[i]
    BY <1>3, BooksOfHits
  <1>5. PicturesOf(books) \in Seq(Pictures)
    BY <1>4, PicturesOfSeq
  <1> QED
    BY <1>2, <1>4, <1>5

(* The screen a row opens carries a book of the results and an ID whose    *)
(* entry is equal to it in the sense of ==, or the empty ID.               *)
LEMMA SelectDetail ==
    ASSUME TypeOK, ImagesPaired, NEW r, Select(r)
    PROVE  /\ detail' \in Details
           /\ \/ detail'.refString = NoRef
              \/ /\ detail'.refString \in DocIDs
                 /\ idToBook[detail'.refString] # NoBook
                 /\ BookEq(idToBook[detail'.refString], detail'.book)
           /\ recentlyViewed' = recentlyViewed \cup {detail'.refString}
PROOF
  <1>1. r \in DOMAIN bookResults
    BY DEF Select
  <1>2. PICK ref \in RefsOf(bookResults[r]) :
            /\ detail' = [book |-> bookResults[r], image |-> imageCache[r],
                          refString |-> ref]
            /\ recentlyViewed' = recentlyViewed \cup {ref}
    BY DEF Select
  <1>3. bookResults \in Seq(Books) /\ DOMAIN bookResults = 1 .. Len(bookResults)
    BY LenProperties DEF TypeOK
  <1>4. bookResults[r] \in Books
    BY <1>1, <1>3, ElementOfSeq
  <1>5. imageCache[r] \in Pictures
    BY <1>1, <1>4 DEF ImagesPaired, PicturesOf, Pictures
  <1>6. \/ ref = NoRef
        \/ ref \in DocIDs /\ idToBook[ref] # NoBook /\ BookEq(idToBook[ref], bookResults[r])
    BY <1>2 DEF RefsOf
  <1>7. ref \in Refs
    BY <1>6 DEF Refs
  <1> QED
    BY <1>2, <1>4, <1>5, <1>6, <1>7 DEF Details
-------------------------------------------------------------------------------
LEMMA TypeInit == Init => TypeOK
PROOF
  <1> SUFFICES ASSUME Init PROVE TypeOK
    OBVIOUS
  <1>1. /\ <<>> \in Seq(Answers) /\ <<>> \in Seq(Books) /\ <<>> \in Seq(Pictures)
    BY EmptySeq
  <1>2. PostingsTypeOK
    BY PostingsStartTyped DEF Init
  <1>3. idToBook \in [DocIDs -> Books \cup {NoBook}]
    BY DEF Init, NoEntries
  <1> QED
    BY <1>1, <1>2, <1>3 DEF Init, TypeOK

LEMMA TypeNext == TypeOK /\ ImagesPaired /\ [Next]_vars => TypeOK'
PROOF
  <1> SUFFICES ASSUME TypeOK, ImagesPaired, [Next]_vars PROVE TypeOK'
    OBVIOUS
  <1> USE DEF written, remote, loads, feed, PostingsTypeOK
  <1>1. CASE Environment
    <2>1. PostingsTypeOK'
      BY <1>1, WriteKeepsTypes DEF Environment, TypeOK
    <2> QED
      BY <1>1, <2>1 DEF Environment, TypeOK
  <1>2. ASSUME NEW ok \in BOOLEAN, NEW docs \in [DocIDs -> Documents],
               Answer(ok, docs), cache' \in {docs, cache}
        PROVE  TypeOK'
    <2>1. answers' \in Seq(Answers) /\ asked' \in Nat
      BY <1>2, AnswerAnswers
    <2> QED
      BY <1>2, <2>1 DEF Answer, TypeOK
  <1>3. CASE GetCallback
    <2>1. answers' \in Seq(Answers)
      BY <1>3, CallbackAnswers
    <2>2. /\ everyBook' \in Seq(Books) /\ allImages' \in Seq(Pictures)
          /\ idToBook' \in [DocIDs -> Books \cup {NoBook}]
          /\ bookResults' = everyBook' /\ imageCache' = allImages'
          /\ shown' = bookResults'
      BY <1>3, CallbackFeed
    <2> QED
      BY <1>3, <2>1, <2>2 DEF GetCallback, TypeOK
  <1>4. CASE SearchAll
    BY <1>4 DEF SearchAll, ShowResults, ReloadData, TypeOK
  <1>5. ASSUME NEW q \in Queries, Search(q)
        PROVE  TypeOK'
    <2>1. bookResults' \in Seq(Books) /\ imageCache' \in Seq(Pictures)
      BY <1>5, SearchResults
    <2> QED
      BY <1>5, <2>1 DEF Search, ReloadData, TypeOK
  <1>6. CASE Refresh
    <2>1. <<>> \in Seq(Books) /\ <<>> \in Seq(Pictures)
      BY EmptySeq
    <2>2. (UnderWay > 0) \in BOOLEAN
      OBVIOUS
    <2> QED
      BY <1>6, <2>1, <2>2 DEF Refresh, ClearFeed, TypeOK
  <1>7. ASSUME NEW r \in DOMAIN shown, Select(r)
        PROVE  TypeOK'
    <2>1. detail' \in Details /\ recentlyViewed' = recentlyViewed \cup {detail'.refString}
      BY <1>7, SelectDetail
    <2> QED
      BY <1>7, <2>1 DEF Select, TypeOK, Details
  <1>8. CASE Back
    BY <1>8 DEF Back, TypeOK
  <1>9. CASE Trap
    <2>1. /\ <<>> \in Seq(Answers) /\ <<>> \in Seq(Books) /\ <<>> \in Seq(Pictures)
      BY EmptySeq
    <2>2. NoEntries \in [DocIDs -> Books \cup {NoBook}]
      BY DEF NoEntries
    <2> QED
      BY <1>9, <2>1, <2>2 DEF Trap, TypeOK
  <1>10. CASE Relaunch
    BY <1>10 DEF Relaunch, TypeOK
  <1>11. CASE UNCHANGED vars
    BY <1>11 DEF vars, TypeOK
  <1>12. CASE AnswerFromServer \/ AnswerFromCache \/ AnswerError
    BY <1>2, <1>12 DEF AnswerFromServer, AnswerFromCache, AnswerError, TypeOK
  <1> QED
    BY <1>1, <1>3, <1>4, <1>5, <1>6, <1>7, <1>8, <1>9, <1>10, <1>11, <1>12
       DEF Next, User

(* ImagesPaired is kept by every step.                                     *)
LEMMA PairedNext == TypeOK /\ ImagesPaired /\ [Next]_vars => ImagesPaired'
PROOF
  <1> SUFFICES ASSUME TypeOK, ImagesPaired, [Next]_vars PROVE ImagesPaired'
    OBVIOUS
  <1> USE DEF written, remote, loads, feed
  <1>1. CASE UNCHANGED feed
    BY <1>1 DEF ImagesPaired
  <1>2. CASE GetCallback
    BY <1>2, CallbackFeed DEF ImagesPaired
  <1>3. CASE SearchAll
    BY <1>3 DEF SearchAll, ShowResults, ImagesPaired
  <1>4. ASSUME NEW q \in Queries, Search(q)
        PROVE  ImagesPaired'
    BY <1>4, SearchResults DEF Search, ImagesPaired
  <1>5. ASSUME everyBook' = <<>>, allImages' = <<>>,
               bookResults' = <<>>, imageCache' = <<>>
        PROVE  ImagesPaired'
    BY <1>5 DEF ImagesPaired, PicturesOf
  <1>6. CASE Refresh \/ Trap
    BY <1>5, <1>6 DEF Refresh, ClearFeed, Trap
  <1>7. CASE \/ Environment \/ AnswerFromServer \/ AnswerFromCache \/ AnswerError
             \/ (\E r \in DOMAIN shown : Select(r)) \/ Back \/ Relaunch \/ UNCHANGED vars
    BY <1>1, <1>7 DEF Environment, AnswerFromServer, AnswerFromCache, AnswerError,
                      Answer, Select, Back, Relaunch, vars
  <1> QED
    BY <1>2, <1>3, <1>4, <1>6, <1>7 DEF Next, User

(* TableInSync is kept by every step: a load under way is counted until    *)
(* its callback has filled the table.                                      *)
LEMMA SyncNext == TypeOK /\ TableInSync /\ [Next]_vars => TableInSync'
PROOF
  <1> SUFFICES ASSUME TypeOK, TableInSync, [Next]_vars PROVE TableInSync'
    OBVIOUS
  <1> USE DEF written, remote, loads, feed, UnderWay
  <1>1. asked \in Nat /\ Len(answers) \in Nat
    BY LenProperties DEF TypeOK
  <1>2. CASE GetCallback \/ SearchAll \/ (\E q \in Queries : Search(q))
    <2>1. shown' = bookResults'
      BY <1>2 DEF GetCallback, SearchAll, Search, ReloadData
    <2> QED
      BY <2>1 DEF TableInSync
  <1>3. ASSUME NEW ok \in BOOLEAN, NEW docs \in [DocIDs -> Documents], Answer(ok, docs)
        PROVE  TableInSync'
    <2>1. UnderWay' = UnderWay
      BY <1>1, <1>3, AnswerAnswers
    <2> QED
      BY <1>3, <2>1 DEF Answer, TableInSync
  <1>4. CASE Refresh
    <2>1. bookResults' = <<>> /\ UnderWay' > 0
      BY <1>1, <1>4 DEF Refresh, ClearFeed
    <2> QED
      BY <1>1, <2>1 DEF TableInSync
  <1>5. CASE Trap
    BY <1>5 DEF Trap, TableInSync
  <1>6. CASE Relaunch
    <2>1. UnderWay' > 0
      BY <1>1, <1>6 DEF Relaunch
    <2> QED
      BY <1>6, <2>1 DEF Relaunch, TableInSync
  <1>7. CASE \/ Environment \/ (\E r \in DOMAIN shown : Select(r)) \/ Back
             \/ UNCHANGED vars
    BY <1>7 DEF Environment, Select, Back, vars, TableInSync
  <1>8. CASE AnswerFromServer \/ AnswerFromCache \/ AnswerError
    BY <1>3, <1>8 DEF AnswerFromServer, AnswerFromCache, AnswerError, PostingsTypeOK, TypeOK
  <1> QED
    BY <1>2, <1>4, <1>5, <1>6, <1>7, <1>8 DEF Next, User

(* LoadsAlone is kept by every step.                                       *)
LEMMA AloneNext == TypeOK /\ LoadsAlone /\ [Next]_vars => LoadsAlone'
PROOF
  <1> SUFFICES ASSUME TypeOK, LoadsAlone, [Next]_vars PROVE LoadsAlone'
    OBVIOUS
  <1> USE DEF written, remote, loads, feed, UnderWay
  <1>1. asked \in Nat /\ Len(answers) \in Nat
    BY LenProperties DEF TypeOK
  <1>2. CASE GetCallback
    <2>1. bookResults' = everyBook'
      BY <1>2, CallbackFeed
    <2>2. UnderWay' = UnderWay - 1 /\ UnderWay > 0
      BY <1>1, <1>2, CallbackAnswers DEF GetCallback
    <2>3. overlapped' = overlapped /\ alive'
      BY <1>2 DEF GetCallback
    <2> QED
      BY <1>1, <2>1, <2>2, <2>3 DEF LoadsAlone
  <1>3. ASSUME NEW ok \in BOOLEAN, NEW docs \in [DocIDs -> Documents], Answer(ok, docs)
        PROVE  LoadsAlone'
    <2>1. UnderWay' = UnderWay
      BY <1>1, <1>3, AnswerAnswers
    <2>2. alive /\ alive' = alive
      BY <1>3 DEF Answer
    <2> QED
      BY <1>3, <2>1, <2>2 DEF Answer, LoadsAlone
  <1>4. CASE SearchAll
    BY <1>4 DEF SearchAll, ShowResults, LoadsAlone
  <1>5. ASSUME NEW q \in Queries, Search(q)
        PROVE  LoadsAlone'
    BY <1>5, SearchResults DEF Search, LoadsAlone
  <1>6. CASE Refresh
    <2>1. everyBook' = <<>> /\ bookResults' = <<>>
      BY <1>6 DEF Refresh, ClearFeed
    <2>2. UnderWay' = UnderWay + 1 /\ overlapped' = (UnderWay > 0)
      BY <1>1, <1>6 DEF Refresh
    <2>3. UnderWay > 0 => overlapped'
      BY <2>2, Zenon
    <2>4. alive'
      BY <1>6 DEF Refresh, Browsing
    <2> QED
      BY <1>1, <2>1, <2>2, <2>3, <2>4 DEF LoadsAlone
  <1>7. CASE Trap
    BY <1>7 DEF Trap, LoadsAlone
  <1>8. CASE Relaunch
    <2>1. alive' /\ UnderWay = 0 /\ everyBook' = <<>>
      BY <1>8 DEF Relaunch, LoadsAlone
    <2>2. UnderWay' = 1
      BY <1>1, <1>8, <2>1 DEF Relaunch
    <2> QED
      BY <1>8, <2>1, <2>2 DEF Relaunch, LoadsAlone
  <1>9. CASE \/ Environment \/ (\E r \in DOMAIN shown : Select(r)) \/ Back
             \/ UNCHANGED vars
    BY <1>9 DEF Environment, Select, Back, vars, LoadsAlone
  <1>10. CASE AnswerFromServer \/ AnswerFromCache \/ AnswerError
    BY <1>3, <1>10 DEF AnswerFromServer, AnswerFromCache, AnswerError, PostingsTypeOK, TypeOK
  <1> QED
    BY <1>2, <1>4, <1>5, <1>6, <1>7, <1>8, <1>9, <1>10 DEF Next, User

(* A load into an empty feed gives each row the ID it was decoded under.   *)
LEMMA OneLoadIsDistinct ==
    ASSUME TypeOK, GetCallback, Head(answers).ok, everyBook = <<>>
    PROVE  \E id \in [DOMAIN everyBook' -> DocIDs] :
              /\ \A i, j \in DOMAIN everyBook' : i # j => id[i] # id[j]
              /\ \A i \in DOMAIN everyBook' : idToBook'[id[i]] = everyBook'[i]
PROOF
  <1> DEFINE docs == Head(answers).docs
             n == Cardinality(Decodable(docs))
  <1>1. PICK ids \in InOrder(Decodable(docs)) : AppendLoaded(docs, ids) /\ Register(docs)
    BY DEF GetCallback
  <1>2. BooksOf(docs, ids) \in Seq(Books)
    BY BooksOfSnapshot
  <1>3. everyBook' = BooksOf(docs, ids)
    BY <1>1, <1>2, ConcatEmptySeq DEF AppendLoaded
  <1>4. DOMAIN everyBook' = 1 .. n /\ \A i \in 1 .. n : everyBook'[i] = docs[ids[i]]
    BY <1>3, BooksOfSnapshot
  <1>5. /\ ids \in [1 .. n -> Decodable(docs)]
        /\ \A i, j \in 1 .. n : i # j => ids[i] # ids[j]
    BY DecodableFinite, DocIDsAssumption, InOrderFacts
  <1>6. ids \in [1 .. n -> DocIDs] /\ \A i \in 1 .. n : ids[i] \in Decodable(docs)
    BY <1>5, DecodableFinite
  <1>7. \A i \in 1 .. n : idToBook'[ids[i]] = docs[ids[i]]
    <2> HIDE DEF docs, n
    <2> QED
      BY <1>1, <1>6 DEF Register
  <1> HIDE DEF docs, n
  <1>8. ids \in [DOMAIN everyBook' -> DocIDs]
    BY <1>4, <1>6
  <1>9. \A i, j \in DOMAIN everyBook' : i # j => ids[i] # ids[j]
    BY <1>4, <1>5
  <1>10. \A i \in DOMAIN everyBook' : idToBook'[ids[i]] = everyBook'[i]
    BY <1>4, <1>7
  <1> QED
    BY <1>8, <1>9, <1>10

(* RowsDistinct is kept by every step, since loads that do not overlap     *)
(* fill an empty feed.                                                     *)
LEMMA DistinctNext ==
    TypeOK /\ ImagesPaired /\ LoadsAlone /\ RowsDistinct /\ [Next]_vars => RowsDistinct'
PROOF
  <1> SUFFICES ASSUME TypeOK, ImagesPaired, LoadsAlone, RowsDistinct, [Next]_vars
               PROVE  RowsDistinct'
    OBVIOUS
  <1> USE DEF written, remote, loads, feed
  <1>1. CASE UNCHANGED <<everyBook, idToBook, overlapped>>
    BY <1>1 DEF RowsDistinct
  <1>2. CASE GetCallback
    <2> SUFFICES ASSUME ~overlapped' PROVE RowsDistinct'
      BY DEF RowsDistinct
    <2>1. overlapped' = overlapped
      BY <1>2 DEF GetCallback
    <2>2. CASE Head(answers).ok
      <3>1. asked \in Nat /\ Len(answers) \in Nat \ {0}
        BY <1>2, CallbackAnswers DEF TypeOK
      <3>2. everyBook = <<>>
        BY <2>1, <3>1 DEF LoadsAlone, UnderWay
      <3> QED
        BY <1>2, <2>2, <3>2, OneLoadIsDistinct DEF RowsDistinct
    <2>3. CASE ~Head(answers).ok
      BY <1>1, <1>2, <2>1, <2>3 DEF GetCallback
    <2> QED
      BY <2>2, <2>3
  <1>3. ASSUME everyBook' = <<>>
        PROVE  RowsDistinct'
    <2> DEFINE none == [i \in {} |-> CHOOSE d \in DocIDs : TRUE]
    <2>1. DOMAIN everyBook' = {}
      BY <1>3
    <2>2. none \in [DOMAIN everyBook' -> DocIDs]
      BY <2>1
    <2> QED
      BY <2>1, <2>2 DEF RowsDistinct
  <1>4. CASE Refresh \/ Trap
    BY <1>3, <1>4 DEF Refresh, ClearFeed, Trap
  <1>5. CASE \/ Environment \/ AnswerFromServer \/ AnswerFromCache \/ AnswerError
             \/ SearchAll \/ (\E q \in Queries : Search(q))
             \/ (\E r \in DOMAIN shown : Select(r)) \/ Back \/ Relaunch \/ UNCHANGED vars
    BY <1>1, <1>5 DEF Environment, AnswerFromServer, AnswerFromCache, AnswerError,
                      Answer, SearchAll, Search, Select, Back, Relaunch, vars
  <1> QED
    BY <1>2, <1>4, <1>5 DEF Next, User

(* Lineage is kept by every step: the client's copies are taken from the   *)
(* store or from one another, and == looks at the seller.                  *)
LEMMA LineageNext ==
    TypeOK /\ ImagesPaired /\ Lineage /\ [Next]_vars => Lineage'
PROOF
  <1> SUFFICES ASSUME TypeOK, ImagesPaired, Lineage, [Next]_vars PROVE Lineage'
    OBVIOUS
  <1> USE DEF written, remote, loads, feed
  <1>1. CASE UNCHANGED <<written, cache, answers, idToBook, detail>>
    BY <1>1 DEF Lineage, Descends
  <1>2. CASE Environment
    <2>1. /\ UNCHANGED <<cache, answers, idToBook, detail>>
          /\ WritePosting /\ PostingsTypeOK
      BY <1>2, WriteKeepsTypes DEF Environment, TypeOK
    <2>2. \A d \in DocIDs : cache'[d] \in Books => Descends(cache[d], d)'
      BY <2>1, WriteKeepsDescent DEF Lineage
    <2>3. \A i \in DOMAIN answers', d \in DocIDs :
              answers'[i].docs[d] \in Books => Descends(answers[i].docs[d], d)'
      BY <2>1, WriteKeepsDescent DEF Lineage
    <2>4. \A d \in DocIDs : idToBook'[d] # NoBook => Descends(idToBook[d], d)'
      BY <2>1, WriteKeepsDescent DEF Lineage
    <2>5. (detail' # NoDetail /\ detail'.refString # NoRef) =>
              Descends(detail.book, detail.refString)'
      <3>1. detail # NoDetail /\ detail.refString # NoRef => detail.refString \in DocIDs
        BY DEF TypeOK, Details, Refs
      <3> QED
        BY <2>1, <3>1, WriteKeepsDescent DEF Lineage
    <2> QED
      BY <2>1, <2>2, <2>3, <2>4, <2>5 DEF Lineage
  <1>3. ASSUME NEW ok \in BOOLEAN, NEW docs \in {postings, cache}, Answer(ok, docs),
               cache' \in {postings, cache}
        PROVE  Lineage'
    <2>1. docs \in [DocIDs -> Documents]
      BY DEF PostingsTypeOK, TypeOK
    <2>2. UNCHANGED <<written, idToBook, detail>>
      BY <1>3 DEF Answer
    <2>3. \A d \in DocIDs : postings[d] \in Books => Descends(postings[d], d)
      BY ListingDescends DEF TypeOK
    <2>4. \A d \in DocIDs : cache'[d] \in Books => Descends(cache'[d], d)
      BY <1>3, <2>2, <2>3 DEF Lineage
    <2>5. \A d \in DocIDs : docs[d] \in Books => Descends(docs[d], d)
      BY <1>3, <2>2, <2>3 DEF Lineage
    <2>6. ASSUME NEW i \in DOMAIN answers', NEW d \in DocIDs, answers'[i].docs[d] \in Books
          PROVE  Descends(answers'[i].docs[d], d)
      <3>1. \/ i \in DOMAIN answers /\ answers'[i] = answers[i]
            \/ answers'[i].docs = docs
        BY <1>3, <2>1, AnswerAnswers
      <3> QED
        BY <2>2, <2>5, <2>6, <3>1 DEF Lineage
    <2> QED
      BY <2>2, <2>4, <2>6 DEF Lineage, Descends
  <1>4. CASE GetCallback
    <2>1. UNCHANGED <<written, cache, detail>>
      BY <1>4 DEF GetCallback
    <2>2. \A i \in DOMAIN answers', d \in DocIDs :
              answers'[i].docs[d] \in Books => Descends(answers'[i].docs[d], d)
      BY <1>4, <2>1, CallbackAnswers DEF Lineage
    <2>3. ASSUME NEW d \in DocIDs, idToBook'[d] # NoBook
          PROVE  Descends(idToBook'[d], d)
      <3>1. \/ idToBook'[d] = idToBook[d]
            \/ /\ Head(answers).docs[d] \in Books
               /\ idToBook'[d] = Head(answers).docs[d]
        BY <1>4 DEF GetCallback, Register, Decodable
      <3>2. Head(answers) = answers[1] /\ 1 \in DOMAIN answers
        BY <1>4, CallbackAnswers
      <3> QED
        BY <2>1, <2>3, <3>1, <3>2 DEF Lineage
    <2> QED
      BY <2>1, <2>2, <2>3 DEF Lineage, Descends
  <1>5. ASSUME NEW r \in DOMAIN shown, Select(r)
        PROVE  Lineage'
    <2>1. UNCHANGED <<written, cache, answers, idToBook>>
      BY <1>5 DEF Select
    <2>2. ASSUME detail'.refString # NoRef
          PROVE  Descends(detail'.book, detail'.refString)
      <3>1. /\ detail'.refString \in DocIDs
            /\ idToBook[detail'.refString] # NoBook
            /\ BookEq(idToBook[detail'.refString], detail'.book)
        BY <1>5, <2>2, SelectDetail
      <3>2. Descends(idToBook[detail'.refString], detail'.refString)
        BY <3>1 DEF Lineage
      <3> QED
        BY <3>1, <3>2 DEF BookEq, Descends, SameListing
    <2> QED
      BY <2>1, <2>2 DEF Lineage, Descends
  <1>6. CASE Back
    BY <1>6 DEF Back, Lineage, Descends
  <1>7. CASE Trap
    <2>1. UNCHANGED <<written, cache>> /\ answers' = <<>> /\ detail' = NoDetail
      BY <1>7 DEF Trap
    <2>2. \A d \in DocIDs : idToBook'[d] = NoBook
      BY <1>7 DEF Trap, NoEntries
    <2> QED
      BY <2>1, <2>2 DEF Lineage, Descends
  <1>8. CASE SearchAll \/ (\E q \in Queries : Search(q)) \/ Refresh \/ Relaunch
             \/ UNCHANGED vars
    BY <1>1, <1>8 DEF SearchAll, Search, Refresh, ClearFeed, Relaunch, vars
  <1>9. CASE AnswerFromServer \/ AnswerFromCache \/ AnswerError
    BY <1>3, <1>9 DEF AnswerFromServer, AnswerFromCache, AnswerError
  <1> QED
    BY <1>2, <1>4, <1>5, <1>6, <1>7, <1>8, <1>9 DEF Next, User

(* ViewedWereWritten is kept by every step: the ID of a row comes from a   *)
(* load, and a document once written is never unwritten.                   *)
LEMMA ViewedNext ==
    TypeOK /\ ImagesPaired /\ Lineage /\ ViewedWereWritten /\ [Next]_vars
        => ViewedWereWritten'
PROOF
  <1> SUFFICES ASSUME TypeOK, ImagesPaired, Lineage, ViewedWereWritten, [Next]_vars
               PROVE  ViewedWereWritten'
    OBVIOUS
  <1> USE SpecialValuesAssumption DEF written, remote, loads, feed
  <1>1. CASE UNCHANGED <<written, recentlyViewed>>
    BY <1>1 DEF ViewedWereWritten
  <1>2. CASE Environment
    <2>1. \A d \in DocIDs : postings[d] # Unborn => postings'[d] # Unborn
      BY <1>2, WriteKeepsTypes DEF Environment, TypeOK
    <2> QED
      BY <1>2, <2>1 DEF Environment, ViewedWereWritten, TypeOK, Refs
  <1>3. ASSUME NEW r \in DOMAIN shown, Select(r)
        PROVE  ViewedWereWritten'
    <2>1. recentlyViewed' = recentlyViewed \cup {detail'.refString} /\ postings' = postings
      BY <1>3, SelectDetail DEF Select
    <2>2. ASSUME detail'.refString # NoRef
          PROVE  postings[detail'.refString] # Unborn
      <3>1. detail'.refString \in DocIDs /\ idToBook[detail'.refString] # NoBook
        BY <1>3, <2>2, SelectDetail
      <3> QED
        BY <3>1 DEF Lineage, Descends
    <2> QED
      BY <2>1, <2>2 DEF ViewedWereWritten
  <1>4. CASE \/ AnswerFromServer \/ AnswerFromCache \/ AnswerError \/ GetCallback
             \/ SearchAll \/ (\E q \in Queries : Search(q)) \/ Refresh \/ Back
             \/ Trap \/ Relaunch \/ UNCHANGED vars
    BY <1>1, <1>4 DEF AnswerFromServer, AnswerFromCache, AnswerError, Answer,
                      GetCallback, SearchAll, Search, Refresh, Back, Trap, Relaunch, vars
  <1> QED
    BY <1>2, <1>3, <1>4 DEF Next, User
-------------------------------------------------------------------------------
(* The inductive invariant. ImagesPaired is what makes the picture handed  *)
(* to a screen one of the pictures; LoadsAlone is why RowsDistinct lasts;  *)
(* Lineage is what RefOwner rests on.                                      *)
IInv ==
    /\ TypeOK
    /\ ImagesPaired
    /\ TableInSync
    /\ LoadsAlone
    /\ RowsDistinct
    /\ Lineage
    /\ ViewedWereWritten

LEMMA IInvInit == Init => IInv
PROOF
  <1> SUFFICES ASSUME Init PROVE IInv
    OBVIOUS
  <1>1. TypeOK
    BY TypeInit
  <1>2. ImagesPaired
    BY DEF Init, ImagesPaired, PicturesOf
  <1>3. UnderWay = 1
    BY DEF Init, UnderWay
  <1>4. TableInSync /\ LoadsAlone
    BY <1>3 DEF Init, TableInSync, LoadsAlone
  <1>5. RowsDistinct
    <2> DEFINE none == [i \in {} |-> CHOOSE d \in DocIDs : TRUE]
    <2>1. DOMAIN everyBook = {}
      BY DEF Init
    <2>2. none \in [DOMAIN everyBook -> DocIDs]
      BY <2>1
    <2> QED
      BY <2>1, <2>2 DEF RowsDistinct
  <1>6. Lineage
    <2>1. \A d \in DocIDs : cache[d] \notin Books /\ idToBook[d] = NoBook
      BY SpecialValuesAssumption DEF Init, PostingsInit, WrittenInit, NoEntries
    <2> QED
      BY <2>1 DEF Init, Lineage
  <1>7. ViewedWereWritten
    BY DEF Init, ViewedWereWritten
  <1> QED
    BY <1>1, <1>2, <1>4, <1>5, <1>6, <1>7 DEF IInv

LEMMA IInvNext == IInv /\ [Next]_vars => IInv'
PROOF
  BY TypeNext, PairedNext, SyncNext, AloneNext, DistinctNext, LineageNext, ViewedNext
     DEF IInv

(* Every reachable state satisfies the inductive invariant.                *)
THEOREM Invariance == Spec => []IInv
PROOF
  BY IInvInit, IInvNext, PTL DEF Spec

(* The variables keep their types: in particular the picture handed to a   *)
(* BrowseDetails screen exists, imageCache never being the shorter array.  *)
THEOREM TypeCorrect == Spec => []TypeOK
PROOF
  <1>1. IInv => TypeOK
    BY DEF IInv
  <1> QED
    BY <1>1, Invariance, PTL

(* Every picture is that of the book at its index, in both pairs of arrays *)
(* that loads, searches and refreshes write separately.                    *)
THEOREM PicturesStayPaired == Spec => []ImagesPaired
PROOF
  <1>1. IInv => ImagesPaired
    BY DEF IInv
  <1> QED
    BY <1>1, Invariance, PTL

(* The table shows the results or waits for a load that will fill it.      *)
THEOREM TableStaysInSync == Spec => []TableInSync
PROOF
  <1>1. IInv => TableInSync
    BY DEF IInv
  <1> QED
    BY <1>1, Invariance, PTL

(* A feed filled by loads that do not overlap shows no listing twice.      *)
THEOREM NoListingTwice == Spec => []RowsDistinct
PROOF
  <1>1. IInv => RowsDistinct
    BY DEF IInv
  <1> QED
    BY <1>1, Invariance, PTL

(* Every row of such a feed opens a screen with the ID of a document.      *)
THEOREM EveryRowHasAnID == Spec => []RowsResolve
PROOF
  <1>1. IInv => RowsResolve
    <2> SUFFICES ASSUME IInv, ~overlapped, NEW r \in DOMAIN bookResults
                 PROVE  NoRef \notin RefsOf(bookResults[r])
      BY DEF RowsResolve
    <2>1. PICK i \in DOMAIN everyBook : bookResults[r] = everyBook[i]
      BY DEF IInv, LoadsAlone
    <2>2. PICK id \in [DOMAIN everyBook -> DocIDs] :
              \A k \in DOMAIN everyBook : idToBook[id[k]] = everyBook[k]
      BY DEF IInv, RowsDistinct
    <2>3. everyBook[i] \in Books
      BY <2>1, LenProperties DEF IInv, TypeOK
    <2>4. /\ id[i] \in DocIDs
          /\ idToBook[id[i]] # NoBook
          /\ BookEq(idToBook[id[i]], bookResults[r])
      BY <2>1, <2>2, <2>3, SpecialValuesAssumption DEF BookEq
    <2> QED
      BY <2>4, SpecialValuesAssumption DEF RefsOf
  <1> QED
    BY <1>1, Invariance, PTL

(* The screen that offers to edit or delete a listing never holds the ID   *)
(* of another user's listing, whatever was edited, deleted, searched or    *)
(* loaded twice in the meantime.                                           *)
THEOREM RefOwnership == Spec => []RefOwner
PROOF
  <1>1. IInv => RefOwner
    BY SpecialValuesAssumption DEF IInv, Lineage, Descends, SameListing, RefOwner
  <1> QED
    BY <1>1, Invariance, PTL

(* Every ID the device adds to RecentlyViewed is that of a written listing *)
(* or empty.                                                               *)
THEOREM OnlyWrittenAreViewed == Spec => []ViewedWereWritten
PROOF
  <1>1. IInv => ViewedWereWritten
    BY DEF IInv
  <1> QED
    BY <1>1, Invariance, PTL

(* No copy the device keeps, cached, in an answer, in idToBook or on the   *)
(* screen, is ever of a document that has, or that comes back with, another*)
(* title or seller.                                                        *)
THEOREM CopiesKeepTheirListing == Spec => []Lineage
PROOF
  <1>1. IInv => Lineage
    BY DEF IInv
  <1> QED
    BY <1>1, Invariance, PTL
-------------------------------------------------------------------------------
(* CopiesWereWritten is kept by every step.                                *)
LEMMA CopiesNext ==
    TypeOK /\ CopiesWereWritten /\ Next /\ Remember => CopiesWereWritten'
PROOF
  <1> SUFFICES ASSUME TypeOK, CopiesWereWritten, Next, Remember
               PROVE  CopiesWereWritten'
    OBVIOUS
  <1> USE SpecialValuesAssumption DEF written, remote, loads, feed
  <1>1. PostingsTypeOK /\ HeldWasWritten
    BY DEF TypeOK, CopiesWereWritten
  <1>2. ASSUME WritePosting \/ (UNCHANGED postings /\ cache' \in {postings, cache}),
               UNCHANGED <<answers, everyBook, idToBook>>
        PROVE  CopiesWereWritten'
    <2>1. HeldWasWritten'
      BY <1>1, <1>2, HeldStays DEF HeldWasWritten
    <2> QED
      BY <1>1, <1>2, <2>1, VersionsGrow DEF CopiesWereWritten
  <1>3. ASSUME NEW ok \in BOOLEAN, NEW docs \in {postings, cache}, Answer(ok, docs),
               cache' \in {postings, cache}
        PROVE  CopiesWereWritten'
    <2>1. docs \in [DocIDs -> Documents]
      BY DEF PostingsTypeOK, TypeOK
    <2>2. UNCHANGED <<written, everyBook, idToBook>>
      BY <1>3 DEF Answer
    <2>3. HeldWasWritten'
      BY <1>1, <1>3, <2>2, HeldStays DEF HeldWasWritten
    <2>4. \A d \in DocIDs : docs[d] \in Books => docs[d] \in versions[d]
      BY <1>1, <1>3 DEF HeldWasWritten
    <2>5. ASSUME NEW i \in DOMAIN answers', NEW d \in DocIDs, answers'[i].docs[d] \in Books
          PROVE  answers'[i].docs[d] \in versions[d]
      <3>1. \/ i \in DOMAIN answers /\ answers'[i] = answers[i]
            \/ answers'[i].docs = docs
        BY <1>3, <2>1, AnswerAnswers
      <3> QED
        BY <2>4, <2>5, <3>1 DEF CopiesWereWritten
    <2> QED
      BY <1>1, <2>2, <2>3, <2>5, VersionsGrow DEF CopiesWereWritten
  <1>4. CASE GetCallback
    <2>1. UNCHANGED <<written, cache>> /\ UNCHANGED versions
      BY <1>1, <1>4, VersionsGrow DEF GetCallback
    <2>2. \A i \in DOMAIN answers', d \in DocIDs :
              answers'[i].docs[d] \in Books => answers'[i].docs[d] \in versions[d]
      BY <1>4, CallbackAnswers DEF CopiesWereWritten
    <2>3. \A d \in DocIDs : Head(answers).docs[d] \in Books =>
                                Head(answers).docs[d] \in versions[d]
      BY <1>4, CallbackAnswers DEF CopiesWereWritten
    <2>4. \A d \in DocIDs : idToBook'[d] \in Books => idToBook'[d] \in versions[d]
      BY <1>1, <1>4, <2>3 DEF GetCallback, Register, Decodable, HeldWasWritten
    <2>5. ASSUME NEW i \in DOMAIN everyBook'
          PROVE  \E d \in DocIDs : everyBook'[i] \in versions[d]
      BY <1>4, <2>3, CallbackRows DEF CopiesWereWritten
    <2> QED
      BY <1>1, <2>1, <2>2, <2>4, <2>5, HeldStays DEF CopiesWereWritten
  <1>5. CASE Refresh
    BY <1>1, <1>5, VersionsGrow DEF Refresh, ClearFeed, CopiesWereWritten, HeldWasWritten
  <1>6. CASE Trap
    BY <1>1, <1>6, VersionsGrow DEF Trap, NoEntries, CopiesWereWritten, HeldWasWritten
  <1>7. CASE \/ Environment \/ SearchAll \/ (\E q \in Queries : Search(q))
             \/ (\E r \in DOMAIN shown : Select(r)) \/ Back \/ Relaunch
    <2>1. UNCHANGED <<answers, everyBook, idToBook>>
      BY <1>7 DEF Environment, SearchAll, Search, Select, Back, Relaunch
    <2>2. WritePosting \/ UNCHANGED <<postings, cache>>
      BY <1>7 DEF Environment, SearchAll, Search, Select, Back, Relaunch
    <2> QED
      BY <1>2, <2>1, <2>2
  <1>8. CASE AnswerFromServer \/ AnswerFromCache \/ AnswerError
    BY <1>3, <1>8 DEF AnswerFromServer, AnswerFromCache, AnswerError
  <1> QED
    BY <1>4, <1>5, <1>6, <1>7, <1>8 DEF Next, User

LEMMA CopiesInit == Init /\ VersionsInit => CopiesWereWritten
PROOF
  BY SpecialValuesAssumption
     DEF Init, PostingsInit, WrittenInit, VersionsInit, NoEntries, CopiesWereWritten,
         HeldWasWritten

(* Each step of the tab is one the contract allows.                        *)
LEMMA StepAllowed ==
    ASSUME IInv, CopiesWereWritten, Next, Remember, OnScreen' # OnScreen
    PROVE  Screen!Open(reader) \/ Screen!Back(reader)
PROOF
  <1> USE DEF written, remote, loads, feed
  <1>1. TypeOK /\ ImagesPaired /\ HeldWasWritten
    BY DEF IInv, CopiesWereWritten
  <1>2. detail' # detail
    BY DEF OnScreen
  <1>3. CASE Back \/ Trap
    <2>1. detail' = NoDetail /\ UNCHANGED <<postings, versions>>
      BY <1>1, <1>3, VersionsGrow DEF Back, Trap
    <2> QED
      BY <2>1, BackAllows
  <1>4. ASSUME NEW r \in DOMAIN shown, Select(r)
        PROVE  Screen!Open(reader)
    <2>1. /\ detail = NoDetail /\ detail' # NoDetail
          /\ UNCHANGED <<postings, versions>>
      BY <1>1, <1>2, <1>4, VersionsGrow DEF Select, Browsing
    <2>2. /\ r \in DOMAIN bookResults
          /\ detail'.book = bookResults[r]
      BY <1>4 DEF Select
    <2>3. PICK i \in DOMAIN everyBook : bookResults[r] = everyBook[i]
      BY <2>2 DEF IInv, LoadsAlone
    <2>4. PICK d \in DocIDs : detail'.book \in versions[d]
      BY <2>2, <2>3 DEF CopiesWereWritten
    <2>5. \/ detail'.refString = NoRef
          \/ /\ detail'.refString \in DocIDs
             /\ idToBook[detail'.refString] \in Books
             /\ BookEq(idToBook[detail'.refString], detail'.book)
      BY <1>1, <1>4, SelectDetail DEF TypeOK
    <2> QED
      BY <1>1, <2>1, <2>4, <2>5, OpenAllows
  <1>5. \/ Back \/ Trap \/ (\E r \in DOMAIN shown : Select(r)) \/ UNCHANGED detail
    BY DEF Next, User, Environment, AnswerFromServer, AnswerFromCache, AnswerError, Answer,
           GetCallback, SearchAll, Search, Refresh, Relaunch
  <1> QED
    BY <1>2, <1>3, <1>4, <1>5

(* The search tab keeps the promise that BrowseDetails, and so Market, is  *)
(* built on: whatever was loaded twice, searched, edited, deleted or posted*)
(* again meanwhile, a tap in prepare(for:sender:) opens a screen on a book *)
(* that some listing once was, and hands it no ID but that of a listing    *)
(* that was once == to the book.                                           *)
THEOREM TapsKeepTheContract == RememberingSpec => OpensAsPromised
PROOF
  <1>1. Init /\ VersionsInit => IInv /\ CopiesWereWritten
    BY IInvInit, CopiesInit
  <1>2. IInv /\ CopiesWereWritten /\ [Next /\ Remember]_<<vars, versions>>
            => (IInv /\ CopiesWereWritten)'
    <2>1. CASE Next /\ Remember
      BY <2>1, IInvNext, CopiesNext DEF IInv
    <2>2. CASE UNCHANGED <<vars, versions>>
      <3>1. UNCHANGED vars
        BY <2>2
      <3>2. IInv => IInv'
        BY <3>1, IInvNext
      <3>3. CopiesWereWritten => CopiesWereWritten'
        BY <2>2 DEF vars, remote, written, loads, feed, CopiesWereWritten, HeldWasWritten
      <3> QED
        BY <3>2, <3>3
    <2> QED
      BY <2>1, <2>2
  <1>3. IInv /\ CopiesWereWritten /\ [Next /\ Remember]_<<vars, versions>>
            => [Screen!Open(reader) \/ Screen!Back(reader)]_OnScreen
    <2>1. UNCHANGED <<vars, versions>> => UNCHANGED OnScreen
      BY DEF vars, OnScreen
    <2> QED
      BY <2>1, StepAllowed
  <1> QED
    BY <1>1, <1>2, <1>3, PTL DEF RememberingSpec, OpensAsPromised
===============================================================================
