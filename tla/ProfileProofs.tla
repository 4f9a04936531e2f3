----------------------------- MODULE ProfileProofs -----------------------------
(***************************************************************************)
(* Proofs about the profile tab, for every set of books, documents and     *)
(* names and every bound on the loads under way and the pictures kept.     *)
(***************************************************************************)
EXTENDS ProfileHandover, PostingsProofs

USE DEF OpeningTypeOK, NoEntries

(* Every copy of a listing on the device is one a document was written     *)
(* with, that document still being of its title and seller or gone; and    *)
(* the ID handed to BrowseDetails is that of a listing of the user.        *)
CopiesDescend ==
    /\ \A d \in DocIDs : cache[d] \in Books => Descends(cache[d], d)
    /\ \A i \in DOMAIN answers, d \in DocIDs :
          answers[i].docs[d] \in Books => Descends(answers[i].docs[d], d)
    /\ \A d \in DocIDs : idToBook[d] # NoBook => Descends(idToBook[d], d)
    /\ (detail # NoDetail /\ detail.refString # NoRef) =>
          /\ detail.book.seller = username
          /\ Descends(detail.book, detail.refString)

RowsAreMine == \A r \in DOMAIN myPosts : myPosts[r].seller = username

(* Unless a visit met a load, there is at most one, and it will fill an    *)
(* empty collection.                                                       *)
LoadAlone ==
    ~overlapped => /\ UnderWay =< 1
                   /\ UnderWay = 1 => myPosts = <<>>
-------------------------------------------------------------------------------
(* The documents a load takes are finitely many.                           *)
LEMMA MineFinite ==
    ASSUME NEW docs
    PROVE  /\ Mine(docs) \subseteq DocIDs
           /\ Mine(docs) \subseteq Nat /\ IsFiniteSet(Mine(docs))
           /\ \A d \in Mine(docs) : docs[d] \in Books /\ docs[d].seller = username
PROOF
  <1>1. Mine(docs) \subseteq Decodable(docs)
    BY DEF Mine
  <1>2. Decodable(docs) \subseteq DocIDs /\ IsFiniteSet(Decodable(docs))
    BY DecodableFinite
  <1>3. IsFiniteSet(Mine(docs))
    BY <1>1, <1>2, FS_Subset
  <1> QED
    BY <1>1, <1>2, <1>3, DocIDsAssumption DEF Mine, Decodable

(* What it adds to the collection: one book for each of them.              *)
LEMMA BooksOfMine ==
    ASSUME NEW docs, NEW ids \in InOrder(Mine(docs))
    PROVE  /\ BooksOf(docs, ids) \in Seq(Books)
           /\ \A i \in DOMAIN BooksOf(docs, ids) :
                 ids[i] \in Mine(docs) /\ BooksOf(docs, ids)[i] = docs[ids[i]]
           /\ \A i, j \in DOMAIN BooksOf(docs, ids) : i # j => ids[i] # ids[j]
           /\ ids \in [DOMAIN BooksOf(docs, ids) -> DocIDs]
PROOF
  <1> DEFINE S == Mine(docs)
             n == Cardinality(S)
  <1>1. /\ n \in Nat /\ ids \in [1 .. n -> S]
        /\ \A i, j \in 1 .. n : i # j => ids[i] # ids[j]
    BY MineFinite, InOrderFacts
  <1>2. \A i \in 1 .. n : ids[i] \in S /\ ids[i] \in DocIDs /\ docs[ids[i]] \in Books
    BY <1>1, MineFinite
  <1>3. BooksOf(docs, ids) = [i \in 1 .. n |-> docs[ids[i]]]
    BY <1>1 DEF BooksOf
  <1>4. BooksOf(docs, ids) \in [1 .. n -> Books]
    BY <1>2, <1>3
  <1>5. BooksOf(docs, ids) \in Seq(Books)
    BY <1>1, <1>4, FunctionIsSeq
  <1> HIDE DEF S, n
  <1>6. ids \in [1 .. n -> DocIDs] /\ DOMAIN BooksOf(docs, ids) = 1 .. n
    BY <1>1, <1>2, <1>4
  <1> QED
    BY <1>1, <1>2, <1>3, <1>5, <1>6 DEF S

(* What the callback does to the collection, and from what.                *)
LEMMA CallbackCells ==
    ASSUME ListingsTypeOK, ListingsCallback
    PROVE  /\ myPosts' \in Seq(Books) /\ imageCache' \in Seq(Pictures)
           /\ Len(myPosts) =< Len(imageCache) => Len(myPosts') =< Len(imageCache')
           /\ shown' = myPosts'
           /\ RowsAreMine => RowsAreMine'
           /\ idToBook' \in [DocIDs -> Books \cup {NoBook}]
           /\ \A d \in DocIDs : \/ idToBook'[d] = idToBook[d]
                                \/ /\ answers[1].docs[d] \in Books
                                   /\ idToBook'[d] = answers[1].docs[d]
PROOF
  <1>1. /\ myPosts \in Seq(Books) /\ imageCache \in Seq(Pictures)
        /\ idToBook \in [DocIDs -> Books \cup {NoBook}]
    BY DEF ListingsTypeOK
  <1>2. answers \in Seq(Answers) /\ answers # <<>> /\ Head(answers) = answers[1]
    BY TailOfQueue DEF ListingsTypeOK, ListingsCallback
  <1>3. shown' = myPosts'
    BY DEF ListingsCallback, ReloadData
  <1>4. CASE Head(answers).ok
    <2> DEFINE docs == answers[1].docs
    <2>1. PICK ids \in InOrder(Mine(docs)) :
              /\ myPosts' = myPosts \o BooksOf(docs, ids)
              /\ imageCache' = imageCache \o PicturesOf(BooksOf(docs, ids))
              /\ idToBook' = [d \in DocIDs |->
                                 IF d \in Mine(docs) THEN docs[d] ELSE idToBook[d]]
      BY <1>2, <1>4 DEF ListingsCallback
    <2> DEFINE new == BooksOf(docs, ids)
    <2>2. /\ new \in Seq(Books)
          /\ \A i \in DOMAIN new : new[i].seller = username
      BY BooksOfMine, MineFinite
    <2>3. PicturesOf(new) \in Seq(Pictures) /\ Len(PicturesOf(new)) = Len(new)
      BY <2>2, PicturesOfSeq
    <2>4. myPosts' = myPosts \o new /\ imageCache' = imageCache \o PicturesOf(new)
      BY <2>1
    <2>5. /\ idToBook' \in [DocIDs -> Books \cup {NoBook}]
          /\ \A d \in DocIDs : \/ idToBook'[d] = idToBook[d]
                               \/ docs[d] \in Books /\ idToBook'[d] = docs[d]
      <3>1. \A d \in Mine(docs) : docs[d] \in Books
        BY MineFinite
      <3> HIDE DEF docs
      <3> QED
        BY <1>1, <2>1, <3>1
    <2> HIDE DEF new
    <2>6. /\ myPosts' \in Seq(Books) /\ imageCache' \in Seq(Pictures)
          /\ Len(myPosts') = Len(myPosts) + Len(new)
          /\ Len(imageCache') = Len(imageCache) + Len(PicturesOf(new))
          /\ \A i \in 1 .. Len(myPosts) + Len(new) :
                myPosts'[i] = IF i <= Len(myPosts) THEN myPosts[i]
                              ELSE new[i - Len(myPosts)]
      BY <1>1, <2>2, <2>3, <2>4, ConcatProperties
    <2>7. /\ Len(myPosts) \in Nat /\ DOMAIN myPosts = 1 .. Len(myPosts)
          /\ Len(new) \in Nat /\ DOMAIN new = 1 .. Len(new)
          /\ Len(imageCache) \in Nat
          /\ DOMAIN myPosts' = 1 .. Len(myPosts) + Len(new)
      BY <1>1, <2>2, <2>6, LenProperties
    <2>8. ASSUME RowsAreMine, NEW r \in DOMAIN myPosts'
          PROVE  myPosts'[r].seller = username
      <3>1. CASE r <= Len(myPosts)
        BY <2>6, <2>7, <2>8, <3>1 DEF RowsAreMine
      <3>2. CASE ~(r <= Len(myPosts))
        <4>1. r - Len(myPosts) \in DOMAIN new
          BY <2>7, <3>2
        <4>2. myPosts'[r] = new[r - Len(myPosts)]
          BY <2>6, <2>7, <3>2
        <4> QED
          BY <2>2, <4>1, <4>2 DEF new
      <3> QED
        BY <3>1, <3>2
    <2>9. RowsAreMine => RowsAreMine'
      BY <2>8 DEF RowsAreMine
    <2> QED
      BY <1>3, <2>3, <2>5, <2>6, <2>7, <2>9
  <1>5. CASE ~Head(answers).ok
    <2>1. UNCHANGED <<myPosts, imageCache, idToBook>>
      BY <1>5 DEF ListingsCallback
    <2> QED
      BY <1>1, <1>3, <2>1 DEF RowsAreMine
  <1> QED
    BY <1>4, <1>5

(* A load into an empty collection gives each cell the ID it was decoded   *)
(* under.                                                                  *)
LEMMA OneLoadIsDistinct ==
    ASSUME ListingsTypeOK, ListingsCallback, myPosts = <<>>
    PROVE  \E id \in [DOMAIN myPosts' -> DocIDs] :
              /\ \A i, j \in DOMAIN myPosts' : i # j => id[i] # id[j]
              /\ \A i \in DOMAIN myPosts' : idToBook'[id[i]] = myPosts'[i]
PROOF
  <1> DEFINE docs == Head(answers).docs
  <1>1. CASE Head(answers).ok
    <2>1. PICK ids \in InOrder(Mine(docs)) :
              /\ myPosts' = myPosts \o BooksOf(docs, ids)
              /\ idToBook' = [d \in DocIDs |->
                                 IF d \in Mine(docs) THEN docs[d] ELSE idToBook[d]]
      BY <1>1 DEF ListingsCallback
    <2>2. /\ BooksOf(docs, ids) \in Seq(Books)
          /\ \A i \in DOMAIN BooksOf(docs, ids) :
                ids[i] \in Mine(docs) /\ BooksOf(docs, ids)[i] = docs[ids[i]]
          /\ \A i, j \in DOMAIN BooksOf(docs, ids) : i # j => ids[i] # ids[j]
          /\ ids \in [DOMAIN BooksOf(docs, ids) -> DocIDs]
      BY BooksOfMine
    <2>3. myPosts' = BooksOf(docs, ids)
      BY <2>1, <2>2, ConcatEmptySeq
    <2> HIDE DEF docs
    <2>4. \A i \in DOMAIN myPosts' : idToBook'[ids[i]] = myPosts'[i]
      BY <2>1, <2>2, <2>3
    <2> QED
      BY <2>2, <2>3, <2>4
  <1>2. CASE ~Head(answers).ok
    <2>1. myPosts' = <<>>
      BY <1>2 DEF ListingsCallback
    <2> DEFINE none == [i \in {} |-> CHOOSE d \in DocIDs : TRUE]
    <2>2. DOMAIN myPosts' = {}
      BY <2>1
    <2>3. none \in [DOMAIN myPosts' -> DocIDs]
      BY <2>2
    <2> QED
      BY <2>2, <2>3
  <1> QED
    BY <1>1, <1>2

(* The screen a cell opens carries a listing of the collection, and an ID  *)
(* whose entry is equal to it in the sense of ==, or the empty ID.         *)
LEMMA OpenDetail ==
    ASSUME ListingsTypeOK, shown = myPosts, NEW r, OpenListing(r)
    PROVE  /\ detail' \in Details
           /\ \E i \in DOMAIN myPosts : detail'.book = myPosts[i]
           /\ \/ detail'.refString = NoRef
              \/ /\ detail'.refString \in DocIDs
                 /\ idToBook[detail'.refString] # NoBook
                 /\ BookEq(idToBook[detail'.refString], detail'.book)
PROOF
  <1>1. r \in DOMAIN myPosts
    BY DEF OpenListing
  <1>2. PICK ref \in RefsOf(myPosts[r]) :
            detail' = [book |-> myPosts[r], image |-> myPosts[r].picture, refString |-> ref]
    BY DEF OpenListing
  <1>3. myPosts[r] \in Books
    BY <1>1, LenProperties, ElementOfSeq DEF ListingsTypeOK
  <1>4. \/ ref = NoRef
        \/ ref \in DocIDs /\ idToBook[ref] # NoBook /\ BookEq(idToBook[ref], myPosts[r])
    BY <1>2 DEF RefsOf
  <1>5. ref \in Refs /\ myPosts[r].picture \in Pictures
    BY <1>3, <1>4 DEF Refs, Pictures
  <1> QED
    BY <1>1, <1>2, <1>3, <1>4, <1>5 DEF Details
-------------------------------------------------------------------------------
(* The steps of the collection, of the name and of neither keep the types. *)
LEMMA ListingsTypeNext ==
    ASSUME ListingsTypeOK, shown = myPosts
    PROVE  /\ OthersWrite => ListingsTypeOK'
           /\ AskForListings /\ detail' = NoDetail => ListingsTypeOK'
           /\ AnswerListings \/ ListingsCallback => ListingsTypeOK'
           /\ \A r : OpenListing(r) => ListingsTypeOK'
           /\ LoseListings => ListingsTypeOK'
           /\ UNCHANGED listingVars => ListingsTypeOK'
PROOF
  <1> USE DEF written
  <1>0. <<>> \in Seq(Books) /\ <<>> \in Seq(Pictures) /\ <<>> \in Seq(Answers)
    BY EmptySeq
  <1>1. ASSUME OthersWrite PROVE ListingsTypeOK'
    <2>1. PostingsTypeOK'
      BY <1>1, WriteKeepsTypes DEF OthersWrite, ListingsTypeOK
    <2> QED
      BY <1>1, <2>1 DEF OthersWrite, ListingsTypeOK
  <1>2. ASSUME AskForListings, detail' = NoDetail PROVE ListingsTypeOK'
    <2>1. overlapped' \in BOOLEAN /\ asked' \in Nat
      BY <1>2 DEF AskForListings, ListingsTypeOK
    <2>2. idToBook' \in [DocIDs -> Books \cup {NoBook}]
      BY <1>2 DEF AskForListings, ClearAndReload
    <2> QED
      BY <1>0, <1>2, <2>1, <2>2 DEF AskForListings, ClearAndReload, ReloadData, ListingsTypeOK,
                                    PostingsTypeOK
  <1>3. ASSUME AnswerListings PROVE ListingsTypeOK'
    <2>1. PICK a \in [ok : {TRUE}, docs : {postings, cache}]
                       \cup [ok : {FALSE}, docs : {postings}] :
              answers' = Append(answers, a)
      BY <1>3 DEF AnswerListings
    <2>2. a \in Answers
      BY DEF Answers, ListingsTypeOK, PostingsTypeOK
    <2>3. answers' \in Seq(Answers) /\ asked' \in Nat
      BY <1>3, <2>1, <2>2, AppendToQueue DEF AnswerListings, Unanswered, ListingsTypeOK
    <2>4. cache' \in {postings, cache}
      BY <1>3 DEF AnswerListings
    <2> QED
      BY <1>3, <2>3, <2>4 DEF AnswerListings, ListingsTypeOK, PostingsTypeOK
  <1>4. ASSUME ListingsCallback PROVE ListingsTypeOK'
    <2>1. answers' \in Seq(Answers)
      BY <1>4, TailOfQueue DEF ListingsCallback, ListingsTypeOK
    <2>2. /\ myPosts' \in Seq(Books) /\ imageCache' \in Seq(Pictures) /\ shown' = myPosts'
          /\ idToBook' \in [DocIDs -> Books \cup {NoBook}]
      BY <1>4, CallbackCells
    <2>3. saysNone' \in BOOLEAN
      BY <1>4 DEF ListingsCallback, Explain
    <2> QED
      BY <1>4, <2>1, <2>2, <2>3 DEF ListingsCallback, ListingsTypeOK, PostingsTypeOK
  <1>5. ASSUME NEW r, OpenListing(r) PROVE ListingsTypeOK'
    <2>1. detail' \in Details
      BY <1>5, OpenDetail
    <2> QED
      BY <1>5, <2>1 DEF OpenListing, ListingsTypeOK, PostingsTypeOK
  <1>6. ASSUME LoseListings PROVE ListingsTypeOK'
    <2>1. idToBook' \in [DocIDs -> Books \cup {NoBook}]
      BY <1>6 DEF LoseListings
    <2> QED
      BY <1>0, <1>6, <2>1 DEF LoseListings, ListingsTypeOK, PostingsTypeOK
  <1>7. ASSUME UNCHANGED listingVars PROVE ListingsTypeOK'
    BY <1>7 DEF listingVars, ListingsTypeOK, PostingsTypeOK
  <1> QED
    BY <1>1, <1>2, <1>3, <1>4, <1>5, <1>6, <1>7

LEMMA NameTypeNext ==
    ASSUME NameTypeOK
    PROVE  /\ AskForName \/ AnswerName \/ NameCallback => NameTypeOK'
           /\ EditName \/ (\E n \in Names : TypeName(n)) => NameTypeOK'
           /\ LoseName \/ UNCHANGED nameVars => NameTypeOK'
PROOF
  <1> USE DEF NameTypeOK
  <1>1. ASSUME AnswerName PROVE NameTypeOK'
    <2>1. PICK a \in {userDoc, NoUser} : userAnswers' = Append(userAnswers, a)
      BY <1>1 DEF AnswerName
    <2>2. userAnswers' \in Seq(Names \cup {NoUser}) /\ userAsked' \in Nat
      BY <1>1, <2>1, AppendToQueue DEF AnswerName
    <2> QED
      BY <1>1, <2>2 DEF AnswerName
  <1>2. ASSUME NameCallback PROVE NameTypeOK'
    <2>1. userAnswers' \in Seq(Names \cup {NoUser})
      BY <1>2, TailOfQueue DEF NameCallback
    <2> QED
      BY <1>2, <2>1 DEF NameCallback
  <1>3. ASSUME AskForName PROVE NameTypeOK'
    BY <1>3 DEF AskForName
  <1>4. ASSUME EditName PROVE NameTypeOK'
    BY <1>4 DEF EditName, UpdateName
  <1>5. ASSUME NEW n \in Names, TypeName(n) PROVE NameTypeOK'
    BY <1>5 DEF TypeName
  <1>6. ASSUME LoseName PROVE NameTypeOK'
    <2>1. <<>> \in Seq(Names \cup {NoUser})
      BY EmptySeq
    <2> QED
      BY <1>6, <2>1 DEF LoseName
  <1>7. ASSUME UNCHANGED nameVars PROVE NameTypeOK'
    BY <1>7 DEF nameVars
  <1> QED
    BY <1>1, <1>2, <1>3, <1>4, <1>5, <1>6, <1>7

(* What a step of the tab may do to the collection.                        *)
LEMMA ListingSteps ==
    ASSUME [Next]_vars
    PROVE  \/ OthersWrite /\ visible' = visible
           \/ AskForListings /\ detail' = NoDetail /\ visible'
           \/ (AnswerListings \/ ListingsCallback) /\ visible' = visible
           \/ (\E r : OpenListing(r)) /\ ~visible'
           \/ LoseListings /\ ~visible'
           \/ UNCHANGED listingVars /\ (visible' => visible)
PROOF
  <1>1. CASE OthersWrite /\ UNCHANGED <<nameVars, visible, alive>>
    BY <1>1
  <1>2. CASE ViewWillAppear
    BY <1>2 DEF ViewWillAppear
  <1>3. CASE \E r \in DOMAIN shown : Select(r)
    BY <1>3 DEF Select
  <1>4. CASE Leave \/ TapEdit \/ Typing \/ Relaunch
    BY <1>4 DEF Leave, TapEdit, Typing, Relaunch
  <1>5. CASE Callbacks
    BY <1>5 DEF Callbacks
  <1>6. CASE Trap \/ Killed
    BY <1>6 DEF Trap, Killed, Die
  <1>7. CASE UNCHANGED vars
    BY <1>7 DEF vars
  <1> QED
    BY <1>1, <1>2, <1>3, <1>4, <1>5, <1>6, <1>7 DEF Next

(* And to the name.                                                        *)
LEMMA NameSteps ==
    ASSUME [Next]_vars
    PROVE  \/ AskForName \/ AnswerName \/ NameCallback
           \/ EditName \/ (\E n \in Names : TypeName(n))
           \/ LoseName \/ UNCHANGED nameVars
PROOF
  <1>1. CASE OthersWrite /\ UNCHANGED <<nameVars, visible, alive>>
    BY <1>1
  <1>2. CASE ViewWillAppear \/ Leave \/ TapEdit \/ Typing \/ Relaunch
    BY <1>2 DEF ViewWillAppear, Leave, TapEdit, Typing, Relaunch
  <1>3. CASE \E r \in DOMAIN shown : Select(r)
    BY <1>3 DEF Select
  <1>4. CASE Callbacks
    BY <1>4 DEF Callbacks
  <1>5. CASE Trap \/ Killed
    BY <1>5 DEF Trap, Killed, Die
  <1>6. CASE UNCHANGED vars
    BY <1>6 DEF vars
  <1> QED
    BY <1>1, <1>2, <1>3, <1>4, <1>5, <1>6 DEF Next

LEMMA TypeInit == Init => TypeOK
PROOF
  <1> SUFFICES ASSUME Init PROVE TypeOK
    OBVIOUS
  <1>1. /\ <<>> \in Seq(Books) /\ <<>> \in Seq(Pictures) /\ <<>> \in Seq(Answers)
        /\ <<>> \in Seq(Names \cup {NoUser})
    BY EmptySeq
  <1>2. PostingsTypeOK
    BY PostingsStartTyped DEF Init, ListingsInit
  <1>3. idToBook \in [DocIDs -> Books \cup {NoBook}]
    BY DEF Init, ListingsInit
  <1>4. ListingsTypeOK
    BY <1>1, <1>2, <1>3 DEF Init, ListingsInit, ListingsTypeOK
  <1>5. NameTypeOK
    BY <1>1 DEF Init, NameInit, NameTypeOK
  <1> QED
    BY <1>4, <1>5 DEF Init, TypeOK

LEMMA TypeNext == TypeOK /\ CellsInBounds /\ [Next]_vars => TypeOK'
PROOF
  <1> SUFFICES ASSUME TypeOK, CellsInBounds, [Next]_vars PROVE TypeOK'
    OBVIOUS
  <1>1. ListingsTypeOK /\ shown = myPosts /\ NameTypeOK
    BY DEF TypeOK, CellsInBounds
  <1>2. ListingsTypeOK'
    BY <1>1, ListingSteps, ListingsTypeNext
  <1>3. NameTypeOK'
    BY <1>1, NameSteps, NameTypeNext
  <1>4. visible' \in BOOLEAN /\ alive' \in BOOLEAN
    BY DEF Next, ViewWillAppear, Leave, TapEdit, Typing, Relaunch, Select, Callbacks, Trap,
           Killed, Die, vars, TypeOK
  <1> QED
    BY <1>2, <1>3, <1>4 DEF TypeOK

(* CellsInBounds is kept by every step: pictures are only ever added to    *)
(* imageCache, one with each listing, and both are lost together.          *)
LEMMA CellsNext == TypeOK /\ CellsInBounds /\ [Next]_vars => CellsInBounds'
PROOF
  <1> SUFFICES ASSUME TypeOK, CellsInBounds, [Next]_vars PROVE CellsInBounds'
    OBVIOUS
  <1>1. ListingsTypeOK
    BY DEF TypeOK
  <1>2. /\ DOMAIN myPosts = 1 .. Len(myPosts) /\ Len(myPosts) \in Nat
        /\ DOMAIN imageCache = 1 .. Len(imageCache) /\ Len(imageCache) \in Nat
    BY <1>1, LenProperties DEF ListingsTypeOK
  <1>3. CASE UNCHANGED <<shown, myPosts, imageCache>>
    BY <1>3 DEF CellsInBounds
  <1>4. CASE ListingsCallback
    <2>1. Len(myPosts) =< Len(imageCache)
      BY <1>2 DEF CellsInBounds
    <2>2. /\ myPosts' \in Seq(Books) /\ imageCache' \in Seq(Pictures)
          /\ shown' = myPosts' /\ Len(myPosts') =< Len(imageCache')
      BY <1>1, <1>4, <2>1, CallbackCells
    <2>3. /\ DOMAIN myPosts' = 1 .. Len(myPosts') /\ Len(myPosts') \in Nat
          /\ DOMAIN imageCache' = 1 .. Len(imageCache') /\ Len(imageCache') \in Nat
      BY <2>2, LenProperties
    <2> QED
      BY <2>2, <2>3 DEF CellsInBounds
  <1>5. CASE AskForListings \/ LoseListings
    <2>1. shown' = <<>> /\ myPosts' = <<>>
      BY <1>5 DEF AskForListings, ClearAndReload, ReloadData, LoseListings
    <2> QED
      BY <2>1 DEF CellsInBounds
  <1>6. CASE \/ OthersWrite \/ AnswerListings \/ (\E r : OpenListing(r))
             \/ UNCHANGED listingVars
    BY <1>3, <1>6 DEF OthersWrite, AnswerListings, OpenListing, listingVars
  <1> QED
    BY <1>4, <1>5, <1>6, ListingSteps

(* RowsAreMine is kept by every step.                                      *)
LEMMA MineNext == TypeOK /\ RowsAreMine /\ [Next]_vars => RowsAreMine'
PROOF
  <1> SUFFICES ASSUME TypeOK, RowsAreMine, [Next]_vars PROVE RowsAreMine'
    OBVIOUS
  <1>1. CASE UNCHANGED myPosts
    BY <1>1 DEF RowsAreMine
  <1>2. CASE ListingsCallback
    BY <1>2, CallbackCells DEF TypeOK
  <1>3. CASE AskForListings \/ LoseListings
    <2>1. myPosts' = <<>>
      BY <1>3 DEF AskForListings, ClearAndReload, LoseListings
    <2> QED
      BY <2>1 DEF RowsAreMine
  <1>4. CASE \/ OthersWrite \/ AnswerListings \/ (\E r : OpenListing(r))
             \/ UNCHANGED listingVars
    BY <1>1, <1>4 DEF OthersWrite, AnswerListings, OpenListing, listingVars
  <1> QED
    BY <1>2, <1>3, <1>4, ListingSteps

(* CopiesDescend is kept by every step: copies are taken from the store or *)
(* from one another, and == looks at the seller.                           *)
LEMMA CopiesNext ==
    TypeOK /\ CellsInBounds /\ RowsAreMine /\ CopiesDescend /\ [Next]_vars => CopiesDescend'
PROOF
  <1> SUFFICES ASSUME TypeOK, CellsInBounds, RowsAreMine, CopiesDescend, [Next]_vars
               PROVE  CopiesDescend'
    OBVIOUS
  <1> USE DEF written
  <1>1. ListingsTypeOK /\ PostingsTypeOK /\ shown = myPosts
    BY DEF TypeOK, ListingsTypeOK, CellsInBounds
  <1>2. CASE UNCHANGED <<written, cache, answers, idToBook, detail>>
    BY <1>2 DEF CopiesDescend, Descends
  <1>3. CASE OthersWrite
    <2>1. WritePosting /\ cache' = cache /\ UNCHANGED <<answers, idToBook, detail>>
      BY <1>1, <1>3, WriteKeepsTypes DEF OthersWrite
    <2>2. \A d \in DocIDs : cache'[d] \in Books => Descends(cache[d], d)'
      BY <1>1, <2>1, WriteKeepsDescent DEF CopiesDescend
    <2>3. \A i \in DOMAIN answers', d \in DocIDs :
              answers'[i].docs[d] \in Books => Descends(answers[i].docs[d], d)'
      BY <1>1, <2>1, WriteKeepsDescent DEF CopiesDescend
    <2>4. \A d \in DocIDs : idToBook'[d] # NoBook => Descends(idToBook[d], d)'
      BY <1>1, <2>1, WriteKeepsDescent DEF CopiesDescend
    <2>5. ASSUME detail # NoDetail, detail.refString # NoRef
          PROVE  /\ detail.book.seller = username
                 /\ Descends(detail.book, detail.refString)'
      <3>1. detail.refString \in DocIDs
        BY <1>1, <2>5 DEF ListingsTypeOK, Details, Refs
      <3> QED
        BY <1>1, <2>1, <2>5, <3>1, WriteKeepsDescent DEF CopiesDescend
    <2> QED
      BY <2>1, <2>2, <2>3, <2>4, <2>5 DEF CopiesDescend
  <1>4. CASE AnswerListings
    <2>1. PICK a \in [ok : {TRUE}, docs : {postings, cache}]
                       \cup [ok : {FALSE}, docs : {postings}] :
              answers' = Append(answers, a)
      BY <1>4 DEF AnswerListings
    <2>2. a \in Answers /\ a.docs \in {postings, cache}
      BY <1>1 DEF Answers, PostingsTypeOK
    <2>3. \A i \in DOMAIN answers' :
              (i \in DOMAIN answers /\ answers'[i] = answers[i]) \/ answers'[i] = a
      BY <1>1, <2>1, <2>2, AppendToQueue DEF ListingsTypeOK
    <2>4. UNCHANGED <<written, idToBook, detail>> /\ cache' \in {postings, cache}
      BY <1>4 DEF AnswerListings
    <2>5. \A d \in DocIDs : postings[d] \in Books => Descends(postings[d], d)
      BY <1>1, ListingDescends
    <2>6. \A d \in DocIDs :
              /\ cache'[d] \in Books => Descends(cache'[d], d)
              /\ a.docs[d] \in Books => Descends(a.docs[d], d)
      BY <2>2, <2>4, <2>5 DEF CopiesDescend
    <2>7. \A i \in DOMAIN answers', d \in DocIDs :
              answers'[i].docs[d] \in Books => Descends(answers'[i].docs[d], d)
      BY <2>3, <2>6 DEF CopiesDescend
    <2> QED
      BY <2>4, <2>6, <2>7 DEF CopiesDescend, Descends
  <1>5. CASE ListingsCallback
    <2>1. /\ 1 \in DOMAIN answers
          /\ \A i \in DOMAIN answers' :
                i + 1 \in DOMAIN answers /\ answers'[i] = answers[i + 1]
      BY <1>1, <1>5, TailOfQueue DEF ListingsCallback, ListingsTypeOK
    <2>2. UNCHANGED <<written, cache, detail>>
      BY <1>5 DEF ListingsCallback
    <2>3. \A i \in DOMAIN answers', d \in DocIDs :
              answers'[i].docs[d] \in Books => Descends(answers'[i].docs[d], d)
      BY <2>1 DEF CopiesDescend
    <2>4. \A d \in DocIDs : idToBook'[d] # NoBook => Descends(idToBook'[d], d)
      BY <1>1, <1>5, <2>1, CallbackCells DEF CopiesDescend
    <2> QED
      BY <2>2, <2>3, <2>4 DEF CopiesDescend, Descends
  <1>6. ASSUME NEW r, OpenListing(r) PROVE CopiesDescend'
    <2>1. UNCHANGED <<written, cache, answers, idToBook>>
      BY <1>6 DEF OpenListing
    <2>2. ASSUME detail'.refString # NoRef
          PROVE  /\ detail'.book.seller = username
                 /\ Descends(detail'.book, detail'.refString)
      <3>1. /\ \E i \in DOMAIN myPosts : detail'.book = myPosts[i]
            /\ detail'.refString \in DocIDs
            /\ idToBook[detail'.refString] # NoBook
            /\ BookEq(idToBook[detail'.refString], detail'.book)
        BY <1>1, <1>6, <2>2, OpenDetail
      <3>2. Descends(idToBook[detail'.refString], detail'.refString)
        BY <3>1 DEF CopiesDescend
      <3> QED
        BY <3>1, <3>2 DEF BookEq, Descends, SameListing, RowsAreMine
    <2> QED
      BY <2>1, <2>2 DEF CopiesDescend, Descends
  <1>7. CASE AskForListings /\ detail' = NoDetail
    <2>1. UNCHANGED <<written, cache, answers>> /\ \A d \in DocIDs : idToBook'[d] = NoBook
      BY <1>7 DEF AskForListings, ClearAndReload
    <2> QED
      BY <1>7, <2>1 DEF CopiesDescend, Descends
  <1>8. CASE LoseListings
    <2>1. /\ UNCHANGED <<written, cache>> /\ answers' = <<>> /\ detail' = NoDetail
          /\ \A d \in DocIDs : idToBook'[d] = NoBook
      BY <1>8 DEF LoseListings
    <2> QED
      BY <2>1 DEF CopiesDescend, Descends
  <1>9. CASE UNCHANGED listingVars
    BY <1>2, <1>9 DEF listingVars
  <1> QED
    BY <1>3, <1>4, <1>5, <1>6, <1>7, <1>8, <1>9, ListingSteps

(* How each step changes the number of loads under way.                    *)
LEMMA LoadsUnderWay ==
    ASSUME ListingsTypeOK
    PROVE  /\ UnderWay \in Nat
           /\ AnswerListings => UnderWay' = UnderWay
           /\ ListingsCallback => UnderWay > 0 /\ UnderWay' = UnderWay - 1
           /\ AskForListings => UnderWay' = UnderWay + 1
PROOF
  <1> USE DEF UnderWay
  <1>1. asked \in Nat /\ answers \in Seq(Answers) /\ Len(answers) \in Nat
    BY LenProperties DEF ListingsTypeOK
  <1>2. ASSUME AnswerListings PROVE UnderWay' = UnderWay
    <2>1. PICK a \in [ok : {TRUE}, docs : {postings, cache}]
                       \cup [ok : {FALSE}, docs : {postings}] :
              answers' = Append(answers, a)
      BY <1>2 DEF AnswerListings
    <2>2. a \in Answers
      BY DEF Answers, ListingsTypeOK, PostingsTypeOK
    <2>3. Len(answers') = Len(answers) + 1
      BY <1>1, <2>1, <2>2, AppendToQueue
    <2> QED
      BY <1>1, <1>2, <2>3 DEF AnswerListings, Unanswered
  <1>3. ASSUME ListingsCallback PROVE UnderWay > 0 /\ UnderWay' = UnderWay - 1
    <2>1. Len(answers') = Len(answers) - 1 /\ Len(answers) \in Nat \ {0}
      BY <1>1, <1>3, TailOfQueue DEF ListingsCallback
    <2> QED
      BY <1>1, <1>3, <2>1 DEF ListingsCallback
  <1>4. ASSUME AskForListings PROVE UnderWay' = UnderWay + 1
    BY <1>1, <1>4 DEF AskForListings
  <1> QED
    BY <1>1, <1>2, <1>3, <1>4

(* LoadAlone is kept by every step.                                        *)
LEMMA AloneNext == TypeOK /\ LoadAlone /\ [Next]_vars => LoadAlone'
PROOF
  <1> SUFFICES ASSUME TypeOK, LoadAlone, [Next]_vars PROVE LoadAlone'
    OBVIOUS
  <1>1. ListingsTypeOK /\ UnderWay \in Nat
    BY LoadsUnderWay DEF TypeOK
  <1>2. CASE UnderWay' = UnderWay /\ UNCHANGED <<myPosts, overlapped>>
    BY <1>2 DEF LoadAlone
  <1>3. CASE ListingsCallback
    <2>1. UnderWay > 0 /\ UnderWay' = UnderWay - 1 /\ overlapped' = overlapped
      BY <1>1, <1>3, LoadsUnderWay DEF ListingsCallback
    <2> QED
      BY <1>1, <2>1 DEF LoadAlone
  <1>4. CASE AskForListings
    <2>1. /\ UnderWay' = UnderWay + 1 /\ myPosts' = <<>>
          /\ overlapped' = (UnderWay > 0)
      BY <1>1, <1>4, LoadsUnderWay DEF AskForListings, ClearAndReload
    <2>2. UnderWay > 0 => overlapped'
      BY <2>1, Zenon
    <2> QED
      BY <1>1, <2>1, <2>2 DEF LoadAlone
  <1>5. CASE LoseListings
    <2>1. UnderWay' = 0
      BY <1>5 DEF LoseListings, UnderWay
    <2> QED
      BY <2>1 DEF LoadAlone
  <1>6. CASE OthersWrite \/ (\E r : OpenListing(r)) \/ UNCHANGED listingVars
    BY <1>2, <1>6 DEF OthersWrite, OpenListing, listingVars, UnderWay
  <1>7. CASE AnswerListings
    BY <1>1, <1>2, <1>7, LoadsUnderWay DEF AnswerListings
  <1> QED
    BY <1>3, <1>4, <1>5, <1>6, <1>7, ListingSteps

(* OneCellPerListing is kept by every step, since a load that meets no     *)
(* other fills an empty collection.                                        *)
LEMMA OneCellNext ==
    TypeOK /\ LoadAlone /\ OneCellPerListing /\ [Next]_vars => OneCellPerListing'
PROOF
  <1> SUFFICES ASSUME TypeOK, LoadAlone, OneCellPerListing, [Next]_vars
               PROVE  OneCellPerListing'
    OBVIOUS
  <1>1. ListingsTypeOK
    BY DEF TypeOK
  <1>2. CASE UNCHANGED <<myPosts, idToBook, overlapped>>
    BY <1>2 DEF OneCellPerListing
  <1>3. CASE ListingsCallback
    <2> SUFFICES ASSUME ~overlapped PROVE OneCellPerListing'
      BY <1>3 DEF ListingsCallback, OneCellPerListing
    <2>1. UnderWay \in Nat /\ UnderWay > 0
      BY <1>1, <1>3, LoadsUnderWay
    <2>2. myPosts = <<>>
      BY <2>1 DEF LoadAlone
    <2> QED
      BY <1>1, <1>3, <2>2, OneLoadIsDistinct DEF OneCellPerListing
  <1>4. CASE AskForListings \/ LoseListings
    <2> DEFINE none == [i \in {} |-> CHOOSE d \in DocIDs : TRUE]
    <2>1. DOMAIN myPosts' = {}
      BY <1>4 DEF AskForListings, ClearAndReload, LoseListings
    <2>2. none \in [DOMAIN myPosts' -> DocIDs]
      BY <2>1
    <2> QED
      BY <2>1, <2>2 DEF OneCellPerListing
  <1>5. CASE \/ OthersWrite \/ AnswerListings \/ (\E r : OpenListing(r))
             \/ UNCHANGED listingVars
    BY <1>2, <1>5 DEF OthersWrite, AnswerListings, OpenListing, listingVars
  <1> QED
    BY <1>3, <1>4, <1>5, ListingSteps

(* EmptyIsExplained is kept by every step: a visit starts with a load, and *)
(* the last callback, even of an error, sets the label.                    *)
LEMMA ExplainedNext ==
    TypeOK /\ CellsInBounds /\ EmptyIsExplained /\ [Next]_vars => EmptyIsExplained'
PROOF
  <1> SUFFICES ASSUME TypeOK, CellsInBounds, EmptyIsExplained, [Next]_vars,
                      visible', UnderWay' = 0, shown' = <<>>
               PROVE  saysNone'
    BY DEF EmptyIsExplained
  <1>1. ListingsTypeOK /\ UnderWay \in Nat
    BY LoadsUnderWay DEF TypeOK
  <1>2. CASE UNCHANGED <<shown, saysNone>> /\ UnderWay' = UnderWay /\ (visible' => visible)
    BY <1>2 DEF EmptyIsExplained
  <1>3. CASE ListingsCallback
    <2>1. shown' = myPosts' /\ saysNone' = (saysNone \/ myPosts' = <<>>)
      BY <1>3 DEF ListingsCallback, Explain, ReloadData
    <2> QED
      BY <2>1
  <1>4. CASE AskForListings
    <2>1. UnderWay' = UnderWay + 1
      BY <1>1, <1>4, LoadsUnderWay
    <2> QED
      BY <1>1, <2>1
  <1>5. CASE (OthersWrite \/ UNCHANGED listingVars) /\ (visible' => visible)
    BY <1>2, <1>5 DEF OthersWrite, listingVars, UnderWay
  <1>6. CASE AnswerListings /\ visible' = visible
    BY <1>1, <1>2, <1>6, LoadsUnderWay DEF AnswerListings
  <1> QED
    BY <1>3, <1>4, <1>5, <1>6, ListingSteps
-------------------------------------------------------------------------------
(* The inductive invariant. RowsAreMine and CopiesDescend are what         *)
(* OnlyMine rests on, LoadAlone is why OneCellPerListing lasts.            *)
IInv ==
    /\ TypeOK
    /\ CellsInBounds
    /\ RowsAreMine /\ CopiesDescend
    /\ LoadAlone /\ OneCellPerListing
    /\ EmptyIsExplained

LEMMA IInvInit == Init => IInv
PROOF
  <1> SUFFICES ASSUME Init PROVE IInv
    OBVIOUS
  <1> USE DEF Init, ListingsInit, PostingsInit, WrittenInit
  <1>1. TypeOK
    BY TypeInit
  <1>2. CellsInBounds /\ RowsAreMine
    BY DEF CellsInBounds, RowsAreMine
  <1>3. CopiesDescend
    BY SpecialValuesAssumption DEF CopiesDescend
  <1>4. LoadAlone
    <2>1. UnderWay = 0
      BY DEF UnderWay
    <2> QED
      BY <2>1 DEF LoadAlone
  <1>5. OneCellPerListing
    <2> DEFINE none == [i \in {} |-> CHOOSE d \in DocIDs : TRUE]
    <2>1. DOMAIN myPosts = {}
      OBVIOUS
    <2>2. none \in [DOMAIN myPosts -> DocIDs]
      BY <2>1
    <2> QED
      BY <2>1, <2>2 DEF OneCellPerListing
  <1>6. EmptyIsExplained
    BY DEF EmptyIsExplained
  <1> QED
    BY <1>1, <1>2, <1>3, <1>4, <1>5, <1>6 DEF IInv

LEMMA IInvNext == IInv /\ [Next]_vars => IInv'
PROOF
  BY TypeNext, CellsNext, MineNext, CopiesNext, AloneNext, OneCellNext, ExplainedNext
     DEF IInv

(* Every reachable state satisfies the inductive invariant.                *)
THEOREM ProfileInvariance == Spec => []IInv
PROOF
  BY IInvInit, IInvNext, PTL DEF Spec

(* The variables keep their types.                                         *)
THEOREM ProfileTypeCorrect == Spec => []TypeOK
PROOF
  <1>1. IInv => TypeOK
    BY DEF IInv
  <1> QED
    BY <1>1, ProfileInvariance, PTL

(* No cell of the collection is out of bounds, although imageCache is      *)
(* never emptied and loads may overlap.                                    *)
THEOREM NoCellIsOutOfBounds == Spec => []CellsInBounds
PROOF
  <1>1. IInv => CellsInBounds
    BY DEF IInv
  <1> QED
    BY <1>1, ProfileInvariance, PTL

(* The screen that offers to edit or delete is handed only listings and    *)
(* IDs of the user's, whatever was written or loaded in the meantime.      *)
THEOREM OnlyOnesOwn == Spec => []OnlyMine
PROOF
  <1>1. IInv => OnlyMine
    BY DEF IInv, RowsAreMine, CopiesDescend, Descends, SameListing, OnlyMine
  <1> QED
    BY <1>1, ProfileInvariance, PTL

(* A visit that met no load of an earlier one shows no listing twice.      *)
THEOREM EachListingOnce == Spec => []OneCellPerListing
PROOF
  <1>1. IInv => OneCellPerListing
    BY DEF IInv
  <1> QED
    BY <1>1, ProfileInvariance, PTL

(* An empty profile with no load under way says that there is nothing.     *)
THEOREM EmptyProfileIsExplained == Spec => []EmptyIsExplained
PROOF
  <1>1. IInv => EmptyIsExplained
    BY DEF IInv
  <1> QED
    BY <1>1, ProfileInvariance, PTL
-------------------------------------------------------------------------------
(* Every listing after a load was there, or is a document of the snapshot. *)
LEMMA CallbackListings ==
    ASSUME ListingsTypeOK, ListingsCallback, NEW i \in DOMAIN myPosts'
    PROVE  \/ \E j \in DOMAIN myPosts : myPosts'[i] = myPosts[j]
           \/ \E d \in DocIDs : /\ Head(answers).docs[d] \in Books
                                /\ myPosts'[i] = Head(answers).docs[d]
PROOF
  <1> DEFINE docs == Head(answers).docs
  <1>1. CASE Head(answers).ok
    <2>1. PICK ids \in InOrder(Mine(docs)) : myPosts' = myPosts \o BooksOf(docs, ids)
      BY <1>1 DEF ListingsCallback
    <2> DEFINE new == BooksOf(docs, ids)
    <2>2. /\ new \in Seq(Books)
          /\ \A k \in DOMAIN new : ids[k] \in Mine(docs) /\ new[k] = docs[ids[k]]
      BY BooksOfMine
    <2>3. \A k \in DOMAIN new :
              ids[k] \in DocIDs /\ docs[ids[k]] \in Books /\ new[k] = docs[ids[k]]
      <3>1. Mine(docs) \subseteq DocIDs /\ \A d \in Mine(docs) : docs[d] \in Books
        BY MineFinite
      <3> HIDE DEF docs, new
      <3> QED
        BY <2>2, <3>1
    <2>4. myPosts \in Seq(Books) /\ myPosts' = myPosts \o new
      BY <2>1 DEF ListingsTypeOK
    <2> HIDE DEF docs, new
    <2>5. /\ DOMAIN myPosts = 1 .. Len(myPosts) /\ Len(myPosts) \in Nat
          /\ DOMAIN new = 1 .. Len(new) /\ Len(new) \in Nat
      BY <2>2, <2>4, LenProperties
    <2>6. /\ DOMAIN myPosts' = 1 .. Len(myPosts) + Len(new)
          /\ myPosts'[i] = IF i <= Len(myPosts) THEN myPosts[i]
                                                ELSE new[i - Len(myPosts)]
      BY <2>2, <2>4, <2>5, ConcatProperties, LenProperties
    <2>7. i \in DOMAIN myPosts \/ i - Len(myPosts) \in DOMAIN new
      BY <2>5, <2>6
    <2> QED
      BY <2>3, <2>5, <2>6, <2>7 DEF docs
  <1>2. CASE ~Head(answers).ok
    BY <1>2 DEF ListingsCallback
  <1> QED
    BY <1>1, <1>2

(* CopiesWereWritten is kept by every step.                                *)
LEMMA WrittenNext ==
    TypeOK /\ CellsInBounds /\ CopiesWereWritten /\ Next /\ Remember => CopiesWereWritten'
PROOF
  <1> SUFFICES ASSUME TypeOK, CellsInBounds, CopiesWereWritten, Next, Remember
               PROVE  CopiesWereWritten'
    OBVIOUS
  <1> USE SpecialValuesAssumption DEF written
  <1>1. ListingsTypeOK /\ PostingsTypeOK /\ HeldWasWritten
    BY DEF TypeOK, ListingsTypeOK, CopiesWereWritten
  <1>2. ASSUME WritePosting \/ (UNCHANGED postings /\ cache' \in {postings, cache}),
               UNCHANGED <<answers, myPosts, idToBook>>
        PROVE  CopiesWereWritten'
    <2>1. HeldWasWritten'
      BY <1>1, <1>2, HeldStays DEF HeldWasWritten
    <2> QED
      BY <1>1, <1>2, <2>1, VersionsGrow DEF CopiesWereWritten
  <1>3. ASSUME UNCHANGED <<written, cache>>, answers' \in {answers, <<>>},
               myPosts' = <<>>, idToBook' = NoEntries
        PROVE  CopiesWereWritten'
    <2>1. \A d \in DocIDs : idToBook'[d] \notin Books
      BY <1>3
    <2>2. HeldWasWritten' /\ UNCHANGED versions
      BY <1>1, <1>3, <2>1, HeldStays, VersionsGrow
    <2> QED
      BY <1>3, <2>2 DEF CopiesWereWritten
  <1>4. CASE AnswerListings
    <2>1. PICK a \in [ok : {TRUE}, docs : {postings, cache}]
                       \cup [ok : {FALSE}, docs : {postings}] :
              answers' = Append(answers, a)
      BY <1>4 DEF AnswerListings
    <2>2. a \in Answers /\ a.docs \in {postings, cache}
      BY <1>1 DEF Answers, PostingsTypeOK
    <2>3. \A i \in DOMAIN answers' :
              (i \in DOMAIN answers /\ answers'[i] = answers[i]) \/ answers'[i] = a
      BY <1>1, <2>1, <2>2, AppendToQueue DEF ListingsTypeOK
    <2>4. UNCHANGED <<written, myPosts, idToBook>> /\ cache' \in {postings, cache}
      BY <1>4 DEF AnswerListings
    <2>5. HeldWasWritten' /\ UNCHANGED versions
      BY <1>1, <2>4, HeldStays, VersionsGrow DEF HeldWasWritten
    <2>6. \A d \in DocIDs : a.docs[d] \in Books => a.docs[d] \in versions[d]
      BY <1>1, <2>2 DEF HeldWasWritten
    <2>7. \A i \in DOMAIN answers', d \in DocIDs :
              answers'[i].docs[d] \in Books => answers'[i].docs[d] \in versions[d]
      BY <2>3, <2>6 DEF CopiesWereWritten
    <2> QED
      BY <2>4, <2>5, <2>7 DEF CopiesWereWritten
  <1>5. CASE ListingsCallback
    <2>1. /\ 1 \in DOMAIN answers /\ Head(answers) = answers[1]
          /\ \A i \in DOMAIN answers' :
                i + 1 \in DOMAIN answers /\ answers'[i] = answers[i + 1]
      BY <1>1, <1>5, TailOfQueue DEF ListingsCallback, ListingsTypeOK
    <2>2. UNCHANGED <<written, cache>> /\ UNCHANGED versions
      BY <1>1, <1>5, VersionsGrow DEF ListingsCallback
    <2>3. \A d \in DocIDs : answers[1].docs[d] \in Books =>
                                answers[1].docs[d] \in versions[d]
      BY <2>1 DEF CopiesWereWritten
    <2>4. \A i \in DOMAIN answers', d \in DocIDs :
              answers'[i].docs[d] \in Books => answers'[i].docs[d] \in versions[d]
      BY <2>1 DEF CopiesWereWritten
    <2>5. \A d \in DocIDs : idToBook'[d] \in Books => idToBook'[d] \in versions[d]
      BY <1>1, <1>5, <2>3, CallbackCells DEF HeldWasWritten
    <2>6. ASSUME NEW i \in DOMAIN myPosts'
          PROVE  \E d \in DocIDs : myPosts'[i] \in versions[d]
      BY <1>1, <1>5, <2>1, <2>3, CallbackListings DEF CopiesWereWritten
    <2> QED
      BY <1>1, <2>2, <2>4, <2>5, <2>6, HeldStays DEF CopiesWereWritten
  <1>6. CASE OthersWrite
    BY <1>2, <1>6 DEF OthersWrite
  <1>7. CASE AskForListings
    BY <1>3, <1>7 DEF AskForListings, ClearAndReload
  <1>8. CASE LoseListings
    BY <1>3, <1>8 DEF LoseListings
  <1>9. ASSUME NEW r, OpenListing(r) PROVE CopiesWereWritten'
    BY <1>2, <1>9 DEF OpenListing
  <1>10. CASE UNCHANGED listingVars
    BY <1>2, <1>10 DEF listingVars
  <1> QED
    BY <1>4, <1>5, <1>6, <1>7, <1>8, <1>9, <1>10, ListingSteps

LEMMA WrittenInitially == Init /\ VersionsInit => CopiesWereWritten
PROOF
  BY SpecialValuesAssumption
     DEF Init, ListingsInit, PostingsInit, WrittenInit, VersionsInit, CopiesWereWritten,
         HeldWasWritten

(* Each step of the tab is one the contract allows.                        *)
LEMMA StepAllowed ==
    ASSUME IInv, CopiesWereWritten, Next, Remember, OnScreen' # OnScreen
    PROVE  Screen!Open(reader) \/ Screen!Back(reader)
PROOF
  <1> USE DEF written
  <1>1. ListingsTypeOK /\ shown = myPosts /\ HeldWasWritten
    BY DEF IInv, TypeOK, CellsInBounds, CopiesWereWritten
  <1>2. detail' # detail
    BY DEF OnScreen
  <1>3. CASE (AskForListings /\ detail' = NoDetail) \/ LoseListings
    <2>1. detail' = NoDetail /\ UNCHANGED <<postings, versions>>
      BY <1>1, <1>3, VersionsGrow DEF AskForListings, LoseListings
    <2> QED
      BY <2>1, BackAllows
  <1>4. ASSUME NEW r, OpenListing(r)
        PROVE  Screen!Open(reader)
    <2>1. /\ detail = NoDetail /\ detail' # NoDetail
          /\ UNCHANGED <<postings, versions>>
      BY <1>1, <1>2, <1>4, VersionsGrow DEF OpenListing
    <2>2. PICK i \in DOMAIN myPosts : detail'.book = myPosts[i]
      BY <1>1, <1>4, OpenDetail
    <2>3. PICK d \in DocIDs : detail'.book \in versions[d]
      BY <2>2 DEF CopiesWereWritten
    <2>4. \/ detail'.refString = NoRef
          \/ /\ detail'.refString \in DocIDs
             /\ idToBook[detail'.refString] \in Books
             /\ BookEq(idToBook[detail'.refString], detail'.book)
      BY <1>1, <1>4, OpenDetail DEF ListingsTypeOK
    <2> QED
      BY <1>1, <2>1, <2>3, <2>4, OpenAllows
  <1>5. CASE \/ OthersWrite \/ AnswerListings \/ ListingsCallback
             \/ UNCHANGED listingVars
    BY <1>2, <1>5 DEF OthersWrite, AnswerListings, ListingsCallback, listingVars
  <1> QED
    BY <1>3, <1>4, <1>5, ListingSteps

(* The profile tab keeps the promise too: a tap on a cell opens the screen *)
(* that edits and deletes on a book that some listing once was, with no ID *)
(* but that of a listing that was once == to it.                           *)
THEOREM CellsKeepTheContract == RememberingSpec => OpensAsPromised
PROOF
  <1>1. Init /\ VersionsInit => IInv /\ CopiesWereWritten
    BY IInvInit, WrittenInitially
  <1>2. IInv /\ CopiesWereWritten /\ [Next /\ Remember]_<<vars, versions>>
            => (IInv /\ CopiesWereWritten)'
    <2>1. CASE Next /\ Remember
      BY <2>1, IInvNext, WrittenNext DEF IInv
    <2>2. CASE UNCHANGED <<vars, versions>>
      <3>1. UNCHANGED vars
        BY <2>2
      <3>2. IInv => IInv'
        BY <3>1, IInvNext
      <3>3. CopiesWereWritten => CopiesWereWritten'
        BY <2>2 DEF vars, listingVars, written, CopiesWereWritten, HeldWasWritten
      <3> QED
        BY <3>2, <3>3
    <2> QED
      BY <2>1, <2>2
  <1>3. IInv /\ CopiesWereWritten /\ [Next /\ Remember]_<<vars, versions>>
            => [Screen!Open(reader) \/ Screen!Back(reader)]_OnScreen
    <2>1. UNCHANGED <<vars, versions>> => UNCHANGED OnScreen
      BY DEF vars, listingVars, OnScreen
    <2> QED
      BY <2>1, StepAllowed
  <1> QED
    BY <1>1, <1>2, <1>3, PTL DEF RememberingSpec, OpensAsPromised
================================================================================
