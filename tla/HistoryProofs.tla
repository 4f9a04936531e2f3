----------------------------- MODULE HistoryProofs -----------------------------
(***************************************************************************)
(* Proofs about the history tab, for every set of books and documents and  *)
(* every bound on the loads under way.                                     *)
(***************************************************************************)
EXTENDS History, PostingsProofs

(* Every copy of a listing on the device is one a document was written     *)
(* with, that document still being of its title and seller or gone.        *)
CopiesDescend ==
    /\ \A d \in DocIDs : cache[d] \in Books => Descends(cache[d], d)
    /\ \A i \in DOMAIN answers, d \in DocIDs :
          answers[i].docs[d] \in Books => Descends(answers[i].docs[d], d)

(* The IDs the device holds, in the user's document, in an answer or in    *)
(* `recents', were all viewed, and viewed means written.                   *)
IDsWereViewed ==
    /\ \A d \in everViewed : postings[d] # Unborn
    /\ recentlyViewed \subseteq everViewed
    /\ recents \subseteq everViewed
    /\ \A i \in DOMAIN userAnswers : userAnswers[i].ids \subseteq everViewed

(* Each row is a listing of some viewed document.                          *)
RowsDescend ==
    \A r \in DOMAIN recentBooks : \E d \in everViewed : Descends(recentBooks[r], d)

(* Unless a visit met a load, there is at most one, and it will fill an    *)
(* empty list.                                                             *)
LoadAlone ==
    ~overlapped => /\ UnderWay =< 1
                   /\ UnderWay = 1 => recentBooks = <<>>

(* Nothing on the device brings back what was cleared alone.               *)
NothingToBringBack ==
    cleared = "alone" =>
        /\ recentlyViewed = {} /\ recents = {}
        /\ \A i \in DOMAIN userAnswers : userAnswers[i].ids = {}
-------------------------------------------------------------------------------
(* The documents a load of /Postings/ reads are finitely many, all among   *)
(* the IDs it was given.                                                   *)
LEMMA RecentFinite ==
    ASSUME NEW docs
    PROVE  /\ Recent(docs) \subseteq DocIDs /\ Recent(docs) \subseteq recents
           /\ Recent(docs) \subseteq Nat /\ IsFiniteSet(Recent(docs))
           /\ \A d \in Recent(docs) : docs[d] \in Books
PROOF
  <1>1. Recent(docs) \subseteq Decodable(docs)
    BY DEF Recent
  <1>2. Decodable(docs) \subseteq DocIDs /\ IsFiniteSet(Decodable(docs))
    BY DecodableFinite
  <1>3. IsFiniteSet(Recent(docs))
    BY <1>1, <1>2, FS_Subset
  <1> QED
    BY <1>1, <1>2, <1>3, DocIDsAssumption DEF Recent, Decodable

(* What that load adds to the list: one book for each such document.       *)
LEMMA BooksOfRecent ==
    ASSUME NEW docs, NEW ids \in InOrder(Recent(docs))
    PROVE  /\ BooksOf(docs, ids) \in Seq(Books)
           /\ Len(BooksOf(docs, ids)) = Cardinality(Recent(docs))
           /\ Cardinality(Recent(docs)) \in Nat
           /\ \A i \in DOMAIN BooksOf(docs, ids) :
                 \E d \in Recent(docs) : BooksOf(docs, ids)[i] = docs[d]
PROOF
  <1> DEFINE S == Recent(docs)
             n == Cardinality(S)
  <1>1. n \in Nat /\ ids \in [1 .. n -> S]
    BY RecentFinite, InOrderFacts
  <1>2. \A i \in 1 .. n : ids[i] \in S /\ docs[ids[i]] \in Books
    BY <1>1, RecentFinite
  <1>3. BooksOf(docs, ids) = [i \in 1 .. n |-> docs[ids[i]]]
    BY <1>1 DEF BooksOf
  <1>4. BooksOf(docs, ids) \in [1 .. n -> Books]
    BY <1>2, <1>3
  <1>5. BooksOf(docs, ids) \in Seq(Books) /\ Len(BooksOf(docs, ids)) = n
    BY <1>1, <1>4, FunctionIsSeq
  <1> HIDE DEF S, n
  <1>6. \A i \in DOMAIN BooksOf(docs, ids) : \E d \in S : BooksOf(docs, ids)[i] = docs[d]
    BY <1>2, <1>3
  <1> QED
    BY <1>1, <1>5, <1>6 DEF S, n

(* What the callback of /Postings/ does to the list, and from what.        *)
LEMMA CallbackRows ==
    ASSUME TypeOK, PostingsCallback
    PROVE  /\ recentBooks' \in Seq(Books) /\ imageCache' \in Seq(Pictures)
           /\ ImagesPaired => ImagesPaired'
           /\ shown' = recentBooks'
           /\ \A r \in DOMAIN recentBooks' :
                 \/ r \in DOMAIN recentBooks /\ recentBooks'[r] = recentBooks[r]
                 \/ \E d \in recents : /\ answers[1].docs[d] \in Books
                                       /\ recentBooks'[r] = answers[1].docs[d]
           /\ recentBooks' = recentBooks
                \/ Len(recentBooks') = Len(recentBooks)
                                        + Cardinality(Recent(answers[1].docs))
PROOF
  <1>1. recentBooks \in Seq(Books) /\ imageCache \in Seq(Pictures)
    BY DEF TypeOK
  <1>2. answers \in Seq(Answers) /\ answers # <<>> /\ Head(answers) = answers[1]
    BY TailOfQueue DEF TypeOK, PostingsCallback
  <1>3. shown' = recentBooks'
    BY DEF PostingsCallback, ReloadData
  <1>4. CASE Head(answers).ok
    <2> DEFINE docs == answers[1].docs
    <2>1. PICK ids \in InOrder(Recent(docs)) :
              /\ recentBooks' = recentBooks \o BooksOf(docs, ids)
              /\ imageCache' = imageCache \o PicturesOf(BooksOf(docs, ids))
      BY <1>2, <1>4 DEF PostingsCallback
    <2> DEFINE new == BooksOf(docs, ids)
    <2>2. /\ new \in Seq(Books) /\ Len(new) = Cardinality(Recent(docs))
          /\ Cardinality(Recent(docs)) \in Nat
          /\ \A i \in DOMAIN new : \E d \in Recent(docs) : new[i] = docs[d]
      BY BooksOfRecent
    <2>3. PicturesOf(new) \in Seq(Pictures)
      BY <2>2, PicturesOfSeq
    <2>4. recentBooks' = recentBooks \o new /\ imageCache' = imageCache \o PicturesOf(new)
      BY <2>1
    <2> HIDE DEF new
    <2>5. /\ recentBooks' \in Seq(Books) /\ imageCache' \in Seq(Pictures)
          /\ Len(recentBooks') = Len(recentBooks) + Len(new)
          /\ \A i \in 1 .. Len(recentBooks) + Len(new) :
                recentBooks'[i] = IF i <= Len(recentBooks) THEN recentBooks[i]
                                  ELSE new[i - Len(recentBooks)]
      BY <1>1, <2>2, <2>3, <2>4, ConcatProperties
    <2>6. ImagesPaired => ImagesPaired'
      BY <1>1, <2>2, <2>4, PicturesOfConcat DEF ImagesPaired
    <2>7. ASSUME NEW r \in DOMAIN recentBooks'
          PROVE  \/ r \in DOMAIN recentBooks /\ recentBooks'[r] = recentBooks[r]
                 \/ \E d \in recents : docs[d] \in Books /\ recentBooks'[r] = docs[d]
      <3>1. /\ Len(recentBooks) \in Nat /\ DOMAIN recentBooks = 1 .. Len(recentBooks)
            /\ Len(new) \in Nat /\ DOMAIN new = 1 .. Len(new)
            /\ DOMAIN recentBooks' = 1 .. Len(recentBooks) + Len(new)
        BY <1>1, <2>2, <2>5, LenProperties
      <3>2. CASE r <= Len(recentBooks)
        BY <2>5, <3>1, <3>2
      <3>3. CASE ~(r <= Len(recentBooks))
        <4>1. r - Len(recentBooks) \in DOMAIN new
          BY <3>1, <3>3
        <4>2. recentBooks'[r] = new[r - Len(recentBooks)]
          BY <2>5, <3>1, <3>3
        <4>3. \E d \in Recent(docs) : recentBooks'[r] = docs[d]
          BY <2>2, <4>1, <4>2
        <4>4. \A d \in Recent(docs) : d \in recents /\ docs[d] \in Books
          BY RecentFinite
        <4> QED
          BY <4>3, <4>4
      <3> QED
        BY <3>2, <3>3
    <2> QED
      BY <1>3, <2>2, <2>5, <2>6, <2>7
  <1>5. CASE ~Head(answers).ok
    <2>1. UNCHANGED <<recentBooks, imageCache>>
      BY <1>5 DEF PostingsCallback
    <2> QED
      BY <1>1, <1>3, <2>1 DEF ImagesPaired
  <1> QED
    BY <1>4, <1>5
-------------------------------------------------------------------------------
LEMMA TypeInit == Init => TypeOK
PROOF
  <1> SUFFICES ASSUME Init PROVE TypeOK
    OBVIOUS
  <1>1. /\ <<>> \in Seq(Answers) /\ <<>> \in Seq(UserAnswers)
        /\ <<>> \in Seq(Books) /\ <<>> \in Seq(Pictures)
    BY EmptySeq
  <1>2. PostingsTypeOK
    BY PostingsStartTyped DEF Init
  <1>3. recentlyViewed \subseteq DocIDs
    BY DEF Init
  <1> QED
    BY <1>1, <1>2, <1>3 DEF Init, TypeOK

LEMMA TypeNext == TypeOK /\ [Next]_vars => TypeOK'
PROOF
  <1> SUFFICES ASSUME TypeOK, [Next]_vars PROVE TypeOK'
    OBVIOUS
  <1> USE DEF written, remote, loads, rows
  <1>1. CASE OthersWrite
    <2>1. PostingsTypeOK'
      BY <1>1, WriteKeepsTypes DEF OthersWrite, TypeOK
    <2> QED
      BY <1>1, <2>1 DEF OthersWrite, TypeOK
  <1>2. ASSUME NEW d \in DocIDs, View(d) PROVE TypeOK'
    BY <1>2 DEF View, TypeOK, PostingsTypeOK
  <1>3. CASE ViewWillAppear
    <2>1. <<>> \in Seq(Books) /\ <<>> \in Seq(Pictures)
      BY EmptySeq
    <2>2. userAsked' \in Nat
      BY <1>3 DEF ViewWillAppear, TypeOK
    <2>3. overlapped' \in BOOLEAN
      BY <1>3 DEF ViewWillAppear
    <2> QED
      BY <1>3, <2>1, <2>2, <2>3 DEF ViewWillAppear, EmptyRows, TypeOK, PostingsTypeOK
  <1>4. CASE AnswerUser
    <2>1. PICK ok \in BOOLEAN :
              userAnswers' = Append(userAnswers, [ok |-> ok, ids |-> recentlyViewed])
      BY <1>4 DEF AnswerUser
    <2>2. [ok |-> ok, ids |-> recentlyViewed] \in UserAnswers
      BY DEF TypeOK, UserAnswers
    <2>3. userAnswers' \in Seq(UserAnswers) /\ userAsked' \in Nat
      BY <1>4, <2>1, <2>2, AppendToQueue DEF AnswerUser, TypeOK
    <2> QED
      BY <1>4, <2>3 DEF AnswerUser, TypeOK, PostingsTypeOK
  <1>5. CASE UserCallback
    <2>1. userAnswers' \in Seq(UserAnswers) /\ Head(userAnswers) \in UserAnswers
      BY <1>5, TailOfQueue DEF UserCallback, TypeOK
    <2>2. recents' \subseteq DocIDs /\ asked' \in Nat
      BY <1>5, <2>1 DEF UserCallback, TypeOK, UserAnswers
    <2> QED
      BY <1>5, <2>1, <2>2 DEF UserCallback, TypeOK, PostingsTypeOK
  <1>6. CASE AnswerPostings
    <2>1. PICK a \in [ok : {TRUE}, docs : {postings, cache}]
                       \cup [ok : {FALSE}, docs : {postings}] :
              answers' = Append(answers, a)
      BY <1>6 DEF AnswerPostings
    <2>2. a \in Answers
      BY DEF Answers, TypeOK, PostingsTypeOK
    <2>3. answers' \in Seq(Answers) /\ asked' \in Nat
      BY <1>6, <2>1, <2>2, AppendToQueue DEF AnswerPostings, Unanswered, TypeOK
    <2>4. cache' \in {postings, cache}
      BY <1>6 DEF AnswerPostings
    <2> QED
      BY <1>6, <2>3, <2>4 DEF AnswerPostings, TypeOK, PostingsTypeOK
  <1>7. CASE PostingsCallback
    <2>1. answers' \in Seq(Answers)
      BY <1>7, TailOfQueue DEF PostingsCallback, TypeOK
    <2>2. recentBooks' \in Seq(Books) /\ imageCache' \in Seq(Pictures) /\ shown' = recentBooks'
      BY <1>7, CallbackRows
    <2> QED
      BY <1>7, <2>1, <2>2 DEF PostingsCallback, TypeOK, PostingsTypeOK
  <1>8. CASE Clear
    <2>1. <<>> \in Seq(Books) /\ <<>> \in Seq(Pictures)
      BY EmptySeq
    <2> QED
      BY <1>8, <2>1 DEF Clear, ForgetRows, EmptyRows, ReloadData, TypeOK, PostingsTypeOK
  <1>9. CASE Trap \/ Killed
    <2>1. /\ <<>> \in Seq(Answers) /\ <<>> \in Seq(UserAnswers)
          /\ <<>> \in Seq(Books) /\ <<>> \in Seq(Pictures)
      BY EmptySeq
    <2>2. Die
      BY <1>9 DEF Trap, Killed
    <2> QED
      BY <2>1, <2>2 DEF Die, TypeOK, PostingsTypeOK
  <1>10. CASE Relaunch \/ UNCHANGED vars
    BY <1>10 DEF Relaunch, vars, TypeOK, PostingsTypeOK
  <1> QED
    BY <1>1, <1>2, <1>3, <1>4, <1>5, <1>6, <1>7, <1>8, <1>9, <1>10 DEF Next

(* ImagesPaired is kept by every step.                                     *)
LEMMA PairedNext == TypeOK /\ ImagesPaired /\ [Next]_vars => ImagesPaired'
PROOF
  <1> SUFFICES ASSUME TypeOK, ImagesPaired, [Next]_vars PROVE ImagesPaired'
    OBVIOUS
  <1> USE DEF written, remote, loads, rows
  <1>1. CASE UNCHANGED <<recentBooks, imageCache>>
    BY <1>1 DEF ImagesPaired
  <1>2. CASE PostingsCallback
    BY <1>2, CallbackRows
  <1>3. ASSUME recentBooks' = <<>>, imageCache' = <<>>
        PROVE  ImagesPaired'
    BY <1>3 DEF ImagesPaired, PicturesOf
  <1>4. CASE ViewWillAppear \/ Clear \/ Trap \/ Killed
    BY <1>3, <1>4 DEF ViewWillAppear, Clear, ForgetRows, EmptyRows, Trap, Killed, Die
  <1>5. CASE \/ OthersWrite \/ (\E d \in DocIDs : View(d)) \/ AnswerUser \/ UserCallback
             \/ AnswerPostings \/ Relaunch \/ UNCHANGED vars
    BY <1>1, <1>5 DEF OthersWrite, View, AnswerUser, UserCallback, AnswerPostings,
                      Relaunch, vars
  <1> QED
    BY <1>2, <1>4, <1>5 DEF Next

(* IDsWereViewed is kept by every step: IDs are only copied and forgotten, *)
(* and what was written is never unwritten.                                *)
LEMMA ViewedNext == TypeOK /\ IDsWereViewed /\ [Next]_vars => IDsWereViewed'
PROOF
  <1> SUFFICES ASSUME TypeOK, IDsWereViewed, [Next]_vars PROVE IDsWereViewed'
    OBVIOUS
  <1> USE DEF written, remote, loads, rows
  <1>1. CASE UNCHANGED <<written, everViewed, recentlyViewed, recents, userAnswers>>
    BY <1>1 DEF IDsWereViewed
  <1>2. CASE OthersWrite
    <2>1. \A d \in DocIDs : postings[d] # Unborn => postings'[d] # Unborn
      BY <1>2, WriteKeepsTypes DEF OthersWrite, TypeOK
    <2> QED
      BY <1>2, <2>1 DEF OthersWrite, IDsWereViewed, TypeOK
  <1>3. ASSUME NEW d \in DocIDs, View(d) PROVE IDsWereViewed'
    BY <1>3 DEF View, IDsWereViewed
  <1>4. CASE ViewWillAppear \/ Clear
    BY <1>4 DEF ViewWillAppear, Clear, ForgetRows, EmptyRows, IDsWereViewed
  <1>5. CASE AnswerUser
    <2>1. PICK ok \in BOOLEAN :
              userAnswers' = Append(userAnswers, [ok |-> ok, ids |-> recentlyViewed])
      BY <1>5 DEF AnswerUser
    <2>2. [ok |-> ok, ids |-> recentlyViewed] \in UserAnswers
      BY DEF TypeOK, UserAnswers
    <2>3. \A i \in DOMAIN userAnswers' :
              \/ i \in DOMAIN userAnswers /\ userAnswers'[i] = userAnswers[i]
              \/ userAnswers'[i] = [ok |-> ok, ids |-> recentlyViewed]
      BY <2>1, <2>2, AppendToQueue DEF TypeOK
    <2>4. UNCHANGED <<written, everViewed, recentlyViewed, recents>>
      BY <1>5 DEF AnswerUser
    <2>5. \A i \in DOMAIN userAnswers' : userAnswers'[i].ids \subseteq everViewed
      BY <2>3 DEF IDsWereViewed
    <2> QED
      BY <2>4, <2>5 DEF IDsWereViewed
  <1>6. CASE UserCallback
    <2>1. /\ Head(userAnswers) = userAnswers[1] /\ 1 \in DOMAIN userAnswers
          /\ \A i \in DOMAIN userAnswers' :
                i + 1 \in DOMAIN userAnswers /\ userAnswers'[i] = userAnswers[i + 1]
      BY <1>6, TailOfQueue DEF UserCallback, TypeOK
    <2>2. UNCHANGED <<written, everViewed, recentlyViewed>>
      BY <1>6 DEF UserCallback
    <2>3. recents' \subseteq everViewed
      BY <1>6, <2>1 DEF UserCallback, IDsWereViewed
    <2>4. \A i \in DOMAIN userAnswers' : userAnswers'[i].ids \subseteq everViewed
      BY <2>1 DEF IDsWereViewed
    <2> QED
      BY <2>2, <2>3, <2>4 DEF IDsWereViewed
  <1>7. CASE Trap \/ Killed
    <2>1. /\ UNCHANGED <<written, everViewed, recentlyViewed>>
          /\ recents' = {} /\ userAnswers' = <<>>
      BY <1>7 DEF Trap, Killed, Die
    <2> QED
      BY <2>1 DEF IDsWereViewed
  <1>8. CASE AnswerPostings \/ PostingsCallback \/ Relaunch \/ UNCHANGED vars
    BY <1>1, <1>8 DEF AnswerPostings, PostingsCallback, Relaunch, vars
  <1> QED
    BY <1>2, <1>3, <1>4, <1>5, <1>6, <1>7, <1>8 DEF Next

(* CopiesDescend is kept by every step: copies are taken from the store or *)
(* from one another.                                                       *)
LEMMA CopiesNext == TypeOK /\ CopiesDescend /\ [Next]_vars => CopiesDescend'
PROOF
  <1> SUFFICES ASSUME TypeOK, CopiesDescend, [Next]_vars PROVE CopiesDescend'
    OBVIOUS
  <1> USE DEF written, remote, loads, rows
  <1>1. CASE UNCHANGED <<written, cache, answers>>
    BY <1>1 DEF CopiesDescend, Descends
  <1>2. CASE OthersWrite
    <2>1. WritePosting /\ PostingsTypeOK /\ answers' = answers /\ cache' = cache
      BY <1>2, WriteKeepsTypes DEF OthersWrite, TypeOK
    <2>2. \A d \in DocIDs : cache'[d] \in Books => Descends(cache[d], d)'
      BY <2>1, WriteKeepsDescent DEF CopiesDescend
    <2>3. \A i \in DOMAIN answers', d \in DocIDs :
              answers'[i].docs[d] \in Books => Descends(answers[i].docs[d], d)'
      BY <2>1, WriteKeepsDescent DEF CopiesDescend
    <2> QED
      BY <2>1, <2>2, <2>3 DEF CopiesDescend
  <1>3. CASE AnswerPostings
    <2>1. PICK a \in [ok : {TRUE}, docs : {postings, cache}]
                       \cup [ok : {FALSE}, docs : {postings}] :
              answers' = Append(answers, a)
      BY <1>3 DEF AnswerPostings
    <2>2. a \in Answers /\ a.docs \in {postings, cache}
      BY DEF Answers, TypeOK, PostingsTypeOK
    <2>3. \A i \in DOMAIN answers' :
              (i \in DOMAIN answers /\ answers'[i] = answers[i]) \/ answers'[i] = a
      BY <2>1, <2>2, AppendToQueue DEF TypeOK
    <2>4. UNCHANGED written /\ cache' \in {postings, cache}
      BY <1>3 DEF AnswerPostings
    <2>5. \A d \in DocIDs : postings[d] \in Books => Descends(postings[d], d)
      BY ListingDescends DEF TypeOK
    <2>6. \A d \in DocIDs :
              /\ cache'[d] \in Books => Descends(cache'[d], d)
              /\ a.docs[d] \in Books => Descends(a.docs[d], d)
      BY <2>2, <2>4, <2>5 DEF CopiesDescend
    <2>7. \A i \in DOMAIN answers', d \in DocIDs :
              answers'[i].docs[d] \in Books => Descends(answers'[i].docs[d], d)
      BY <2>3, <2>6 DEF CopiesDescend
    <2> QED
      BY <2>4, <2>6, <2>7 DEF CopiesDescend, Descends
  <1>4. CASE PostingsCallback
    <2>1. \A i \in DOMAIN answers' :
              i + 1 \in DOMAIN answers /\ answers'[i] = answers[i + 1]
      BY <1>4, TailOfQueue DEF PostingsCallback, TypeOK
    <2>2. UNCHANGED <<written, cache>>
      BY <1>4 DEF PostingsCallback
    <2> QED
      BY <2>1, <2>2 DEF CopiesDescend, Descends
  <1>5. CASE Trap \/ Killed
    <2>1. UNCHANGED <<written, cache>> /\ answers' = <<>>
      BY <1>5 DEF Trap, Killed, Die
    <2> QED
      BY <2>1 DEF CopiesDescend, Descends
  <1>6. CASE \/ (\E d \in DocIDs : View(d)) \/ ViewWillAppear \/ AnswerUser
             \/ UserCallback \/ Clear \/ Relaunch \/ UNCHANGED vars
    BY <1>1, <1>6 DEF View, ViewWillAppear, AnswerUser, UserCallback, Clear, Relaunch, vars
  <1> QED
    BY <1>2, <1>3, <1>4, <1>5, <1>6 DEF Next

(* RowsDescend is kept by every step.                                      *)
LEMMA RowsNext ==
    TypeOK /\ IDsWereViewed /\ CopiesDescend /\ RowsDescend /\ [Next]_vars => RowsDescend'
PROOF
  <1> SUFFICES ASSUME TypeOK, IDsWereViewed, CopiesDescend, RowsDescend, [Next]_vars
               PROVE  RowsDescend'
    OBVIOUS
  <1> USE DEF written, remote, loads, rows
  <1>1. CASE UNCHANGED <<written, everViewed, recentBooks>>
    BY <1>1 DEF RowsDescend, Descends
  <1>2. CASE OthersWrite
    <2>1. WritePosting /\ UNCHANGED <<everViewed, recentBooks>>
      BY <1>2 DEF OthersWrite
    <2>2. PostingsTypeOK /\ everViewed \subseteq DocIDs
      BY DEF TypeOK
    <2>3. ASSUME NEW r \in DOMAIN recentBooks
          PROVE  \E d \in everViewed : Descends(recentBooks[r], d)'
      BY <2>1, <2>2, WriteKeepsDescent DEF RowsDescend
    <2> QED
      BY <2>1, <2>3 DEF RowsDescend
  <1>3. ASSUME NEW d \in DocIDs, View(d) PROVE RowsDescend'
    BY <1>3 DEF View, RowsDescend, Descends
  <1>4. CASE PostingsCallback
    <2>1. UNCHANGED <<written, everViewed>>
      BY <1>4 DEF PostingsCallback
    <2>2. 1 \in DOMAIN answers
      BY <1>4, TailOfQueue DEF PostingsCallback, TypeOK
    <2>3. ASSUME NEW r \in DOMAIN recentBooks'
          PROVE  \E d \in everViewed : Descends(recentBooks'[r], d)
      <3>1. CASE r \in DOMAIN recentBooks /\ recentBooks'[r] = recentBooks[r]
        BY <3>1 DEF RowsDescend
      <3>2. CASE \E d \in recents : /\ answers[1].docs[d] \in Books
                                    /\ recentBooks'[r] = answers[1].docs[d]
        BY <2>2, <3>2 DEF IDsWereViewed, CopiesDescend, TypeOK
      <3> QED
        BY <1>4, <3>1, <3>2, CallbackRows
    <2> QED
      BY <2>1, <2>3 DEF RowsDescend, Descends
  <1>5. ASSUME recentBooks' = <<>> PROVE RowsDescend'
    BY <1>5 DEF RowsDescend
  <1>6. CASE ViewWillAppear \/ Clear \/ Trap \/ Killed
    BY <1>5, <1>6 DEF ViewWillAppear, Clear, ForgetRows, EmptyRows, Trap, Killed, Die
  <1>7. CASE AnswerUser \/ UserCallback \/ AnswerPostings \/ Relaunch \/ UNCHANGED vars
    BY <1>1, <1>7 DEF AnswerUser, UserCallback, AnswerPostings, Relaunch, vars
  <1> QED
    BY <1>2, <1>3, <1>4, <1>6, <1>7 DEF Next

(* How each step changes the number of loads under way.                    *)
LEMMA LoadsUnderWay ==
    ASSUME TypeOK
    PROVE  /\ UnderWay \in Nat
           /\ AnswerUser \/ AnswerPostings => UnderWay' = UnderWay
           /\ UserCallback => UnderWay' \in Nat /\ UnderWay' =< UnderWay
           /\ PostingsCallback => UnderWay > 0 /\ UnderWay' = UnderWay - 1
           /\ ViewWillAppear => UnderWay' = UnderWay + 1
PROOF
  <1> USE DEF UnderWay, remote, loads, rows
  <1>1. /\ userAsked \in Nat /\ asked \in Nat
        /\ userAnswers \in Seq(UserAnswers) /\ answers \in Seq(Answers)
        /\ Len(userAnswers) \in Nat /\ Len(answers) \in Nat
    BY LenProperties DEF TypeOK
  <1>2. ASSUME AnswerUser PROVE UnderWay' = UnderWay
    <2>1. PICK ok \in BOOLEAN :
              userAnswers' = Append(userAnswers, [ok |-> ok, ids |-> recentlyViewed])
      BY <1>2 DEF AnswerUser
    <2>2. [ok |-> ok, ids |-> recentlyViewed] \in UserAnswers
      BY DEF TypeOK, UserAnswers
    <2>3. Len(userAnswers') = Len(userAnswers) + 1
      BY <1>1, <2>1, <2>2, AppendToQueue
    <2> QED
      BY <1>1, <1>2, <2>3 DEF AnswerUser
  <1>3. ASSUME AnswerPostings PROVE UnderWay' = UnderWay
    <2>1. PICK a \in [ok : {TRUE}, docs : {postings, cache}]
                       \cup [ok : {FALSE}, docs : {postings}] :
              answers' = Append(answers, a)
      BY <1>3 DEF AnswerPostings
    <2>2. a \in Answers
      BY DEF Answers, TypeOK, PostingsTypeOK
    <2>3. Len(answers') = Len(answers) + 1
      BY <1>1, <2>1, <2>2, AppendToQueue
    <2> QED
      BY <1>1, <1>3, <2>3 DEF AnswerPostings, Unanswered
  <1>4. ASSUME UserCallback PROVE UnderWay' \in Nat /\ UnderWay' =< UnderWay
    <2>1. Len(userAnswers') = Len(userAnswers) - 1 /\ Len(userAnswers) \in Nat \ {0}
      BY <1>1, <1>4, TailOfQueue DEF UserCallback
    <2>2. asked' \in {asked, asked + 1} /\ UNCHANGED <<userAsked, answers>>
      BY <1>4 DEF UserCallback
    <2> QED
      BY <1>1, <2>1, <2>2
  <1>5. ASSUME PostingsCallback PROVE UnderWay > 0 /\ UnderWay' = UnderWay - 1
    <2>1. Len(answers') = Len(answers) - 1 /\ Len(answers) \in Nat \ {0}
      BY <1>1, <1>5, TailOfQueue DEF PostingsCallback
    <2> QED
      BY <1>1, <1>5, <2>1 DEF PostingsCallback
  <1>6. ASSUME ViewWillAppear PROVE UnderWay' = UnderWay + 1
    BY <1>1, <1>6 DEF ViewWillAppear
  <1> QED
    BY <1>1, <1>2, <1>3, <1>4, <1>5, <1>6

(* LoadAlone is kept by every step.                                        *)
LEMMA AloneNext == TypeOK /\ LoadAlone /\ [Next]_vars => LoadAlone'
PROOF
  <1> SUFFICES ASSUME TypeOK, LoadAlone, [Next]_vars PROVE LoadAlone'
    OBVIOUS
  <1> USE DEF written, remote, loads, rows
  <1>1. UnderWay \in Nat
    BY LoadsUnderWay
  <1>2. CASE UnderWay' = UnderWay /\ UNCHANGED <<recentBooks, overlapped>>
    BY <1>2 DEF LoadAlone
  <1>3. CASE UserCallback
    <2>1. /\ UNCHANGED <<recentBooks, overlapped>>
          /\ UnderWay' \in Nat /\ UnderWay' =< UnderWay
      BY <1>3, LoadsUnderWay DEF UserCallback
    <2> QED
      BY <1>1, <2>1 DEF LoadAlone
  <1>4. CASE PostingsCallback
    <2>1. UnderWay > 0 /\ UnderWay' = UnderWay - 1 /\ overlapped' = overlapped
      BY <1>4, LoadsUnderWay DEF PostingsCallback
    <2> QED
      BY <1>1, <2>1 DEF LoadAlone
  <1>5. CASE ViewWillAppear
    <2>1. /\ UnderWay' = UnderWay + 1 /\ recentBooks' = <<>>
          /\ overlapped' = (UnderWay > 0)
      BY <1>5, LoadsUnderWay DEF ViewWillAppear, EmptyRows
    <2>2. UnderWay > 0 => overlapped'
      BY <2>1, Zenon
    <2> QED
      BY <1>1, <2>1, <2>2 DEF LoadAlone
  <1>6. CASE Clear
    <2>1. recentBooks' = <<>> /\ UnderWay' = UnderWay /\ overlapped' = overlapped
      BY <1>6 DEF Clear, ForgetRows, EmptyRows, UnderWay
    <2> QED
      BY <2>1 DEF LoadAlone
  <1>7. CASE Trap \/ Killed
    <2>1. UnderWay' = 0
      BY <1>7 DEF Trap, Killed, Die, UnderWay
    <2> QED
      BY <2>1 DEF LoadAlone
  <1>8. CASE OthersWrite \/ (\E d \in DocIDs : View(d)) \/ Relaunch \/ UNCHANGED vars
    BY <1>2, <1>8 DEF OthersWrite, View, Relaunch, vars, UnderWay
  <1>9. CASE AnswerUser \/ AnswerPostings
    BY <1>2, <1>9, LoadsUnderWay DEF AnswerUser, AnswerPostings
  <1> QED
    BY <1>3, <1>4, <1>5, <1>6, <1>7, <1>8, <1>9 DEF Next

(* NoRowTwice is kept by every step: a lone load fills an empty list with  *)
(* one book for each of some of the IDs viewed.                            *)
LEMMA OnceNext ==
    TypeOK /\ IDsWereViewed /\ LoadAlone /\ NoRowTwice /\ [Next]_vars => NoRowTwice'
PROOF
  <1> SUFFICES ASSUME TypeOK, IDsWereViewed, LoadAlone, NoRowTwice, [Next]_vars
               PROVE  NoRowTwice'
    OBVIOUS
  <1> USE DEF written, remote, loads, rows
  <1>1. IsFiniteSet(everViewed) /\ Cardinality(everViewed) \in Nat
    BY DocIDsAssumption, FS_Subset, FS_CardinalityType DEF TypeOK
  <1>2. CASE UNCHANGED <<everViewed, recentBooks, overlapped>>
    BY <1>2 DEF NoRowTwice
  <1>3. ASSUME NEW d \in DocIDs, View(d) PROVE NoRowTwice'
    <2>1. everViewed' = everViewed \cup {d} /\ UNCHANGED <<recentBooks, overlapped>>
      BY <1>3 DEF View
    <2>2. /\ Cardinality(everViewed') \in Nat
          /\ Cardinality(everViewed) =< Cardinality(everViewed')
      BY <1>1, <2>1, FS_AddElement, FS_Subset, FS_CardinalityType
    <2>3. Len(recentBooks) \in Nat
      BY LenProperties DEF TypeOK
    <2> QED
      BY <1>1, <2>1, <2>2, <2>3 DEF NoRowTwice
  <1>4. CASE PostingsCallback
    <2> SUFFICES ASSUME ~overlapped PROVE Len(recentBooks') =< Cardinality(everViewed)
      BY <1>4 DEF PostingsCallback, NoRowTwice
    <2>1. recentBooks = <<>>
      BY <1>4, LoadsUnderWay DEF LoadAlone
    <2>2. Recent(answers[1].docs) \subseteq everViewed
      BY RecentFinite DEF IDsWereViewed
    <2>3. /\ Cardinality(Recent(answers[1].docs)) \in Nat
          /\ Cardinality(Recent(answers[1].docs)) =< Cardinality(everViewed)
      BY <1>1, <2>2, FS_Subset, FS_CardinalityType
    <2>4. Len(recentBooks) = 0
      BY <2>1
    <2> QED
      BY <1>1, <1>4, <2>1, <2>3, <2>4, CallbackRows
  <1>5. ASSUME recentBooks' = <<>>, everViewed' = everViewed PROVE NoRowTwice'
    BY <1>1, <1>5 DEF NoRowTwice
  <1>6. CASE ViewWillAppear \/ Clear \/ Trap \/ Killed
    BY <1>5, <1>6 DEF ViewWillAppear, Clear, ForgetRows, EmptyRows, Trap, Killed, Die
  <1>7. CASE OthersWrite \/ AnswerUser \/ UserCallback \/ AnswerPostings \/ Relaunch
             \/ UNCHANGED vars
    BY <1>2, <1>7 DEF OthersWrite, AnswerUser, UserCallback, AnswerPostings, Relaunch, vars
  <1> QED
    BY <1>3, <1>4, <1>6, <1>7 DEF Next

(* What was cleared alone stays so, on the device as in the document.      *)
LEMMA ClearNext ==
    TypeOK /\ NothingToBringBack /\ ClearStaysEmpty /\ [Next]_vars
        => NothingToBringBack' /\ ClearStaysEmpty'
PROOF
  <1> SUFFICES ASSUME TypeOK, NothingToBringBack, ClearStaysEmpty, [Next]_vars
               PROVE  NothingToBringBack' /\ ClearStaysEmpty'
    OBVIOUS
  <1> USE DEF written, remote, loads, rows, NothingToBringBack, ClearStaysEmpty
  <1>1. CASE UNCHANGED <<recentlyViewed, recents, userAnswers, recentBooks, cleared>>
    BY <1>1
  <1>2. ASSUME NEW d \in DocIDs, View(d) PROVE NothingToBringBack' /\ ClearStaysEmpty'
    BY <1>2 DEF View
  <1>3. CASE ViewWillAppear
    BY <1>3 DEF ViewWillAppear, EmptyRows
  <1>4. CASE AnswerUser
    <2>1. PICK ok \in BOOLEAN :
              userAnswers' = Append(userAnswers, [ok |-> ok, ids |-> recentlyViewed])
      BY <1>4 DEF AnswerUser
    <2>2. [ok |-> ok, ids |-> recentlyViewed] \in UserAnswers
      BY DEF TypeOK, UserAnswers
    <2>3. \A i \in DOMAIN userAnswers' :
              \/ i \in DOMAIN userAnswers /\ userAnswers'[i] = userAnswers[i]
              \/ userAnswers'[i] = [ok |-> ok, ids |-> recentlyViewed]
      BY <2>1, <2>2, AppendToQueue DEF TypeOK
    <2>4. UNCHANGED <<recentlyViewed, recents, recentBooks, cleared>>
      BY <1>4 DEF AnswerUser
    <2> QED
      BY <2>3, <2>4
  <1>5. CASE UserCallback
    <2>1. /\ Head(userAnswers) = userAnswers[1] /\ 1 \in DOMAIN userAnswers
          /\ \A i \in DOMAIN userAnswers' :
                i + 1 \in DOMAIN userAnswers /\ userAnswers'[i] = userAnswers[i + 1]
      BY <1>5, TailOfQueue DEF UserCallback, TypeOK
    <2>2. UNCHANGED <<recentlyViewed, recentBooks, cleared>>
      BY <1>5 DEF UserCallback
    <2>3. recents' \in {recents, userAnswers[1].ids}
      BY <1>5, <2>1 DEF UserCallback
    <2> QED
      BY <2>1, <2>2, <2>3
  <1>6. CASE PostingsCallback
    <2>1. UNCHANGED <<recentlyViewed, recents, userAnswers, cleared>>
      BY <1>6 DEF PostingsCallback
    <2>2. ASSUME cleared = "alone" PROVE recentBooks' = <<>>
      <3>1. recents = {} /\ recentBooks = <<>>
        BY <2>2
      <3>2. /\ recentBooks' \in Seq(Books)
            /\ \A r \in DOMAIN recentBooks' : r \in DOMAIN recentBooks
        BY <1>6, <3>1, CallbackRows
      <3>3. DOMAIN recentBooks' = {}
        <4>1. DOMAIN recentBooks = {}
          BY <3>1
        <4> QED
          BY <3>2, <4>1, Zenon
      <3>4. Len(recentBooks') = 0
        BY <3>2, <3>3, LenProperties
      <3> QED
        BY <3>2, <3>4, EmptySeq
    <2> QED
      BY <2>1, <2>2
  <1>7. CASE Clear
    <2>1. /\ recentlyViewed' = {} /\ recents' = {} /\ recentBooks' = <<>>
          /\ userAnswers' = userAnswers
          /\ cleared' = "alone" => userAnswers = <<>>
      BY <1>7 DEF Clear, ForgetRows, EmptyRows
    <2> QED
      BY <2>1
  <1>8. CASE Trap \/ Killed
    <2>1. /\ UNCHANGED <<recentlyViewed, cleared>>
          /\ recents' = {} /\ recentBooks' = <<>> /\ userAnswers' = <<>>
      BY <1>8 DEF Trap, Killed, Die
    <2> QED
      BY <2>1
  <1>9. CASE OthersWrite \/ AnswerPostings \/ Relaunch \/ UNCHANGED vars
    BY <1>1, <1>9 DEF OthersWrite, AnswerPostings, Relaunch, vars
  <1> QED
    BY <1>2, <1>3, <1>4, <1>5, <1>6, <1>7, <1>8, <1>9 DEF Next
-------------------------------------------------------------------------------
(* The inductive invariant. IDsWereViewed and CopiesDescend are what       *)
(* RowsDescend, and so RowsWereViewed, rests on; LoadAlone is why          *)
(* NoRowTwice lasts and NothingToBringBack why ClearStaysEmpty does.       *)
IInv ==
    /\ TypeOK
    /\ ImagesPaired
    /\ IDsWereViewed /\ CopiesDescend /\ RowsDescend
    /\ LoadAlone /\ NoRowTwice
    /\ NothingToBringBack /\ ClearStaysEmpty

LEMMA IInvInit == Init => IInv
PROOF
  <1> SUFFICES ASSUME Init PROVE IInv
    OBVIOUS
  <1>1. TypeOK
    BY TypeInit
  <1>2. ImagesPaired
    BY DEF Init, ImagesPaired, PicturesOf
  <1>3. IDsWereViewed /\ RowsDescend
    BY DEF Init, IDsWereViewed, RowsDescend
  <1>4. CopiesDescend
    BY SpecialValuesAssumption DEF Init, PostingsInit, CopiesDescend
  <1>5. LoadAlone
    <2>1. UnderWay = 0
      BY DEF Init, UnderWay
    <2> QED
      BY <2>1 DEF LoadAlone
  <1>6. NoRowTwice
    <2>1. IsFiniteSet(everViewed)
      BY <1>1, DocIDsAssumption, FS_Subset DEF TypeOK
    <2>2. Cardinality(everViewed) \in Nat
      BY <2>1, FS_CardinalityType
    <2>3. Len(recentBooks) = 0
      BY DEF Init
    <2> QED
      BY <2>2, <2>3 DEF NoRowTwice
  <1>7. NothingToBringBack /\ ClearStaysEmpty
    BY DEF Init, NothingToBringBack, ClearStaysEmpty
  <1> QED
    BY <1>1, <1>2, <1>3, <1>4, <1>5, <1>6, <1>7 DEF IInv

LEMMA IInvNext == IInv /\ [Next]_vars => IInv'
PROOF
  BY TypeNext, PairedNext, ViewedNext, CopiesNext, RowsNext, AloneNext, OnceNext, ClearNext
     DEF IInv

(* Every reachable state satisfies the inductive invariant.                *)
THEOREM HistoryInvariance == Spec => []IInv
PROOF
  BY IInvInit, IInvNext, PTL DEF Spec

(* The variables keep their types.                                         *)
THEOREM HistoryTypeCorrect == Spec => []TypeOK
PROOF
  <1>1. IInv => TypeOK
    BY DEF IInv
  <1> QED
    BY <1>1, HistoryInvariance, PTL

(* Each row has the picture of its own book, however many loads append to  *)
(* the two arrays and whenever a visit or a clear empties them.            *)
THEOREM HistoryPicturesStayPaired == Spec => []ImagesPaired
PROOF
  <1>1. IInv => ImagesPaired
    BY DEF IInv
  <1> QED
    BY <1>1, HistoryInvariance, PTL

(* Every row is of the title and the seller of a listing the user viewed,  *)
(* or that listing is gone, although the IDs and the documents are read at *)
(* different times.                                                        *)
THEOREM OnlyViewedAreListed == Spec => []RowsWereViewed
PROOF
  <1>1. IInv => RowsWereViewed
    BY DEF IInv, RowsDescend, Descends, SameListing, RowsWereViewed
  <1> QED
    BY <1>1, HistoryInvariance, PTL

(* A visit that met no load of an earlier one has at most one row for each *)
(* listing ever viewed.                                                    *)
THEOREM ListedOnce == Spec => []NoRowTwice
PROOF
  <1>1. IInv => NoRowTwice
    BY DEF IInv
  <1> QED
    BY <1>1, HistoryInvariance, PTL

(* Once cleared with no answer with IDs waiting, the history stays empty   *)
(* until something is viewed, whatever loads were under way.               *)
THEOREM ClearedStaysEmpty == Spec => []ClearStaysEmpty
PROOF
  <1>1. IInv => ClearStaysEmpty
    BY DEF IInv
  <1> QED
    BY <1>1, HistoryInvariance, PTL
================================================================================
