---------------------------- MODULE PostingsProofs ----------------------------
(***************************************************************************)
(* Facts about the data that the three tabs load, for their proofs: what   *)
(* an enumeration of a snapshot and the arrays filled from it look like,   *)
(* what a document that was once a listing may still become, how the queue *)
(* of answers grows and shrinks, and which taps the contract with          *)
(* BrowseDetails allows.                                                   *)
(***************************************************************************)
EXTENDS Handover, TLAPS, FiniteSetTheorems, SequenceTheorems

(* A sequence is a function on 1 .. n into its set of elements.            *)
LEMMA FunctionIsSeq ==
    ASSUME NEW S, NEW n \in Nat, NEW f \in [1 .. n -> S]
    PROVE  f \in Seq(S) /\ Len(f) = n
PROOF
  <1>1. f = [i \in 1 .. n |-> f[i]]
    OBVIOUS
  <1>2. [i \in 1 .. n |-> f[i]] \in Seq(S)
    BY \A i \in 1 .. n : f[i] \in S, IsASeq
  <1>3. f \in Seq(S)
    BY <1>1, <1>2
  <1>4. DOMAIN f = 1 .. Len(f) /\ Len(f) \in Nat
    BY <1>3, LenProperties
  <1> QED
    BY <1>3, <1>4

(* The documents a load decodes are finitely many.                         *)
LEMMA DecodableFinite ==
    ASSUME NEW docs
    PROVE  Decodable(docs) \subseteq DocIDs /\ IsFiniteSet(Decodable(docs))
PROOF
  BY DocIDsAssumption, FS_Subset DEF Decodable

(* An enumeration in document order repeats no document.                   *)
LEMMA InOrderFacts ==
    ASSUME NEW S, S \subseteq Nat, IsFiniteSet(S), NEW ids \in InOrder(S)
    PROVE  /\ Cardinality(S) \in Nat
           /\ ids \in [1 .. Cardinality(S) -> S]
           /\ \A i, j \in 1 .. Cardinality(S) : i # j => ids[i] # ids[j]
PROOF
  <1>1. Cardinality(S) \in Nat
    BY FS_CardinalityType
  <1>2. ids \in [1 .. Cardinality(S) -> S]
    BY DEF InOrder
  <1>3. \A i, j \in 1 .. Cardinality(S) : i < j => ids[i] < ids[j]
    BY <1>2 DEF InOrder
  <1>4. ASSUME NEW i \in 1 .. Cardinality(S), NEW j \in 1 .. Cardinality(S), i # j
        PROVE  ids[i] # ids[j]
    <2>1. ids[i] \in Nat /\ ids[j] \in Nat
      BY <1>2
    <2>2. i < j \/ j < i
      BY <1>1, <1>4
    <2> QED
      BY <1>3, <2>1, <2>2
  <1> QED
    BY <1>1, <1>2, <1>4

(* What a load reads off a snapshot is a sequence of books.                *)
LEMMA BooksOfSnapshot ==
    ASSUME NEW docs, NEW ids \in InOrder(Decodable(docs))
    PROVE  /\ BooksOf(docs, ids) \in Seq(Books)
           /\ DOMAIN BooksOf(docs, ids) = 1 .. Cardinality(Decodable(docs))
           /\ \A i \in 1 .. Cardinality(Decodable(docs)) :
                 BooksOf(docs, ids)[i] = docs[ids[i]]
PROOF
  <1> DEFINE S == Decodable(docs)
             n == Cardinality(S)
  <1>1. n \in Nat /\ ids \in [1 .. n -> S]
    BY DecodableFinite, DocIDsAssumption, InOrderFacts
  <1>2. \A i \in 1 .. n : docs[ids[i]] \in Books
    BY <1>1 DEF Decodable
  <1>3. BooksOf(docs, ids) \in [1 .. n -> Books]
    BY <1>1, <1>2 DEF BooksOf
  <1>4. BooksOf(docs, ids) \in Seq(Books)
    BY <1>1, <1>3, FunctionIsSeq
  <1>5. DOMAIN BooksOf(docs, ids) = 1 .. n
    BY <1>3
  <1>6. \A i \in 1 .. n : BooksOf(docs, ids)[i] = docs[ids[i]]
    BY <1>1 DEF BooksOf
  <1> QED
    BY <1>4, <1>5, <1>6

(* The rows a search picks out of the feed are rows of the feed.           *)
LEMMA BooksOfHits ==
    ASSUME NEW S, NEW f \in Seq(S), NEW H \in SUBSET DOMAIN f, NEW hits \in InOrder(H)
    PROVE  /\ BooksOf(f, hits) \in Seq(S)
           /\ \A r \in DOMAIN BooksOf(f, hits) :
                 \E i \in DOMAIN f : BooksOf(f, hits)[r] = f[i]
PROOF
  <1> DEFINE n == Cardinality(H)
  <1>1. DOMAIN f = 1 .. Len(f) /\ Len(f) \in Nat /\ \A i \in DOMAIN f : f[i] \in S
    BY LenProperties
  <1>2. H \subseteq Nat /\ IsFiniteSet(H)
    <2>1. IsFiniteSet(1 .. Len(f))
      BY <1>1, FS_Interval
    <2> QED
      BY <1>1, <2>1, FS_Subset
  <1>3. n \in Nat /\ hits \in [1 .. n -> H]
    BY <1>2, InOrderFacts
  <1>4. BooksOf(f, hits) = [i \in 1 .. n |-> f[hits[i]]]
    BY <1>3 DEF BooksOf
  <1>5. \A i \in 1 .. n : hits[i] \in DOMAIN f
    BY <1>3
  <1>6. BooksOf(f, hits) \in [1 .. n -> S]
    BY <1>1, <1>4, <1>5
  <1>7. BooksOf(f, hits) \in Seq(S)
    BY <1>3, <1>6, FunctionIsSeq
  <1> QED
    BY <1>4, <1>5, <1>7

(* The pictures of a sequence of books, one for one.                       *)
LEMMA PicturesOfSeq ==
    ASSUME NEW books \in Seq(Books)
    PROVE  /\ PicturesOf(books) \in Seq(Pictures)
           /\ Len(PicturesOf(books)) = Len(books)
           /\ \A i \in 1 .. Len(books) : PicturesOf(books)[i] = books[i].picture
PROOF
  <1>1. DOMAIN books = 1 .. Len(books) /\ Len(books) \in Nat
    BY LenProperties
  <1>2. \A i \in 1 .. Len(books) : books[i] \in Books
    BY ElementOfSeq
  <1>3. \A i \in 1 .. Len(books) : books[i].picture \in Pictures
    BY <1>2 DEF Pictures
  <1>4. PicturesOf(books) \in [1 .. Len(books) -> Pictures]
    BY <1>1, <1>3 DEF PicturesOf
  <1>5. PicturesOf(books) \in Seq(Pictures) /\ Len(PicturesOf(books)) = Len(books)
    BY <1>1, <1>4, FunctionIsSeq
  <1>6. \A i \in 1 .. Len(books) : PicturesOf(books)[i] = books[i].picture
    BY <1>1 DEF PicturesOf
  <1> QED
    BY <1>5, <1>6

(* Appending books and appending their pictures keeps the arrays parallel. *)
LEMMA PicturesOfConcat ==
    ASSUME NEW s \in Seq(Books), NEW t \in Seq(Books)
    PROVE  PicturesOf(s \o t) = PicturesOf(s) \o PicturesOf(t)
PROOF
  <1> DEFINE l == PicturesOf(s \o t)
             r == PicturesOf(s) \o PicturesOf(t)
  <1>1. s \o t \in Seq(Books) /\ Len(s \o t) = Len(s) + Len(t)
    BY ConcatProperties
  <1>2. \A i \in 1 .. Len(s) + Len(t) :
            (s \o t)[i] = IF i <= Len(s) THEN s[i] ELSE t[i - Len(s)]
    BY ConcatProperties
  <1>3. l \in Seq(Pictures) /\ Len(l) = Len(s) + Len(t)
    BY <1>1, PicturesOfSeq
  <1>4. \A i \in 1 .. Len(s) + Len(t) : l[i] = (s \o t)[i].picture
    BY <1>1, PicturesOfSeq
  <1>5. /\ PicturesOf(s) \in Seq(Pictures) /\ Len(PicturesOf(s)) = Len(s)
        /\ PicturesOf(t) \in Seq(Pictures) /\ Len(PicturesOf(t)) = Len(t)
    BY PicturesOfSeq
  <1>6. r \in Seq(Pictures) /\ Len(r) = Len(PicturesOf(s)) + Len(PicturesOf(t))
    BY <1>5, ConcatProperties
  <1>7. \A i \in 1 .. Len(s) + Len(t) :
            r[i] = IF i <= Len(s) THEN PicturesOf(s)[i] ELSE PicturesOf(t)[i - Len(s)]
    BY <1>5, ConcatProperties
  <1>8. ASSUME NEW i \in 1 .. Len(s) + Len(t)
        PROVE  l[i] = r[i]
    <2>1. Len(s) \in Nat /\ Len(t) \in Nat
      BY LenProperties
    <2>2. CASE i <= Len(s)
      <3>1. i \in 1 .. Len(s)
        BY <2>1, <2>2
      <3> QED
        BY <1>2, <1>4, <1>7, <2>2, <3>1, PicturesOfSeq
    <2>3. CASE ~(i <= Len(s))
      <3>1. i - Len(s) \in 1 .. Len(t)
        BY <2>1, <2>3
      <3> QED
        BY <1>2, <1>4, <1>7, <2>3, <3>1, PicturesOfSeq
    <2> QED
      BY <2>2, <2>3
  <1> QED
    BY <1>3, <1>5, <1>6, <1>8, SeqEqual
-------------------------------------------------------------------------------
(* What waits in a queue of callbacks after its oldest one has run.        *)
LEMMA TailOfQueue ==
    ASSUME NEW S, NEW q \in Seq(S), q # <<>>
    PROVE  /\ Head(q) = q[1] /\ 1 \in DOMAIN q /\ Head(q) \in S
           /\ Tail(q) \in Seq(S)
           /\ Len(q) \in Nat \ {0} /\ Len(Tail(q)) = Len(q) - 1
           /\ \A i \in DOMAIN Tail(q) : i + 1 \in DOMAIN q /\ Tail(q)[i] = q[i + 1]
PROOF
  <1>1. /\ Head(q) \in S /\ Tail(q) \in Seq(S)
        /\ Len(Tail(q)) = Len(q) - 1
        /\ \A i \in 1 .. Len(Tail(q)) : Tail(q)[i] = q[i + 1]
    BY HeadTailProperties
  <1>2. Len(q) \in Nat \ {0} /\ DOMAIN q = 1 .. Len(q)
    BY LenProperties, EmptySeq
  <1>3. DOMAIN Tail(q) = 1 .. Len(q) - 1
    BY <1>1, LenProperties
  <1>4. Head(q) = q[1]
    OBVIOUS
  <1> QED
    BY <1>1, <1>2, <1>3, <1>4

(* What waits in it after one more answer came.                            *)
LEMMA AppendToQueue ==
    ASSUME NEW S, NEW q \in Seq(S), NEW a \in S
    PROVE  /\ Append(q, a) \in Seq(S)
           /\ Len(q) \in Nat /\ Len(Append(q, a)) = Len(q) + 1
           /\ \A i \in DOMAIN Append(q, a) :
                 \/ i \in DOMAIN q /\ Append(q, a)[i] = q[i]
                 \/ Append(q, a)[i] = a
PROOF
  <1>1. /\ Append(q, a) \in Seq(S) /\ Len(Append(q, a)) = Len(q) + 1
        /\ \A i \in 1 .. Len(q) : Append(q, a)[i] = q[i]
        /\ Append(q, a)[Len(q) + 1] = a
    BY AppendProperties
  <1>2. /\ Len(q) \in Nat /\ DOMAIN q = 1 .. Len(q)
        /\ DOMAIN Append(q, a) = 1 .. Len(q) + 1
    BY <1>1, LenProperties
  <1>3. ASSUME NEW i \in DOMAIN Append(q, a)
        PROVE  \/ i \in DOMAIN q /\ Append(q, a)[i] = q[i]
               \/ Append(q, a)[i] = a
    <2>1. i \in 1 .. Len(q) \/ i = Len(q) + 1
      BY <1>2
    <2> QED
      BY <1>1, <1>2, <2>1
  <1> QED
    BY <1>1, <1>2, <1>3
-------------------------------------------------------------------------------
(* Whatever other clients do, a copy stays one of what the document was.   *)
LEMMA WriteKeepsDescent ==
    ASSUME PostingsTypeOK, WritePosting, NEW d \in DocIDs, NEW b, Descends(b, d)
    PROVE  Descends(b, d)'
PROOF
  <1> USE SpecialValuesAssumption
  <1>1. PICK e \in DocIDs :
            \/ \E c \in Books \cup {Malformed} : Create(e, c)
            \/ \E c \in Books : Edit(e, c)
            \/ Delete(e) \/ Return(e) \/ StayAway(e)
    BY DEF WritePosting, OthersNext
  <1>2. /\ postings \in [DocIDs -> Documents]
        /\ mayReturn \in [DocIDs -> Books \cup {NoBook}]
        /\ mayReturn[d] # NoBook => postings[d] = Deleted
    BY DEF PostingsTypeOK
  <1>3. CASE d # e
    BY <1>1, <1>2, <1>3 DEF Create, Edit, Delete, Return, StayAway, Descends
  <1>4. CASE d = e
    <2>1. ASSUME NEW c \in Books \cup {Malformed}, Create(e, c)
          PROVE  FALSE
      BY <1>4, <2>1 DEF Create, Descends
    <2>2. ASSUME NEW c \in Books, Edit(e, c)
          PROVE  Descends(b, d)'
      BY <1>2, <1>4, <2>2 DEF Edit, Descends, SameListing
    <2>3. CASE Delete(e)
      <3>1. PICK c \in {NoBook} \cup AsPosted(e) :
                mayReturn' = [mayReturn EXCEPT ![e] = c]
        BY <2>3 DEF Delete
      <3>2. c # NoBook => SameListing(c, b)
        BY <1>4, <3>1 DEF AsPosted, Descends, SameListing
      <3>3. postings'[d] = Deleted /\ mayReturn'[d] = c
        BY <1>2, <1>4, <2>3, <3>1 DEF Delete
      <3> QED
        BY <3>2, <3>3 DEF Descends
    <2>4. CASE Return(e)
      BY <1>2, <1>4, <2>4 DEF Return, Descends
    <2>5. CASE StayAway(e)
      BY <1>2, <1>4, <2>5 DEF StayAway, Descends
    <2> QED
      BY <1>1, <2>1, <2>2, <2>3, <2>4, <2>5
  <1> QED
    BY <1>3, <1>4

(* What is not written descends as it did.                                 *)
LEMMA NoWriteKeepsDescent ==
    ASSUME UNCHANGED written, NEW d, NEW b
    PROVE  Descends(b, d)' <=> Descends(b, d)
PROOF
  BY DEF Descends, written

(* A listing is a copy of itself.                                          *)
LEMMA ListingDescends ==
    ASSUME PostingsTypeOK, NEW d \in DocIDs, postings[d] \in Books
    PROVE  Descends(postings[d], d)
PROOF
  BY SpecialValuesAssumption DEF PostingsTypeOK, Descends, SameListing

(* Writes keep the types, and what was written is not unwritten.           *)
LEMMA WriteKeepsTypes ==
    ASSUME PostingsTypeOK, WritePosting
    PROVE  /\ PostingsTypeOK' /\ cache' = cache
           /\ \A d \in DocIDs : postings[d] # Unborn => postings'[d] # Unborn
PROOF
  <1> USE SpecialValuesAssumption DEF PostingsTypeOK, Documents
  <1>1. PICK e \in DocIDs :
            \/ \E c \in Books \cup {Malformed} : Create(e, c)
            \/ \E c \in Books : Edit(e, c)
            \/ Delete(e) \/ Return(e) \/ StayAway(e)
    BY DEF WritePosting, OthersNext
  <1>2. cache' = cache
    BY DEF WritePosting
  <1>3. CASE \E c \in Books \cup {Malformed} : Create(e, c)
    BY <1>2, <1>3 DEF Create
  <1>4. CASE \E c \in Books : Edit(e, c)
    BY <1>2, <1>4 DEF Edit
  <1>5. CASE Delete(e)
    BY <1>2, <1>5 DEF Delete, AsPosted
  <1>6. CASE Return(e)
    BY <1>2, <1>6 DEF Return
  <1>7. CASE StayAway(e)
    BY <1>2, <1>7 DEF StayAway
  <1> QED
    BY <1>1, <1>3, <1>4, <1>5, <1>6, <1>7

(* The collection starts with the types it keeps.                          *)
LEMMA PostingsStartTyped ==
    ASSUME PostingsInit
    PROVE  PostingsTypeOK
PROOF
  BY SpecialValuesAssumption
     DEF PostingsInit, WrittenInit, PostingsTypeOK, Documents
-------------------------------------------------------------------------------
(* The contract with BrowseDetails. A screen opened on a book some listing *)
(* once was, with no ID or that of an entry == to it, is one Open allows.  *)
LEMMA OpenAllows ==
    ASSUME HeldWasWritten, UNCHANGED <<postings, versions>>,
           detail = NoDetail, detail' # NoDetail,
           NEW d \in DocIDs, detail'.book \in versions[d],
           \/ detail'.refString = NoRef
           \/ /\ detail'.refString \in DocIDs
              /\ idToBook[detail'.refString] \in Books
              /\ BookEq(idToBook[detail'.refString], detail'.book)
    PROVE  Screen!Open(reader)
PROOF
  <1> DEFINE b   == detail'.book
             ref == detail'.refString
  <1>1. \A e \in DocIDs : versions[e] # {} => Screen!MayKnow(reader, e)
    BY DEF HeldWasWritten, Screen!MayKnow
  <1>2. ref \in {NoRef} \cup {e \in DocIDs : Screen!MayKnow(reader, e)
                                 /\ \E c \in versions[e] : Screen!BookEq(c, b)}
    <2>1. CASE ref # NoRef
      <3>1. idToBook[ref] \in versions[ref] /\ ref \in DocIDs
        BY <2>1 DEF HeldWasWritten
      <3>2. Screen!BookEq(idToBook[ref], b)
        BY <2>1 DEF BookEq, Screen!BookEq
      <3> QED
        BY <1>1, <3>1, <3>2
    <2> QED
      BY <2>1
  <1>3. OnScreen = [v \in {reader} |-> NoScreen]
    BY DEF OnScreen
  <1>4. OnScreen' = [OnScreen EXCEPT ![reader] =
            [refString |-> ref,
             contactView |-> IF reader = b.seller THEN "Edit your listing"
                                                  ELSE "Interested? Contact seller",
             editable |-> FALSE,
             fields |-> Screen!ContentOf(b)]]
    BY <1>3 DEF OnScreen, Fields, Screen!ContentOf
  <1>5. Screen!MayKnow(reader, d)
    BY <1>1
  <1>6. UNCHANGED Screen!storeVars
    BY DEF Screen!storeVars
  <1> QED
    BY <1>2, <1>3, <1>4, <1>5, <1>6 DEF Screen!Open

(* A screen that goes away went back.                                      *)
LEMMA BackAllows ==
    ASSUME UNCHANGED <<postings, versions>>, detail' = NoDetail,
           OnScreen' # OnScreen
    PROVE  Screen!Back(reader)
PROOF
  <1>1. detail # NoDetail
    BY DEF OnScreen
  <1>2. OnScreen[reader] # NoScreen
    <2>1. OnScreen[reader].contactView # NoScreen.contactView
      BY <1>1 DEF OnScreen, NoScreen
    <2> QED
      BY <2>1
  <1>3. OnScreen' = [OnScreen EXCEPT ![reader] = NoScreen]
    BY DEF OnScreen
  <1> QED
    BY <1>2, <1>3 DEF Screen!Back, Screen!storeVars

(* What listings ever were only grows, and holds what they are.            *)
LEMMA VersionsGrow ==
    ASSUME HeldWasWritten, Remember
    PROVE  /\ versions' \in [DocIDs -> SUBSET Books]
           /\ \A d \in DocIDs :
                 /\ versions[d] \subseteq versions'[d]
                 /\ postings'[d] \in Books => postings'[d] \in versions'[d]
                 /\ versions'[d] # {} => versions[d] # {} \/ postings'[d] \in Books
           /\ UNCHANGED postings => UNCHANGED versions
PROOF
  <1>1. /\ versions \in [DocIDs -> SUBSET Books]
        /\ \A d \in DocIDs : postings[d] \in Books => postings[d] \in versions[d]
    BY DEF HeldWasWritten
  <1>2. versions' = [d \in DocIDs |-> versions[d] \cup ({postings'[d]} \cap Books)]
    BY DEF Remember
  <1>3. ASSUME UNCHANGED postings
        PROVE  \A d \in DocIDs : versions'[d] = versions[d]
    BY <1>1, <1>2, <1>3
  <1>4. versions' \in [DocIDs -> SUBSET Books]
    BY <1>1, <1>2
  <1> QED
    BY <1>1, <1>2, <1>3, <1>4

(* HeldWasWritten is kept when others write, and when what the client and  *)
(* the dictionary get is something that listings once were.                *)
LEMMA HeldStays ==
    ASSUME PostingsTypeOK, HeldWasWritten, Remember,
           WritePosting \/ (UNCHANGED postings /\ cache' \in {postings, cache}),
           \A d \in DocIDs : idToBook'[d] \in Books => idToBook'[d] \in versions[d]
    PROVE  HeldWasWritten'
PROOF
  <1>1. \A d \in DocIDs : postings[d] # Unborn => postings'[d] # Unborn
    BY WriteKeepsTypes
  <1>2. \A d \in DocIDs : cache'[d] \in Books => cache'[d] \in versions[d]
    BY WriteKeepsTypes DEF HeldWasWritten
  <1>3. \A d \in DocIDs : versions'[d] # {} => postings'[d] # Unborn
    BY <1>1, VersionsGrow, SpecialValuesAssumption DEF HeldWasWritten
  <1> QED
    BY <1>2, <1>3, VersionsGrow DEF HeldWasWritten
===============================================================================
