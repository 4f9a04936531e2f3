----------------------------- MODULE MarketProofs -----------------------------
(***************************************************************************)
(* Proofs about the write side of BookUp, for any number of devices,       *)
(* users, listings and writes waiting: every listing lives the life        *)
(* ListingLifecycle describes, and only its seller changes it.             *)
(***************************************************************************)
EXTENDS Market, TLAPS, FiniteSetTheorems, SequenceTheorems

(* Device v has a write waiting that adds document d, in place i.          *)
AddsAt(v, i, d) ==
    i \in DOMAIN queue[v] /\ queue[v][i].kind = "add" /\ queue[v][i].id = d

Adding(v, d) == \E i \in DOMAIN queue[v] : AddsAt(v, i, d)

(* No document on the server is malformed: the app writes whole listings.  *)
WellFormed == server \in [DocIDs -> Books \cup {Unborn, Deleted}]

(* A document is added by one write of one device only.                    *)
AddsAreOnce ==
    \A v \in Devices : \A i \in DOMAIN queue[v] : queue[v][i].kind = "add" =>
        \A u \in Devices : \A j \in DOMAIN queue[u] :
            AddsAt(u, j, queue[v][i].id) => u = v /\ j = i

(* What was delivered on a call was written to a document that is born.    *)
DeliveredAreBorn ==
    \A v \in Devices : \A i \in 1 .. delivered[v] : server[queue[v][i].id] # Unborn

(* A device updates and deletes only what is born, or what it adds first.  *)
WritesFollowAdds ==
    \A v \in Devices : \A i \in DOMAIN queue[v] : queue[v][i].kind # "add" =>
        \/ server[queue[v][i].id] # Unborn
        \/ \E j \in 1 .. (i - 1) : AddsAt(v, j, queue[v][i].id)

(* The client of a device may refer to a document once its device adds it. *)
Known(v, d) == server[d] # Unborn \/ Adding(v, d)

(* So does the listing on its screen.                                      *)
ScreensFollowAdds ==
    \A v \in Devices : (screen[v] # Closed /\ screen[v].refString # NoRef) =>
        Known(v, screen[v].refString)

(* Only an update is refused, so no listing is given up before it is born. *)
RefusalsAreOfUpdates ==
    \A v \in Devices : refused[v] =>
        delivered[v] + 1 \in DOMAIN queue[v] /\ NextWrite(v).kind = "update"

Order ==
    /\ WellFormed /\ AddsAreOnce /\ DeliveredAreBorn /\ WritesFollowAdds
    /\ ScreensFollowAdds /\ RefusalsAreOfUpdates

SameListing(b, c) == b.title = c.title /\ b.seller = c.seller /\ b.picture = c.picture

(* All versions of a document are of one listing.                          *)
VersionsAgree ==
    \A d \in DocIDs : \A b, c \in versions[d] : SameListing(b, c)

(* Nothing is written to a document that is not born and not being added.  *)
VersionsAreBorn ==
    \A d \in DocIDs : versions[d] # {} => server[d] # Unborn \/ \E v \in Devices : Adding(v, d)

(* What the server has is a version, and what waits will be one.           *)
ServerHasAVersion ==
    \A d \in DocIDs : server[d] \in Books => server[d] \in versions[d]

WritesMakeVersions ==
    \A v \in Devices : \A i \in DOMAIN queue[v] :
        /\ queue[v][i].kind = "add" => queue[v][i].book \in versions[queue[v][i].id]
        /\ queue[v][i].kind = "update" =>
              \A b \in versions[queue[v][i].id] :
                  Patched(b, queue[v][i].content) \in versions[queue[v][i].id]

(* A device writes, and its screen offers to write, to listings of its     *)
(* user only.                                                              *)
WritesAreTheUsers ==
    \A v \in Devices : \A i \in DOMAIN queue[v] :
        \A b \in versions[queue[v][i].id] : b.seller = user[v]

ScreensAreTheUsers ==
    \A v \in Devices : (Own(v) /\ screen[v].refString # NoRef) =>
        \A b \in versions[screen[v].refString] : b.seller = user[v]

Ownership ==
    /\ VersionsAgree /\ VersionsAreBorn /\ ServerHasAVersion /\ WritesMakeVersions
    /\ WritesAreTheUsers /\ ScreensAreTheUsers

IInv == TypeOK /\ Order /\ Ownership
-------------------------------------------------------------------------------
(* An edit keeps a listing's title, seller and picture.                    *)
LEMMA PatchedIsABook ==
    ASSUME NEW b \in Books, NEW c \in Contents
    PROVE  Patched(b, c) \in Books /\ SameListing(Patched(b, c), b)
PROOF
  <1>1. Patched(b, c) \in Books
    BY ContentsAssumption
  <1>2. DOMAIN b = BookFields
    BY BooksAssumption
  <1> QED
    BY <1>1, <1>2 DEF Patched, SameListing, BookFields

(* It sets all else, so two versions of one listing become the same.       *)
LEMMA PatchedTwins ==
    ASSUME NEW b \in Books, NEW c \in Books, SameListing(b, c), NEW e \in Contents
    PROVE  Patched(b, e) = Patched(c, e)
PROOF
  <1>1. DOMAIN b = BookFields /\ DOMAIN c = BookFields
    BY BooksAssumption
  <1> QED
    BY <1>1 DEF Patched, SameListing, BookFields

(* A queue with a write at its end.                                        *)
LEMMA QueueAppend ==
    ASSUME NEW q \in Seq(Writes), NEW w \in Writes
    PROVE  /\ Append(q, w) \in Seq(Writes)
           /\ Len(q) \in Nat
           /\ DOMAIN q = 1 .. Len(q)
           /\ DOMAIN Append(q, w) = 1 .. (Len(q) + 1)
           /\ \A i \in 1 .. Len(q) : Append(q, w)[i] = q[i]
           /\ Append(q, w)[Len(q) + 1] = w
PROOF
  BY AppendProperties, LenProperties

(* A queue without its oldest write.                                       *)
LEMMA QueueTail ==
    ASSUME NEW q \in Seq(Writes), q # <<>>
    PROVE  /\ Tail(q) \in Seq(Writes)
           /\ Len(q) \in Nat /\ Len(q) > 0
           /\ DOMAIN q = 1 .. Len(q)
           /\ DOMAIN Tail(q) = 1 .. (Len(q) - 1)
           /\ \A i \in 1 .. (Len(q) - 1) : Tail(q)[i] = q[i + 1]
           /\ Head(q) = q[1] /\ Head(q) \in Writes
PROOF
  BY HeadTailProperties, LenProperties, EmptySeq

(* The three kinds of writes.                                              *)
LEMMA WriteKinds ==
    ASSUME NEW w \in Writes
    PROVE  /\ w.id \in DocIDs
           /\ w.kind \in {"add", "update", "delete"}
           /\ w.kind = "add" => w.book \in Books /\ w = Add(w.id, w.book)
           /\ w.kind = "update" => w.content \in Contents /\ w = Update(w.id, w.content)
           /\ w.kind = "delete" => w = Delete(w.id)
PROOF
  BY DEF Writes, Add, Update, Delete
-------------------------------------------------------------------------------
(* What a step does to the store. A write is queued by Post, for a new     *)
(* document, or by the screen of a listing, for the one it shows.          *)
Posts(v, w) ==
    /\ w \in Writes /\ w.kind = "add" /\ w.book.seller = user[v]
    /\ Fresh(w.id)
    /\ screen' = screen

Saves(v, w) ==
    /\ w \in Writes /\ w.kind # "add"
    /\ Own(v) /\ screen[v].refString = w.id /\ w.id # NoRef

(* An answer is read, and the oldest write leaves its queue.               *)
Leaves(v) == Acknowledge(v) \/ GiveUp(v)

(* A call is over, or to be, or nothing happens to the store at all.       *)
Rests ==
    /\ UNCHANGED <<server, queue, versions>>
    /\ \/ UNCHANGED <<delivered, refused>>
       \/ \E v \in Devices : Refuse(v) \/ SendAgain(v)

LEMMA StepKinds ==
    ASSUME TypeOK, [Next]_vars
    PROVE  \/ Rests
           \/ \E v \in Devices : (Deliver(v) \/ Leaves(v)) /\ screen' = screen
           \/ \E v \in Devices : \E w \in Writes :
                 Enqueue(v, w) /\ (Posts(v, w) \/ Saves(v, w))
PROOF
  <1>1. CASE UNCHANGED vars
    BY <1>1 DEF vars, storeVars, Rests
  <1>2. CASE Next
    <2>1. PICK v \in Devices : Act(v) \/ Send(v)
      BY <1>2 DEF Next
    <2>2. CASE Send(v)
      <3>1. CASE Deliver(v) \/ ReadAnswer(v)
        BY <2>2, <3>1 DEF Send, ReadAnswer, Leaves
      <3>2. CASE Refuse(v)
        <4>1. UNCHANGED <<server, queue, versions>>
          BY <3>2 DEF Refuse
        <4> QED
          BY <3>2, <4>1 DEF Rests
      <3>3. CASE Interrupt(v)
        <4>1. SendAgain(v) /\ UNCHANGED <<server, queue, versions>>
          BY <3>3 DEF Interrupt, SendAgain
        <4> QED
          BY <4>1 DEF Rests
      <3> QED
        BY <2>2, <3>1, <3>2, <3>3 DEF Send, Client, Move
    <2>3. CASE Trap(v) \/ Killed(v)
      <3>1. SendAgain(v) /\ UNCHANGED <<server, queue, versions>>
        BY <2>3 DEF Trap, Killed, Die, SendAgain
      <3> QED
        BY <3>1 DEF Rests
    <2>4. CASE Open(v) \/ (\E f \in Forms : EnterFields(v, f)) \/ ContactEdit(v) \/ Back(v)
      BY <2>4 DEF Open, EnterFields, ContactEdit, Back, storeVars, Rests
    <2>5. CASE ContactSave(v)
      <3>1. CASE UNCHANGED storeVars
        BY <3>1 DEF storeVars, Rests
      <3>2. CASE /\ screen[v].fields \in Contents
                 /\ HasRef(v)
                 /\ Enqueue(v, Update(screen[v].refString, screen[v].fields))
        <4> DEFINE w == Update(screen[v].refString, screen[v].fields)
        <4>1. screen[v] \in Screens
          BY <2>5 DEF ContactSave, Own, TypeOK, ScreenTypeOK
        <4>2. screen[v].refString \in DocIDs
          BY <3>2, <4>1 DEF Screens, HasRef
        <4>3. w \in Writes
          BY <3>2, <4>2 DEF Update, Writes
        <4>4. Saves(v, w)
          BY <2>5, <3>2, <4>3 DEF Saves, ContactSave, HasRef, Update
        <4> QED
          BY <3>2, <4>3, <4>4
      <3> QED
        BY <2>5, <3>1, <3>2 DEF ContactSave
    <2>6. CASE DeleteBook(v)
      <3> DEFINE w == Delete(screen[v].refString)
      <3>1. screen[v] \in Screens
        BY <2>6 DEF DeleteBook, Own, TypeOK, ScreenTypeOK
      <3>2. screen[v].refString \in DocIDs
        BY <2>6, <3>1 DEF Screens, DeleteBook, HasRef
      <3>3. w \in Writes
        BY <3>2 DEF Delete, Writes
      <3>4. Saves(v, w)
        BY <2>6, <3>3 DEF Saves, DeleteBook, HasRef, Delete
      <3> QED
        BY <2>6, <3>3, <3>4 DEF DeleteBook
    <2>7. CASE \E f \in Fields : FillIn(v, f)
      BY <2>7 DEF FillIn, storeVars, Rests
    <2>8. CASE PostListing(v) /\ UNCHANGED screen
      <3>1. PICK d \in DocIDs, b \in Made(form[v], user[v]) :
               Fresh(d) /\ Enqueue(v, Add(d, b))
        BY <2>8 DEF PostListing
      <3>2. b \in Books /\ b.seller = user[v]
        BY DEF Made
      <3>3. Add(d, b) \in Writes
        BY <3>2 DEF Add, Writes
      <3>4. Posts(v, Add(d, b))
        BY <2>8, <3>1, <3>2, <3>3 DEF Posts, Add
      <3> QED
        BY <3>1, <3>3, <3>4
    <2> QED
      BY <2>1, <2>2, <2>3, <2>4, <2>5, <2>6, <2>7, <2>8
         DEF Act, DetailsNext, PostNext
  <1> QED
    BY <1>1, <1>2

(* What it does to a screen: it goes, opens, or stays with its listing.    *)
Opens(v) ==
    \E d, e \in DocIDs : \E b \in versions[d], c \in versions[e] :
        /\ MayKnow(v, e) /\ BookEq(c, b)
        /\ screen'[v].refString \in {NoRef, e}
        /\ screen'[v].contactView # "Interested? Contact seller" => user[v] = b.seller
        /\ UNCHANGED storeVars

Stays(v) ==
    /\ screen[v] # Closed
    /\ screen'[v].refString = screen[v].refString
    /\ screen'[v].contactView # "Interested? Contact seller" =>
          screen[v].contactView # "Interested? Contact seller"

LEMMA ScreenSteps ==
    ASSUME TypeOK, [Next]_vars, NEW v \in Devices, screen'[v] # Closed
    PROVE  Opens(v) \/ Stays(v)
PROOF
  <1>0. screen \in [Devices -> Screens \cup {Closed}]
    BY DEF TypeOK, ScreenTypeOK
  <1>1. CASE screen'[v] = screen[v]
    BY <1>1 DEF Stays
  <1>2. CASE Next
    <2>1. PICK u \in Devices : Act(u) \/ Send(u)
      BY <1>2 DEF Next
    <2>2. CASE u # v
      <3>1. screen'[v] = screen[v]
        BY <1>0, <2>1, <2>2
           DEF Act, Send, Trap, Killed, Die, DetailsNext, PostNext, Open, EnterFields,
               ContactEdit, ContactSave, RejectFields, DeleteBook, Back
      <3> QED
        BY <1>1, <3>1
    <2>3. CASE u = v /\ (Send(v) \/ (PostNext(v) /\ UNCHANGED screen))
      BY <1>1, <2>3 DEF Send
    <2>4. CASE u = v /\ (Trap(v) \/ Killed(v) \/ DeleteBook(v) \/ Back(v))
      BY <1>0, <2>4 DEF Trap, Killed, Die, DeleteBook, Back
    <2>5. CASE u = v /\ Open(v)
      <3>1. PICK d \in DocIDs : MayKnow(v, d) /\ \E b \in versions[d] :
               \E ref \in {NoRef} \cup {e \in DocIDs :
                              MayKnow(v, e) /\ \E c \in versions[e] : BookEq(c, b)} :
                  screen' = [screen EXCEPT ![v] =
                     [refString |-> ref,
                      contactView |-> IF user[v] = b.seller
                                        THEN "Edit your listing"
                                        ELSE "Interested? Contact seller",
                      editable |-> FALSE,
                      fields |-> ContentOf(b)]]
        BY <2>5 DEF Open
      <3> DEFINE Refs(b) == {NoRef} \cup {e \in DocIDs :
                              MayKnow(v, e) /\ \E c \in versions[e] : BookEq(c, b)}
                 Title(b) == IF user[v] = b.seller THEN "Edit your listing"
                                                   ELSE "Interested? Contact seller"
                 Shown(b, ref) == [refString |-> ref, contactView |-> Title(b),
                                   editable |-> FALSE, fields |-> ContentOf(b)]
      <3>2. PICK b \in versions[d] : \E ref \in Refs(b) :
               screen' = [screen EXCEPT ![v] = Shown(b, ref)]
        BY <3>1
      <3>3. PICK ref \in Refs(b) : screen' = [screen EXCEPT ![v] = Shown(b, ref)]
        BY <3>2
      <3>4. screen'[v] = Shown(b, ref)
        BY <1>0, <3>3
      <3>5. screen'[v].refString = ref /\ screen'[v].contactView = Title(b)
        <4> HIDE DEF Title
        <4> QED
          BY <3>4
      <3>6. /\ screen'[v].refString = ref
            /\ screen'[v].contactView # "Interested? Contact seller" => user[v] = b.seller
        BY <3>5
      <3>7. UNCHANGED storeVars
        BY <2>5 DEF Open
      <3>8. CASE ref = NoRef
        <4>1. BookEq(b, b)
          BY DEF BookEq
        <4> QED
          BY <3>1, <3>6, <3>8, <3>7, <4>1 DEF Opens
      <3>9. CASE ref # NoRef
        BY <3>1, <3>6, <3>9, <3>7 DEF Opens
      <3> QED
        BY <3>8, <3>9
    <2>6. CASE u = v /\ screen[v] # Closed /\ \E f \in Forms : EnterFields(v, f)
      <3>1. screen[v] \in Screens
        BY <1>0, <2>6
      <3>2. PICK f \in Forms : screen' = [screen EXCEPT ![v].fields = f]
        BY <2>6 DEF EnterFields
      <3>3. screen'[v] = [screen[v] EXCEPT !.fields = f]
        BY <1>0, <3>2
      <3> QED
        BY <2>6, <3>1, <3>3 DEF Stays, Screens
    <2>7. CASE u = v /\ Own(v) /\ (ContactEdit(v) \/ ContactSave(v))
      <3>1. screen[v] \in Screens
        BY <1>0, <2>7 DEF Own
      <3>2. \/ screen' = screen
            \/ \E on \in BOOLEAN, title \in Titles :
                  screen' = [screen EXCEPT ![v].editable = on, ![v].contactView = title]
        BY <2>7 DEF ContactEdit, ContactSave, RejectFields, Titles
      <3>3. CASE screen' = screen
        BY <1>1, <3>3
      <3>4. ASSUME NEW on \in BOOLEAN, NEW title \in Titles,
                   screen' = [screen EXCEPT ![v].editable = on, ![v].contactView = title]
            PROVE  Stays(v)
        <4>1. screen'[v] = [screen[v] EXCEPT !.editable = on, !.contactView = title]
          BY <1>0, <3>4
        <4> QED
          BY <2>7, <3>1, <4>1 DEF Stays, Screens, Own
      <3> QED
        BY <3>2, <3>3, <3>4
    <2> QED
      BY <2>1, <2>2, <2>3, <2>4, <2>5, <2>6, <2>7
         DEF Act, DetailsNext, EnterFields, ContactEdit, ContactSave
  <1> QED
    BY <1>1, <1>2 DEF vars
-------------------------------------------------------------------------------
(* What a write that is queued changes, place by place.                    *)
LEMMA Enqueued ==
    ASSUME StoreTypeOK, NEW v \in Devices, NEW w \in Writes, Enqueue(v, w)
    PROVE  /\ server' = server
           /\ queue' \in [Devices -> Seq(Writes)]
           /\ \A u \in Devices : u # v => queue'[u] = queue[u]
           /\ Len(queue[v]) \in Nat
           /\ DOMAIN queue[v] = 1 .. Len(queue[v])
           /\ DOMAIN queue'[v] = 1 .. (Len(queue[v]) + 1)
           /\ \A i \in DOMAIN queue[v] : queue'[v][i] = queue[v][i]
           /\ queue'[v][Len(queue[v]) + 1] = w
           /\ delivered' = delivered /\ refused' = refused
           /\ versions'[w.id] = versions[w.id] \cup Outcomes(w)
           /\ \A d \in DocIDs : d # w.id => versions'[d] = versions[d]
PROOF
  <1>1. queue[v] \in Seq(Writes)
    BY DEF StoreTypeOK
  <1>2. queue' = [queue EXCEPT ![v] = Append(queue[v], w)]
    BY DEF Enqueue
  <1>3. queue'[v] = Append(queue[v], w) /\ \A u \in Devices : u # v => queue'[u] = queue[u]
    BY <1>2 DEF StoreTypeOK
  <1>4. queue' \in [Devices -> Seq(Writes)]
    BY <1>1, <1>2, QueueAppend DEF StoreTypeOK
  <1>5. w.id \in DocIDs
    BY WriteKinds
  <1>6. /\ versions'[w.id] = versions[w.id] \cup Outcomes(w)
        /\ \A d \in DocIDs : d # w.id => versions'[d] = versions[d]
    BY <1>5 DEF Enqueue, StoreTypeOK
  <1> QED
    BY <1>1, <1>3, <1>4, <1>6, QueueAppend DEF Enqueue

(* What a write that leaves its queue changes, place by place.             *)
LEMMA Left ==
    ASSUME StoreTypeOK, NEW v \in Devices, Leaves(v)
    PROVE  /\ versions' = versions /\ server' = server
           /\ queue' \in [Devices -> Seq(Writes)]
           /\ \A u \in Devices : u # v => queue'[u] = queue[u]
           /\ Len(queue[v]) \in Nat /\ Len(queue[v]) > 0
           /\ DOMAIN queue[v] = 1 .. Len(queue[v])
           /\ DOMAIN queue'[v] = 1 .. (Len(queue[v]) - 1)
           /\ \A i \in 1 .. (Len(queue[v]) - 1) : queue'[v][i] = queue[v][i + 1]
           /\ queue[v][1] \in Writes
PROOF
  <1>0. delivered[v] \in Nat /\ delivered[v] <= Len(queue[v])
    BY DEF StoreTypeOK
  <1>1. queue[v] \in Seq(Writes) /\ queue[v] # <<>>
    BY <1>0, EmptySeq DEF StoreTypeOK, Leaves, Acknowledge, GiveUp
  <1>2. queue' = [queue EXCEPT ![v] = Tail(queue[v])]
    BY DEF Leaves, Acknowledge, GiveUp
  <1>3. queue'[v] = Tail(queue[v]) /\ \A u \in Devices : u # v => queue'[u] = queue[u]
    BY <1>2 DEF StoreTypeOK
  <1>4. queue' \in [Devices -> Seq(Writes)]
    BY <1>1, <1>2, QueueTail DEF StoreTypeOK
  <1> QED
    BY <1>1, <1>3, <1>4, QueueTail DEF Leaves, Acknowledge, GiveUp

(* Of what was delivered, the rest still is, or all of it is sent again. A *)
(* refusal that is read is over.                                           *)
LEMMA LeftDelivered ==
    ASSUME StoreTypeOK, NEW v \in Devices, Leaves(v)
    PROVE  /\ delivered' \in [Devices -> Nat]
           /\ \A u \in Devices : u # v => delivered'[u] = delivered[u]
           /\ refused' \in [Devices -> BOOLEAN]
           /\ \A u \in Devices : u # v => refused'[u] = refused[u]
           /\ \/ delivered[v] > 0 /\ delivered'[v] = delivered[v] - 1 /\ refused' = refused
              \/ refused[v] /\ delivered'[v] = 0 /\ refused'[v] = FALSE
PROOF
  <1>0. delivered \in [Devices -> Nat] /\ refused \in [Devices -> BOOLEAN]
    BY DEF StoreTypeOK
  <1>1. CASE Acknowledge(v)
    <2>1. /\ delivered[v] > 0 /\ delivered' = [delivered EXCEPT ![v] = delivered[v] - 1]
          /\ refused' = refused
      BY <1>1 DEF Acknowledge
    <2> QED
      BY <1>0, <2>1
  <1>2. CASE GiveUp(v)
    <2>1. /\ refused[v] /\ delivered' = [delivered EXCEPT ![v] = 0]
          /\ refused' = [refused EXCEPT ![v] = FALSE]
      BY <1>2 DEF GiveUp
    <2> QED
      BY <1>0, <2>1
  <1> QED
    BY <1>1, <1>2 DEF Leaves

(* What a write that is delivered changes, and what it is.                 *)
LEMMA Delivered ==
    ASSUME StoreTypeOK, NEW v \in Devices, Deliver(v)
    PROVE  /\ versions' = versions /\ queue' = queue
           /\ delivered' \in [Devices -> Nat]
           /\ \A u \in Devices : u # v => delivered'[u] = delivered[u]
           /\ delivered[v] \in Nat
           /\ delivered'[v] = delivered[v] + 1
           /\ delivered'[v] <= Len(queue[v])
           /\ refused' = refused /\ ~refused[v]
           /\ delivered[v] + 1 \in DOMAIN queue[v]
           /\ NextWrite(v) = queue[v][delivered[v] + 1]
           /\ NextWrite(v) \in Writes /\ NextWrite(v).id \in DocIDs
           /\ server' = Applied(NextWrite(v), server)
           /\ ~Inapplicable(NextWrite(v), server)
PROOF
  <1>1. /\ delivered \in [Devices -> Nat] /\ delivered[v] \in Nat
        /\ queue[v] \in Seq(Writes) /\ Len(queue[v]) \in Nat
        /\ DOMAIN queue[v] = 1 .. Len(queue[v])
    BY LenProperties DEF StoreTypeOK
  <1>2. delivered[v] < Len(queue[v]) /\ delivered' = [delivered EXCEPT ![v] = delivered[v] + 1]
    BY DEF Deliver
  <1>3. delivered[v] + 1 \in DOMAIN queue[v]
    BY <1>1, <1>2
  <1>4. NextWrite(v) \in Writes
    BY <1>1, <1>3, ElementOfSeq DEF NextWrite
  <1> QED
    BY <1>1, <1>2, <1>3, <1>4, WriteKinds DEF Deliver, NextWrite

(* What the server makes of a write, by kind.                              *)
LEMMA AppliedTo ==
    ASSUME StoreTypeOK, NEW w \in Writes, ~Inapplicable(w, server), server' = Applied(w, server)
    PROVE  /\ server' \in [DocIDs -> Documents]
           /\ \A d \in DocIDs : d # w.id => server'[d] = server[d]
           /\ w.kind = "add" => server'[w.id] = w.book
           /\ w.kind = "update" =>
                 /\ server[w.id] \in Books
                 /\ server'[w.id] = Patched(server[w.id], w.content)
           /\ w.kind = "delete" => server'[w.id] = Deleted
PROOF
  <1>0. server \in [DocIDs -> Documents] /\ w.id \in DocIDs
    BY WriteKinds DEF StoreTypeOK
  <1>1. CASE w.kind = "add"
    <2>1. server' = [server EXCEPT ![w.id] = w.book]
      BY <1>1 DEF Applied
    <2>2. w.book \in Books
      BY <1>1, WriteKinds
    <2> QED
      BY <1>0, <1>1, <2>1, <2>2 DEF Documents
  <1>2. CASE w.kind = "update"
    <2>1. /\ server[w.id] \in Books
          /\ server' = [server EXCEPT ![w.id] = Patched(server[w.id], w.content)]
      BY <1>2 DEF Applied, Inapplicable
    <2>2. Patched(server[w.id], w.content) \in Books
      BY <1>2, <2>1, WriteKinds, ContentsAssumption
    <2> QED
      BY <1>0, <1>2, <2>1, <2>2 DEF Documents
  <1>3. CASE w.kind = "delete"
    <2>1. server' = [server EXCEPT ![w.id] = Deleted]
      BY <1>3 DEF Applied
    <2> QED
      BY <1>0, <1>3, <2>1 DEF Documents
  <1> QED
    BY <1>1, <1>2, <1>3, WriteKinds
-------------------------------------------------------------------------------
LEMMA OutcomesAreBooks ==
    ASSUME StoreTypeOK, NEW w \in Writes
    PROVE  Outcomes(w) \subseteq Books
PROOF
  <1>1. CASE w.kind = "add"
    BY <1>1, WriteKinds DEF Outcomes
  <1>2. CASE w.kind = "update"
    <2>1. Outcomes(w) = {Patched(b, w.content) : b \in versions[w.id]}
      BY <1>2 DEF Outcomes
    <2>2. versions[w.id] \subseteq Books /\ w.content \in Contents
      BY <1>2, WriteKinds DEF StoreTypeOK
    <2> QED
      BY <2>1, <2>2, ContentsAssumption
  <1>3. CASE w.kind = "delete"
    BY <1>3 DEF Outcomes
  <1> QED
    BY <1>1, <1>2, <1>3, WriteKinds

LEMMA StoreTypeNext ==
    ASSUME TypeOK, [Next]_vars
    PROVE  StoreTypeOK'
PROOF
  <1>0. StoreTypeOK
    BY DEF TypeOK
  <1>1. CASE Rests
    <2>0. /\ \A u \in Devices : Len(queue[u]) \in Nat
          /\ delivered \in [Devices -> Nat]
      BY <1>0, LenProperties DEF StoreTypeOK
    <2>1. UNCHANGED <<server, queue, versions>>
      BY <1>1 DEF Rests
    <2>2. CASE UNCHANGED <<delivered, refused>>
      BY <1>0, <2>1, <2>2 DEF StoreTypeOK
    <2>3. ASSUME NEW v \in Devices, Refuse(v)
          PROVE  StoreTypeOK'
      <3>1. refused' = [refused EXCEPT ![v] = TRUE] /\ delivered' = delivered
        BY <2>3 DEF Refuse
      <3> QED
        BY <1>0, <2>1, <3>1 DEF StoreTypeOK
    <2>4. ASSUME NEW v \in Devices, SendAgain(v)
          PROVE  StoreTypeOK'
      <3>0. /\ delivered' = [delivered EXCEPT ![v] = 0]
            /\ refused' = [refused EXCEPT ![v] = FALSE]
        BY <2>4 DEF SendAgain
      <3>1. /\ delivered' \in [Devices -> Nat]
            /\ \A u \in Devices : delivered'[u] = delivered[u] \/ delivered'[u] = 0
        BY <2>0, <3>0
      <3>2. ASSUME NEW u \in Devices
            PROVE  delivered'[u] <= Len(queue[u])
        <4>1. delivered[u] <= Len(queue[u])
          BY <1>0 DEF StoreTypeOK
        <4>2. CASE delivered'[u] = 0
          BY <2>0, <4>2
        <4> QED
          BY <3>1, <4>1, <4>2
      <3> QED
        BY <1>0, <2>1, <3>0, <3>1, <3>2 DEF StoreTypeOK
    <2> QED
      BY <1>1, <2>2, <2>3, <2>4 DEF Rests
  <1>2. ASSUME NEW v \in Devices, Deliver(v)
        PROVE  StoreTypeOK'
    <2>1. server' \in [DocIDs -> Documents]
      BY <1>0, <1>2, Delivered, AppliedTo
    <2> QED
      BY <1>0, <1>2, <2>1, Delivered DEF StoreTypeOK
  <1>3. ASSUME NEW v \in Devices, Leaves(v)
        PROVE  StoreTypeOK'
    <2>1. Len(queue'[v]) = Len(queue[v]) - 1
      BY <1>0, <1>3, Left, LenProperties
    <2>2. ASSUME NEW u \in Devices
          PROVE  delivered'[u] <= Len(queue'[u])
      <3>1. delivered[u] \in Nat /\ delivered[u] <= Len(queue[u]) /\ Len(queue[v]) \in Nat
        BY <1>0, LenProperties DEF StoreTypeOK
      <3>2. CASE u # v
        BY <1>0, <1>3, <3>1, <3>2, Left, LeftDelivered
      <3>3. CASE u = v
        <4>1. Len(queue[v]) > 0
          BY <1>0, <1>3, Left
        <4>2. \/ delivered[v] > 0 /\ delivered'[v] = delivered[v] - 1
              \/ delivered'[v] = 0
          BY <1>0, <1>3, LeftDelivered
        <4> QED
          BY <2>1, <3>1, <3>3, <4>1, <4>2
      <3> QED
        BY <3>2, <3>3
    <2> QED
      BY <1>0, <1>3, <2>2, Left, LeftDelivered DEF StoreTypeOK
  <1>4. ASSUME NEW v \in Devices, NEW w \in Writes, Enqueue(v, w)
        PROVE  StoreTypeOK'
    <2>1. w.id \in DocIDs /\ Outcomes(w) \subseteq Books
      BY <1>0, OutcomesAreBooks, WriteKinds
    <2>2. versions' \in [DocIDs -> SUBSET Books]
      BY <1>0, <1>4, <2>1 DEF Enqueue, StoreTypeOK
    <2>3. Len(queue'[v]) = Len(queue[v]) + 1
      BY <1>0, <1>4, Enqueued, LenProperties
    <2>4. ASSUME NEW u \in Devices
          PROVE  delivered'[u] <= Len(queue'[u])
      <3>1. delivered[u] \in Nat /\ delivered[u] <= Len(queue[u]) /\ Len(queue[u]) \in Nat
        BY <1>0, LenProperties DEF StoreTypeOK
      <3>2. delivered' = delivered
        BY <1>0, <1>4, Enqueued
      <3>3. CASE u # v
        BY <1>0, <1>4, <3>1, <3>2, <3>3, Enqueued
      <3>4. CASE u = v
        BY <2>3, <3>1, <3>2, <3>4
      <3> QED
        BY <3>3, <3>4
    <2> QED
      BY <1>0, <1>4, <2>2, <2>4, Enqueued DEF StoreTypeOK
  <1> QED
    BY <1>1, <1>2, <1>3, <1>4, StepKinds

LEMMA ScreenTypeNext ==
    ASSUME TypeOK, [Next]_vars
    PROVE  ScreenTypeOK'
PROOF
  <1>0. screen \in [Devices -> Screens \cup {Closed}]
    BY DEF TypeOK, ScreenTypeOK
  <1>1. CASE UNCHANGED screen
    BY <1>0, <1>1 DEF ScreenTypeOK
  <1>2. ASSUME NEW v \in Devices, screen' = [screen EXCEPT ![v] = Closed]
        PROVE  ScreenTypeOK'
    BY <1>0, <1>2 DEF ScreenTypeOK
  <1>3. ASSUME NEW v \in Devices, Open(v)
        PROVE  ScreenTypeOK'
    <2>1. PICK d \in DocIDs : \E b \in versions[d] :
             \E ref \in {NoRef} \cup {e \in DocIDs :
                            MayKnow(v, e) /\ \E c \in versions[e] : BookEq(c, b)} :
                screen' = [screen EXCEPT ![v] =
                   [refString |-> ref,
                    contactView |-> IF user[v] = b.seller
                                      THEN "Edit your listing"
                                      ELSE "Interested? Contact seller",
                    editable |-> FALSE,
                    fields |-> ContentOf(b)]]
      BY <1>3 DEF Open
    <2> DEFINE Title(b) == IF user[v] = b.seller THEN "Edit your listing"
                                                 ELSE "Interested? Contact seller"
               Shown(b, ref) == [refString |-> ref, contactView |-> Title(b),
                                 editable |-> FALSE, fields |-> ContentOf(b)]
    <2>2. PICK b \in versions[d] : \E ref \in DocIDs \cup {NoRef} :
             screen' = [screen EXCEPT ![v] = Shown(b, ref)]
      BY <2>1
    <2>3. PICK ref \in DocIDs \cup {NoRef} : screen' = [screen EXCEPT ![v] = Shown(b, ref)]
      BY <2>2
    <2>4. b \in Books
      BY DEF TypeOK, StoreTypeOK
    <2>5. ContentOf(b) \in Forms
      BY <2>4, ContentsAssumption DEF Forms
    <2>6. Title(b) \in Titles
      BY DEF Titles
    <2>7. Shown(b, ref) \in Screens
      <3> HIDE DEF Title
      <3> QED
        BY <2>5, <2>6 DEF Screens
    <2> HIDE DEF Shown
    <2> QED
      BY <1>0, <2>3, <2>7 DEF ScreenTypeOK
  <1>4. ASSUME NEW v \in Devices, NEW f \in Forms, EnterFields(v, f)
        PROVE  ScreenTypeOK'
    <2>1. screen[v] \in Screens
      BY <1>0, <1>4 DEF EnterFields
    <2>2. [screen[v] EXCEPT !.fields = f] \in Screens
      BY <2>1 DEF Screens
    <2>3. screen' = [screen EXCEPT ![v] = [screen[v] EXCEPT !.fields = f]]
      BY <1>4 DEF EnterFields
    <2> QED
      BY <1>0, <2>2, <2>3 DEF ScreenTypeOK
  <1>5. ASSUME NEW v \in Devices, ContactEdit(v) \/ ContactSave(v)
        PROVE  ScreenTypeOK'
    <2>1. screen[v] \in Screens
      BY <1>0, <1>5 DEF ContactEdit, ContactSave, Own
    <2>2. \/ screen' = screen
          \/ \E on \in BOOLEAN, title \in Titles :
                screen' = [screen EXCEPT ![v].editable = on, ![v].contactView = title]
      BY <1>5 DEF ContactEdit, ContactSave, RejectFields, Titles
    <2>3. ASSUME NEW on \in BOOLEAN, NEW title \in Titles,
                 screen' = [screen EXCEPT ![v].editable = on, ![v].contactView = title]
          PROVE  ScreenTypeOK'
      <3>1. [screen[v] EXCEPT !.editable = on, !.contactView = title] \in Screens
        BY <2>1 DEF Screens
      <3>2. screen' = [screen EXCEPT
                          ![v] = [screen[v] EXCEPT !.editable = on, !.contactView = title]]
        BY <1>0, <2>3
      <3> QED
        BY <1>0, <3>1, <3>2 DEF ScreenTypeOK
    <2> QED
      BY <1>1, <2>2, <2>3
  <1> QED
    BY <1>1, <1>2, <1>3, <1>4, <1>5
       DEF Next, vars, Act, Send, Trap, Killed, Die, DetailsNext, DeleteBook, Back

LEMMA PostTypeNext ==
    ASSUME TypeOK, [Next]_vars
    PROVE  PostTypeOK'
PROOF
  <1>0. PostTypeOK
    BY DEF TypeOK
  <1>1. CASE UNCHANGED postVars
    BY <1>0, <1>1 DEF PostTypeOK, postVars
  <1>2. ASSUME NEW v \in Devices, Trap(v) \/ Killed(v) \/ PostNext(v)
        PROVE  PostTypeOK'
    <2>1. CASE Trap(v) \/ Killed(v)
      BY <1>0, <2>1 DEF Trap, Killed, Die, PostTypeOK, Fields
    <2>2. CASE PostListing(v)
      BY <1>0, <2>2 DEF PostListing, ClearFields, PostTypeOK, Fields
    <2>3. ASSUME NEW f \in Fields, FillIn(v, f)
          PROVE  PostTypeOK'
      BY <1>0, <2>3 DEF FillIn, PostTypeOK
    <2> QED
      BY <1>2, <2>1, <2>2, <2>3 DEF PostNext
  <1> QED
    BY <1>1, <1>2 DEF Next, vars, Act, Send

LEMMA TypeInit == Init => TypeOK
PROOF
  <1> SUFFICES ASSUME Init PROVE TypeOK
    OBVIOUS
  <1>1. StoreTypeOK
    <2>1. <<>> \in Seq(Writes)
      BY EmptySeq
    <2> QED
      BY <2>1, EmptySeq, LenProperties DEF Init, StoreInit, StoreTypeOK, Documents
  <1>2. ScreenTypeOK
    BY DEF Init, ScreenInit, ScreenTypeOK
  <1>3. PostTypeOK
    BY DEF Init, PostInit, PostTypeOK, Fields
  <1> QED
    BY <1>1, <1>2, <1>3 DEF TypeOK

LEMMA TypeNext == TypeOK /\ [Next]_vars => TypeOK'
PROOF
  BY StoreTypeNext, ScreenTypeNext, PostTypeNext DEF TypeOK

(* Every variable keeps its type, for any devices, books and queues.       *)
THEOREM MarketTypeCorrect == Spec => []TypeOK
PROOF
  <1>1. Init => TypeOK
    BY TypeInit
  <1>2. TypeOK /\ [Next]_vars => TypeOK'
    BY TypeNext
  <1> QED
    BY <1>1, <1>2, PTL DEF Spec
-------------------------------------------------------------------------------
(* The title of the button and the mode of the fields change together.     *)
LEMMA ModeNext == TypeOK /\ ModeAgrees /\ [Next]_vars => ModeAgrees'
PROOF
  <1> SUFFICES ASSUME TypeOK, ModeAgrees, [Next]_vars, NEW v \in Devices,
                      screen'[v] # Closed
               PROVE  screen'[v].contactView = "Save changes" <=> screen'[v].editable
    BY DEF ModeAgrees
  <1>0. screen \in [Devices -> Screens \cup {Closed}]
    BY DEF TypeOK, ScreenTypeOK
  <1>1. CASE screen'[v] = screen[v]
    BY <1>1 DEF ModeAgrees
  <1>2. CASE Next
    <2>1. PICK u \in Devices : Act(u) \/ Send(u)
      BY <1>2 DEF Next
    <2>2. CASE Send(u) \/ (PostNext(u) /\ UNCHANGED screen)
      BY <1>1, <2>2 DEF Send
    <2>3. CASE Trap(u) \/ Killed(u) \/ DeleteBook(u) \/ Back(u)
      BY <1>0, <1>1, <2>3 DEF Trap, Killed, Die, DeleteBook, Back
    <2>4. CASE Open(u)
      <3> DEFINE Title(b) == IF user[u] = b.seller THEN "Edit your listing"
                                                   ELSE "Interested? Contact seller"
                 Shown(b, ref) == [refString |-> ref, contactView |-> Title(b),
                                   editable |-> FALSE, fields |-> ContentOf(b)]
      <3>1. PICK d \in DocIDs : \E b \in versions[d] : \E ref \in DocIDs \cup {NoRef} :
               screen' = [screen EXCEPT ![u] = Shown(b, ref)]
        BY <2>4 DEF Open
      <3>2. PICK b \in versions[d] : \E ref \in DocIDs \cup {NoRef} :
               screen' = [screen EXCEPT ![u] = Shown(b, ref)]
        BY <3>1
      <3>3. PICK ref \in DocIDs \cup {NoRef} : screen' = [screen EXCEPT ![u] = Shown(b, ref)]
        BY <3>2
      <3>4. Title(b) # "Save changes"
        OBVIOUS
      <3>5. Shown(b, ref).contactView = Title(b) /\ Shown(b, ref).editable = FALSE
        <4> HIDE DEF Title
        <4> QED
          OBVIOUS
      <3> HIDE DEF Shown
      <3> QED
        BY <1>0, <1>1, <3>3, <3>4, <3>5
    <2>5. ASSUME NEW f \in Forms, EnterFields(u, f)
          PROVE  screen'[v].contactView = "Save changes" <=> screen'[v].editable
      <3>1. screen[u] \in Screens
        BY <1>0, <2>5 DEF EnterFields
      <3>2. screen' = [screen EXCEPT ![u] = [screen[u] EXCEPT !.fields = f]]
        BY <2>5 DEF EnterFields
      <3>3. CASE u = v
        <4>1. screen'[v] = [screen[v] EXCEPT !.fields = f]
          BY <1>0, <3>2, <3>3
        <4> QED
          BY <2>5, <3>1, <3>3, <4>1 DEF EnterFields, ModeAgrees, Screens
      <3> QED
        BY <1>0, <1>1, <3>2, <3>3
    <2>6. CASE ContactEdit(u) \/ ContactSave(u)
      <3>1. screen[u] \in Screens
        BY <1>0, <2>6 DEF ContactEdit, ContactSave, Own
      <3>2. \/ screen' = screen
            \/ screen' = [screen EXCEPT ![u].editable = TRUE, ![u].contactView = "Save changes"]
            \/ screen' = [screen EXCEPT ![u].editable = FALSE,
                                        ![u].contactView = "Edit your listing"]
        BY <2>6 DEF ContactEdit, ContactSave, RejectFields
      <3>3. CASE u = v /\ screen' # screen
        <4>1. \/ screen'[v] = [screen[v] EXCEPT !.editable = TRUE,
                                                !.contactView = "Save changes"]
              \/ screen'[v] = [screen[v] EXCEPT !.editable = FALSE,
                                                !.contactView = "Edit your listing"]
          BY <1>0, <3>2, <3>3
        <4> QED
          BY <3>1, <3>3, <4>1 DEF Screens
      <3> QED
        BY <1>0, <1>1, <3>2, <3>3
    <2> QED
      BY <2>1, <2>2, <2>3, <2>4, <2>5, <2>6 DEF Act, DetailsNext
  <1> QED
    BY <1>1, <1>2 DEF vars

(* The button of the screen of a listing offers to save exactly while the  *)
(* fields are enabled: BrowseDetails.contact never leaves them apart.      *)
THEOREM ButtonTellsTheMode == Spec => []ModeAgrees
PROOF
  <1>1. Init => TypeOK /\ ModeAgrees
    BY TypeInit DEF Init, ScreenInit, ModeAgrees
  <1>2. TypeOK /\ ModeAgrees /\ [Next]_vars => TypeOK' /\ ModeAgrees'
    BY TypeNext, ModeNext
  <1> QED
    BY <1>1, <1>2, PTL DEF Spec
-------------------------------------------------------------------------------
LEMMA OrderInit == Init => Order
PROOF
  <1> SUFFICES ASSUME Init PROVE Order
    OBVIOUS
  <1>1. \A v \in Devices : DOMAIN queue[v] = {}
    BY EmptySeq DEF Init, StoreInit
  <1>2. WellFormed
    BY DEF Init, StoreInit, WellFormed
  <1>3. \A v \in Devices : screen[v] = Closed
    BY DEF Init, ScreenInit
  <1>4. DeliveredAreBorn
    BY DEF Init, StoreInit, DeliveredAreBorn
  <1>5. RefusalsAreOfUpdates
    BY DEF Init, StoreInit, RefusalsAreOfUpdates
  <1> QED
    BY <1>1, <1>2, <1>3, <1>4, <1>5
       DEF Order, AddsAreOnce, WritesFollowAdds, ScreensFollowAdds

(* What a client may have loaded is born, or its device is adding it.      *)
LEMMA LoadedIsKnown ==
    ASSUME TypeOK, Order, NEW v \in Devices, NEW d \in DocIDs, MayKnow(v, d)
    PROVE  Known(v, d)
PROOF
  <1>1. CASE server[d] # Unborn
    BY <1>1 DEF Known
  <1>2. CASE \E w \in Pending(v) : w.id = d
    <2>1. PICK i \in DOMAIN queue[v] : queue[v][i].id = d
      BY <1>2 DEF Pending
    <2>2. DOMAIN queue[v] = 1 .. Len(queue[v]) /\ Len(queue[v]) \in Nat
      BY LenProperties DEF TypeOK, StoreTypeOK
    <2>3. CASE queue[v][i].kind = "add"
      BY <2>1, <2>3 DEF Known, Adding, AddsAt
    <2>4. CASE queue[v][i].kind # "add"
      BY <2>1, <2>2, <2>4 DEF Order, WritesFollowAdds, Known, Adding, AddsAt
    <2> QED
      BY <2>3, <2>4
  <1> QED
    BY <1>1, <1>2 DEF MayKnow

(* A write is delivered to a document that is born, or is born by it.      *)
LEMMA KnownDelivered ==
    ASSUME TypeOK, Order, NEW v \in Devices, Deliver(v)
    PROVE  /\ server' \in [DocIDs -> Books \cup {Unborn, Deleted}]
           /\ NextWrite(v).kind # "add" => server[NextWrite(v).id] # Unborn
           /\ server'[NextWrite(v).id] # Unborn
           /\ \A d \in DocIDs : server[d] # Unborn => server'[d] # Unborn
           /\ \A u \in Devices, d \in DocIDs : Known(u, d) => Known(u, d)'
PROOF
  <1> DEFINE w == NextWrite(v)
             n == delivered[v] + 1
  <1>0. /\ StoreTypeOK /\ w \in Writes /\ w.id \in DocIDs /\ queue' = queue
        /\ ~Inapplicable(w, server) /\ server' = Applied(w, server)
        /\ n \in DOMAIN queue[v] /\ w = queue[v][n] /\ delivered[v] \in Nat
    BY Delivered DEF TypeOK
  <1>1. w.kind # "add" => server[w.id] # Unborn
    <2>1. ASSUME NEW j \in 1 .. (n - 1), AddsAt(v, j, w.id)
          PROVE  server[w.id] # Unborn
      <3>1. j \in 1 .. delivered[v]
        BY <1>0
      <3> QED
        BY <2>1, <3>1 DEF Order, DeliveredAreBorn, AddsAt
    <2> QED
      BY <1>0, <2>1 DEF Order, WritesFollowAdds
  <1>2. server'[w.id] \in Books \cup {Deleted}
    <2>1. CASE w.kind = "add"
      BY <1>0, <2>1, AppliedTo, WriteKinds
    <2>2. CASE w.kind = "update"
      <3>1. Patched(server[w.id], w.content) \in Books
        BY <1>0, <2>2, AppliedTo, WriteKinds, ContentsAssumption
      <3> QED
        BY <1>0, <2>2, <3>1, AppliedTo
    <2>3. CASE w.kind = "delete"
      BY <1>0, <2>3, AppliedTo
    <2> QED
      BY <1>0, <2>1, <2>2, <2>3, WriteKinds
  <1>3. server'[w.id] # Unborn
    BY <1>2, SpecialValuesAssumption
  <1>4. \A d \in DocIDs : server[d] # Unborn => server'[d] # Unborn
    BY <1>0, <1>3, AppliedTo
  <1>5. server' \in [DocIDs -> Books \cup {Unborn, Deleted}]
    <2>1. server' \in [DocIDs -> Documents]
      BY <1>0, AppliedTo
    <2>2. \A e \in DocIDs : server'[e] \in Books \cup {Unborn, Deleted}
      BY <1>0, <1>2, AppliedTo DEF Order, WellFormed
    <2> QED
      BY <2>1, <2>2
  <1> QED
    BY <1>0, <1>1, <1>3, <1>4, <1>5 DEF Known, Adding, AddsAt

(* A write that leaves its queue has left a document that is born.         *)
LEMMA KnownLeft ==
    ASSUME TypeOK, Order, NEW v \in Devices, Leaves(v)
    PROVE  /\ queue[v][1].id \in DocIDs
           /\ queue[v][1].kind = "add" => server[queue[v][1].id] # Unborn
           /\ \A u \in Devices, d \in DocIDs : Known(u, d) => Known(u, d)'
PROOF
  <1>0. StoreTypeOK
    BY DEF TypeOK
  <1>1. queue[v][1].kind = "add" => server[queue[v][1].id] # Unborn
    <2>1. CASE delivered[v] > 0
      <3>1. 1 \in 1 .. delivered[v]
        BY <1>0, <2>1 DEF StoreTypeOK
      <3> QED
        BY <3>1 DEF Order, DeliveredAreBorn
    <2>2. CASE ~(delivered[v] > 0)
      <3>1. delivered[v] = 0
        BY <1>0, <2>2 DEF StoreTypeOK
      <3>2. refused[v]
        BY <1>0, <2>2, LeftDelivered
      <3>3. NextWrite(v) = queue[v][1]
        BY <3>1 DEF NextWrite
      <3> QED
        BY <3>2, <3>3 DEF Order, RefusalsAreOfUpdates
    <2> QED
      BY <2>1, <2>2
  <1>2. ASSUME NEW u \in Devices, NEW d \in DocIDs, Adding(u, d)
        PROVE  Known(u, d)'
    <2>1. PICK i \in DOMAIN queue[u] : AddsAt(u, i, d)
      BY <1>2 DEF Adding
    <2>2. CASE u = v /\ i = 1
      BY <1>0, <1>1, <2>1, <2>2, Left DEF AddsAt, Known
    <2>3. CASE u = v /\ i # 1
      <3>1. i - 1 \in 1 .. (Len(queue[v]) - 1) /\ (i - 1) + 1 = i
        BY <1>0, <2>1, <2>3, Left
      <3>2. i - 1 \in DOMAIN queue'[v] /\ queue'[v][i - 1] = queue[v][i]
        BY <1>0, <3>1, Left
      <3> QED
        BY <2>1, <2>3, <3>2 DEF AddsAt, Known, Adding
    <2>4. CASE u # v
      BY <1>0, <2>1, <2>4, Left DEF AddsAt, Known, Adding
    <2> QED
      BY <2>2, <2>3, <2>4
  <1>3. server' = server
    BY <1>0, Left
  <1> QED
    BY <1>0, <1>1, <1>2, <1>3, Left, WriteKinds DEF Known

LEMMA KnownEnqueued ==
    ASSUME TypeOK, NEW v \in Devices, NEW w \in Writes, Enqueue(v, w),
           NEW d \in DocIDs, NEW u \in Devices, Known(u, d)
    PROVE  Known(u, d)'
PROOF
  <1>0. StoreTypeOK
    BY DEF TypeOK
  <1>1. server' = server
    BY <1>0, Enqueued
  <1>2. ASSUME NEW i \in DOMAIN queue[u]
        PROVE  i \in DOMAIN queue'[u] /\ queue'[u][i] = queue[u][i]
    BY <1>0, <1>2, Enqueued
  <1> QED
    BY <1>1, <1>2 DEF Known, Adding, AddsAt

(* The screens keep to what is known, if it stays so.                      *)
LEMMA ScreensFollow ==
    ASSUME TypeOK, Order, [Next]_vars,
           \A u \in Devices, d \in DocIDs : Known(u, d) => Known(u, d)'
    PROVE  ScreensFollowAdds'
PROOF
  <1>1. ASSUME NEW v \in Devices, NEW d \in DocIDs,
               screen'[v] # Closed, screen'[v].refString = d
        PROVE  Known(v, d)'
    <2>0. d # NoRef
      BY SpecialValuesAssumption
    <2>1. CASE Opens(v)
      <3>1. MayKnow(v, d)
        BY <1>1, <2>0, <2>1 DEF Opens
      <3> QED
        BY <3>1, LoadedIsKnown
    <2>2. CASE Stays(v)
      BY <1>1, <2>0, <2>2 DEF Stays, Order, ScreensFollowAdds
    <2> QED
      BY <1>1, <2>1, <2>2, ScreenSteps
  <1>2. \A v \in Devices : screen'[v] # Closed /\ screen'[v].refString # NoRef
           => screen'[v].refString \in DocIDs
    BY ScreenTypeNext DEF ScreenTypeOK, Screens
  <1> QED
    BY <1>1, <1>2 DEF ScreensFollowAdds, Known, Adding, AddsAt

(* Every place of a queue after a step was a place before, or is new.      *)
LEMMA OldPlaces ==
    ASSUME TypeOK, NEW v \in Devices, Leaves(v),
           NEW u \in Devices, NEW i \in DOMAIN queue'[u]
    PROVE  \E k \in DOMAIN queue[u] :
              /\ queue'[u][i] = queue[u][k]
              /\ k = IF u = v THEN i + 1 ELSE i
              /\ i \in Nat
PROOF
  <1>0. StoreTypeOK
    BY DEF TypeOK
  <1>1. CASE u = v
    <2>1. i \in 1 .. (Len(queue[v]) - 1)
      BY <1>0, <1>1, Left
    <2>2. i + 1 \in DOMAIN queue[v] /\ queue'[v][i] = queue[v][i + 1]
      BY <1>0, <2>1, Left
    <2> QED
      BY <1>1, <2>1, <2>2
  <1>2. CASE u # v
    <2>1. queue'[u] = queue[u]
      BY <1>0, <1>2, Left
    <2>2. i \in Nat
      BY <1>0, <2>1, LenProperties DEF StoreTypeOK
    <2> QED
      BY <1>2, <2>1, <2>2
  <1> QED
    BY <1>1, <1>2

LEMMA NewPlaces ==
    ASSUME TypeOK, NEW v \in Devices, NEW w \in Writes, Enqueue(v, w),
           NEW u \in Devices, NEW i \in DOMAIN queue'[u]
    PROVE  \/ i \in DOMAIN queue[u] /\ queue'[u][i] = queue[u][i]
           \/ u = v /\ i = Len(queue[v]) + 1 /\ queue'[u][i] = w
PROOF
  <1>0. StoreTypeOK
    BY DEF TypeOK
  <1>1. CASE u = v
    BY <1>0, <1>1, Enqueued
  <1>2. CASE u # v
    BY <1>0, <1>2, Enqueued
  <1> QED
    BY <1>1, <1>2

(* When a write is delivered, only documents that are born stay so.        *)
LEMMA OrderDeliver ==
    ASSUME TypeOK, Order, NEW v \in Devices, Deliver(v)
    PROVE  AddsAreOnce' /\ DeliveredAreBorn' /\ WritesFollowAdds'
PROOF
  <1>0. StoreTypeOK /\ queue' = queue
    BY Delivered DEF TypeOK
  <1>1. ASSUME NEW u \in Devices, NEW i \in DOMAIN queue[u]
        PROVE  queue[u][i].id \in DocIDs
    <2>1. queue[u] \in Seq(Writes)
      BY <1>0 DEF StoreTypeOK
    <2>2. queue[u][i] \in Writes
      BY <1>1, <2>1, ElementOfSeq, LenProperties
    <2> QED
      BY <2>2, WriteKinds
  <1>2. AddsAreOnce'
    BY <1>0 DEF Order, AddsAreOnce, AddsAt
  <1>3. DeliveredAreBorn'
    <2>1. ASSUME NEW u \in Devices, NEW i \in 1 .. delivered'[u]
          PROVE  server'[queue[u][i].id] # Unborn
      <3>1. CASE i \in 1 .. delivered[u]
        <4>1. i \in DOMAIN queue[u]
          BY <1>0, <3>1, LenProperties DEF StoreTypeOK
        <4> QED
          BY <1>1, <3>1, <4>1, KnownDelivered DEF Order, DeliveredAreBorn
      <3>2. CASE i \notin 1 .. delivered[u]
        <4>1. u = v /\ i = delivered[v] + 1
          BY <1>0, <2>1, <3>2, Delivered
        <4> QED
          BY <1>0, <4>1, Delivered, KnownDelivered
      <3> QED
        BY <3>1, <3>2
    <2> QED
      BY <1>0, <2>1 DEF DeliveredAreBorn
  <1>4. WritesFollowAdds'
    BY <1>0, <1>1, KnownDelivered DEF Order, WritesFollowAdds, AddsAt
  <1> QED
    BY <1>2, <1>3, <1>4

LEMMA OrderLeaves ==
    ASSUME TypeOK, Order, NEW v \in Devices, Leaves(v)
    PROVE  AddsAreOnce' /\ DeliveredAreBorn' /\ WritesFollowAdds'
PROOF
  <1>0. StoreTypeOK /\ server' = server
    BY Left DEF TypeOK
  <1>1. ASSUME NEW u \in Devices, NEW i \in DOMAIN queue'[u], queue'[u][i].kind = "add"
        PROVE  \A x \in Devices : \A j \in DOMAIN queue'[x] :
                  (queue'[x][j].kind = "add" /\ queue'[x][j].id = queue'[u][i].id)
                     => x = u /\ j = i
    <2>1. PICK k \in DOMAIN queue[u] :
             queue'[u][i] = queue[u][k] /\ k = (IF u = v THEN i + 1 ELSE i) /\ i \in Nat
      BY <1>1, OldPlaces
    <2> DEFINE d == queue[u][k].id
    <2>2. \A x \in Devices : \A j \in DOMAIN queue[x] : AddsAt(x, j, d) => x = u /\ j = k
      BY <1>1, <2>1 DEF Order, AddsAreOnce
    <2>3. ASSUME NEW x \in Devices, NEW j \in DOMAIN queue'[x],
                 queue'[x][j].kind = "add" /\ queue'[x][j].id = d
          PROVE  x = u /\ j = i
      <3>1. PICK l \in DOMAIN queue[x] :
               queue'[x][j] = queue[x][l] /\ l = (IF x = v THEN j + 1 ELSE j) /\ j \in Nat
        BY <2>3, OldPlaces
      <3>2. x = u /\ l = k
        BY <2>2, <2>3, <3>1 DEF AddsAt
      <3> QED
        BY <2>1, <3>1, <3>2
    <2> QED
      BY <2>1, <2>3
  <1>2. DeliveredAreBorn'
    <2>1. ASSUME NEW u \in Devices, NEW i \in 1 .. delivered'[u]
          PROVE  server'[queue'[u][i].id] # Unborn
      <3>1. CASE u # v
        <4>1. delivered'[u] = delivered[u] /\ queue'[u] = queue[u]
          BY <1>0, <3>1, Left, LeftDelivered
        <4> QED
          BY <1>0, <2>1, <4>1 DEF Order, DeliveredAreBorn
      <3>2. CASE u = v
        <4>1. delivered[v] \in Nat /\ delivered[v] <= Len(queue[v])
          BY <1>0 DEF StoreTypeOK
        <4>2. i + 1 \in 1 .. delivered[v] /\ i \in 1 .. (Len(queue[v]) - 1)
          <5>1. \/ delivered[v] > 0 /\ delivered'[v] = delivered[v] - 1
                \/ delivered'[v] = 0
            BY <1>0, LeftDelivered
          <5> QED
            BY <1>0, <2>1, <3>2, <4>1, <5>1, Left
        <4> QED
          BY <1>0, <3>2, <4>2, Left DEF Order, DeliveredAreBorn
      <3> QED
        BY <3>1, <3>2
    <2> QED
      BY <2>1 DEF DeliveredAreBorn
  <1>3. ASSUME NEW u \in Devices, NEW i \in DOMAIN queue'[u], queue'[u][i].kind # "add"
        PROVE  \/ server[queue'[u][i].id] # Unborn
               \/ \E j \in 1 .. (i - 1) :
                     /\ j \in DOMAIN queue'[u]
                     /\ queue'[u][j].kind = "add" /\ queue'[u][j].id = queue'[u][i].id
    <2>1. PICK k \in DOMAIN queue[u] :
             queue'[u][i] = queue[u][k] /\ k = (IF u = v THEN i + 1 ELSE i) /\ i \in Nat
      BY <1>3, OldPlaces
    <2> DEFINE d == queue[u][k].id
    <2>2. ASSUME NEW j \in 1 .. (k - 1), AddsAt(u, j, d)
          PROVE  \/ server[d] # Unborn
                 \/ \E l \in 1 .. (i - 1) :
                       l \in DOMAIN queue'[u] /\ queue'[u][l] = queue[u][j]
      <3>1. CASE u # v
        BY <1>0, <2>1, <2>2, <3>1, Left DEF AddsAt
      <3>2. CASE u = v /\ j = 1
        BY <2>2, <3>2, KnownLeft DEF AddsAt
      <3>3. CASE u = v /\ j # 1
        <4>1. j - 1 \in 1 .. (i - 1)
          BY <2>1, <2>2, <3>3
        <4>2. j - 1 \in 1 .. (Len(queue[v]) - 1) /\ (j - 1) + 1 = j
          BY <1>0, <2>2, <3>3, Left DEF AddsAt
        <4>3. j - 1 \in DOMAIN queue'[u] /\ queue'[u][j - 1] = queue[u][j]
          BY <1>0, <3>3, <4>2, Left
        <4> QED
          BY <4>1, <4>3
      <3> QED
        BY <3>1, <3>2, <3>3
    <2>3. server[d] # Unborn \/ \E j \in 1 .. (k - 1) : AddsAt(u, j, d)
      BY <1>3, <2>1 DEF Order, WritesFollowAdds
    <2> QED
      BY <2>1, <2>2, <2>3 DEF AddsAt
  <1> QED
    BY <1>0, <1>1, <1>2, <1>3 DEF AddsAreOnce, WritesFollowAdds, AddsAt

LEMMA OrderEnqueue ==
    ASSUME TypeOK, Order, NEW v \in Devices, NEW w \in Writes, Enqueue(v, w),
           Posts(v, w) \/ Saves(v, w)
    PROVE  AddsAreOnce' /\ DeliveredAreBorn' /\ WritesFollowAdds'
PROOF
  <1> DEFINE n == Len(queue[v]) + 1
  <1>0. StoreTypeOK /\ server' = server /\ n \in Nat
    BY Enqueued DEF TypeOK
  <1>1. w.kind = "add" => Fresh(w.id)
    BY DEF Posts, Saves
  <1>2. w.kind # "add" => Known(v, w.id)
    BY DEF Posts, Saves, Order, ScreensFollowAdds, Own
  <1>3. ASSUME NEW u \in Devices, NEW i \in DOMAIN queue[u], w.kind = "add"
        PROVE  queue[u][i].id # w.id
    BY <1>1, <1>3 DEF Fresh, Pending
  <1>4. ASSUME NEW u \in Devices, NEW i \in DOMAIN queue'[u], queue'[u][i].kind = "add"
        PROVE  \A x \in Devices : \A j \in DOMAIN queue'[x] :
                  (queue'[x][j].kind = "add" /\ queue'[x][j].id = queue'[u][i].id)
                     => x = u /\ j = i
    <2>1. CASE i \in DOMAIN queue[u] /\ queue'[u][i] = queue[u][i]
      <3> DEFINE d == queue[u][i].id
      <3>1. \A x \in Devices : \A j \in DOMAIN queue[x] : AddsAt(x, j, d) => x = u /\ j = i
        BY <1>4, <2>1 DEF Order, AddsAreOnce
      <3>2. ASSUME NEW x \in Devices, NEW j \in DOMAIN queue'[x],
                   queue'[x][j].kind = "add" /\ queue'[x][j].id = d
            PROVE  x = u /\ j = i
        <4>1. \/ j \in DOMAIN queue[x] /\ queue'[x][j] = queue[x][j]
              \/ queue'[x][j] = w
          BY <3>2, NewPlaces
        <4> QED
          BY <1>3, <2>1, <3>1, <3>2, <4>1 DEF AddsAt
      <3> QED
        BY <1>0, <2>1, <3>1, <3>2 DEF AddsAt
    <2>2. CASE u = v /\ i = n /\ queue'[u][i] = w
      <3>2. ASSUME NEW x \in Devices, NEW j \in DOMAIN queue'[x],
                   queue'[x][j].kind = "add" /\ queue'[x][j].id = w.id
            PROVE  x = u /\ j = i
        <4>1. \/ j \in DOMAIN queue[x] /\ queue'[x][j] = queue[x][j]
              \/ x = v /\ j = n
          BY <3>2, NewPlaces
        <4> QED
          BY <1>3, <1>4, <2>2, <3>2, <4>1
      <3> QED
        BY <1>0, <2>2, <3>2 DEF AddsAt
    <2> QED
      BY <1>4, <2>1, <2>2, NewPlaces
  <1>5. ASSUME NEW u \in Devices, NEW i \in DOMAIN queue'[u], queue'[u][i].kind # "add"
        PROVE  \/ server'[queue'[u][i].id] # Unborn
               \/ \E j \in 1 .. (i - 1) :
                     /\ j \in DOMAIN queue'[u]
                     /\ queue'[u][j].kind = "add" /\ queue'[u][j].id = queue'[u][i].id
    <2>0. ASSUME NEW d, NEW j \in DOMAIN queue[u], AddsAt(u, j, d)
          PROVE  /\ j \in DOMAIN queue'[u]
                 /\ queue'[u][j].kind = "add" /\ queue'[u][j].id = d
      BY <1>0, <2>0, Enqueued DEF AddsAt
    <2>1. CASE i \in DOMAIN queue[u] /\ queue'[u][i] = queue[u][i]
      <3>1. \/ server[queue[u][i].id] # Unborn
            \/ \E j \in 1 .. (i - 1) : AddsAt(u, j, queue[u][i].id)
        BY <1>5, <2>1 DEF Order, WritesFollowAdds
      <3>2. ASSUME NEW j \in 1 .. (i - 1), AddsAt(u, j, queue[u][i].id)
            PROVE  j \in DOMAIN queue[u]
        BY <3>2 DEF AddsAt
      <3> QED
        BY <1>0, <2>0, <2>1, <3>1, <3>2
    <2>2. CASE u = v /\ i = n /\ queue'[u][i] = w
      <3>1. Known(v, w.id)
        BY <1>2, <1>5, <2>2
      <3>2. CASE Adding(v, w.id)
        <4>1. PICK j \in DOMAIN queue[v] : AddsAt(v, j, w.id)
          BY <3>2 DEF Adding
        <4>2. j \in 1 .. (i - 1)
          BY <1>0, <2>2, Enqueued
        <4> QED
          BY <2>0, <2>2, <4>1, <4>2
      <3> QED
        BY <1>0, <2>2, <3>1, <3>2 DEF Known
    <2> QED
      BY <1>5, <2>1, <2>2, NewPlaces
  <1>6. DeliveredAreBorn'
    <2>1. ASSUME NEW u \in Devices, NEW i \in 1 .. delivered[u]
          PROVE  queue'[u][i] = queue[u][i]
      <3>1. /\ queue[u] \in Seq(Writes) /\ delivered[u] \in Nat
            /\ delivered[u] <= Len(queue[u])
        BY <1>0 DEF StoreTypeOK
      <3>2. Len(queue[u]) \in Nat /\ DOMAIN queue[u] = 1 .. Len(queue[u])
        BY <3>1, LenProperties
      <3>3. i \in DOMAIN queue[u]
        BY <3>1, <3>2
      <3> QED
        BY <1>0, <3>3, Enqueued
    <2> QED
      BY <1>0, <2>1, Enqueued DEF Order, DeliveredAreBorn
  <1> QED
    BY <1>4, <1>5, <1>6 DEF AddsAreOnce, WritesFollowAdds, AddsAt

(* A refused write stays the next of its device until the refusal is read. *)
LEMMA RefusalsNext ==
    ASSUME TypeOK, Order, [Next]_vars
    PROVE  RefusalsAreOfUpdates'
PROOF
  <1>0. /\ StoreTypeOK /\ RefusalsAreOfUpdates
        /\ delivered \in [Devices -> Nat] /\ refused \in [Devices -> BOOLEAN]
    BY DEF TypeOK, StoreTypeOK, Order
  <1>1. CASE Rests
    <2>1. queue' = queue
      BY <1>1 DEF Rests
    <2>2. CASE UNCHANGED <<delivered, refused>>
      BY <1>0, <2>1, <2>2 DEF RefusalsAreOfUpdates, NextWrite
    <2>3. ASSUME NEW v \in Devices, Refuse(v)
          PROVE  RefusalsAreOfUpdates'
      <3>1. /\ delivered[v] < Len(queue[v]) /\ NextWrite(v).kind = "update"
            /\ delivered' = delivered /\ refused' = [refused EXCEPT ![v] = TRUE]
        BY <2>3 DEF Refuse, Inapplicable
      <3>2. delivered[v] + 1 \in DOMAIN queue[v]
        BY <1>0, <3>1, LenProperties DEF StoreTypeOK
      <3> QED
        BY <1>0, <2>1, <3>1, <3>2 DEF RefusalsAreOfUpdates, NextWrite
    <2>4. ASSUME NEW v \in Devices, SendAgain(v)
          PROVE  RefusalsAreOfUpdates'
      BY <1>0, <2>1, <2>4 DEF SendAgain, RefusalsAreOfUpdates, NextWrite
    <2> QED
      BY <1>1, <2>2, <2>3, <2>4 DEF Rests
  <1>2. ASSUME NEW v \in Devices, Deliver(v)
        PROVE  RefusalsAreOfUpdates'
    BY <1>0, <1>2, Delivered DEF RefusalsAreOfUpdates, NextWrite
  <1>3. ASSUME NEW v \in Devices, Leaves(v)
        PROVE  RefusalsAreOfUpdates'
    <2>1. ASSUME NEW u \in Devices, refused'[u]
          PROVE  /\ delivered'[u] + 1 \in DOMAIN queue'[u]
                 /\ queue'[u][delivered'[u] + 1] = queue[u][delivered[u] + 1]
                 /\ refused[u]
      <3>1. CASE u # v
        <4>1. queue'[u] = queue[u]
          BY <1>0, <1>3, <3>1, Left
        <4>2. delivered'[u] = delivered[u] /\ refused'[u] = refused[u]
          BY <1>0, <1>3, <3>1, LeftDelivered
        <4>3. refused[u]
          BY <2>1, <4>2
        <4>4. delivered[u] + 1 \in DOMAIN queue[u]
          BY <1>0, <4>3 DEF RefusalsAreOfUpdates
        <4> QED
          BY <4>1, <4>2, <4>3, <4>4
      <3>2. CASE u = v
        <4>1. /\ delivered[v] > 0 /\ delivered'[v] = delivered[v] - 1 /\ refused' = refused
              /\ delivered[v] \in Nat
          BY <1>0, <1>3, <2>1, <3>2, LeftDelivered
        <4>2. delivered[v] + 1 \in DOMAIN queue[v]
          BY <1>0, <2>1, <3>2, <4>1 DEF RefusalsAreOfUpdates
        <4>3. delivered[v] \in 1 .. (Len(queue[v]) - 1) /\ (delivered[v] - 1) + 1 = delivered[v]
          BY <1>0, <1>3, <4>1, <4>2, Left
        <4>4. /\ DOMAIN queue'[v] = 1 .. (Len(queue[v]) - 1)
              /\ \A i \in 1 .. (Len(queue[v]) - 1) : queue'[v][i] = queue[v][i + 1]
          BY <1>0, <1>3, Left
        <4>5. refused[v]
          BY <2>1, <3>2, <4>1
        <4> QED
          BY <3>2, <4>1, <4>3, <4>4, <4>5
      <3> QED
        BY <3>1, <3>2
    <2> QED
      BY <1>0, <2>1 DEF RefusalsAreOfUpdates, NextWrite
  <1>4. ASSUME NEW v \in Devices, NEW w \in Writes, Enqueue(v, w)
        PROVE  RefusalsAreOfUpdates'
    <2>1. ASSUME NEW u \in Devices, NEW i \in DOMAIN queue[u]
          PROVE  i \in DOMAIN queue'[u] /\ queue'[u][i] = queue[u][i]
      BY <1>0, <1>4, <2>1, Enqueued
    <2>2. delivered' = delivered /\ refused' = refused
      BY <1>0, <1>4, Enqueued
    <2> QED
      BY <1>0, <2>1, <2>2 DEF RefusalsAreOfUpdates, NextWrite
  <1> QED
    BY <1>1, <1>2, <1>3, <1>4, StepKinds

LEMMA OrderNext == TypeOK /\ Order /\ [Next]_vars => Order'
PROOF
  <1> SUFFICES ASSUME TypeOK, Order, [Next]_vars PROVE Order'
    OBVIOUS
  <1>0. RefusalsAreOfUpdates'
    BY RefusalsNext
  <1>1. CASE Rests
    <2>1. \A u \in Devices, d \in DocIDs : Known(u, d) => Known(u, d)'
      BY <1>1 DEF Rests, Known, Adding, AddsAt
    <2>2. ScreensFollowAdds'
      BY <2>1, ScreensFollow
    <2>3. \A u \in Devices : delivered'[u] \in {0, delivered[u]}
      BY <1>1 DEF Rests, Refuse, SendAgain, TypeOK, StoreTypeOK
    <2>4. DeliveredAreBorn'
      BY <1>1, <2>3 DEF Rests, Order, DeliveredAreBorn
    <2> QED
      BY <1>0, <1>1, <2>2, <2>4
         DEF Order, Rests, WellFormed, AddsAreOnce, WritesFollowAdds, AddsAt
  <1>2. ASSUME NEW v \in Devices, Deliver(v)
        PROVE  Order'
    <2>1. \A u \in Devices, d \in DocIDs : Known(u, d) => Known(u, d)'
      BY <1>2, KnownDelivered
    <2>2. WellFormed'
      BY <1>2, KnownDelivered DEF WellFormed
    <2> QED
      BY <1>0, <1>2, <2>1, <2>2, ScreensFollow, OrderDeliver DEF Order
  <1>3. ASSUME NEW v \in Devices, Leaves(v)
        PROVE  Order'
    <2>1. \A u \in Devices, d \in DocIDs : Known(u, d) => Known(u, d)'
      BY <1>3, KnownLeft
    <2>2. WellFormed'
      BY <1>3, Left DEF Order, WellFormed, TypeOK
    <2> QED
      BY <1>0, <1>3, <2>1, <2>2, ScreensFollow, OrderLeaves DEF Order
  <1>4. ASSUME NEW v \in Devices, NEW w \in Writes,
               Enqueue(v, w), Posts(v, w) \/ Saves(v, w)
        PROVE  Order'
    <2>1. \A u \in Devices, d \in DocIDs : Known(u, d) => Known(u, d)'
      BY <1>4, KnownEnqueued
    <2>2. WellFormed'
      BY <1>4 DEF Enqueue, Order, WellFormed
    <2> QED
      BY <1>0, <1>4, <2>1, <2>2, ScreensFollow, OrderEnqueue DEF Order
  <1> QED
    BY <1>1, <1>2, <1>3, <1>4, StepKinds
-------------------------------------------------------------------------------
LEMMA OwnershipInit == Init => Ownership
PROOF
  <1> SUFFICES ASSUME Init PROVE Ownership
    OBVIOUS
  <1>1. \A v \in Devices : DOMAIN queue[v] = {}
    BY EmptySeq DEF Init, StoreInit
  <1>2. \A v \in Devices : screen[v] = Closed
    BY DEF Init, ScreenInit
  <1>3. \A d \in DocIDs : versions[d] = {server[d]} \cap Books
    BY DEF Init, StoreInit
  <1>4. VersionsAgree
    BY <1>3 DEF VersionsAgree, SameListing
  <1>5. ServerHasAVersion
    BY <1>3 DEF ServerHasAVersion
  <1>6. VersionsAreBorn
    BY <1>3, SpecialValuesAssumption DEF VersionsAreBorn
  <1>7. WritesMakeVersions /\ WritesAreTheUsers
    BY <1>1 DEF WritesMakeVersions, WritesAreTheUsers
  <1>8. ScreensAreTheUsers
    BY <1>2 DEF ScreensAreTheUsers, Own
  <1> QED
    BY <1>4, <1>5, <1>6, <1>7, <1>8 DEF Ownership

(* While writes arrive: what the server has is a version.                  *)
LEMMA OwnershipDeliver ==
    ASSUME TypeOK, Order, Ownership, NEW v \in Devices, Deliver(v), screen' = screen
    PROVE  Ownership'
PROOF
  <1> DEFINE w == NextWrite(v)
             n == delivered[v] + 1
  <1>0. /\ StoreTypeOK /\ w \in Writes /\ w.id \in DocIDs
        /\ ~Inapplicable(w, server) /\ server' = Applied(w, server)
        /\ versions' = versions /\ queue' = queue
        /\ n \in DOMAIN queue[v] /\ w = queue[v][n]
    BY Delivered DEF TypeOK
  <1>1. /\ VersionsAgree' /\ ScreensAreTheUsers'
        /\ WritesMakeVersions' /\ WritesAreTheUsers'
    BY <1>0 DEF Ownership, VersionsAgree, ScreensAreTheUsers, Own, WritesMakeVersions,
                WritesAreTheUsers
  <1>2. VersionsAreBorn'
    <2>1. ASSUME NEW d \in DocIDs, versions[d] # {}
          PROVE  server'[d] # Unborn \/ \E u \in Devices : Adding(u, d)'
      BY <2>1, KnownDelivered DEF Ownership, VersionsAreBorn, Known
    <2> QED
      BY <1>0, <2>1 DEF VersionsAreBorn, Adding, AddsAt
  <1>3. ServerHasAVersion'
    <2>1. ASSUME NEW d \in DocIDs, server'[d] \in Books
          PROVE  server'[d] \in versions[d]
      <3>1. CASE d # w.id
        BY <1>0, <2>1, <3>1, AppliedTo DEF Ownership, ServerHasAVersion
      <3>2. CASE d = w.id /\ w.kind = "add"
        BY <1>0, <3>2, AppliedTo DEF Ownership, WritesMakeVersions
      <3>3. CASE d = w.id /\ w.kind = "update"
        <4>1. server[d] \in versions[d]
          BY <1>0, <3>3, AppliedTo DEF Ownership, ServerHasAVersion
        <4>2. Patched(server[d], w.content) \in versions[d]
          BY <1>0, <3>3, <4>1 DEF Ownership, WritesMakeVersions
        <4> QED
          BY <1>0, <3>3, <4>2, AppliedTo
      <3>4. CASE d = w.id /\ w.kind = "delete"
        BY <1>0, <2>1, <3>4, AppliedTo, SpecialValuesAssumption
      <3> QED
        BY <1>0, <3>1, <3>2, <3>3, <3>4, WriteKinds
    <2> QED
      BY <1>0, <2>1 DEF ServerHasAVersion
  <1> QED
    BY <1>1, <1>2, <1>3 DEF Ownership

(* While answers are read: the queues only get shorter.                    *)
LEMMA OwnershipLeaves ==
    ASSUME TypeOK, Order, Ownership, NEW v \in Devices, Leaves(v), screen' = screen
    PROVE  Ownership'
PROOF
  <1>0. StoreTypeOK /\ server' = server /\ versions' = versions
    BY Left DEF TypeOK
  <1>1. VersionsAgree' /\ ScreensAreTheUsers' /\ ServerHasAVersion'
    BY <1>0 DEF Ownership, VersionsAgree, ScreensAreTheUsers, Own, ServerHasAVersion
  <1>2. VersionsAreBorn'
    <2>1. ASSUME NEW d \in DocIDs, versions[d] # {}
          PROVE  server'[d] # Unborn \/ \E u \in Devices : Adding(u, d)'
      BY <2>1, KnownLeft DEF Ownership, VersionsAreBorn, Known
    <2> QED
      BY <1>0, <2>1 DEF VersionsAreBorn, Adding, AddsAt
  <1>3. ASSUME NEW u \in Devices, NEW i \in DOMAIN queue'[u]
        PROVE  \E k \in DOMAIN queue[u] : queue'[u][i] = queue[u][k]
    BY <1>3, OldPlaces
  <1>4. WritesMakeVersions'
    BY <1>0, <1>3 DEF Ownership, WritesMakeVersions
  <1>5. WritesAreTheUsers'
    BY <1>0, <1>3 DEF Ownership, WritesAreTheUsers
  <1> QED
    BY <1>1, <1>2, <1>4, <1>5 DEF Ownership

(* A new listing: nothing refers to the ID it gets.                        *)
LEMMA OwnershipPosts ==
    ASSUME TypeOK, Order, Ownership, NEW v \in Devices, NEW w \in Writes,
           Enqueue(v, w), Posts(v, w)
    PROVE  Ownership'
PROOF
  <1>0. /\ StoreTypeOK /\ server' = server /\ w.id \in DocIDs
        /\ w.kind = "add" /\ w.book.seller = user[v] /\ screen' = screen
    BY Enqueued, WriteKinds DEF TypeOK, Posts
  <1>1. /\ \A u \in Devices : ~Known(u, w.id)
        /\ \A u \in Devices : \A i \in DOMAIN queue[u] : queue[u][i].id # w.id
        /\ server[w.id] = Unborn
    BY DEF Posts, Fresh, Pending, Known, Adding, AddsAt
  <1>2. versions[w.id] = {}
    BY <1>0, <1>1 DEF Ownership, VersionsAreBorn, Known
  <1>3. /\ versions'[w.id] = {w.book}
        /\ \A d \in DocIDs : d # w.id => versions'[d] = versions[d]
    BY <1>0, <1>2, Enqueued DEF Outcomes
  <1>4. VersionsAgree'
    BY <1>3 DEF Ownership, VersionsAgree, SameListing
  <1>5. VersionsAreBorn'
    <2>1. \A u \in Devices, d \in DocIDs : Known(u, d) => Known(u, d)'
      BY KnownEnqueued
    <2>2. Adding(v, w.id)'
      BY <1>0, Enqueued DEF Adding, AddsAt
    <2>3. ASSUME NEW d \in DocIDs, versions'[d] # {}
          PROVE  server'[d] # Unborn \/ \E u \in Devices : Adding(u, d)'
      <3>1. CASE d = w.id
        BY <2>2, <3>1 DEF Adding, AddsAt
      <3>2. CASE d # w.id
        BY <1>0, <1>3, <2>1, <2>3, <3>2 DEF Ownership, VersionsAreBorn, Known
      <3> QED
        BY <3>1, <3>2
    <2> QED
      BY <2>3 DEF VersionsAreBorn, Adding, AddsAt
  <1>6. ServerHasAVersion'
    BY <1>0, <1>1, <1>3, SpecialValuesAssumption DEF Ownership, ServerHasAVersion
  <1>7. ASSUME NEW u \in Devices, NEW i \in DOMAIN queue'[u]
        PROVE  \/ /\ i \in DOMAIN queue[u] /\ queue'[u][i] = queue[u][i]
                  /\ versions'[queue[u][i].id] = versions[queue[u][i].id]
               \/ u = v /\ queue'[u][i] = w
    <2>1. CASE i \in DOMAIN queue[u] /\ queue'[u][i] = queue[u][i]
      <3>1. queue[u][i] \in Writes
        <4>1. queue[u] \in Seq(Writes)
          BY <1>0 DEF StoreTypeOK
        <4> QED
          BY <2>1, <4>1, ElementOfSeq, LenProperties
      <3>2. queue[u][i].id \in DocIDs
        BY <3>1, WriteKinds
      <3> QED
        BY <1>1, <1>3, <2>1, <3>2
    <2> QED
      BY <1>7, <2>1, NewPlaces
  <1>8. WritesMakeVersions'
    BY <1>0, <1>3, <1>7 DEF Ownership, WritesMakeVersions
  <1>9. WritesAreTheUsers'
    BY <1>0, <1>3, <1>7 DEF Ownership, WritesAreTheUsers
  <1>10. ScreensAreTheUsers'
    <2>1. ASSUME NEW u \in Devices, Own(u), screen[u].refString # NoRef
          PROVE  versions'[screen[u].refString] = versions[screen[u].refString]
      <3>1. screen[u].refString \in DocIDs
        BY <2>1 DEF Own, TypeOK, ScreenTypeOK, Screens
      <3>2. Known(u, screen[u].refString)
        BY <2>1 DEF Own, Order, ScreensFollowAdds
      <3> QED
        BY <1>1, <1>3, <3>1, <3>2
    <2> QED
      BY <1>0, <2>1 DEF Ownership, ScreensAreTheUsers, Own
  <1> QED
    BY <1>4, <1>5, <1>6, <1>8, <1>9, <1>10 DEF Ownership

(* A screen that offers to write to a listing is its seller's, if all that *)
(* a listing becomes is a version of what it was.                          *)
LEMMA ScreensStayTheUsers ==
    ASSUME TypeOK, Order, Ownership, [Next]_vars,
           \A d \in DocIDs : \A b \in versions'[d] : \E c \in versions[d] : SameListing(b, c)
    PROVE  ScreensAreTheUsers'
PROOF
  <1> SUFFICES ASSUME NEW v \in Devices, screen'[v] # Closed,
                      screen'[v].contactView # "Interested? Contact seller",
                      NEW d \in DocIDs, screen'[v].refString = d,
                      NEW b \in versions'[d]
               PROVE  b.seller = user[v]
    <2>1. \A v \in Devices : screen'[v] # Closed /\ screen'[v].refString # NoRef
             => screen'[v].refString \in DocIDs
      BY ScreenTypeNext DEF ScreenTypeOK, Screens
    <2> QED
      BY <2>1 DEF ScreensAreTheUsers, Own
  <1>0. d # NoRef
    BY SpecialValuesAssumption
  <1>1. PICK c \in versions[d] : b.seller = c.seller
    BY DEF SameListing
  <1>2. CASE Opens(v)
    <2>1. PICK x, e \in DocIDs :
             \E y \in versions[x], z \in versions[e] :
                /\ BookEq(z, y)
                /\ screen'[v].refString \in {NoRef, e}
                /\ user[v] = y.seller
      BY <1>2 DEF Opens
    <2>2. e = d
      BY <1>0, <2>1
    <2>3. PICK z \in versions[d] : z.seller = user[v]
      BY <2>1, <2>2 DEF BookEq
    <2> QED
      BY <1>1, <2>3 DEF Ownership, VersionsAgree, SameListing
  <1>3. CASE Stays(v)
    BY <1>0, <1>1, <1>3 DEF Stays, Own, Ownership, ScreensAreTheUsers
  <1> QED
    BY <1>2, <1>3, ScreenSteps

(* An edit or a deletion by the seller: what an edit makes of a listing    *)
(* depends on what no edit changes.                                        *)
LEMMA OwnershipSaves ==
    ASSUME TypeOK, Order, Ownership, [Next]_vars, NEW v \in Devices, NEW w \in Writes,
           Enqueue(v, w), Saves(v, w)
    PROVE  Ownership'
PROOF
  <1>0. /\ StoreTypeOK /\ server' = server /\ w.id \in DocIDs /\ w.kind # "add"
        /\ Own(v) /\ screen[v].refString = w.id /\ w.id # NoRef
        /\ \A d \in DocIDs : versions[d] \subseteq Books
    BY Enqueued, WriteKinds DEF TypeOK, Saves, StoreTypeOK
  <1>1. \A d \in DocIDs : versions[d] \subseteq versions'[d]
    BY <1>0, Enqueued
  <1>2. ASSUME NEW d \in DocIDs, NEW b \in versions'[d]
        PROVE  \/ b \in versions[d]
               \/ /\ d = w.id /\ w.kind = "update" /\ w.content \in Contents
                  /\ \E c \in versions[d] : b = Patched(c, w.content)
    <2>1. CASE d # w.id
      BY <1>0, <1>2, <2>1, Enqueued
    <2>2. CASE d = w.id /\ w.kind = "update"
      <3>1. Outcomes(w) = {Patched(c, w.content) : c \in versions[w.id]}
        BY <2>2 DEF Outcomes
      <3> QED
        BY <1>0, <1>2, <2>2, <3>1, Enqueued, WriteKinds
    <2>3. CASE d = w.id /\ w.kind = "delete"
      <3>1. Outcomes(w) = {}
        BY <2>3 DEF Outcomes
      <3> QED
        BY <1>0, <1>2, <2>3, <3>1, Enqueued
    <2> QED
      BY <1>0, <2>1, <2>2, <2>3, WriteKinds
  <1>3. ASSUME NEW d \in DocIDs, NEW b \in versions'[d]
        PROVE  \E c \in versions[d] : SameListing(b, c)
    <2>1. CASE b \in versions[d]
      BY <2>1 DEF SameListing
    <2>2. ASSUME w.content \in Contents, NEW c \in versions[d], b = Patched(c, w.content)
          PROVE  SameListing(b, c)
      BY <1>0, <2>2, PatchedIsABook
    <2> QED
      BY <1>2, <1>3, <2>1, <2>2
  <1>4. VersionsAgree'
    <2>1. ASSUME NEW d \in DocIDs, NEW b \in versions'[d], NEW c \in versions'[d]
          PROVE  SameListing(b, c)
      <3>1. PICK x \in versions[d], y \in versions[d] : SameListing(b, x) /\ SameListing(c, y)
        BY <1>3, <2>1
      <3> QED
        BY <3>1 DEF Ownership, VersionsAgree, SameListing
    <2> QED
      BY <2>1 DEF VersionsAgree, SameListing
  <1>5. VersionsAreBorn'
    <2>1. \A u \in Devices, d \in DocIDs : Known(u, d) => Known(u, d)'
      BY KnownEnqueued
    <2>2. ASSUME NEW d \in DocIDs, versions'[d] # {}
          PROVE  server'[d] # Unborn \/ \E u \in Devices : Adding(u, d)'
      BY <1>0, <1>3, <2>1, <2>2 DEF Ownership, VersionsAreBorn, Known
    <2> QED
      BY <2>2 DEF VersionsAreBorn, Adding, AddsAt
  <1>6. ServerHasAVersion'
    BY <1>0, <1>1 DEF Ownership, ServerHasAVersion
  <1>7. ASSUME NEW u \in Devices, NEW i \in DOMAIN queue[u]
        PROVE  queue[u][i] \in Writes /\ queue[u][i].id \in DocIDs
    <2>1. queue[u] \in Seq(Writes)
      BY <1>0 DEF StoreTypeOK
    <2>2. queue[u][i] \in Writes
      BY <1>7, <2>1, ElementOfSeq, LenProperties
    <2> QED
      BY <2>2, WriteKinds
  <1>8. WritesMakeVersions'
    <2>1. ASSUME NEW d \in DocIDs, NEW e \in Contents, NEW b \in versions'[d],
                 \A c \in versions[d] : Patched(c, e) \in versions'[d]
          PROVE  Patched(b, e) \in versions'[d]
      <3>1. PICK c \in versions[d] : SameListing(b, c)
        BY <1>3, <2>1
      <3>2. b \in Books /\ c \in Books
        BY <1>0, <1>2, PatchedIsABook
      <3>3. Patched(b, e) = Patched(c, e)
        BY <3>1, <3>2, PatchedTwins
      <3> QED
        BY <2>1, <3>3
    <2>2. ASSUME NEW u \in Devices, NEW i \in DOMAIN queue[u]
          PROVE  /\ queue[u][i].kind = "add" =>
                       queue[u][i].book \in versions'[queue[u][i].id]
                 /\ queue[u][i].kind = "update" =>
                       \A b \in versions'[queue[u][i].id] :
                          Patched(b, queue[u][i].content) \in versions'[queue[u][i].id]
      <3>1. /\ queue[u][i].kind = "add" =>
                  queue[u][i].book \in versions[queue[u][i].id]
            /\ queue[u][i].kind = "update" =>
                  \A b \in versions[queue[u][i].id] :
                     Patched(b, queue[u][i].content) \in versions[queue[u][i].id]
        BY <2>2 DEF Ownership, WritesMakeVersions
      <3>2. queue[u][i] \in Writes /\ queue[u][i].id \in DocIDs
        BY <1>7, <2>2
      <3>3. queue[u][i].kind = "update" => queue[u][i].content \in Contents
        BY <3>2, WriteKinds
      <3> QED
        BY <1>1, <2>1, <3>1, <3>2, <3>3
    <2>3. w.kind = "update" =>
             \A b \in versions'[w.id] : Patched(b, w.content) \in versions'[w.id]
      <3>1. w.kind = "update" =>
               \A c \in versions[w.id] : Patched(c, w.content) \in versions'[w.id]
        <4>1. ASSUME w.kind = "update", NEW c \in versions[w.id]
              PROVE  Patched(c, w.content) \in Outcomes(w)
          BY <4>1 DEF Outcomes
        <4>2. Outcomes(w) \subseteq versions'[w.id]
          BY <1>0, Enqueued
        <4> QED
          BY <4>1, <4>2
      <3> QED
        BY <1>0, <2>1, <3>1, WriteKinds
    <2>4. ASSUME NEW u \in Devices, NEW i \in DOMAIN queue'[u]
          PROVE  \/ i \in DOMAIN queue[u] /\ queue'[u][i] = queue[u][i]
                 \/ queue'[u][i] = w
      BY <2>4, NewPlaces
    <2> QED
      BY <1>0, <2>2, <2>3, <2>4 DEF WritesMakeVersions
  <1>9. WritesAreTheUsers'
    <2>1. ASSUME NEW u \in Devices, NEW i \in DOMAIN queue'[u],
                 NEW b \in versions'[queue'[u][i].id]
          PROVE  b.seller = user[u]
      <3>1. CASE i \in DOMAIN queue[u] /\ queue'[u][i] = queue[u][i]
        <4>1. PICK c \in versions[queue[u][i].id] : SameListing(b, c)
          BY <1>3, <1>7, <2>1, <3>1
        <4> QED
          BY <3>1, <4>1 DEF Ownership, WritesAreTheUsers, SameListing
      <3>2. CASE u = v /\ queue'[u][i] = w
        <4>1. PICK c \in versions[w.id] : SameListing(b, c)
          BY <1>0, <1>3, <2>1, <3>2
        <4> QED
          BY <1>0, <3>2, <4>1 DEF Ownership, ScreensAreTheUsers, SameListing
      <3> QED
        BY <2>1, <3>1, <3>2, NewPlaces
    <2> QED
      BY <2>1 DEF WritesAreTheUsers
  <1>10. ScreensAreTheUsers'
    BY <1>3, ScreensStayTheUsers
  <1> QED
    BY <1>4, <1>5, <1>6, <1>8, <1>9, <1>10 DEF Ownership

LEMMA OwnershipNext == TypeOK /\ Order /\ Ownership /\ [Next]_vars => Ownership'
PROOF
  <1> SUFFICES ASSUME TypeOK, Order, Ownership, [Next]_vars PROVE Ownership'
    OBVIOUS
  <1>1. CASE Rests
    <2>1. ScreensAreTheUsers'
      BY <1>1, ScreensStayTheUsers DEF Rests, SameListing
    <2> QED
      BY <1>1, <2>1
         DEF Ownership, Rests, VersionsAgree, VersionsAreBorn, ServerHasAVersion,
             WritesMakeVersions, WritesAreTheUsers, Adding, AddsAt
  <1> QED
    BY <1>1, StepKinds, OwnershipDeliver, OwnershipLeaves, OwnershipPosts, OwnershipSaves

(* The inductive invariant.                                                *)
THEOREM MarketInvariance == Spec => []IInv
PROOF
  <1>1. Init => IInv
    BY TypeInit, OrderInit, OwnershipInit DEF IInv
  <1>2. IInv /\ [Next]_vars => IInv'
    BY TypeNext, OrderNext, OwnershipNext DEF IInv
  <1> QED
    BY <1>1, <1>2, PTL DEF Spec
-------------------------------------------------------------------------------
(* The publications of document d that wait in the queues q.               *)
Publications(q, d) ==
    {b \in Books : \E v \in Devices : \E i \in DOMAIN q[v] : q[v][i] = Add(d, b)}

(* Repeatable, of any documents and queues.                                *)
RepeatableOf(docs, q, d) ==
    IF docs[d] # Unborn /\ \E v \in Devices :
          \E w \in {q[v][i] : i \in DOMAIN q[v]} : w.kind = "add" /\ w.id = d
      THEN CHOOSE b \in Books :
              \E v \in Devices : Add(d, b) \in {q[v][i] : i \in DOMAIN q[v]}
      ELSE NoBook

LEMMA RepeatableIs ==
    ASSUME NEW docs, NEW q \in [Devices -> Seq(Writes)], NEW d \in DocIDs
    PROVE  /\ docs[d] = Unborn \/ Publications(q, d) = {} => RepeatableOf(docs, q, d) = NoBook
           /\ docs[d] # Unborn /\ Publications(q, d) # {} =>
                 RepeatableOf(docs, q, d) \in Publications(q, d)
PROOF
  <1> DEFINE P(b) == \E v \in Devices : Add(d, b) \in {q[v][i] : i \in DOMAIN q[v]}
             Adds == \E v \in Devices :
                        \E w \in {q[v][i] : i \in DOMAIN q[v]} : w.kind = "add" /\ w.id = d
  <1>1. \A b \in Books : P(b) <=> b \in Publications(q, d)
    BY DEF Publications
  <1>2. ASSUME Adds
        PROVE  Publications(q, d) # {}
    <2>1a. PICK v \in Devices : \E i \in DOMAIN q[v] : q[v][i].kind = "add" /\ q[v][i].id = d
      BY <1>2
    <2>1. PICK i \in DOMAIN q[v] : q[v][i].kind = "add" /\ q[v][i].id = d
      BY <2>1a
    <2>2. q[v] \in Seq(Writes)
      OBVIOUS
    <2>3. q[v][i] \in Writes
      BY <2>2, ElementOfSeq, LenProperties
    <2>4. q[v][i].book \in Books /\ q[v][i] = Add(d, q[v][i].book)
      BY <2>1, <2>3, WriteKinds
    <2> QED
      BY <2>4 DEF Publications
  <1>3. ASSUME NEW b \in Publications(q, d)
        PROVE  Adds
    <2>1a. PICK v \in Devices : \E i \in DOMAIN q[v] : q[v][i] = Add(d, b)
      BY <1>3 DEF Publications
    <2>1. PICK i \in DOMAIN q[v] : q[v][i] = Add(d, b)
      BY <2>1a
    <2> QED
      BY <2>1 DEF Add
  <1>4. RepeatableOf(docs, q, d) =
           IF docs[d] # Unborn /\ Adds THEN CHOOSE b \in Books : P(b) ELSE NoBook
    BY DEF RepeatableOf
  <1>5. (\E b \in Books : P(b)) => (CHOOSE b \in Books : P(b)) \in Books
                                  /\ P(CHOOSE b \in Books : P(b))
    <2> HIDE DEF P
    <2> QED
      OBVIOUS
  <1>6. Publications(q, d) \subseteq Books
    BY DEF Publications
  <1> HIDE DEF P, Adds
  <1> QED
    BY <1>1, <1>2, <1>3, <1>4, <1>5, <1>6

(* One publication of a document waits at most.                            *)
LEMMA PublishedOnce ==
    ASSUME AddsAreOnce, NEW d \in DocIDs, NEW b \in Publications(queue, d),
           NEW c \in Publications(queue, d)
    PROVE  b = c
PROOF
  <1>1a. PICK v \in Devices : \E i \in DOMAIN queue[v] : queue[v][i] = Add(d, b)
    BY DEF Publications
  <1>1. PICK i \in DOMAIN queue[v] : queue[v][i] = Add(d, b)
    BY <1>1a
  <1>2a. PICK u \in Devices : \E j \in DOMAIN queue[u] : queue[u][j] = Add(d, c)
    BY DEF Publications
  <1>2. PICK j \in DOMAIN queue[u] : queue[u][j] = Add(d, c)
    BY <1>2a
  <1>3. u = v /\ j = i
    BY <1>1, <1>2 DEF AddsAreOnce, AddsAt, Add
  <1> QED
    BY <1>1, <1>2, <1>3 DEF Add

Repeats == [d \in DocIDs |-> Repeatable(d)]

(* A step that leaves the publications of a document alone, and does not   *)
(* make it born, leaves what may be repeated.                              *)
LEMMA RepeatsStay ==
    ASSUME StoreTypeOK, StoreTypeOK', AddsAreOnce, NEW d \in DocIDs,
           \/ server'[d] = Unborn /\ server[d] = Unborn
           \/ /\ server'[d] # Unborn <=> server[d] # Unborn
              /\ Publications(queue', d) = Publications(queue, d)
    PROVE  Repeats'[d] = Repeats[d]
PROOF
  <1>1. /\ Repeats[d] = RepeatableOf(server, queue, d)
        /\ Repeats'[d] = RepeatableOf(server', queue', d)
    BY DEF Repeats, Repeatable, RepeatableOf, Unconfirmed, Pending
  <1>2. queue \in [Devices -> Seq(Writes)] /\ queue' \in [Devices -> Seq(Writes)]
    BY DEF StoreTypeOK
  <1>3. CASE server'[d] = Unborn /\ server[d] = Unborn
    BY <1>1, <1>2, <1>3, RepeatableIs
  <1>4. CASE /\ server'[d] # Unborn <=> server[d] # Unborn
             /\ Publications(queue', d) = Publications(queue, d)
    <2>1. CASE server[d] = Unborn \/ Publications(queue, d) = {}
      BY <1>1, <1>2, <1>4, <2>1, RepeatableIs
    <2>2. CASE server[d] # Unborn /\ Publications(queue, d) # {}
      <3>1. /\ Repeats[d] \in Publications(queue, d)
            /\ Repeats'[d] \in Publications(queue, d)
        BY <1>1, <1>2, <1>4, <2>2, RepeatableIs
      <3> QED
        BY <3>1, PublishedOnce
    <2> QED
      BY <2>1, <2>2
  <1> QED
    BY <1>3, <1>4

(* The one publication that waits may be repeated, once it was made.       *)
LEMMA RepeatsAdd ==
    ASSUME StoreTypeOK, AddsAreOnce, NEW v \in Devices, NEW i \in DOMAIN queue[v],
           queue[v][i].kind = "add"
    PROVE  LET w == queue[v][i] IN
           /\ w.id \in DocIDs /\ w.book \in Books
           /\ Publications(queue, w.id) = {w.book}
           /\ server[w.id] # Unborn => Repeats[w.id] = w.book
           /\ server[w.id] = Unborn => Repeats[w.id] = NoBook
PROOF
  <1> DEFINE w == queue[v][i]
  <1>1. queue \in [Devices -> Seq(Writes)] /\ queue[v] \in Seq(Writes)
    BY DEF StoreTypeOK
  <1>2. w \in Writes
    BY <1>1, ElementOfSeq, LenProperties
  <1>3. w.id \in DocIDs /\ w.book \in Books /\ w = Add(w.id, w.book)
    BY <1>2, WriteKinds
  <1>4. w.book \in Publications(queue, w.id)
    BY <1>3 DEF Publications
  <1>5. Publications(queue, w.id) = {w.book}
    BY <1>3, <1>4, PublishedOnce
  <1>6. Repeats[w.id] = RepeatableOf(server, queue, w.id)
    BY <1>3 DEF Repeats, Repeatable, RepeatableOf, Unconfirmed, Pending
  <1> QED
    BY <1>1, <1>3, <1>5, <1>6, RepeatableIs

(* What a step does to the publications that wait.                         *)
LEMMA PublicationsEnqueued ==
    ASSUME StoreTypeOK, NEW v \in Devices, NEW w \in Writes, Enqueue(v, w),
           NEW d \in DocIDs, w.kind # "add" \/ w.id # d
    PROVE  Publications(queue', d) = Publications(queue, d)
PROOF
  <1>1. ASSUME NEW b \in Publications(queue, d)
        PROVE  b \in Publications(queue', d)
    <2>1a. PICK u \in Devices : \E i \in DOMAIN queue[u] : queue[u][i] = Add(d, b)
      BY <1>1 DEF Publications
    <2>1. PICK i \in DOMAIN queue[u] : queue[u][i] = Add(d, b)
      BY <2>1a
    <2>2. i \in DOMAIN queue'[u] /\ queue'[u][i] = queue[u][i]
      BY <2>1, Enqueued
    <2>3. b \in Books
      BY <1>1 DEF Publications
    <2> QED
      BY <2>1, <2>2, <2>3 DEF Publications
  <1>2. ASSUME NEW b \in Publications(queue', d)
        PROVE  b \in Publications(queue, d)
    <2>1a. PICK u \in Devices : \E i \in DOMAIN queue'[u] : queue'[u][i] = Add(d, b)
      BY <1>2 DEF Publications
    <2>1. PICK i \in DOMAIN queue'[u] : queue'[u][i] = Add(d, b)
      BY <2>1a
    <2>2. queue'[u][i] # w
      BY <2>1 DEF Add
    <2>3. i \in DOMAIN queue[u] /\ queue'[u][i] = queue[u][i]
      BY <2>1, <2>2, Enqueued
    <2>4. b \in Books
      BY <1>2 DEF Publications
    <2> QED
      BY <2>1, <2>3, <2>4 DEF Publications
  <1> QED
    BY <1>1, <1>2

LEMMA PublicationsLeft ==
    ASSUME TypeOK, AddsAreOnce, NEW v \in Devices, Leaves(v), NEW d \in DocIDs
    PROVE  Publications(queue', d) =
              IF queue[v][1].kind = "add" /\ queue[v][1].id = d
                THEN {} ELSE Publications(queue, d)
PROOF
  <1>0. StoreTypeOK
    BY DEF TypeOK
  <1> DEFINE Gone == queue[v][1].kind = "add" /\ queue[v][1].id = d
  <1>1. ASSUME NEW b \in Publications(queue', d)
        PROVE  b \in Publications(queue, d) /\ ~Gone
    <2>1a. PICK u \in Devices : \E i \in DOMAIN queue'[u] : queue'[u][i] = Add(d, b)
      BY <1>1 DEF Publications
    <2>1. PICK i \in DOMAIN queue'[u] : queue'[u][i] = Add(d, b)
      BY <2>1a
    <2>2. PICK k \in DOMAIN queue[u] :
             queue'[u][i] = queue[u][k] /\ k = (IF u = v THEN i + 1 ELSE i) /\ i \in Nat
      BY <2>1, OldPlaces
    <2>3. b \in Books
      BY <1>1 DEF Publications
    <2>4. ASSUME Gone PROVE FALSE
      <3>1. 1 \in DOMAIN queue[v] /\ 0 \notin DOMAIN queue'[v]
        BY <1>0, Left
      <3>2. u = v /\ k = 1
        BY <2>1, <2>2, <2>4, <3>1 DEF AddsAreOnce, AddsAt, Add
      <3> QED
        BY <2>1, <2>2, <3>1, <3>2
    <2> QED
      BY <2>1, <2>2, <2>3, <2>4 DEF Publications
  <1>2. ASSUME NEW b \in Publications(queue, d), ~Gone
        PROVE  b \in Publications(queue', d)
    <2>1a. PICK u \in Devices : \E i \in DOMAIN queue[u] : queue[u][i] = Add(d, b)
      BY <1>2 DEF Publications
    <2>1. PICK i \in DOMAIN queue[u] : queue[u][i] = Add(d, b)
      BY <2>1a
    <2>2. b \in Books
      BY <1>2 DEF Publications
    <2>3. CASE u # v
      BY <1>0, <2>1, <2>2, <2>3, Left DEF Publications
    <2>4. CASE u = v
      <3>1. i # 1
        BY <1>2, <2>1, <2>4 DEF Add
      <3>2. i - 1 \in 1 .. (Len(queue[v]) - 1) /\ (i - 1) + 1 = i
        BY <1>0, <2>1, <2>4, <3>1, Left
      <3>3. i - 1 \in DOMAIN queue'[v] /\ queue'[v][i - 1] = Add(d, b)
        BY <1>0, <2>1, <2>4, <3>2, Left
      <3> QED
        BY <2>2, <3>3 DEF Publications
    <2> QED
      BY <2>3, <2>4
  <1> QED
    BY <1>1, <1>2
-------------------------------------------------------------------------------
(* What a step does to a listing, given the invariant: a write of a client *)
(* does to its document what ListingLifecycle allows.                      *)
LifeStep == Lifecycle!Next \/ (server' = server /\ Repeats' = Repeats)

LEMMA DeliverImplements ==
    ASSUME IInv, IInv', NEW v \in Devices, Deliver(v)
    PROVE  LifeStep
PROOF
  <1>0. TypeOK /\ StoreTypeOK /\ StoreTypeOK' /\ Order /\ AddsAreOnce
    BY DEF IInv, TypeOK, Order
  <1> DEFINE w == NextWrite(v)
             d == NextWrite(v).id
             i == delivered[v] + 1
  <1>1. /\ w \in Writes /\ d \in DocIDs /\ ~Inapplicable(w, server)
        /\ server' = Applied(w, server) /\ queue' = queue
        /\ i \in DOMAIN queue[v] /\ w = queue[v][i]
    BY <1>0, Delivered
  <1>2. /\ \A e \in DocIDs : e # d => server'[e] = server[e]
        /\ server'[d] # Unborn
        /\ w.kind # "add" => server[d] # Unborn
    BY <1>0, <1>1, AppliedTo, KnownDelivered
  <1>3. \A e \in DocIDs : e # d \/ server[d] # Unborn => Repeats'[e] = Repeats[e]
    BY <1>0, <1>1, <1>2, RepeatsStay
  <1>4. /\ Repeats = [e \in DocIDs |-> Repeatable(e)]
        /\ Repeats' = [e \in DocIDs |-> Repeatable(e)']
    BY DEF Repeats
  <1>5. CASE w.kind = "add" /\ server[d] = Unborn
    <2>1. w.book \in Books /\ Publications(queue, d) = {w.book}
      BY <1>0, <1>1, <1>5, RepeatsAdd
    <2>2. Repeats'[d] = RepeatableOf(server', queue', d)
      BY <1>1 DEF Repeats, Repeatable, RepeatableOf, Unconfirmed, Pending
    <2>3. queue' \in [Devices -> Seq(Writes)]
      BY <1>0 DEF StoreTypeOK
    <2>4. Repeats'[d] = w.book
      BY <1>1, <1>2, <2>1, <2>2, <2>3, RepeatableIs
    <2>5. Repeats' = [Repeats EXCEPT ![d] = w.book]
      BY <1>1, <1>3, <1>4, <2>4
    <2>6. server' = [server EXCEPT ![d] = w.book]
      BY <1>1, <1>5 DEF Applied
    <2>7. Lifecycle!Publish(d, w.book)
      BY <1>5, <2>5, <2>6 DEF Lifecycle!Publish, Repeats
    <2> QED
      BY <1>1, <2>1, <2>7 DEF Lifecycle!Next, LifeStep
  <1>6. CASE server[d] # Unborn
    <2>1. Repeats' = Repeats
      BY <1>3, <1>4, <1>6
    <2>2. CASE w.kind = "add"
      <3>1. Repeats[d] = w.book /\ w.book \in Books /\ w.book # NoBook
        BY <1>0, <1>1, <1>6, <2>2, RepeatsAdd, SpecialValuesAssumption
      <3>2. server' = [server EXCEPT ![d] = Repeats[d]]
        BY <1>1, <2>2, <3>1 DEF Applied
      <3>3. Lifecycle!Repeat(d)
        BY <2>1, <3>1, <3>2 DEF Lifecycle!Repeat, Repeats
      <3> QED
        BY <1>1, <3>3 DEF Lifecycle!Next, LifeStep
    <2>3. CASE w.kind = "update"
      <3>1. server[d] \in Books /\ server' = [server EXCEPT ![d] = Patched(server[d], w.content)]
        BY <1>1, <2>3 DEF Applied, Inapplicable
      <3>2. /\ Patched(server[d], w.content) \in Books
            /\ SameListing(Patched(server[d], w.content), server[d])
        BY <1>1, <2>3, <3>1, WriteKinds, PatchedIsABook
      <3>3. Lifecycle!Revise(d, Patched(server[d], w.content))
        BY <2>1, <3>1, <3>2 DEF Lifecycle!Revise, SameListing, Repeats
      <3> QED
        BY <1>1, <3>2, <3>3 DEF Lifecycle!Next, LifeStep
    <2>4. CASE w.kind = "delete"
      <3>1. server' = [server EXCEPT ![d] = Deleted]
        BY <1>1, <2>4 DEF Applied
      <3>2. server[d] \in Books \cup {Deleted}
        BY <1>0, <1>1, <1>6 DEF Order, WellFormed
      <3>3. CASE server[d] = Deleted
        <4>1. server' = server
          BY <1>0, <3>1, <3>3 DEF StoreTypeOK
        <4> QED
          BY <2>1, <4>1 DEF LifeStep
      <3>4. CASE server[d] \in Books
        BY <1>1, <2>1, <3>1, <3>4 DEF Lifecycle!Next, Lifecycle!Withdraw, Repeats, LifeStep
      <3> QED
        BY <3>2, <3>3, <3>4
    <2> QED
      BY <1>1, <2>2, <2>3, <2>4, WriteKinds
  <1> QED
    BY <1>2, <1>5, <1>6

LEMMA LeavesImplements ==
    ASSUME IInv, IInv', NEW v \in Devices, Leaves(v)
    PROVE  LifeStep
PROOF
  <1>0. TypeOK /\ StoreTypeOK /\ StoreTypeOK' /\ Order /\ AddsAreOnce
    BY DEF IInv, TypeOK, Order
  <1> DEFINE w == queue[v][1]
             d == queue[v][1].id
  <1>1. /\ server' = server /\ 1 \in DOMAIN queue[v] /\ d \in DocIDs
        /\ w.kind = "add" => server[d] # Unborn
    BY <1>0, Left, KnownLeft
  <1>2. \A e \in DocIDs : e # d \/ w.kind # "add" => Repeats'[e] = Repeats[e]
    BY <1>0, <1>1, PublicationsLeft, RepeatsStay
  <1>3. /\ Repeats = [e \in DocIDs |-> Repeatable(e)]
        /\ Repeats' = [e \in DocIDs |-> Repeatable(e)']
    BY DEF Repeats
  <1>4. CASE w.kind # "add"
    BY <1>1, <1>2, <1>3, <1>4 DEF LifeStep
  <1>5. CASE w.kind = "add"
    <2>1. Repeats[d] = w.book /\ w.book \in Books /\ w.book # NoBook
      BY <1>0, <1>1, <1>5, RepeatsAdd, SpecialValuesAssumption
    <2>2. Publications(queue', d) = {}
      BY <1>0, <1>1, <1>5, PublicationsLeft
    <2>3. Repeats'[d] = RepeatableOf(server', queue', d)
      BY <1>1 DEF Repeats, Repeatable, RepeatableOf, Unconfirmed, Pending
    <2>4. queue' \in [Devices -> Seq(Writes)]
      BY <1>0 DEF StoreTypeOK
    <2>5. Repeats'[d] = NoBook
      BY <1>1, <2>2, <2>3, <2>4, RepeatableIs
    <2>6. Repeats' = [Repeats EXCEPT ![d] = NoBook]
      BY <1>1, <1>2, <1>3, <2>5
    <2>7. Lifecycle!Confirm(d)
      BY <1>1, <2>1, <2>6 DEF Lifecycle!Confirm, Repeats
    <2> QED
      BY <1>1, <2>7 DEF Lifecycle!Next, LifeStep
  <1> QED
    BY <1>4, <1>5

LEMMA EnqueueImplements ==
    ASSUME IInv, IInv', NEW v \in Devices, NEW w \in Writes, Enqueue(v, w),
           Posts(v, w) \/ Saves(v, w)
    PROVE  LifeStep
PROOF
  <1>0. StoreTypeOK /\ StoreTypeOK' /\ AddsAreOnce
    BY DEF IInv, TypeOK, Order
  <1>1. server' = server /\ w.id \in DocIDs
    BY <1>0, Enqueued, WriteKinds
  <1>2. ASSUME NEW e \in DocIDs
        PROVE  Repeats'[e] = Repeats[e]
    <2>1. CASE w.kind = "add" /\ w.id = e
      <3>1. server[e] = Unborn
        BY <2>1 DEF Posts, Saves, Fresh
      <3> QED
        BY <1>0, <1>1, <3>1, RepeatsStay
    <2>2. CASE w.kind # "add" \/ w.id # e
      BY <1>0, <1>1, <2>2, PublicationsEnqueued, RepeatsStay
    <2> QED
      BY <2>1, <2>2
  <1>3. Repeats' = Repeats
    BY <1>2 DEF Repeats
  <1> QED
    BY <1>1, <1>3 DEF LifeStep

LEMMA StepImplements == IInv /\ [Next]_vars => [Lifecycle!Next]_(Lifecycle!listingVars)
PROOF
  <1> SUFFICES ASSUME IInv, [Next]_vars PROVE LifeStep
    BY DEF LifeStep, Lifecycle!listingVars, Repeats
  <1>0. TypeOK /\ StoreTypeOK /\ StoreTypeOK' /\ AddsAreOnce
    BY StoreTypeNext DEF IInv, TypeOK, Order
  <1>1. IInv'
    BY TypeNext, OrderNext, OwnershipNext DEF IInv
  <1>2. CASE Rests
    <2>1. server' = server /\ queue' = queue
      BY <1>2 DEF Rests
    <2>2. \A d \in DocIDs : Repeats'[d] = Repeats[d]
      BY <1>0, <2>1, RepeatsStay
    <2> QED
      BY <2>1, <2>2 DEF Repeats, LifeStep
  <1> QED
    BY <1>0, <1>1, <1>2, StepKinds, DeliverImplements, LeavesImplements, EnqueueImplements

(* However the writes of the devices interleave on their way, and however  *)
(* often they are sent, each listing is published once, keeps its title,   *)
(* seller and picture through all edits, and once withdrawn is not brought *)
(* back by one; only its publication, as long as that is not confirmed, is *)
(* ever made again.                                                        *)
THEOREM LivesItsLife == Spec => Implements
PROOF
  <1>1. Init => Lifecycle!Init
    <2> SUFFICES ASSUME Init PROVE Lifecycle!Init
      OBVIOUS
    <2>1. server \in [DocIDs -> Books \cup {Unborn}]
      BY DEF Init, StoreInit
    <2>2. \A v \in Devices : queue[v] = <<>> /\ DOMAIN queue[v] = {}
      BY EmptySeq DEF Init, StoreInit
    <2>3. \A d \in DocIDs : Repeatable(d) = NoBook
      BY <2>2 DEF Repeatable, Unconfirmed, Pending
    <2> QED
      BY <2>1, <2>3 DEF Lifecycle!Init
  <1>2. IInv /\ [Next]_vars => [Lifecycle!Next]_(Lifecycle!listingVars)
    BY StepImplements
  <1> QED
    BY <1>1, <1>2, MarketInvariance, PTL DEF Spec, Implements, Lifecycle!Spec

(* What may be repeated is of the listing that is there.                   *)
LEMMA RepeatIsSameListing ==
    ASSUME IInv, NEW d \in DocIDs, Repeats[d] # NoBook
    PROVE  /\ Repeats[d] \in Books /\ server[d] \in Books \cup {Deleted}
           /\ server[d] \in Books => SameListing(Repeats[d], server[d])
PROOF
  <1>0. StoreTypeOK /\ Order /\ Ownership
    BY DEF IInv, TypeOK
  <1>1. Repeats[d] = RepeatableOf(server, queue, d)
    BY DEF Repeats, Repeatable, RepeatableOf, Unconfirmed, Pending
  <1>2. server[d] # Unborn /\ Repeats[d] \in Publications(queue, d)
    BY <1>0, <1>1, RepeatableIs DEF StoreTypeOK
  <1>3. PICK v \in Devices : \E i \in DOMAIN queue[v] : queue[v][i] = Add(d, Repeats[d])
    BY <1>2 DEF Publications
  <1>4. Repeats[d] \in versions[d]
    BY <1>0, <1>3 DEF Ownership, WritesMakeVersions, Add
  <1>5. Repeats[d] \in Books /\ server[d] \in Books \cup {Deleted}
    BY <1>0, <1>2 DEF Publications, Order, WellFormed
  <1> QED
    BY <1>0, <1>4, <1>5 DEF Ownership, VersionsAgree, ServerHasAVersion

(* What is seen to have been withdrawn and may come back.                  *)
MayReturn == [d \in DocIDs |-> IF server[d] = Deleted THEN Repeatable(d) ELSE NoBook]

(* A step that ListingLifecycle allows is one that Postings allows.        *)
LEMMA SeenStep ==
    ASSUME IInv, LifeStep, server' \in [DocIDs -> Documents]
    PROVE  Seen!OthersNext \/ UNCHANGED Seen!written
PROOF
  <1> USE SpecialValuesAssumption
  <1>1. server \in [DocIDs -> Documents]
    BY DEF IInv, TypeOK, StoreTypeOK
  <1>2. /\ (\A e \in DocIDs : MayReturn'[e] = MayReturn[e]) => MayReturn' = MayReturn
        /\ \A d \in DocIDs : \A b :
              (\A e \in DocIDs : MayReturn'[e] = IF e = d THEN b ELSE MayReturn[e])
                  => MayReturn' = [MayReturn EXCEPT ![d] = b]
        /\ \A e \in DocIDs :
              /\ MayReturn[e] = IF server[e] = Deleted THEN Repeats[e] ELSE NoBook
              /\ MayReturn'[e] = IF server'[e] = Deleted THEN Repeats'[e] ELSE NoBook
    BY DEF MayReturn, Repeats
  <1>3. Seen!written = <<server, MayReturn>> /\ Seen!written' = <<server', MayReturn'>>
    BY DEF Seen!written, MayReturn
  <1>4. CASE server' = server /\ Repeats' = Repeats
    BY <1>2, <1>3, <1>4
  <1>5. ASSUME NEW d \in DocIDs, NEW b \in Books, Lifecycle!Publish(d, b)
        PROVE  Seen!OthersNext
    <2>1. /\ server[d] = Unborn /\ server' = [server EXCEPT ![d] = b]
          /\ Repeats' = [Repeats EXCEPT ![d] = b]
      BY <1>5 DEF Lifecycle!Publish, Repeats
    <2>2. \A e \in DocIDs : MayReturn'[e] = MayReturn[e]
      BY <1>1, <1>2, <2>1 DEF Repeats
    <2>3. MayReturn' = MayReturn
      BY <1>2, <2>2
    <2>4. Seen!Create(d, b)
      BY <2>1, <2>3 DEF Seen!Create, MayReturn
    <2> QED
      BY <2>4 DEF Seen!OthersNext
  <1>6. ASSUME NEW d \in DocIDs, NEW b \in Books, Repeats' = Repeats, server[d] \in Books,
               b.title = server[d].title, b.seller = server[d].seller,
               server' = [server EXCEPT ![d] = b]
        PROVE  Seen!OthersNext \/ UNCHANGED Seen!written
    <2>1. MayReturn' = MayReturn
      <3>1. \A e \in DocIDs : MayReturn'[e] = MayReturn[e]
        BY <1>1, <1>2, <1>6
      <3> QED
        BY <1>2, <3>1
    <2>2. CASE b = server[d]
      <3>1. server' = server
        BY <1>1, <1>6, <2>2
      <3> QED
        BY <1>3, <2>1, <3>1
    <2>3. CASE b # server[d]
      <3>1. Seen!Edit(d, b)
        BY <1>6, <2>1, <2>3 DEF Seen!Edit, Seen!SameListing, MayReturn
      <3> QED
        BY <3>1 DEF Seen!OthersNext
    <2> QED
      BY <2>2, <2>3
  <1>7. ASSUME NEW d \in DocIDs, NEW b \in Books, Lifecycle!Revise(d, b)
        PROVE  Seen!OthersNext \/ UNCHANGED Seen!written
    BY <1>6, <1>7 DEF Lifecycle!Revise, Repeats
  <1>8. ASSUME NEW d \in DocIDs, Lifecycle!Repeat(d)
        PROVE  Seen!OthersNext \/ UNCHANGED Seen!written
    <2>1. /\ Repeats[d] # NoBook /\ Repeats' = Repeats
          /\ server' = [server EXCEPT ![d] = Repeats[d]]
      BY <1>8 DEF Lifecycle!Repeat, Repeats
    <2>2. /\ Repeats[d] \in Books /\ server[d] \in Books \cup {Deleted}
          /\ server[d] \in Books => SameListing(Repeats[d], server[d])
      BY <2>1, RepeatIsSameListing
    <2>3. CASE server[d] \in Books
      BY <1>6, <2>1, <2>2, <2>3 DEF SameListing
    <2>4. CASE server[d] = Deleted
      <3>1. MayReturn[d] = Repeats[d]
        BY <1>2, <2>4
      <3>2. MayReturn' = [MayReturn EXCEPT ![d] = NoBook]
        <4>1. \A e \in DocIDs : MayReturn'[e] = IF e = d THEN NoBook ELSE MayReturn[e]
          BY <1>1, <1>2, <2>1, <2>2
        <4> QED
          BY <1>2, <4>1
      <3>3. Seen!Return(d)
        BY <2>1, <3>1, <3>2 DEF Seen!Return, MayReturn
      <3> QED
        BY <3>3 DEF Seen!OthersNext
    <2> QED
      BY <2>2, <2>3, <2>4
  <1>9. ASSUME NEW d \in DocIDs, Lifecycle!Confirm(d)
        PROVE  Seen!OthersNext \/ UNCHANGED Seen!written
    <2>1. /\ Repeats[d] # NoBook /\ server' = server
          /\ Repeats' = [Repeats EXCEPT ![d] = NoBook]
      BY <1>9 DEF Lifecycle!Confirm, Repeats
    <2>2. CASE server[d] = Deleted
      <3>1. MayReturn[d] # NoBook
        BY <1>2, <2>1, <2>2
      <3>2. MayReturn' = [MayReturn EXCEPT ![d] = NoBook]
        <4>1. \A e \in DocIDs : MayReturn'[e] = IF e = d THEN NoBook ELSE MayReturn[e]
          BY <1>2, <2>1, <2>2 DEF Repeats
        <4> QED
          BY <1>2, <4>1
      <3>3. Seen!StayAway(d)
        BY <2>1, <3>1, <3>2 DEF Seen!StayAway, MayReturn
      <3> QED
        BY <3>3 DEF Seen!OthersNext
    <2>3. CASE server[d] # Deleted
      <3>1. MayReturn' = MayReturn
        <4>1. \A e \in DocIDs : MayReturn'[e] = MayReturn[e]
          BY <1>2, <2>1, <2>3 DEF Repeats
        <4> QED
          BY <1>2, <4>1
      <3> QED
        BY <1>3, <2>1, <3>1
    <2> QED
      BY <2>2, <2>3
  <1>10. ASSUME NEW d \in DocIDs, Lifecycle!Withdraw(d)
         PROVE  Seen!OthersNext
    <2>1. /\ server[d] \in Books /\ server' = [server EXCEPT ![d] = Deleted]
          /\ Repeats' = Repeats
      BY <1>10 DEF Lifecycle!Withdraw, Repeats
    <2>2. MayReturn' = [MayReturn EXCEPT ![d] = Repeats[d]]
      <3>1. \A e \in DocIDs : MayReturn'[e] = IF e = d THEN Repeats[d] ELSE MayReturn[e]
        BY <1>1, <1>2, <2>1
      <3> QED
        BY <1>2, <3>1
    <2>3. Repeats[d] \in {NoBook} \cup Seen!AsPosted(d)
      BY <2>1, RepeatIsSameListing DEF Seen!AsPosted, Seen!SameListing, SameListing
    <2>4. Seen!Delete(d)
      BY <2>1, <2>2, <2>3 DEF Seen!Delete, MayReturn
    <2> QED
      BY <2>4 DEF Seen!OthersNext
  <1> QED
    BY <1>4, <1>5, <1>7, <1>8, <1>9, <1>10 DEF LifeStep, Lifecycle!Next

(* The tabs are modelled against all they may meet: whatever the devices   *)
(* write to the collection, and however often, is one of the writes of     *)
(* others under which the search tab, the profile and the history are      *)
(* checked and proved.                                                     *)
THEOREM OthersSeeTheirWrites == Spec => AsOthersSeeIt
PROOF
  <1>1. Init => Seen!WrittenInit
    <2> SUFFICES ASSUME Init PROVE Seen!WrittenInit
      OBVIOUS
    <2>1. server \in [DocIDs -> Books \cup {Unborn}]
      BY DEF Init, StoreInit
    <2>2. \A d \in DocIDs : server[d] # Deleted
      BY <2>1, SpecialValuesAssumption
    <2> QED
      BY <2>1, <2>2 DEF Seen!WrittenInit
  <1>2. IInv /\ [Next]_vars => [Seen!OthersNext]_(Seen!written)
    <2> SUFFICES ASSUME IInv, [Next]_vars PROVE Seen!OthersNext \/ UNCHANGED Seen!written
      OBVIOUS
    <2>1. LifeStep
      BY StepImplements DEF LifeStep, Lifecycle!listingVars, Repeats
    <2>2. server' \in [DocIDs -> Documents]
      BY StoreTypeNext DEF IInv, TypeOK, StoreTypeOK
    <2> QED
      BY <2>1, <2>2, SeenStep
  <1> QED
    BY <1>1, <1>2, MarketInvariance, PTL DEF Spec, AsOthersSeeIt, Seen!WrittenSpec
-------------------------------------------------------------------------------
(* The seller a document has, or is about to get, is the user of the       *)
(* device whose write changes it.                                          *)
LEMMA StepBySeller ==
    ASSUME IInv, NEW v \in Devices, NEW d \in DocIDs, Send(v), server'[d] # server[d]
    PROVE  user[v] = IF server[d] \in Books THEN server[d].seller ELSE server'[d].seller
PROOF
  <1> DEFINE w == NextWrite(v)
             i == delivered[v] + 1
  <1>0. TypeOK /\ StoreTypeOK /\ Order /\ Ownership
    BY DEF IInv, TypeOK
  <1>1. Deliver(v)
    BY <1>0, Left DEF Send, Client, Move, ReadAnswer, Leaves, Refuse, Interrupt
  <1>2. /\ w \in Writes /\ w.id \in DocIDs /\ server' = Applied(w, server)
        /\ ~Inapplicable(w, server) /\ i \in DOMAIN queue[v] /\ w = queue[v][i]
    BY <1>0, <1>1, Delivered
  <1>3. d = w.id
    BY <1>0, <1>2, AppliedTo
  <1>4. \A b \in versions[d] : b.seller = user[v]
    BY <1>0, <1>2, <1>3 DEF Ownership, WritesAreTheUsers
  <1>5. CASE server[d] \in Books
    BY <1>0, <1>4, <1>5 DEF Ownership, ServerHasAVersion
  <1>6. CASE server[d] \notin Books
    <2>1. CASE w.kind = "add"
      <3>1. server'[d] = w.book /\ w.book \in versions[d]
        BY <1>0, <1>2, <1>3, <2>1, AppliedTo DEF Ownership, WritesMakeVersions
      <3> QED
        BY <1>4, <1>6, <3>1
    <2>2. CASE w.kind = "update"
      BY <1>0, <1>2, <1>3, <1>6, <2>2, AppliedTo
    <2>3. CASE w.kind = "delete"
      <3>1. server[d] # Unborn
        BY <1>0, <1>1, <1>3, <2>3, KnownDelivered
      <3>2. server[d] = Deleted
        BY <1>0, <1>3, <1>2, <1>6, <3>1 DEF Order, WellFormed
      <3> QED
        BY <1>0, <1>2, <1>3, <2>3, <3>2, AppliedTo
    <2> QED
      BY <1>2, <2>1, <2>2, <2>3, WriteKinds
  <1> QED
    BY <1>5, <1>6

(* Only a device of its seller changes a listing: the ID BrowseDetails was *)
(* handed and the seller it compares the user with never come apart.       *)
THEOREM SellersOnly == Spec => OnlyTheSeller
PROOF
  <1>1. IInv => [\A v \in Devices, d \in DocIDs :
                    (Send(v) /\ server'[d] # server[d]) =>
                        user[v] = IF server[d] \in Books THEN server[d].seller
                                                         ELSE server'[d].seller]_vars
    BY StepBySeller
  <1> QED
    BY <1>1, MarketInvariance, PTL DEF OnlyTheSeller
-------------------------------------------------------------------------------
(* The devices with a complete form; each of them and each listing posted  *)
(* has been a form filled in.                                              *)
Ready == {v \in Devices : form[v] \in Drafts}

FormsPay ==
    /\ IsFiniteSet(posted) /\ IsFiniteSet(Ready)
    /\ Cardinality(posted) + Cardinality(Ready) =< filled

LEMMA AddOne ==
    ASSUME NEW S, IsFiniteSet(S), NEW x
    PROVE  IsFiniteSet(S \cup {x}) /\ Cardinality(S \cup {x}) =< Cardinality(S) + 1
PROOF
  <1>1. Cardinality(S) \in Nat
    BY FS_CardinalityType
  <1>2. /\ IsFiniteSet(S \cup {x})
        /\ Cardinality(S \cup {x}) = IF x \in S THEN Cardinality(S) ELSE Cardinality(S) + 1
    BY FS_AddElement, Zenon
  <1>3. Cardinality(S \cup {x}) = Cardinality(S) \/ Cardinality(S \cup {x}) = Cardinality(S) + 1
    BY <1>2
  <1> QED
    BY <1>1, <1>2, <1>3

LEMMA FormsPayInit == Init => FormsPay
PROOF
  <1> SUFFICES ASSUME Init PROVE FormsPay
    OBVIOUS
  <1>1. Ready = {} /\ posted = {} /\ filled = 0
    BY DraftsAssumption DEF Init, PostInit, Ready
  <1>2. IsFiniteSet({}) /\ Cardinality({}) = 0
    BY FS_EmptySet
  <1> QED
    BY <1>1, <1>2 DEF FormsPay

LEMMA FormsPayNext == TypeOK /\ FormsPay /\ [Next]_vars => FormsPay'
PROOF
  <1> SUFFICES ASSUME TypeOK, FormsPay, [Next]_vars PROVE FormsPay'
    OBVIOUS
  <1>0. /\ form \in [Devices -> Fields] /\ filled \in Nat
        /\ IsFiniteSet(posted) /\ IsFiniteSet(Ready)
        /\ Cardinality(posted) \in Nat /\ Cardinality(Ready) \in Nat
        /\ Cardinality(posted) + Cardinality(Ready) =< filled
    BY FS_CardinalityType DEF FormsPay, TypeOK, PostTypeOK
  <1>1. CASE UNCHANGED postVars
    BY <1>1 DEF FormsPay, postVars, Ready
  <1>2. ASSUME NEW v \in Devices, form' = [form EXCEPT ![v] = Incomplete]
        PROVE  /\ Ready' = Ready \ {v}
               /\ IsFiniteSet(Ready')
               /\ Cardinality(Ready') =
                     IF v \in Ready THEN Cardinality(Ready) - 1 ELSE Cardinality(Ready)
    <2>1. Ready' = Ready \ {v}
      BY <1>0, <1>2, DraftsAssumption DEF Ready
    <2> QED
      BY <1>0, <2>1, FS_RemoveElement
  <1>3. ASSUME NEW v \in Devices, Trap(v) \/ Killed(v)
        PROVE  FormsPay'
    BY <1>0, <1>2, <1>3 DEF Trap, Killed, Die, FormsPay
  <1>4. ASSUME NEW v \in Devices, PostListing(v)
        PROVE  FormsPay'
    <2>1. PICK d \in DocIDs : posted' = posted \cup {d}
      BY <1>4 DEF PostListing
    <2>2. IsFiniteSet(posted') /\ Cardinality(posted') =< Cardinality(posted) + 1
      BY <1>0, <2>1, AddOne
    <2>3. Cardinality(posted') \in Nat
      BY <2>2, FS_CardinalityType
    <2>4. v \in Ready /\ filled' = filled /\ form' = [form EXCEPT ![v] = Incomplete]
      BY <1>4 DEF PostListing, ClearFields, Ready
    <2>5. IsFiniteSet(Ready') /\ Cardinality(Ready') = Cardinality(Ready) - 1
      BY <1>2, <2>4
    <2> QED
      BY <1>0, <2>2, <2>3, <2>4, <2>5 DEF FormsPay
  <1>5. ASSUME NEW v \in Devices, NEW f \in Fields, FillIn(v, f)
        PROVE  FormsPay'
    <2>1. Ready' \subseteq Ready \cup {v}
      BY <1>0, <1>5 DEF FillIn, Ready
    <2>2. IsFiniteSet(Ready \cup {v}) /\ Cardinality(Ready \cup {v}) =< Cardinality(Ready) + 1
      BY <1>0, AddOne
    <2>3. IsFiniteSet(Ready') /\ Cardinality(Ready') =< Cardinality(Ready \cup {v})
      BY <2>1, <2>2, FS_Subset
    <2>4. Cardinality(Ready') \in Nat /\ Cardinality(Ready \cup {v}) \in Nat
      BY <2>2, <2>3, FS_CardinalityType
    <2>5. posted' = posted /\ filled' = filled + 1
      BY <1>5 DEF FillIn
    <2> QED
      BY <1>0, <2>2, <2>3, <2>4, <2>5 DEF FormsPay
  <1> QED
    BY <1>1, <1>3, <1>4, <1>5 DEF Next, vars, Act, Send, PostNext

(* However often Post is tapped and the app ends, no form becomes two      *)
(* listings: post clears the fields in the handler that adds the document. *)
THEOREM OneFormOneListing == Spec => []OneListingPerForm
PROOF
  <1>1. Init => TypeOK /\ FormsPay
    BY TypeInit, FormsPayInit
  <1>2. TypeOK /\ FormsPay /\ [Next]_vars => TypeOK' /\ FormsPay'
    BY TypeNext, FormsPayNext
  <1>3. TypeOK /\ FormsPay => OneListingPerForm
    BY FS_CardinalityType DEF FormsPay, OneListingPerForm, TypeOK, PostTypeOK
  <1> QED
    BY <1>1, <1>2, <1>3, PTL DEF Spec
===============================================================================
