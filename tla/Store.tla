--------------------------------- MODULE Store --------------------------------
(***************************************************************************)
(* The collection /Postings/ and the Firestore clients that write to it,   *)
(* modelled from how BookUp calls them: addDocument, updateData and        *)
(* delete() put a write at the end of the client's persistent queue and    *)
(* return. What becomes of them is what Outbox promises: the client sends  *)
(* its writes in order, the server may have applied several, and refused   *)
(* one, before the first answer is read, and after an interruption all that*)
(* were not answered are sent, and applied, again. A client is a device    *)
(* with its signed-in user.                                                *)
(***************************************************************************)
EXTENDS Listing

CONSTANTS
    Devices,    \* the devices that run the app
    user,       \* the user signed in on each
    Contents    \* what the seven editable fields of a listing may hold

ASSUME StoreAssumption ==
    /\ user \in [Devices -> Sellers]
    /\ \A c \in Contents :
          DOMAIN c = {"author", "course", "details", "condition"}

(* updateData writes every editable field, changed or not.                 *)
Patched(b, c) ==
    [b EXCEPT !.author = c.author, !.course = c.course,
              !.details = c.details, !.condition = c.condition]

ContentOf(b) ==
    [author |-> b.author, course |-> b.course, details |-> b.details,
     condition |-> b.condition]

ASSUME ContentsAssumption ==
    \A b \in Books :
        /\ ContentOf(b) \in Contents
        /\ \A c \in Contents : Patched(b, c) \in Books

VARIABLES
    server,     \* the documents of /Postings/ on the server
    queue,      \* the writes each client has not had acknowledged
    delivered,  \* how many of them, the oldest, were applied on this call
    refused,    \* whether the server refused the one after them
    versions    \* history: all that each listing was ever written to be

storeVars == <<server, queue, delivered, refused, versions>>

Writes ==
    [kind : {"add"}, id : DocIDs, book : Books]
        \cup [kind : {"update"}, id : DocIDs, content : Contents]
        \cup [kind : {"delete"}, id : DocIDs]

Add(d, b)    == [kind |-> "add", id |-> d, book |-> b]
Update(d, c) == [kind |-> "update", id |-> d, content |-> c]
Delete(d)    == [kind |-> "delete", id |-> d]

StoreTypeOK ==
    /\ server \in [DocIDs -> Documents]
    /\ queue \in [Devices -> Seq(Writes)]
    /\ delivered \in [Devices -> Nat]
    /\ \A v \in Devices : delivered[v] <= Len(queue[v])
    /\ refused \in [Devices -> BOOLEAN]
    /\ versions \in [DocIDs -> SUBSET Books]

StoreInit ==
    /\ server \in [DocIDs -> Books \cup {Unborn}]
    /\ queue = [v \in Devices |-> <<>>]
    /\ delivered = [v \in Devices |-> 0]
    /\ refused = [v \in Devices |-> FALSE]
    /\ versions = [d \in DocIDs |-> {server[d]} \cap Books]

Pending(v) == {queue[v][i] : i \in DOMAIN queue[v]}

(* Mutant: an ID is free again once its listing is withdrawn.              *)
NotInUse(d) == server[d] \notin Books

(* An ID that addDocument may draw: no document has or will have it.       *)
Fresh(d) ==
    /\ server[d] = Unborn
    /\ \A v \in Devices : \A w \in Pending(v) : w.id # d

(* What a write makes of the versions of its listing.                      *)
Outcomes(w) ==
    CASE w.kind = "add"    -> {w.book}
      [] w.kind = "update" -> {Patched(b, w.content) : b \in versions[w.id]}
      [] w.kind = "delete" -> {}

Enqueue(v, w) ==
    /\ queue' = [queue EXCEPT ![v] = Append(@, w)]
    /\ versions' = [versions EXCEPT ![w.id] = @ \cup Outcomes(w)]
    /\ UNCHANGED <<server, delivered, refused>>

(* The server refuses to update a document that does not exist; deleting   *)
(* one that does not is no error, and a document may be added again.       *)
Inapplicable(w, docs) == w.kind = "update" /\ docs[w.id] \notin Books

(* What the server makes of a write it does not refuse.                    *)
Applied(w, docs) ==
    CASE w.kind = "add"    -> [docs EXCEPT ![w.id] = w.book]
      [] w.kind = "update" -> [docs EXCEPT ![w.id] = Patched(@, w.content)]
      [] w.kind = "delete" -> [docs EXCEPT ![w.id] = Deleted]

(* Mutant: the newest write is sent first.                                 *)
NewestWrite(v) == queue[v][Len(queue[v])]

NextWrite(v) == queue[v][delivered[v] + 1]

(* The next write of a client reaches the server and is applied. What is   *)
(* in the write pipeline is sent without waiting for answers.              *)
Deliver(v) ==
    /\ ~refused[v]
    /\ delivered[v] < Len(queue[v])
    /\ ~Inapplicable(NextWrite(v), server)
    /\ server' = Applied(NextWrite(v), server)
    /\ delivered' = [delivered EXCEPT ![v] = @ + 1]
    /\ UNCHANGED <<queue, refused, versions>>

(* It is refused, and the server ends the call: nothing behind it arrives. *)
Refuse(v) ==
    /\ ~refused[v]
    /\ delivered[v] < Len(queue[v])
    /\ Inapplicable(NextWrite(v), server)
    /\ refused' = [refused EXCEPT ![v] = TRUE]
    /\ UNCHANGED <<server, queue, delivered, versions>>

(* The answer to the oldest write is read: the write is done.              *)
Acknowledge(v) ==
    /\ delivered[v] > 0
    /\ queue' = [queue EXCEPT ![v] = Tail(@)]
    /\ delivered' = [delivered EXCEPT ![v] = @ - 1]
    /\ UNCHANGED <<server, refused, versions>>

(* The refusal is read: the oldest write is given up and the rest goes on a*)
(* new call. If answers before it were lost, what is given up is a write   *)
(* that was applied, and the refused one is sent again.                    *)
GiveUp(v) ==
    /\ refused[v]
    /\ queue[v] # <<>>
    /\ queue' = [queue EXCEPT ![v] = Tail(@)]
    /\ delivered' = [delivered EXCEPT ![v] = 0]
    /\ refused' = [refused EXCEPT ![v] = FALSE]
    /\ UNCHANGED <<server, versions>>

(* Mutant: what was sent is taken to have arrived and been answered.       *)
ForgetSent(v) ==
    /\ queue' = [queue EXCEPT ![v] = <<>>]
    /\ delivered' = [delivered EXCEPT ![v] = 0]
    /\ refused' = [refused EXCEPT ![v] = FALSE]

(* The whole pipeline is sent again on the next call: its handshake does   *)
(* not tell the server which answers were read.                            *)
SendAgain(v) ==
    /\ delivered' = [delivered EXCEPT ![v] = 0]
    /\ refused' = [refused EXCEPT ![v] = FALSE]
    /\ UNCHANGED queue

(* The call breaks, and the answers not read yet are lost.                 *)
Interrupt(v) ==
    /\ delivered[v] > 0 \/ refused[v]
    /\ SendAgain(v)
    /\ UNCHANGED <<server, versions>>

Move(v)       == Deliver(v) \/ Refuse(v)
ReadAnswer(v) == Acknowledge(v) \/ GiveUp(v)

(* What the client and the server do about the writes of a device.         *)
Client(v) == Move(v) \/ ReadAnswer(v) \/ Interrupt(v)
===============================================================================
