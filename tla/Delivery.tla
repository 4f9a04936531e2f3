-------------------------------- MODULE Delivery ------------------------------
(***************************************************************************)
(* The listings that one device writes, on their way through its Firestore *)
(* client (WritePath) to the server, which applies them to /Postings/ while*)
(* other devices write there, too. Each user of the device is one client of*)
(* Store: what Market assumes of the writes of its devices is what the     *)
(* mutation queues, the write stream and its calls make of them.           *)
(***************************************************************************)
EXTENDS WritePath, Listing

CONSTANTS
    user,       \* the seller each user is
    Contents    \* what the seven editable fields of a listing may hold

VARIABLES
    server,     \* the documents of /Postings/ on the server
    mutation,   \* the write in each batch
    applied,    \* how many of the batches whose answers were not read the
                \* server applied on this call
    versions    \* history: all that each listing was ever written to be

deliveryVars == <<vars, server, mutation, applied, versions>>

Batches == 1 .. (MaxBatchId + MaxTasks)

None == [kind |-> "none"]

(* What the device's client is to its users and to the server.             *)
Store == INSTANCE Store WITH
    Devices   <- Users,
    queue     <- [u \in Users |->
                    [i \in DOMAIN mutations[u] |-> mutation[mutations[u][i]]]],
    delivered <- [u \in Users |-> IF u = current_user THEN applied ELSE 0],
    refused   <- [u \in Users |-> u = current_user /\ ended = "refused"]

DeliveryInit ==
    /\ Init
    /\ server \in [DocIDs -> Books \cup {Unborn}]
    /\ mutation = [b \in Batches |-> None]
    /\ applied = 0
    /\ versions = [d \in DocIDs |-> {server[d]} \cap Books]

(* A write of the app gets a batch of its own.                             *)
Persist(w) ==
    /\ WriteMutations
    /\ mutation' = [mutation EXCEPT ![next_batch_id] = w]
    /\ versions' = [versions EXCEPT ![w.id] = @ \cup Store!Outcomes(w)]
    /\ UNCHANGED <<server, applied>>

(* The server applies the oldest request and answers it, or refuses it.    *)
Apply ==
    LET w == mutation[Head(requests)]
    IN  /\ Serve
        /\ Head(requests) # Handshake
        /\ ~Store!Inapplicable(w, server)
        /\ server' = Store!Applied(w, server)
        /\ applied' = applied + 1
        /\ UNCHANGED <<mutation, versions>>

TurnDown ==
    /\ RefuseBatch
    /\ Store!Inapplicable(mutation[Head(requests)], server)
    /\ UNCHANGED <<server, mutation, applied, versions>>

ShakeHands ==
    /\ Serve
    /\ Head(requests) = Handshake
    /\ UNCHANGED <<server, mutation, applied, versions>>

Learn ==
    /\ ReadResult
    /\ applied' = applied - 1
    /\ UNCHANGED <<server, mutation, versions>>

(* The call is over.                                                       *)
EndCall ==
    /\ HandleCredentialChange \/ FailToOpen \/ IdleTimeout \/ FinishCall \/ Restart
    /\ applied' = 0
    /\ UNCHANGED <<server, mutation, versions>>

(* What else goes on in the client and on the network.                     *)
GoOn ==
    /\ \/ MakeWrite
       \/ \E u \in Users : ChangeCredentials(u)
       \/ AnswerSomeToken \/ OpenCall \/ IgnoreToken \/ BackoffElapsed
       \/ ReadHandshake \/ FailWrite \/ Break
    /\ UNCHANGED <<server, mutation, applied, versions>>

Device ==
    \/ \E w \in Store!Writes : Persist(w)
    \/ Apply \/ TurnDown \/ ShakeHands \/ Learn \/ EndCall \/ GoOn

(* Another device writes to a document.                                    *)
WriteElsewhere(d, doc) ==
    /\ server' = [server EXCEPT ![d] = doc]
    /\ versions' = [versions EXCEPT ![d] = @ \cup ({doc} \cap Books)]
    /\ UNCHANGED <<vars, mutation, applied>>

DeliveryNext ==
    \/ Device
    \/ \E d \in DocIDs, doc \in Documents : WriteElsewhere(d, doc)

DeliverySpec == DeliveryInit /\ [][DeliveryNext]_deliveryVars
-------------------------------------------------------------------------------
(* All the device does to its users' writes and to the collection is what a*)
(* client of Store does, one for each user: writes are made, delivered in  *)
(* order and applied or refused, answered, given up, and sent again. A     *)
(* write is made for the user who was signed in when the app made it, even *)
(* if somebody else has signed in since.                                   *)
KeepsToStore ==
    /\ Store!StoreInit
    /\ [][Device =>
            \/ \E u \in Users : Store!Client(u)
            \/ \E w \in Store!Writes : WriteMutations /\ Store!Enqueue(Next1.user, w)
            \/ UNCHANGED Store!storeVars]_deliveryVars
===============================================================================
