-------------------------------- MODULE Outbox --------------------------------
(***************************************************************************)
(* What the Firestore client promises of the writes an app hands it: each  *)
(* user's writes reach the server in the order they were made, those that  *)
(* were delivered but not yet settled perhaps again after an interruption, *)
(* and a write leaves its outbox from the front only: delivered, or dropped*)
(* because the server refused one.                                         *)
(***************************************************************************)
EXTENDS Naturals, Sequences

CONSTANTS Users, Batches

VARIABLES
    outbox,     \* per user, the writes not settled, oldest first
    carrier,    \* the user whose writes are being delivered
    delivered,  \* how many of the carrier's writes were, on this connection
    refused     \* whether the server refused one on this connection

outboxVars == <<outbox, carrier, delivered, refused>>

Init ==
    /\ outbox = [u \in Users |-> <<>>]
    /\ carrier \in Users
    /\ delivered = 0
    /\ refused = FALSE

Put(u, b) ==
    /\ \A i \in DOMAIN outbox[u] : outbox[u][i] # b
    /\ outbox' = [outbox EXCEPT ![u] = Append(@, b)]
    /\ UNCHANGED <<carrier, delivered, refused>>

Deliver ==
    /\ ~refused
    /\ delivered < Len(outbox[carrier])
    /\ delivered' = delivered + 1
    /\ UNCHANGED <<outbox, carrier, refused>>

Refuse ==
    /\ ~refused
    /\ delivered < Len(outbox[carrier])
    /\ refused' = TRUE
    /\ UNCHANGED <<outbox, carrier, delivered>>

(* The oldest write was delivered and leaves.                              *)
Settle ==
    /\ delivered > 0
    /\ outbox' = [outbox EXCEPT ![carrier] = Tail(@)]
    /\ delivered' = delivered - 1
    /\ UNCHANGED <<carrier, refused>>

(* The oldest write leaves for the refusal, and the connection ends.       *)
Drop ==
    /\ refused
    /\ outbox[carrier] # <<>>
    /\ outbox' = [outbox EXCEPT ![carrier] = Tail(@)]
    /\ delivered' = 0
    /\ refused' = FALSE
    /\ UNCHANGED carrier

(* Answers are lost.                                                       *)
Forget ==
    /\ delivered' \in 0 .. delivered
    /\ UNCHANGED <<outbox, carrier, refused>>

(* A new connection, perhaps of another user: all that is left is sent     *)
(* again.                                                                  *)
Reconnect ==
    /\ carrier' \in Users
    /\ delivered' = 0
    /\ refused' = FALSE
    /\ UNCHANGED outbox

Next ==
    \/ \E u \in Users, b \in Batches : Put(u, b)
    \/ Deliver \/ Refuse \/ Settle \/ Drop \/ Forget \/ Reconnect

Spec == Init /\ [][Next]_outboxVars
===============================================================================
