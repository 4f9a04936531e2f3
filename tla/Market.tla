-------------------------------- MODULE Market --------------------------------
(***************************************************************************)
(* The write side of BookUp: several devices whose users post listings     *)
(* (Post) and revise or withdraw them (BrowseDetails) through their        *)
(* Firestore clients (Store), which lag behind one another.                *)
(***************************************************************************)
EXTENDS BrowseDetails, Post

CONSTANT MaxQueue   \* bound: writes a client has waiting

ASSUME MarketAssumption == MaxForms \in Nat /\ MaxQueue \in Nat

vars == <<storeVars, screen, postVars>>

TypeOK == StoreTypeOK /\ ScreenTypeOK /\ PostTypeOK

Init == StoreInit /\ ScreenInit /\ PostInit

(* Mutant: the writes still waiting are kept in memory only.               *)
DieForgettingWrites(v) ==
    /\ screen' = [screen EXCEPT ![v] = Closed]
    /\ form' = [form EXCEPT ![v] = Incomplete]
    /\ ForgetSent(v)
    /\ UNCHANGED <<server, versions, filled, posted>>

(* The process ends: the screens are lost, and with the call the answers on*)
(* it. The queue of writes is not.                                         *)
Die(v) ==
    /\ screen' = [screen EXCEPT ![v] = Closed]
    /\ form' = [form EXCEPT ![v] = Incomplete]
    /\ SendAgain(v)
    /\ UNCHANGED <<server, versions, filled, posted>>

(* A force unwrap or an assertion of Firestore ends it, or the system does.*)
Trap(v)   == (SaveTraps(v) \/ DeleteTraps(v) \/ PostTraps(v)) /\ Die(v)
Killed(v) == Die(v)

Act(v) ==
    \/ DetailsNext(v) /\ UNCHANGED postVars
    \/ PostNext(v) /\ UNCHANGED screen
    \/ Trap(v)
    \/ Killed(v)

(* The bound: no user acts on a device with MaxQueue writes waiting.       *)
Room(v) == Len(queue[v]) < MaxQueue

Send(v) == Client(v) /\ UNCHANGED <<screen, postVars>>

Next ==
    \E v \in Devices :
        \/ Room(v) /\ Act(v)
        \/ Send(v)

Spec == Init /\ [][Next]_vars

(* What is sent arrives, and of the calls that are tried one after another *)
(* not all break before an answer is read. Nothing is assumed of the users.*)
FairSpec ==
    /\ Spec
    /\ \A v \in Devices :
          /\ WF_vars(Move(v) /\ Send(v))
          /\ SF_vars(ReadAnswer(v) /\ Send(v))
-------------------------------------------------------------------------------
(* A device still has the write that adds document d. While it does, it may*)
(* send it again.                                                          *)
Unconfirmed(v, d) == \E w \in Pending(v) : w.kind = "add" /\ w.id = d

(* The publication that may be repeated, if it was ever made.              *)
Repeatable(d) ==
    IF server[d] # Unborn /\ \E v \in Devices : Unconfirmed(v, d)
      THEN CHOOSE b \in Books : \E v \in Devices : Add(d, b) \in Pending(v)
      ELSE NoBook

(* Whatever the devices do, in whatever order and however often their      *)
(* writes arrive, each listing lives the life ListingLifecycle describes;  *)
(* in particular an edit that arrives after a withdrawal does not bring the*)
(* listing back, and once its publication is confirmed nothing does.       *)
Lifecycle == INSTANCE ListingLifecycle WITH
    listing <- server,
    unconfirmed <- [d \in DocIDs |-> Repeatable(d)]
Implements == Lifecycle!Spec

(* What a screen of another device has to expect of the listings is all    *)
(* that happens to them: Postings, on which the tabs are modelled, allows  *)
(* every write the devices make, and every listing that comes back.        *)
Seen == INSTANCE Postings WITH
    Returning <- DocIDs,
    postings <- server,
    mayReturn <- [d \in DocIDs |->
                    IF server[d] = Deleted THEN Repeatable(d) ELSE NoBook],
    cache <- server
AsOthersSeeIt == Seen!WrittenSpec

(* Only writes of a listing's seller change it: the ID a screen was handed *)
(* and the seller it displays never come apart, however stale the book.    *)
OnlyTheSeller ==
    [][\A v \in Devices, d \in DocIDs :
          (Send(v) /\ server'[d] # server[d]) =>
              user[v] = IF server[d] \in Books THEN server[d].seller
                                               ELSE server'[d].seller]_vars

(* What the app announced as done happens: a posted listing gets to the    *)
(* server, even if the app ends before its write is sent; and a listing    *)
(* whose deletion is to be sent is withdrawn for good, whatever edits of   *)
(* other devices are on their way, unless one has yet to learn that its own*)
(* posting of it arrived.                                                  *)
AnnouncedHappens ==
    \A d \in DocIDs :
        /\ d \in posted ~> server[d] # Unborn
        /\ (\E v \in Devices :
               /\ \E i \in delivered[v] + 1 .. Len(queue[v]) : queue[v][i] = Delete(d)
               /\ \A u \in Devices \ {v} : ~Unconfirmed(u, d))
              ~> [](server[d] = Deleted)
===============================================================================
