---------------------------- MODULE BrowseDetails -----------------------------
(***************************************************************************)
(* The screen of one listing (BrowseDetails.swift) on each device: shown   *)
(* to everyone, editable and deletable by its seller.                      *)
(***************************************************************************)
EXTENDS Store

CONSTANTS
    Blank,      \* a form one of whose required fields is empty
    BadPrice,   \* a complete form whose price is not a number
    Closed      \* no screen is open

VARIABLE
    screen      \* the screen on top on each device

Forms  == Contents \cup {Blank, BadPrice}
Titles == {"Interested? Contact seller", "Edit your listing", "Save changes"}

Screens ==
    [refString : DocIDs \cup {NoRef}, contactView : Titles,
     editable : BOOLEAN, fields : Forms]

ScreenTypeOK == screen \in [Devices -> Screens \cup {Closed}]

ScreenInit == screen = [v \in Devices |-> Closed]

(* The client of a device may have seen a listing: it is on the server, or *)
(* the device itself is about to add it.                                   *)
MayKnow(v, d) ==
    versions[d] # {} /\ (server[d] # Unborn \/ \E w \in Pending(v) : w.id = d)

(* The contract of Browse and Profile: the screen gets a book, as some     *)
(* load found it, and the ID of a listing that was once == to it, or none. *)
(* viewDidLoad then decides what the user may do with it.                  *)
Open(v) ==
    /\ screen[v] = Closed
    /\ \E d \in DocIDs : MayKnow(v, d) /\ \E b \in versions[d] :
          \E ref \in {NoRef} \cup {e \in DocIDs :
                         MayKnow(v, e) /\ \E c \in versions[e] : BookEq(c, b)} :
             screen' = [screen EXCEPT ![v] =
                [refString |-> ref,
                 contactView |-> IF user[v] = b.seller
                                   THEN "Edit your listing"
                                   ELSE "Interested? Contact seller",
                 editable |-> FALSE,
                 fields |-> ContentOf(b)]]
    /\ UNCHANGED storeVars

(* The user types into the fields while they are enabled.                  *)
EnterFields(v, f) ==
    /\ screen[v] # Closed
    /\ screen[v].editable
    /\ screen' = [screen EXCEPT ![v].fields = f]
    /\ UNCHANGED storeVars

Own(v) == screen[v] # Closed /\ screen[v].contactView # "Interested? Contact seller"

(* document(path) asserts that the path has an even number of segments.    *)
HasRef(v) == screen[v].refString # NoRef

(* contact, when the fields were disabled: they are enabled.               *)
ContactEdit(v) ==
    /\ Own(v)
    /\ ~screen[v].editable
    /\ screen' = [screen EXCEPT ![v].editable = TRUE,
                                ![v].contactView = "Save changes"]
    /\ UNCHANGED storeVars

(* Mutant: the early exit on an empty field leaves the fields disabled.    *)
RejectAndDisable(v) == screen' = [screen EXCEPT ![v].editable = FALSE]

(* The alert names the empty fields; the fields, toggled twice, stay as    *)
(* they were, and so does the title.                                       *)
RejectFields(v) == screen' = screen

(* contact, when the fields were enabled: they are disabled again and      *)
(* saved if none is empty. document("") and Double("x")! do not return.    *)
ContactSave(v) ==
    /\ Own(v)
    /\ screen[v].editable
    /\ \/ /\ screen[v].fields = Blank
          /\ RejectFields(v)
          /\ UNCHANGED storeVars
       \/ /\ screen[v].fields \in Contents
          /\ HasRef(v)
          /\ Enqueue(v, Update(screen[v].refString, screen[v].fields))
          /\ screen' = [screen EXCEPT ![v].editable = FALSE,
                                      ![v].contactView = "Edit your listing"]

(* deleteBook: the button is only there for the seller; the screen goes.   *)
DeleteBook(v) ==
    /\ Own(v)
    /\ HasRef(v)
    /\ Enqueue(v, Delete(screen[v].refString))
    /\ screen' = [screen EXCEPT ![v] = Closed]

Back(v) ==
    /\ screen[v] # Closed
    /\ screen' = [screen EXCEPT ![v] = Closed]
    /\ UNCHANGED storeVars

(* The taps that end the process instead.                                  *)
SaveTraps(v) ==
    Own(v) /\ screen[v].editable
        /\ \/ screen[v].fields = BadPrice
           \/ screen[v].fields # Blank /\ ~HasRef(v)

DeleteTraps(v) == Own(v) /\ ~HasRef(v)

DetailsNext(v) ==
    \/ Open(v)
    \/ \E f \in Forms : EnterFields(v, f)
    \/ ContactEdit(v) \/ ContactSave(v) \/ DeleteBook(v) \/ Back(v)
-------------------------------------------------------------------------------
(* The one button of the screen says what a tap will do: it offers to save *)
(* exactly while the fields are enabled, after any sequence of taps,       *)
(* rejected saves included.                                                *)
ModeAgrees ==
    \A v \in Devices : screen[v] # Closed =>
        (screen[v].contactView = "Save changes" <=> screen[v].editable)
===============================================================================
