----------------------------- MODULE ProfileName -----------------------------
(***************************************************************************)
(* The user's own document in /Users/ on the profile tab (Profile.swift):  *)
(* the name is loaded each time the tab appears and edited in place. First *)
(* and last name, always read and written together, are one name.          *)
(***************************************************************************)
EXTENDS Naturals, Sequences

CONSTANTS
    Names,      \* what a user may be called
    NoUser      \* there is no document (and the fields are empty)

ASSUME NamesAssumption == NoUser \notin Names

VARIABLES
    userDoc,    \* the name in the document of the user
    userAsked,  \* gets of it issued and not answered
    userAnswers,\* their answers queued for the main thread
    name,       \* what the fields firstName and lastName hold
    editable,   \* the fields are enabled and the button's title is "Save"
    typed       \* history: what the user last made of the fields

nameVars == <<userDoc, userAsked, userAnswers, name, editable, typed>>

NameTypeOK ==
    /\ userDoc \in Names \cup {NoUser}
    /\ userAsked \in Nat
    /\ userAnswers \in Seq(Names \cup {NoUser})
    /\ name \in Names \cup {NoUser}
    /\ editable \in BOOLEAN
    /\ typed \in Names \cup {NoUser}

NameInit ==
    /\ userDoc \in Names \cup {NoUser}
    /\ userAsked = 0 /\ userAnswers = <<>>
    /\ name = NoUser /\ editable = FALSE /\ typed = NoUser

AskForName ==
    /\ userAsked' = userAsked + 1
    /\ UNCHANGED <<userDoc, userAnswers, name, editable, typed>>

(* An error and a missing document are treated alike.                      *)
AnswerName ==
    /\ userAsked > 0
    /\ userAsked' = userAsked - 1
    /\ \E a \in {userDoc, NoUser} : userAnswers' = Append(userAnswers, a)
    /\ UNCHANGED <<userDoc, name, editable, typed>>

(* grabFirebaseData's callback fills the fields, edited or not.            *)
NameCallback ==
    /\ userAnswers # <<>>
    /\ userAnswers' = Tail(userAnswers)
    /\ name' = IF Head(userAnswers) \in Names THEN Head(userAnswers) ELSE name
    /\ UNCHANGED <<userDoc, userAsked, editable, typed>>

TypeName(n) ==
    /\ editable
    /\ name' = n
    /\ typed' = n
    /\ UNCHANGED <<userDoc, userAsked, userAnswers, editable>>

(* updateData on a document that does not exist fails, silently.           *)
UpdateName(n) == userDoc' = IF userDoc = NoUser THEN NoUser ELSE n

(* edit: the fields are toggled, and saved when they are now disabled.     *)
EditName ==
    /\ editable' = ~editable
    /\ IF editable THEN UpdateName(name) /\ UNCHANGED typed
                   ELSE UNCHANGED userDoc /\ typed' = name
    /\ UNCHANGED <<userAsked, userAnswers, name>>

(* The profile picture of the document does not load.                      *)
NameTrap == userAnswers # <<>> /\ Head(userAnswers) \in Names

LoseName ==
    /\ userAsked' = 0 /\ userAnswers' = <<>>
    /\ name' = NoUser /\ editable' = FALSE /\ typed' = NoUser
    /\ UNCHANGED userDoc
-------------------------------------------------------------------------------
(* A button titled "Save" saves what the user made of the fields.          *)
SavesWhatWasTyped == [][(editable /\ ~editable' /\ userDoc' # userDoc)
                            => userDoc' = typed]_nameVars
===============================================================================
