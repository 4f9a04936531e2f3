-------------------------------- MODULE Profile --------------------------------
(***************************************************************************)
(* The profile tab (Profile.swift): its two loads are asked for together   *)
(* whenever it appears and answered apart from each other.                 *)
(***************************************************************************)
EXTENDS ProfileListings, ProfileName

VARIABLES
    visible,    \* the tab is on screen
    alive       \* the app runs

vars == <<listingVars, nameVars, visible, alive>>

TypeOK ==
    /\ ListingsTypeOK
    /\ NameTypeOK
    /\ visible \in BOOLEAN /\ alive \in BOOLEAN

Init ==
    /\ ListingsInit
    /\ NameInit
    /\ visible = FALSE
    /\ alive = TRUE

(* viewWillAppear: another tab was selected, or a screen on top popped.    *)
ViewWillAppear ==
    /\ alive /\ ~visible
    /\ userAsked + Len(userAnswers) < MaxLoads
    /\ AskForListings
    /\ AskForName
    /\ detail' = NoDetail
    /\ visible' = TRUE
    /\ UNCHANGED alive

(* The user selects another tab.                                           *)
Leave ==
    /\ alive /\ visible
    /\ visible' = FALSE
    /\ UNCHANGED <<listingVars, nameVars, alive>>

Select(r) ==
    /\ alive /\ visible
    /\ OpenListing(r)
    /\ visible' = FALSE
    /\ UNCHANGED <<nameVars, alive>>

TapEdit == alive /\ visible /\ EditName /\ UNCHANGED <<listingVars, visible, alive>>

Typing ==
    /\ alive /\ visible
    /\ \E n \in Names : TypeName(n)
    /\ UNCHANGED <<listingVars, visible, alive>>

Callbacks ==
    /\ alive
    /\ \/ (AnswerListings \/ ListingsCallback) /\ UNCHANGED nameVars
       \/ (AnswerName \/ NameCallback) /\ UNCHANGED listingVars
    /\ UNCHANGED <<visible, alive>>

Die ==
    /\ LoseListings /\ LoseName
    /\ visible' = FALSE /\ alive' = FALSE

(* A picture does not load and its force unwrap ends the process; or the   *)
(* system or the user ends it.                                             *)
Trap   == alive /\ (PictureTrap \/ NameTrap) /\ Die
Killed == alive /\ Die

Relaunch ==
    /\ ~alive
    /\ alive' = TRUE
    /\ UNCHANGED <<listingVars, nameVars, visible>>

Next ==
    \/ OthersWrite /\ UNCHANGED <<nameVars, visible, alive>>
    \/ ViewWillAppear
    \/ Leave
    \/ \E r \in DOMAIN shown : Select(r)
    \/ TapEdit
    \/ Typing
    \/ Callbacks
    \/ Trap \/ Killed
    \/ Relaunch

Spec == Init /\ [][Next]_vars
FairSpec == Spec /\ WF_vars(Callbacks)
-------------------------------------------------------------------------------
(* A profile that shows no listing and will not by itself says that there  *)
(* are none: whichever of several loads was answered last, and however.    *)
EmptyIsExplained ==
    (visible /\ UnderWay = 0 /\ shown = <<>>) => saysNone
================================================================================
