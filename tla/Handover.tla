------------------------------- MODULE Handover -------------------------------
(***************************************************************************)
(* The contract between a tab and the screen it opens. BrowseDetails says  *)
(* in Open what the screen may be given, and Market is proved from that;   *)
(* here the same Open is the promise of a tab that looks up its IDs in a   *)
(* dictionary of what it loaded.                                           *)
(***************************************************************************)
EXTENDS Opening

CONSTANT reader     \* the user of the device

VARIABLE versions   \* history: all that each listing ever was

VersionsInit == versions = [d \in DocIDs |-> {postings[d]} \cap Books]

Remember ==
    versions' = [d \in DocIDs |-> versions[d] \cup ({postings'[d]} \cap Books)]

Fields(b) ==
    [author |-> b.author, course |-> b.course, details |-> b.details,
     condition |-> b.condition]

NoScreen == [contactView |-> ""]

(* What BrowseDetails' viewDidLoad makes of what prepare handed to it.     *)
OnScreen ==
    [v \in {reader} |->
        IF detail = NoDetail THEN NoScreen
        ELSE [refString |-> detail.refString,
              contactView |-> IF v = detail.book.seller
                                THEN "Edit your listing"
                                ELSE "Interested? Contact seller",
              editable |-> FALSE,
              fields |-> Fields(detail.book)]]

(* The device has no writes of its own waiting: Postings counts them from  *)
(* when they are issued.                                                   *)
Screen == INSTANCE BrowseDetails WITH
    Devices <- {reader},
    user <- [v \in {reader} |-> v],
    Contents <- {Fields(b) : b \in Books},
    Blank <- "blank", BadPrice <- "bad price",
    Closed <- NoScreen,
    server <- postings,
    queue <- [v \in {reader} |-> <<>>],
    delivered <- [v \in {reader} |-> 0],
    refused <- [v \in {reader} |-> FALSE],
    screen <- OnScreen

(* Whatever was edited, deleted, posted again, loaded twice or searched in *)
(* between, a tap opens the screen as Market assumes: on a listing as it   *)
(* once was, with no ID or that of a listing that was once == to it.       *)
OpensAsPromised == [][Screen!Open(reader) \/ Screen!Back(reader)]_OnScreen
-------------------------------------------------------------------------------
(* What the collection, the client's copy and the dictionary hold of a     *)
(* listing is something it once was; and only what was written was ever    *)
(* anything.                                                               *)
HeldWasWritten ==
    /\ versions \in [DocIDs -> SUBSET Books]
    /\ \A d \in DocIDs :
          /\ versions[d] # {} => postings[d] # Unborn
          /\ {postings[d], cache[d], idToBook[d]} \cap Books \subseteq versions[d]
===============================================================================
