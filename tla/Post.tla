--------------------------------- MODULE Post ---------------------------------
(***************************************************************************)
(* The sell tab (Post.swift) on each device: a form that becomes a listing *)
(* of the signed-in user.                                                  *)
(***************************************************************************)
EXTENDS Store

CONSTANTS
    Incomplete, \* a form with a required field empty, the cleared one too
    NoPrice,    \* a complete form whose price is not a number
    MaxForms    \* bound: forms filled in

VARIABLES
    form,       \* what the fields of each device hold
    filled,     \* history: complete forms filled in
    posted      \* history: IDs drawn by addDocument

postVars == <<form, filled, posted>>

(* The fields of a listing before it has a seller and a picture.           *)
Drafts == {[title |-> b.title, content |-> ContentOf(b)] : b \in Books}
Fields == Drafts \cup {Incomplete, NoPrice}

ASSUME DraftsAssumption == Drafts \cap {Incomplete, NoPrice} = {}

(* The listings a draft of a user makes: the picture is always the same    *)
(* placeholder, and which one is not up to the user.                       *)
Made(draft, u) ==
    {b \in Books : b.title = draft.title /\ ContentOf(b) = draft.content /\ b.seller = u}

PostTypeOK ==
    /\ form \in [Devices -> Fields]
    /\ filled \in Nat
    /\ posted \subseteq DocIDs

PostInit ==
    /\ form = [v \in Devices |-> Incomplete]
    /\ filled = 0
    /\ posted = {}

(* The user fills the form in, or completes what he has.                   *)
FillIn(v, f) ==
    /\ form[v] \notin Drafts
    /\ f # form[v] /\ f # Incomplete
    /\ filled < MaxForms
    /\ form' = [form EXCEPT ![v] = f]
    /\ filled' = filled + 1
    /\ UNCHANGED <<storeVars, posted>>

(* Mutant: the fields are left as they are after a post.                   *)
KeepFields(v) == UNCHANGED form

ClearFields(v) == form' = [form EXCEPT ![v] = Incomplete]

(* post: with a field empty it only shows an alert; otherwise the document *)
(* is added under a new ID and the fields are cleared, in one handler.     *)
PostListing(v) ==
    /\ form[v] \in Drafts
    /\ \E d \in DocIDs, b \in Made(form[v], user[v]) :
          /\ Fresh(d)
          /\ Enqueue(v, Add(d, b))
          /\ posted' = posted \cup {d}
    /\ ClearFields(v)
    /\ UNCHANGED filled

(* Double("x")! does not return.                                           *)
PostTraps(v) == form[v] = NoPrice

PostNext(v) ==
    \/ \E f \in Fields : FillIn(v, f)
    \/ PostListing(v)
-------------------------------------------------------------------------------
(* However often the user taps Post, one form makes one listing.           *)
OneListingPerForm == Cardinality(posted) =< filled
===============================================================================
