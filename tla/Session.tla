-------------------------------- MODULE Session --------------------------------
(***************************************************************************)
(* Signing up, in and out (CreateAccount.swift, Login.swift and logout of  *)
(* Profile.swift) on one device. Requests to Firebase Auth are answered in *)
(* any order; a successful answer changes the current user at once, on the *)
(* client's own queue, and the handler's callback runs later on the main   *)
(* thread. Each screen that is presented covers the one before it.         *)
(***************************************************************************)
EXTENDS Naturals, Sequences, FiniteSets

CONSTANTS
    Emails,     \* addresses of users (the part before "@wustl.edu" is the
                \* name of their document in /Users/)
    Passwords,
    Short,      \* the passwords of fewer than six characters
    NoUser, NoPassword, NoAlert,
    MaxRequests,\* bound: requests sent
    MaxScreens  \* bound: screens on top of one another

ASSUME SessionAssumption ==
    /\ Short \subseteq Passwords
    /\ NoUser \notin Emails /\ NoPassword \notin Passwords
    /\ MaxRequests \in Nat /\ MaxScreens \in Nat \ {0}

VARIABLES
    accounts,   \* the password of each account, on the server
    userDocs,   \* the users with a document in /Users/
    mailed,     \* the users sent instructions to reset their password
    currentUser,\* Auth.auth().currentUser
    requests,   \* requests not answered
    sent,       \* how many there were
    callbacks,  \* completions queued for the main thread
    screens,    \* the screens, the visible one last
    alert,      \* the alert on top of them, if any
    created,    \* history: the accounts this run of the app created
    overlapped  \* history: a request was sent while another was under way

server  == <<accounts, userDocs, mailed>>
traffic == <<requests, sent, callbacks>>
vars    == <<server, currentUser, traffic, screens, alert, created, overlapped>>

(* `from' is the place of the screen that sent a request, 0 once it left.  *)
Requests ==
    [id : 1 .. MaxRequests, op : {"createUser", "signIn", "sendPasswordReset"},
     email : Emails, password : Passwords, from : 0 .. MaxScreens]

Screens == [kind : {"Login", "CreateAccount", "Search"}, username : Emails \cup {NoUser}]
Alerts  == [text : {"associated", "short", "invalid", "reset sent"}, email : Emails]

LoginScreen == [kind |-> "Login", username |-> NoUser]

TypeOK ==
    /\ accounts \in [Emails -> Passwords \cup {NoPassword}]
    /\ userDocs \subseteq Emails /\ mailed \subseteq Emails /\ created \subseteq Emails
    /\ currentUser \in Emails \cup {NoUser}
    /\ requests \subseteq Requests /\ sent \in 0 .. MaxRequests
    /\ callbacks \in Seq([request : Requests, ok : BOOLEAN])
    /\ screens \in Seq(Screens) /\ Len(screens) \in 1 .. MaxScreens
    /\ alert \in Alerts \cup {NoAlert}
    /\ overlapped \in BOOLEAN

Init ==
    /\ accounts \in [Emails -> (Passwords \ Short) \cup {NoPassword}]
    /\ userDocs = {e \in Emails : accounts[e] # NoPassword}
    /\ mailed = {}
    /\ currentUser = NoUser
    /\ requests = {} /\ sent = 0 /\ callbacks = <<>>
    /\ screens = <<LoginScreen>>
    /\ alert = NoAlert
    /\ created = {} /\ overlapped = FALSE
-------------------------------------------------------------------------------
Here == Len(screens)
Top  == screens[Here]
Visible(kind) == Top.kind = kind /\ alert = NoAlert

Send(op, e, p) ==
    /\ sent < MaxRequests
    /\ sent' = sent + 1
    /\ requests' = requests \cup
          {[id |-> sent + 1, op |-> op, email |-> e, password |-> p, from |-> Here]}
    /\ overlapped' = (overlapped \/ requests # {} \/ callbacks # <<>>)
    /\ UNCHANGED <<server, currentUser, callbacks, screens, created>>

(* login with both fields filled in and a WashU address; the other inputs  *)
(* only bring up an alert.                                                 *)
TapLogin(e, p) ==
    Visible("Login") /\ Send("signIn", e, p) /\ UNCHANGED alert

(* create with five fields filled in, equal passwords, a WashU address.    *)
TapCreate(e, p) ==
    Visible("CreateAccount") /\ Send("createUser", e, p) /\ UNCHANGED alert

(* forget with an address: the alert does not wait for the answer.         *)
TapForget(e) ==
    /\ Visible("Login")
    /\ \E p \in Passwords : Send("sendPasswordReset", e, p)
    /\ alert' = [text |-> "reset sent", email |-> e]

Dismiss ==
    /\ alert # NoAlert
    /\ alert' = NoAlert
    /\ UNCHANGED <<server, currentUser, traffic, screens, created, overlapped>>

Push(s) == Here < MaxScreens /\ screens' = Append(screens, s)

(* The segue to CreateAccount, and back.                                   *)
TapCreateAccount ==
    /\ Visible("Login")
    /\ Push([kind |-> "CreateAccount", username |-> NoUser])
    /\ UNCHANGED <<server, currentUser, traffic, alert, created, overlapped>>

Gone(r) == IF r.from = Here THEN [r EXCEPT !.from = 0] ELSE r

BackToLogin ==
    /\ Visible("CreateAccount")
    /\ screens' = SubSeq(screens, 1, Here - 1)
    /\ requests' = {Gone(r) : r \in requests}
    /\ callbacks' = [i \in DOMAIN callbacks |->
                        [callbacks[i] EXCEPT !.request = Gone(@)]]
    /\ UNCHANGED <<server, currentUser, sent, alert, created, overlapped>>

(* logout: signOut is immediate; a new Login screen covers the tabs.       *)
Logout ==
    /\ Visible("Search")
    /\ currentUser' = NoUser
    /\ Push(LoginScreen)
    /\ UNCHANGED <<server, traffic, alert, created, overlapped>>
-------------------------------------------------------------------------------
(* Firebase Auth.                                                          *)

Answered(r, ok) ==
    /\ requests' = requests \ {r}
    /\ callbacks' = Append(callbacks, [request |-> r, ok |-> ok])
    /\ UNCHANGED <<userDocs, sent, screens, alert, overlapped>>

CreateSucceeds(r) ==
    /\ r.op = "createUser"
    /\ accounts[r.email] = NoPassword /\ r.password \notin Short
    /\ accounts' = [accounts EXCEPT ![r.email] = r.password]
    /\ currentUser' = r.email
    /\ created' = created \cup {r.email}
    /\ Answered(r, TRUE)
    /\ UNCHANGED mailed

SignInSucceeds(r) ==
    /\ r.op = "signIn"
    /\ accounts[r.email] = r.password
    /\ currentUser' = r.email
    /\ Answered(r, TRUE)
    /\ UNCHANGED <<accounts, mailed, created>>

(* The callback of forget is empty: none is queued.                        *)
ResetSucceeds(r) ==
    /\ r.op = "sendPasswordReset"
    /\ accounts[r.email] # NoPassword
    /\ mailed' = mailed \cup {r.email}
    /\ requests' = requests \ {r}
    /\ UNCHANGED <<accounts, userDocs, currentUser, sent, callbacks, screens, alert,
                   created, overlapped>>

(* The server refuses, or the network fails before or after it accepted.   *)
Fails(r) ==
    /\ \/ UNCHANGED accounts
       \/ /\ r.op = "createUser"
          /\ accounts[r.email] = NoPassword /\ r.password \notin Short
          /\ accounts' = [accounts EXCEPT ![r.email] = r.password]
    /\ IF r.op = "sendPasswordReset"
         THEN /\ requests' = requests \ {r}
              /\ UNCHANGED <<userDocs, sent, callbacks, screens, alert, overlapped>>
         ELSE Answered(r, FALSE)
    /\ UNCHANGED <<mailed, currentUser, created>>

Answer ==
    \E r \in requests :
        CreateSucceeds(r) \/ SignInSucceeds(r) \/ ResetSucceeds(r) \/ Fails(r)
-------------------------------------------------------------------------------
(* Mutant: the tabs made for an earlier user are shown again.              *)
TabsReused ==
    LET old == {i \in DOMAIN screens : screens[i].kind = "Search"}
    IN  IF old = {} THEN [kind |-> "Search", username |-> currentUser]
                    ELSE screens[CHOOSE i \in old : TRUE]

(* The tab bar controller of the storyboard. Its Profile and History read  *)
(* the current user's name once, as they are made.                         *)
Tabs == [kind |-> "Search", username |-> currentUser]

(* loadHomeScreen: a screen that is covered or gone cannot present.        *)
LoadHomeScreen(from) ==
    /\ currentUser # NoUser
    /\ IF from = Here THEN Push(Tabs) ELSE UNCHANGED screens

(* Mutant: a CreateAccount screen that was left does not write.            *)
WriteIfThere(r) == userDocs' = IF r.from = 0 THEN userDocs ELSE userDocs \cup {r.email}

(* setData of the user's document, named by the address create read.       *)
WriteUserDoc(r) == userDocs' = userDocs \cup {r.email}

Alert(text, r) ==
    alert' = IF r.from = Here /\ alert = NoAlert
               THEN [text |-> text, email |-> r.email] ELSE alert

Callback ==
    LET r  == Head(callbacks).request
        ok == Head(callbacks).ok
    IN
    /\ callbacks # <<>>
    /\ callbacks' = Tail(callbacks)
    /\ \/ /\ ok
          /\ IF r.op = "createUser" THEN WriteUserDoc(r) ELSE UNCHANGED userDocs
          /\ LoadHomeScreen(r.from)
          /\ UNCHANGED alert
       \/ /\ ~ok
          /\ IF r.op = "signIn" THEN Alert("invalid", r)
             ELSE IF r.password \notin Short THEN Alert("associated", r)
             ELSE Alert("short", r)
          /\ UNCHANGED <<userDocs, screens>>
    /\ UNCHANGED <<accounts, mailed, currentUser, requests, sent, created, overlapped>>

Die ==
    /\ requests' = {} /\ callbacks' = <<>>
    /\ screens' = <<LoginScreen>>
    /\ alert' = NoAlert
    /\ created' = {} /\ overlapped' = FALSE
    /\ UNCHANGED <<accounts, mailed, currentUser, sent>>

(* The tabs are made after a logout: currentUser! ends the process, once   *)
(* the document of a new user is written.                                  *)
Trap ==
    /\ callbacks # <<>> /\ Head(callbacks).ok
    /\ currentUser = NoUser
    /\ LET r == Head(callbacks).request
       IN  IF r.op = "createUser" THEN WriteUserDoc(r) ELSE UNCHANGED userDocs
    /\ Die

Killed == Die /\ UNCHANGED userDocs

Next ==
    \/ \E e \in Emails, p \in Passwords : TapLogin(e, p) \/ TapCreate(e, p)
    \/ \E e \in Emails : TapForget(e)
    \/ Dismiss \/ TapCreateAccount \/ BackToLogin \/ Logout
    \/ Answer
    \/ Callback
    \/ Trap \/ Killed

Spec == Init /\ [][Next]_vars
-------------------------------------------------------------------------------
(* Without overlapping requests, the name Profile and History took when    *)
(* the visible tabs were made is that of the current user, as whom Browse  *)
(* and Post act, across any sequence of signing up, in and out.            *)
TabsAreCurrentUsers ==
    (~overlapped /\ Top.kind = "Search") => Top.username = currentUser

(* As long as the app lives, an account it created has its document, or    *)
(* the callback that writes it is still to run.                            *)
AccountsGetDocuments ==
    \A e \in created :
        \/ e \in userDocs
        \/ \E i \in DOMAIN callbacks :
              /\ callbacks[i].ok
              /\ callbacks[i].request.op = "createUser"
              /\ callbacks[i].request.email = e
===============================================================================
