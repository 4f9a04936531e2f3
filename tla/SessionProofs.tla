----------------------------- MODULE SessionProofs ----------------------------
(***************************************************************************)
(* Proofs about signing up, in and out, for any users, passwords and number*)
(* of requests and screens: the tabs on screen are the current user's as   *)
(* long as requests do not overlap, and an account the app created gets its*)
(* document as long as the app lives.                                      *)
(***************************************************************************)
EXTENDS Session, TLAPS, SequenceTheorems

Callbacks == [request : Requests, ok : BOOLEAN]

(* A screen to create an account lies on a Login screen.                   *)
CreateOnLogin ==
    \A i \in DOMAIN screens :
        screens[i].kind = "CreateAccount" => i # 1 /\ screens[i - 1].kind = "Login"

(* Requests that do not overlap: at most one is under way, and while it is,*)
(* no tabs are visible.                                                    *)
OneAtATime ==
    ~overlapped =>
        /\ requests # {} => callbacks = <<>> /\ \E r : requests = {r}
        /\ Len(callbacks) < 2
        /\ Top.kind = "Search" =>
              /\ requests = {} /\ callbacks = <<>>
              /\ Top.username = currentUser

IInv == TypeOK /\ CreateOnLogin /\ OneAtATime
-------------------------------------------------------------------------------
(* Sequences of any kind.                                                  *)
LEMMA Appended ==
    ASSUME NEW S, NEW s \in Seq(S), NEW x \in S
    PROVE  /\ Append(s, x) \in Seq(S)
           /\ Len(s) \in Nat /\ DOMAIN s = 1 .. Len(s)
           /\ Len(Append(s, x)) = Len(s) + 1
           /\ DOMAIN Append(s, x) = 1 .. (Len(s) + 1)
           /\ \A i \in 1 .. Len(s) : Append(s, x)[i] = s[i]
           /\ Append(s, x)[Len(s) + 1] = x
PROOF
  BY AppendProperties, LenProperties

LEMMA Taken ==
    ASSUME NEW S, NEW s \in Seq(S), s # <<>>
    PROVE  /\ Tail(s) \in Seq(S)
           /\ Len(s) \in Nat /\ Len(s) > 0
           /\ DOMAIN s = 1 .. Len(s)
           /\ Len(Tail(s)) = Len(s) - 1
           /\ DOMAIN Tail(s) = 1 .. (Len(s) - 1)
           /\ \A i \in 1 .. (Len(s) - 1) : Tail(s)[i] = s[i + 1]
           /\ Head(s) = s[1] /\ Head(s) \in S
PROOF
  BY HeadTailProperties, LenProperties, EmptySeq

(* The visible screen is the last of at least one.                         *)
LEMMA TopIs ==
    ASSUME TypeOK
    PROVE  /\ screens \in Seq(Screens) /\ Len(screens) \in Nat
           /\ Here \in 1 .. MaxScreens /\ Here = Len(screens)
           /\ DOMAIN screens = 1 .. Here
           /\ Top \in Screens /\ Top = screens[Here]
PROOF
  <1>1. screens \in Seq(Screens) /\ Here \in 1 .. MaxScreens /\ Here = Len(screens)
    BY DEF TypeOK, Here
  <1>2. Len(screens) \in Nat /\ DOMAIN screens = 1 .. Here
    BY <1>1, LenProperties
  <1>3. Here \in 1 .. Here
    BY <1>1, SessionAssumption
  <1>4. Top \in Screens
    BY <1>1, <1>2, <1>3, ElementOfSeq DEF Top
  <1> QED
    BY <1>1, <1>2, <1>4 DEF Top

(* Pushing a screen.                                                       *)
LEMMA Pushed ==
    ASSUME TypeOK, NEW s \in Screens, Push(s)
    PROVE  /\ screens' \in Seq(Screens) /\ Len(screens') \in 1 .. MaxScreens
           /\ Top' = s
           /\ CreateOnLogin /\ (s.kind = "CreateAccount" => Top.kind = "Login")
                 => CreateOnLogin'
PROOF
  <1>1. Here < MaxScreens /\ screens' = Append(screens, s)
    BY DEF Push
  <1>2. /\ Len(screens') = Here + 1 /\ screens' \in Seq(Screens)
        /\ DOMAIN screens' = 1 .. (Here + 1)
        /\ \A i \in 1 .. Here : screens'[i] = screens[i]
        /\ screens'[Here + 1] = s
    BY <1>1, TopIs, Appended
  <1>3. Here \in Nat /\ Here > 0 /\ Len(screens') \in 1 .. MaxScreens
    BY <1>1, <1>2, TopIs, SessionAssumption
  <1>4. Top' = s
    BY <1>2 DEF Top, Here
  <1>5. ASSUME CreateOnLogin, s.kind = "CreateAccount" => Top.kind = "Login"
        PROVE  CreateOnLogin'
    <2> SUFFICES ASSUME NEW i \in 1 .. (Here + 1),
                        screens'[i].kind = "CreateAccount"
                 PROVE  i # 1 /\ screens'[i - 1].kind = "Login"
      BY <1>2 DEF CreateOnLogin
    <2>1. CASE i \in 1 .. Here
      <3>1. i # 1 /\ screens[i - 1].kind = "Login"
        BY <1>2, <1>5, <2>1, TopIs DEF CreateOnLogin
      <3>2. i - 1 \in 1 .. Here
        BY <1>3, <2>1, <3>1
      <3> QED
        BY <1>2, <3>1, <3>2
    <2>2. CASE i = Here + 1
      <3>1. Top.kind = "Login" /\ i - 1 = Here /\ i # 1
        BY <1>2, <1>3, <1>5, <2>2
      <3> QED
        BY <1>2, <1>3, <3>1, TopIs
    <2> QED
      BY <1>3, <2>1, <2>2
  <1> QED
    BY <1>2, <1>3, <1>4, <1>5

(* Leaving the screen to create an account.                                *)
LEMMA Left ==
    ASSUME TypeOK, CreateOnLogin, BackToLogin
    PROVE  /\ screens' \in Seq(Screens) /\ Len(screens') \in 1 .. MaxScreens
           /\ Top'.kind = "Login" /\ CreateOnLogin'
PROOF
  <1>1. Top.kind = "CreateAccount" /\ screens' = SubSeq(screens, 1, Here - 1)
    BY DEF BackToLogin, Visible
  <1>2. Here \in 1 .. Here /\ Here \in Nat
    BY TopIs, SessionAssumption
  <1>3. Here # 1 /\ screens[Here - 1].kind = "Login"
    BY <1>1, <1>2, TopIs DEF CreateOnLogin
  <1>4. Here - 1 \in 1 .. Here /\ Here - 1 \in 1 .. MaxScreens
    BY <1>2, <1>3, TopIs, SessionAssumption
  <1>5. /\ screens' \in Seq(Screens) /\ Len(screens') = Here - 1
        /\ DOMAIN screens' = 1 .. (Here - 1)
        /\ \A i \in 1 .. (Here - 1) : screens'[i] = screens[i]
    <2>1. /\ SubSeq(screens, 1, Here - 1) \in Seq(Screens)
          /\ Len(SubSeq(screens, 1, Here - 1)) = Here - 1
          /\ \A i \in 1 .. (Here - 1) : SubSeq(screens, 1, Here - 1)[i] = screens[i]
      BY <1>2, <1>4, TopIs, SubSeqProperties
    <2> QED
      BY <1>1, <2>1, LenProperties
  <1>6. Top' = screens[Here - 1]
    BY <1>2, <1>3, <1>5 DEF Top, Here
  <1>7. CreateOnLogin'
    <2> SUFFICES ASSUME NEW i \in 1 .. (Here - 1),
                        screens'[i].kind = "CreateAccount"
                 PROVE  i # 1 /\ screens'[i - 1].kind = "Login"
      BY <1>5 DEF CreateOnLogin
    <2>1. i \in 1 .. Here /\ screens[i].kind = "CreateAccount"
      BY <1>2, <1>5
    <2>2. i # 1 /\ screens[i - 1].kind = "Login"
      BY <2>1, TopIs DEF CreateOnLogin
    <2>3. i - 1 \in 1 .. (Here - 1)
      BY <1>2, <2>2
    <2> QED
      BY <1>5, <2>2, <2>3
  <1> QED
    BY <1>3, <1>4, <1>5, <1>6, <1>7

(* The process ends.                                                       *)
LEMMA Dead ==
    ASSUME TypeOK, Die
    PROVE  /\ requests' = {} /\ callbacks' = <<>>
           /\ screens' \in Seq(Screens) /\ Len(screens') \in 1 .. MaxScreens
           /\ Top'.kind = "Login" /\ CreateOnLogin'
PROOF
  <1>1. screens' = <<LoginScreen>> /\ requests' = {} /\ callbacks' = <<>>
    BY DEF Die
  <1>2. LoginScreen \in Screens /\ LoginScreen.kind = "Login"
    BY DEF LoginScreen, Screens
  <1>3. /\ screens' \in Seq(Screens) /\ Len(screens') = 1
        /\ DOMAIN screens' = 1 .. 1 /\ screens'[1] = LoginScreen
    BY <1>1, <1>2
  <1>4. Top' = LoginScreen
    BY <1>3 DEF Top, Here
  <1> QED
    BY <1>1, <1>2, <1>3, <1>4, SessionAssumption DEF CreateOnLogin
-------------------------------------------------------------------------------
(* Types.                                                                  *)
LEMMA ScreensNext ==
    TypeOK /\ CreateOnLogin /\ [Next]_vars =>
        /\ screens' \in Seq(Screens) /\ Len(screens') \in 1 .. MaxScreens
        /\ CreateOnLogin'
PROOF
  <1> SUFFICES ASSUME TypeOK, CreateOnLogin, [Next]_vars
               PROVE  /\ screens' \in Seq(Screens) /\ Len(screens') \in 1 .. MaxScreens
                      /\ CreateOnLogin'
    OBVIOUS
  <1>1. CASE UNCHANGED screens
    BY <1>1 DEF TypeOK, CreateOnLogin
  <1>2. CASE TapCreateAccount
    <2> DEFINE s == [kind |-> "CreateAccount", username |-> NoUser]
    <2>1. Push(s) /\ s \in Screens /\ Top.kind = "Login"
      BY <1>2 DEF TapCreateAccount, Visible, Screens
    <2> QED
      BY <2>1, Pushed
  <1>3. CASE BackToLogin
    BY <1>3, Left
  <1>4. CASE Logout
    <2>1. Push(LoginScreen) /\ LoginScreen \in Screens
      BY <1>4 DEF Logout, LoginScreen, Screens
    <2>2. LoginScreen.kind # "CreateAccount"
      BY DEF LoginScreen
    <2> QED
      BY <2>1, <2>2, Pushed
  <1>5. CASE Callback
    <2>1. Tabs \in Screens /\ Tabs.kind # "CreateAccount"
      BY DEF Tabs, Screens, TypeOK
    <2>2. UNCHANGED screens \/ Push(Tabs)
      BY <1>5 DEF Callback, LoadHomeScreen
    <2> QED
      BY <1>1, <2>1, <2>2, Pushed
  <1>6. CASE Trap \/ Killed
    BY <1>6, Dead DEF Trap, Killed
  <1>7. CASE (\E e \in Emails, p \in Passwords : TapLogin(e, p) \/ TapCreate(e, p))
                \/ (\E e \in Emails : TapForget(e)) \/ Dismiss
    BY <1>1, <1>7 DEF TapLogin, TapCreate, TapForget, Send, Dismiss
  <1>8. CASE Answer
    BY <1>1, <1>8
       DEF Answer, CreateSucceeds, SignInSucceeds, ResetSucceeds, Fails, Answered
  <1>9. CASE UNCHANGED vars
    BY <1>1, <1>9 DEF vars
  <1> QED
    BY <1>2, <1>3, <1>4, <1>5, <1>6, <1>7, <1>8, <1>9 DEF Next

(* A request is sent.                                                      *)
LEMMA SendTypes ==
    ASSUME TypeOK, NEW op \in {"createUser", "signIn", "sendPasswordReset"},
           NEW e \in Emails, NEW p \in Passwords, Send(op, e, p)
    PROVE  requests' \subseteq Requests /\ sent' \in 0 .. MaxRequests
PROOF
  <1>1. sent + 1 \in 1 .. MaxRequests /\ Here \in 0 .. MaxScreens
    BY TopIs, SessionAssumption DEF Send, TypeOK
  <1>2. [id |-> sent + 1, op |-> op, email |-> e, password |-> p, from |-> Here]
           \in Requests
    BY <1>1 DEF Requests
  <1> QED
    BY <1>1, <1>2 DEF Send, TypeOK

LEMMA GoneTypes == \A r \in Requests : Gone(r) \in Requests
PROOF
  BY SessionAssumption DEF Gone, Requests

(* A request is answered.                                                  *)
LEMMA AnswerTypes ==
    ASSUME TypeOK, NEW r \in requests, NEW ok \in BOOLEAN, Answered(r, ok)
    PROVE  /\ requests' \subseteq Requests /\ callbacks' \in Seq(Callbacks)
           /\ Len(callbacks') = Len(callbacks) + 1
PROOF
  <1>1. [request |-> r, ok |-> ok] \in Callbacks /\ callbacks \in Seq(Callbacks)
    BY DEF TypeOK, Callbacks
  <1> QED
    BY <1>1, Appended DEF Answered, TypeOK

LEMMA TrafficTypes ==
    TypeOK /\ [Next]_vars =>
        /\ requests' \subseteq Requests /\ sent' \in 0 .. MaxRequests
        /\ callbacks' \in Seq(Callbacks)
PROOF
  <1> SUFFICES ASSUME TypeOK, [Next]_vars
               PROVE  /\ requests' \subseteq Requests /\ sent' \in 0 .. MaxRequests
                      /\ callbacks' \in Seq(Callbacks)
    OBVIOUS
  <1>c. callbacks \in Seq(Callbacks)
    BY DEF TypeOK, Callbacks
  <1>1. CASE UNCHANGED traffic
    BY <1>1, <1>c DEF traffic, TypeOK
  <1>2. CASE \E e \in Emails, p \in Passwords : TapLogin(e, p) \/ TapCreate(e, p)
    BY <1>2, <1>c, SendTypes DEF TapLogin, TapCreate, Send
  <1>3. CASE \E e \in Emails : TapForget(e)
    BY <1>3, <1>c, SendTypes DEF TapForget, Send
  <1>4. CASE BackToLogin
    <2>1. \A i \in DOMAIN callbacks :
             [callbacks[i] EXCEPT !.request = Gone(@)] \in Callbacks
      <3> TAKE i \in DOMAIN callbacks
      <3>1. callbacks[i] \in Callbacks
        BY <1>c, ElementOfSeq, LenProperties
      <3>2. Gone(callbacks[i].request) \in Requests
        BY <3>1, GoneTypes DEF Callbacks
      <3> QED
        BY <3>1, <3>2 DEF Callbacks
    <2>2. /\ Len(callbacks) \in Nat /\ DOMAIN callbacks = 1 .. Len(callbacks)
          /\ callbacks' = [i \in 1 .. Len(callbacks) |->
                              [callbacks[i] EXCEPT !.request = Gone(@)]]
      BY <1>4, <1>c, LenProperties DEF BackToLogin
    <2>3. callbacks' \in Seq(Callbacks)
      BY <2>1, <2>2, IsASeq
    <2>4. requests' \subseteq Requests /\ sent' = sent
      BY <1>4, GoneTypes DEF BackToLogin, TypeOK
    <2> QED
      BY <2>3, <2>4 DEF TypeOK
  <1>5. CASE Answer
    BY <1>5, <1>c, AnswerTypes
       DEF Answer, CreateSucceeds, SignInSucceeds, ResetSucceeds, Fails, Answered, TypeOK
  <1>6. CASE Callback
    <2>1. callbacks # <<>> /\ callbacks' = Tail(callbacks) /\ UNCHANGED <<requests, sent>>
      BY <1>6 DEF Callback
    <2> QED
      BY <1>c, <2>1, Taken DEF TypeOK
  <1>7. CASE Trap \/ Killed
    BY <1>7, EmptySeq DEF Trap, Killed, Die, TypeOK
  <1>8. CASE Dismiss \/ TapCreateAccount \/ Logout
    BY <1>1, <1>8 DEF Dismiss, TapCreateAccount, Logout
  <1>9. CASE UNCHANGED vars
    BY <1>1, <1>9 DEF vars
  <1> QED
    BY <1>2, <1>3, <1>4, <1>5, <1>6, <1>7, <1>8, <1>9 DEF Next

(* The server, the current user and the alert.                             *)
LEMMA OtherTypes ==
    TypeOK /\ [Next]_vars =>
        /\ accounts' \in [Emails -> Passwords \cup {NoPassword}]
        /\ userDocs' \subseteq Emails /\ mailed' \subseteq Emails
        /\ created' \subseteq Emails
        /\ currentUser' \in Emails \cup {NoUser}
        /\ alert' \in Alerts \cup {NoAlert}
        /\ overlapped' \in BOOLEAN
PROOF
  <1> DEFINE Typed ==
        /\ accounts' \in [Emails -> Passwords \cup {NoPassword}]
        /\ userDocs' \subseteq Emails /\ mailed' \subseteq Emails
        /\ created' \subseteq Emails
        /\ currentUser' \in Emails \cup {NoUser}
        /\ alert' \in Alerts \cup {NoAlert}
        /\ overlapped' \in BOOLEAN
  <1> SUFFICES ASSUME TypeOK, [Next]_vars PROVE Typed
    OBVIOUS
  <1>1. CASE \E e \in Emails, p \in Passwords : TapLogin(e, p) \/ TapCreate(e, p)
    BY <1>1 DEF TapLogin, TapCreate, Send, TypeOK, server
  <1>2. CASE \E e \in Emails : TapForget(e)
    <2>1. PICK e \in Emails : TapForget(e)
      BY <1>2
    <2>2. PICK p \in Passwords : Send("sendPasswordReset", e, p)
      BY <2>1 DEF TapForget
    <2>3. UNCHANGED <<accounts, userDocs, mailed, created, currentUser>>
      BY <2>2 DEF Send, server
    <2>4. overlapped' \in BOOLEAN
      BY <2>2 DEF Send, TypeOK
    <2>5. alert' \in Alerts
      BY <2>1 DEF TapForget, Alerts
    <2> QED
      BY <2>3, <2>4, <2>5 DEF TypeOK
  <1>3. CASE Dismiss \/ TapCreateAccount \/ BackToLogin \/ Logout
    BY <1>3 DEF Dismiss, TapCreateAccount, BackToLogin, Logout, TypeOK, server
  <1>4. CASE Answer
    <2>1. PICK r \in requests :
             CreateSucceeds(r) \/ SignInSucceeds(r) \/ ResetSucceeds(r) \/ Fails(r)
      BY <1>4 DEF Answer
    <2>2. r.email \in Emails /\ r.password \in Passwords
      BY DEF TypeOK, Requests
    <2>3. [accounts EXCEPT ![r.email] = r.password]
             \in [Emails -> Passwords \cup {NoPassword}]
      BY <2>2 DEF TypeOK
    <2> QED
      BY <2>1, <2>2, <2>3
         DEF CreateSucceeds, SignInSucceeds, ResetSucceeds, Fails, Answered, TypeOK
  <1>5. ASSUME callbacks # <<>>
        PROVE  Head(callbacks).request.email \in Emails
    <2>1. callbacks \in Seq(Callbacks)
      BY DEF TypeOK, Callbacks
    <2>2. Head(callbacks) \in Callbacks
      BY <1>5, <2>1, Taken
    <2> QED
      BY <2>2 DEF Callbacks, Requests
  <1>6. CASE Callback
    <2> DEFINE r == Head(callbacks).request
    <2>1. r.email \in Emails
      BY <1>5, <1>6 DEF Callback
    <2> HIDE DEF r
    <2>2. /\ UNCHANGED <<accounts, mailed, currentUser, created, overlapped>>
          /\ \/ WriteUserDoc(r) \/ UNCHANGED userDocs
          /\ \/ UNCHANGED alert
             \/ Alert("invalid", r) \/ Alert("associated", r) \/ Alert("short", r)
      BY <1>6 DEF Callback, r
    <2>3. userDocs' \subseteq Emails
      BY <2>1, <2>2 DEF WriteUserDoc, TypeOK
    <2>4. alert' \in Alerts \cup {NoAlert}
      <3>1. ASSUME NEW text \in {"invalid", "associated", "short"}, Alert(text, r)
            PROVE  alert' \in Alerts \cup {NoAlert}
        <4>1. [text |-> text, email |-> r.email] \in Alerts
          BY <2>1 DEF Alerts
        <4>2. alert \in Alerts \cup {NoAlert}
          BY DEF TypeOK
        <4> QED
          BY <3>1, <4>1, <4>2 DEF Alert
      <3>2. alert \in Alerts \cup {NoAlert}
        BY DEF TypeOK
      <3> QED
        BY <2>2, <3>1, <3>2
    <2>5. UNCHANGED <<accounts, mailed, currentUser, created, overlapped>>
      BY <2>2
    <2> QED
      BY <2>3, <2>4, <2>5 DEF TypeOK
  <1>7. CASE Trap
    <2>1. /\ Head(callbacks).request.email \in Emails
          /\ WriteUserDoc(Head(callbacks).request) \/ UNCHANGED userDocs
          /\ Die
      BY <1>5, <1>7 DEF Trap
    <2> QED
      BY <2>1 DEF WriteUserDoc, Die, TypeOK
  <1>8. CASE Killed
    BY <1>8 DEF Killed, Die, TypeOK
  <1>9. CASE UNCHANGED vars
    BY <1>9 DEF vars, server, TypeOK
  <1> QED
    BY <1>1, <1>2, <1>3, <1>4, <1>6, <1>7, <1>8, <1>9 DEF Next
-------------------------------------------------------------------------------
(* The callback of a request that did not overlap runs alone, and not while*)
(* tabs are visible.                                                       *)
LEMMA CallbackAlone ==
    ASSUME TypeOK, OneAtATime, ~overlapped, callbacks # <<>>
    PROVE  requests = {} /\ Tail(callbacks) = <<>> /\ Top.kind # "Search"
PROOF
  <1>1. callbacks \in Seq(Callbacks)
    BY DEF TypeOK, Callbacks
  <1>2. /\ Len(callbacks) \in Nat /\ Len(callbacks) > 0
        /\ Tail(callbacks) \in Seq(Callbacks)
        /\ Len(Tail(callbacks)) = Len(callbacks) - 1
    BY <1>1, Taken
  <1>3. requests = {} /\ Top.kind # "Search" /\ Len(callbacks) < 2
    BY DEF OneAtATime
  <1>4. Len(Tail(callbacks)) = 0
    BY <1>2, <1>3
  <1> QED
    BY <1>2, <1>3, <1>4, EmptySeq

LEMMA OneAtATimeNext ==
    IInv /\ [Next]_vars => OneAtATime'
PROOF
  <1> SUFFICES ASSUME IInv, [Next]_vars, ~overlapped'
               PROVE  /\ requests' # {} => callbacks' = <<>> /\ \E r : requests' = {r}
                      /\ Len(callbacks') < 2
                      /\ Top'.kind = "Search" =>
                            /\ requests' = {} /\ callbacks' = <<>>
                            /\ Top'.username = currentUser'
    BY DEF OneAtATime
  <1>i. TypeOK /\ CreateOnLogin /\ OneAtATime
    BY DEF IInv
  <1>e. Len(<<>>) = 0
    BY EmptySeq
  <1>1. CASE UNCHANGED <<requests, callbacks, screens, currentUser, overlapped>>
    BY <1>1, <1>i DEF OneAtATime, Top, Here
  <1>2. ASSUME NEW op, NEW e, NEW p, Send(op, e, p), Top.kind # "Search"
        PROVE  /\ callbacks' = <<>> /\ Len(callbacks') < 2
               /\ \E r : requests' = {r}
               /\ Top'.kind # "Search"
    <2>1. requests = {} /\ callbacks = <<>> /\ callbacks' = callbacks /\ screens' = screens
      BY <1>2 DEF Send
    <2>2. PICK r : requests' = requests \cup {r}
      BY <1>2 DEF Send
    <2>3. requests' = {r}
      BY <2>1, <2>2
    <2>4. Top'.kind # "Search"
      BY <1>2, <2>1 DEF Top, Here
    <2>5. callbacks' = <<>>
      BY <2>1
    <2>6. Len(callbacks') < 2
      BY <1>e, <2>5
    <2>7. \E x : requests' = {x}
      BY <2>3
    <2> QED
      BY <2>4, <2>5, <2>6, <2>7
  <1>3. CASE \E e \in Emails, p \in Passwords : TapLogin(e, p) \/ TapCreate(e, p)
    <2>1. PICK e \in Emails, p \in Passwords : TapLogin(e, p) \/ TapCreate(e, p)
      BY <1>3
    <2>2. CASE TapLogin(e, p)
      <3>1. Send("signIn", e, p) /\ Top.kind # "Search"
        BY <2>2 DEF TapLogin, Visible
      <3> QED
        BY <1>2, <3>1
    <2>3. CASE TapCreate(e, p)
      <3>1. Send("createUser", e, p) /\ Top.kind # "Search"
        BY <2>3 DEF TapCreate, Visible
      <3> QED
        BY <1>2, <3>1
    <2> QED
      BY <2>1, <2>2, <2>3
  <1>4. CASE \E e \in Emails : TapForget(e)
    <2>1. PICK e \in Emails, p \in Passwords : Send("sendPasswordReset", e, p)
      BY <1>4 DEF TapForget
    <2>2. Top.kind # "Search"
      BY <1>4 DEF TapForget, Visible
    <2> QED
      BY <1>2, <2>1, <2>2
  <1>5. CASE Dismiss
    BY <1>1, <1>5 DEF Dismiss, traffic
  <1>6. CASE TapCreateAccount
    <2> DEFINE s == [kind |-> "CreateAccount", username |-> NoUser]
    <2>1. Push(s) /\ s \in Screens /\ UNCHANGED <<requests, callbacks, overlapped>>
      BY <1>6 DEF TapCreateAccount, Screens, traffic
    <2>2. Top'.kind # "Search"
      BY <1>i, <2>1, Pushed
    <2> QED
      BY <1>i, <2>1, <2>2 DEF OneAtATime
  <1>7. CASE BackToLogin
    <2>1. Top'.kind # "Search"
      BY <1>i, <1>7, Left
    <2>2. /\ ~overlapped /\ requests' = {Gone(r) : r \in requests}
          /\ callbacks' = [i \in DOMAIN callbacks |->
                              [callbacks[i] EXCEPT !.request = Gone(@)]]
      BY <1>7 DEF BackToLogin
    <2>3. callbacks \in Seq(Callbacks)
      BY <1>i DEF TypeOK, Callbacks
    <2>4. /\ Len(callbacks) \in Nat /\ DOMAIN callbacks = 1 .. Len(callbacks)
          /\ DOMAIN callbacks' = 1 .. Len(callbacks)
      BY <2>2, <2>3, LenProperties
    <2>5. callbacks' \in Seq(Callbacks)
      BY <1>i, TrafficTypes
    <2>6. Len(callbacks') = Len(callbacks)
      BY <2>4, <2>5, LenProperties
    <2>7. callbacks = <<>> => callbacks' = <<>>
      BY <1>e, <2>5, <2>6, EmptySeq
    <2>8. Len(callbacks') < 2
      BY <1>i, <2>2, <2>6 DEF OneAtATime
    <2>9. requests' # {} => callbacks' = <<>> /\ \E r : requests' = {r}
      <3>1. CASE requests = {}
        BY <2>2, <3>1
      <3>2. CASE requests # {}
        <4>1. PICK r : requests = {r}
          BY <1>i, <2>2, <3>2 DEF OneAtATime
        <4>2. requests' = {Gone(r)}
          BY <2>2, <4>1
        <4> QED
          BY <1>i, <2>2, <2>7, <3>2, <4>2 DEF OneAtATime
      <3> QED
        BY <3>1, <3>2
    <2> QED
      BY <2>1, <2>8, <2>9
  <1>8. CASE Logout
    <2>1. /\ Push(LoginScreen) /\ LoginScreen \in Screens
          /\ LoginScreen.kind # "Search" /\ UNCHANGED <<requests, callbacks, overlapped>>
      BY <1>8 DEF Logout, LoginScreen, Screens, traffic
    <2>2. Top'.kind # "Search"
      BY <1>i, <2>1, Pushed
    <2> QED
      BY <1>i, <2>1, <2>2 DEF OneAtATime
  <1>9. CASE Answer
    <2>1. PICK r \in requests :
             CreateSucceeds(r) \/ SignInSucceeds(r) \/ ResetSucceeds(r) \/ Fails(r)
      BY <1>9 DEF Answer
    <2>2. /\ ~overlapped /\ UNCHANGED screens /\ requests' = requests \ {r}
          /\ callbacks' = callbacks \/ \E ok \in BOOLEAN : Answered(r, ok)
      BY <2>1 DEF CreateSucceeds, SignInSucceeds, ResetSucceeds, Fails, Answered
    <2>3. requests = {r} /\ callbacks = <<>> /\ Top.kind # "Search"
      BY <1>i, <2>2 DEF OneAtATime
    <2>4. requests' = {} /\ Top'.kind # "Search"
      BY <2>2, <2>3 DEF Top, Here
    <2>5. Len(callbacks') < 2
      <3>1. CASE callbacks' = callbacks
        BY <1>e, <2>3, <3>1
      <3>2. ASSUME NEW ok \in BOOLEAN, Answered(r, ok)
            PROVE  Len(callbacks') < 2
        <4>1. Len(callbacks') = Len(callbacks) + 1
          BY <1>i, <3>2, AnswerTypes
        <4> QED
          BY <1>e, <2>3, <4>1
      <3> QED
        BY <2>2, <3>1, <3>2
    <2> QED
      BY <2>4, <2>5
  <1>10. CASE Callback
    <2>1. /\ ~overlapped /\ callbacks # <<>> /\ callbacks' = Tail(callbacks)
          /\ UNCHANGED <<requests, currentUser>>
      BY <1>10 DEF Callback
    <2>2. requests' = {} /\ callbacks' = <<>> /\ Top.kind # "Search"
      BY <1>i, <2>1, CallbackAlone
    <2>3. UNCHANGED screens \/ Push(Tabs)
      BY <1>10 DEF Callback, LoadHomeScreen
    <2>4. Tabs \in Screens /\ Tabs.username = currentUser
      BY <1>i DEF Tabs, Screens, TypeOK
    <2>5. Top'.kind = "Search" => Top'.username = currentUser'
      <3>1. CASE UNCHANGED screens
        BY <2>2, <3>1 DEF Top, Here
      <3>2. CASE Push(Tabs)
        BY <1>i, <2>1, <2>4, <3>2, Pushed
      <3> QED
        BY <2>3, <3>1, <3>2
    <2> QED
      BY <1>e, <2>2, <2>5
  <1>11. CASE Trap \/ Killed
    BY <1>e, <1>i, <1>11, Dead DEF Trap, Killed
  <1>12. CASE UNCHANGED vars
    BY <1>1, <1>12 DEF vars, traffic
  <1> QED
    BY <1>3, <1>4, <1>5, <1>6, <1>7, <1>8, <1>9, <1>10, <1>11, <1>12 DEF Next
-------------------------------------------------------------------------------
(* The inductive invariant.                                                *)
LEMMA IInvInit == Init => IInv
PROOF
  <1> SUFFICES ASSUME Init PROVE IInv
    OBVIOUS
  <1>1. LoginScreen \in Screens /\ LoginScreen.kind = "Login"
    BY DEF LoginScreen, Screens
  <1>2. /\ screens \in Seq(Screens) /\ Len(screens) = 1
        /\ DOMAIN screens = 1 .. 1 /\ screens[1] = LoginScreen
    BY <1>1 DEF Init
  <1>3. callbacks \in Seq([request : Requests, ok : BOOLEAN]) /\ Len(callbacks) = 0
    BY EmptySeq DEF Init
  <1>4. /\ accounts \in [Emails -> Passwords \cup {NoPassword}]
        /\ userDocs \subseteq Emails
    BY SessionAssumption DEF Init
  <1>5. TypeOK
    <2>1. /\ requests = {} /\ sent = 0 /\ mailed = {} /\ created = {}
          /\ currentUser = NoUser /\ alert = NoAlert /\ overlapped = FALSE
      BY DEF Init
    <2>2. sent \in 0 .. MaxRequests /\ Len(screens) \in 1 .. MaxScreens
      BY <1>2, <2>1, SessionAssumption
    <2> QED
      BY <1>2, <1>3, <1>4, <2>1, <2>2 DEF TypeOK
  <1>6. Top = LoginScreen
    BY <1>2 DEF Top, Here
  <1>7. CreateOnLogin /\ OneAtATime
    BY <1>1, <1>2, <1>3, <1>6 DEF Init, CreateOnLogin, OneAtATime
  <1> QED
    BY <1>5, <1>7 DEF IInv

LEMMA IInvNext == IInv /\ [Next]_vars => IInv'
PROOF
  <1> SUFFICES ASSUME IInv, [Next]_vars PROVE IInv'
    OBVIOUS
  <1>1. TypeOK /\ CreateOnLogin
    BY DEF IInv
  <1>2. /\ screens' \in Seq(Screens) /\ Len(screens') \in 1 .. MaxScreens
        /\ CreateOnLogin'
    BY <1>1, ScreensNext
  <1>3. /\ requests' \subseteq Requests /\ sent' \in 0 .. MaxRequests
        /\ callbacks' \in Seq([request : Requests, ok : BOOLEAN])
    BY <1>1, TrafficTypes DEF Callbacks
  <1>4. /\ accounts' \in [Emails -> Passwords \cup {NoPassword}]
        /\ userDocs' \subseteq Emails /\ mailed' \subseteq Emails
        /\ created' \subseteq Emails
        /\ currentUser' \in Emails \cup {NoUser}
        /\ alert' \in Alerts \cup {NoAlert}
        /\ overlapped' \in BOOLEAN
    BY <1>1, OtherTypes
  <1>5. TypeOK'
    BY <1>2, <1>3, <1>4 DEF TypeOK
  <1> QED
    BY <1>2, <1>5, OneAtATimeNext DEF IInv

LEMMA IInvHolds == Spec => []IInv
PROOF
  BY IInvInit, IInvNext, PTL DEF Spec

(* Type correctness of Session.                                            *)
THEOREM SessionTypeCorrect == Spec => []TypeOK
PROOF
  <1>1. IInv => TypeOK
    BY DEF IInv
  <1> QED
    BY <1>1, IInvHolds, PTL

(* As long as no two requests are under way at once, the user whose name   *)
(* the visible tabs took when they were made is the one signed in.         *)
THEOREM TabsAreTheCurrentUsers == Spec => []TabsAreCurrentUsers
PROOF
  <1>1. IInv => TabsAreCurrentUsers
    BY DEF IInv, OneAtATime, TabsAreCurrentUsers
  <1> QED
    BY <1>1, IInvHolds, PTL
-------------------------------------------------------------------------------
(* The documents of new accounts.                                          *)

(* The callback that will write the user's document waits.                 *)
Waiting(e) ==
    \E i \in DOMAIN callbacks :
        /\ callbacks[i].ok
        /\ callbacks[i].request.op = "createUser"
        /\ callbacks[i].request.email = e

LEMMA WaitingBack ==
    ASSUME TypeOK, BackToLogin, NEW e, Waiting(e)
    PROVE  Waiting(e)'
PROOF
  <1>1. /\ callbacks' = [i \in DOMAIN callbacks |->
                            [callbacks[i] EXCEPT !.request = Gone(@)]]
        /\ callbacks \in Seq(Callbacks)
    BY DEF BackToLogin, TypeOK, Callbacks
  <1>2. PICK i \in DOMAIN callbacks :
           /\ callbacks[i].ok
           /\ callbacks[i].request.op = "createUser"
           /\ callbacks[i].request.email = e
    BY DEF Waiting
  <1>3. callbacks[i] \in Callbacks
    BY <1>1, ElementOfSeq, LenProperties
  <1>4. callbacks[i].request \in Requests
    BY <1>3 DEF Callbacks
  <1>5. /\ Gone(callbacks[i].request).op = "createUser"
        /\ Gone(callbacks[i].request).email = e
    BY <1>2, <1>4 DEF Gone, Requests
  <1>6. /\ callbacks'[i].ok = callbacks[i].ok
        /\ callbacks'[i].request = Gone(callbacks[i].request)
    BY <1>1, <1>3 DEF Callbacks
  <1>7. i \in DOMAIN callbacks'
    BY <1>1
  <1> QED
    BY <1>2, <1>5, <1>6, <1>7 DEF Waiting

LEMMA WaitingAnswered ==
    ASSUME TypeOK, NEW r \in requests, NEW ok \in BOOLEAN, Answered(r, ok)
    PROVE  /\ \A e : Waiting(e) => Waiting(e)'
           /\ ok /\ r.op = "createUser" => Waiting(r.email)'
PROOF
  <1> DEFINE c == [request |-> r, ok |-> ok]
             n == Len(callbacks)
  <1>1. c \in Callbacks /\ callbacks \in Seq(Callbacks) /\ c.ok = ok /\ c.request = r
    BY DEF TypeOK, Callbacks
  <1>2. callbacks' = Append(callbacks, c)
    BY DEF Answered
  <1> HIDE DEF c
  <1>3. /\ n \in Nat /\ DOMAIN callbacks = 1 .. n
        /\ DOMAIN callbacks' = 1 .. (n + 1)
        /\ \A i \in 1 .. n : callbacks'[i] = callbacks[i]
        /\ callbacks'[n + 1] = c
    BY <1>1, <1>2, Appended
  <1> HIDE DEF n
  <1>4. 1 .. n \subseteq 1 .. (n + 1) /\ n + 1 \in 1 .. (n + 1)
    BY <1>3
  <1> QED
    BY <1>1, <1>3, <1>4 DEF Waiting

LEMMA WaitingRun ==
    ASSUME TypeOK, callbacks # <<>>, callbacks' = Tail(callbacks),
           NEW e, Waiting(e)
    PROVE  \/ Waiting(e)'
           \/ /\ Head(callbacks).ok
              /\ Head(callbacks).request.op = "createUser"
              /\ Head(callbacks).request.email = e
PROOF
  <1> DEFINE n == Len(callbacks)
  <1>1. callbacks \in Seq(Callbacks)
    BY DEF TypeOK, Callbacks
  <1>2. /\ n \in Nat /\ n > 0 /\ DOMAIN callbacks = 1 .. n
        /\ DOMAIN callbacks' = 1 .. (n - 1)
        /\ \A i \in 1 .. (n - 1) : callbacks'[i] = callbacks[i + 1]
        /\ Head(callbacks) = callbacks[1]
    BY <1>1, Taken
  <1> HIDE DEF n
  <1>3. PICK i \in 1 .. n : /\ callbacks[i].ok
                            /\ callbacks[i].request.op = "createUser"
                            /\ callbacks[i].request.email = e
    BY <1>2 DEF Waiting
  <1>4. CASE i = 1
    BY <1>2, <1>3, <1>4
  <1>5. CASE i # 1
    <2>1. i - 1 \in 1 .. (n - 1) /\ (i - 1) + 1 = i
      BY <1>2, <1>5
    <2>2. callbacks'[i - 1] = callbacks[i]
      BY <1>2, <2>1
    <2> QED
      BY <1>2, <1>3, <2>1, <2>2 DEF Waiting
  <1> QED
    BY <1>4, <1>5

LEMMA AccountsNext ==
    TypeOK /\ AccountsGetDocuments /\ [Next]_vars => AccountsGetDocuments'
PROOF
  <1> SUFFICES ASSUME TypeOK, \A e \in created : e \in userDocs \/ Waiting(e),
                      [Next]_vars, NEW e \in created'
               PROVE  e \in userDocs' \/ Waiting(e)'
    BY DEF AccountsGetDocuments, Waiting
  <1>1. CASE UNCHANGED <<userDocs, callbacks, created>>
    BY <1>1 DEF Waiting
  <1>2. CASE (\E f \in Emails, p \in Passwords : TapLogin(f, p) \/ TapCreate(f, p))
                \/ \E f \in Emails : TapForget(f)
    BY <1>1, <1>2 DEF TapLogin, TapCreate, TapForget, Send, server
  <1>3. CASE Dismiss \/ TapCreateAccount \/ Logout \/ UNCHANGED vars
    BY <1>1, <1>3 DEF Dismiss, TapCreateAccount, Logout, server, traffic, vars
  <1>4. CASE BackToLogin
    <2>1. UNCHANGED <<userDocs, created>>
      BY <1>4 DEF BackToLogin, server
    <2> QED
      BY <1>4, <2>1, WaitingBack
  <1>5. CASE Answer
    <2>1. PICK r \in requests :
             CreateSucceeds(r) \/ SignInSucceeds(r) \/ ResetSucceeds(r) \/ Fails(r)
      BY <1>5 DEF Answer
    <2>2. CASE CreateSucceeds(r)
      <3>1. /\ Answered(r, TRUE) /\ created' = created \cup {r.email}
            /\ r.op = "createUser" /\ userDocs' = userDocs
        BY <2>2 DEF CreateSucceeds, Answered
      <3> QED
        BY <3>1, WaitingAnswered
    <2>3. CASE SignInSucceeds(r)
      <3>1. Answered(r, TRUE) /\ UNCHANGED <<created, userDocs>>
        BY <2>3 DEF SignInSucceeds, Answered
      <3> QED
        BY <3>1, WaitingAnswered
    <2>4. CASE ResetSucceeds(r)
      BY <1>1, <2>4 DEF ResetSucceeds
    <2>5. CASE Fails(r)
      <3>1. UNCHANGED <<created, userDocs>> /\ (UNCHANGED callbacks \/ Answered(r, FALSE))
        BY <2>5 DEF Fails, Answered
      <3> QED
        BY <1>1, <3>1, WaitingAnswered
    <2> QED
      BY <2>1, <2>2, <2>3, <2>4, <2>5
  <1>6. CASE Callback
    <2> DEFINE r == Head(callbacks).request
    <2>1. /\ callbacks # <<>> /\ callbacks' = Tail(callbacks) /\ created' = created
          /\ userDocs \subseteq userDocs'
          /\ Head(callbacks).ok /\ r.op = "createUser" => r.email \in userDocs'
      BY <1>6 DEF Callback, WriteUserDoc
    <2> QED
      BY <2>1, WaitingRun
  <1>7. CASE Trap \/ Killed
    BY <1>7 DEF Trap, Killed, Die
  <1> QED
    BY <1>2, <1>3, <1>4, <1>5, <1>6, <1>7 DEF Next

(* As long as the app lives, an account it created has its document in     *)
(* /Users/, or the callback that writes it is still to run, whatever       *)
(* screens were left and whoever else signed in meanwhile.                 *)
THEOREM AccountsGetTheirDocuments == Spec => []AccountsGetDocuments
PROOF
  <1>1. Init => AccountsGetDocuments
    BY DEF Init, AccountsGetDocuments
  <1>2. IInv /\ AccountsGetDocuments /\ [Next]_vars => AccountsGetDocuments'
    BY AccountsNext DEF IInv
  <1> QED
    BY <1>1, <1>2, IInvHolds, PTL DEF Spec
===============================================================================
