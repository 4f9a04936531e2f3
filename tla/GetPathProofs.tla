----------------------------- MODULE GetPathProofs ----------------------------
(***************************************************************************)
(* Proofs about the gets of the Firestore client, for any number of calls, *)
(* queries, failures and events waiting: each call is answered at most     *)
(* once, from the cache only while the client counts as offline, listeners *)
(* do not pile up, and the watch stream is up exactly when it is needed.   *)
(***************************************************************************)
EXTENDS GetPath, TLAPS, SequenceTheorems

(* The call's listener is still to be added.                               *)
Waits(g) == \E i \in DOMAIN worker_queue : worker_queue[i] = Add(g)

(* A call adds its listener once, before anything else happens to it, and  *)
(* nothing happens to a call that was not made.                            *)
Untouched(g) ==
    /\ g \notin listening /\ g \notin raised /\ g \notin muted
    /\ events[g] = <<>> /\ answers[g] = <<>>

AddedOnce(g) ==
    \A i, j \in DOMAIN worker_queue :
        (worker_queue[i] = Add(g) /\ worker_queue[j] = Add(g)) => i = j

AddsAreNew ==
    \A g \in Gets :
        /\ g \notin asked => ~Waits(g)
        /\ (g \notin asked \/ Waits(g)) => Untouched(g)
        /\ AddedOnce(g)

(* An error is the last event of its listener, which is gone.              *)
ErrorsAreLast ==
    \A g \in Gets : \A i \in DOMAIN events[g] :
        events[g][i] = "error" => i = Len(events[g]) /\ g \notin listening

(* A call that was answered hears of nothing more: its listener is muted,  *)
(* or was rejected and has no events left.                                 *)
Over(g) == g \in muted \/ (g \notin listening /\ events[g] = <<>>)

AnsweredIsOver == \A g \in Gets : answers[g] # <<>> => Over(g)

(* While the client counts as offline, an attempt to connect is under way, *)
(* no view is current, and every listener has been shown its view.         *)
OfflineShown ==
    tracker.state = "Offline" =>
        /\ IsStarted
        /\ listening \subseteq raised
        /\ \A q \in Queries : ~view[q].current

IInv ==
    /\ TypeOK
    /\ TrackerAsserts /\ StreamAsNeeded
    /\ OfflineShown
    /\ AddsAreNew /\ ErrorsAreLast /\ AnsweredIsOver
    /\ ListenersReleased
-------------------------------------------------------------------------------
(* The worker queue with a task at its end, and without its oldest.        *)
Tasks == [task : {"add", "remove"}, get : Gets]

LEMMA TaskAppended ==
    ASSUME NEW q \in Seq(Tasks), NEW t \in Tasks
    PROVE  /\ Append(q, t) \in Seq(Tasks)
           /\ Len(q) \in Nat
           /\ DOMAIN q = 1 .. Len(q)
           /\ DOMAIN Append(q, t) = 1 .. (Len(q) + 1)
           /\ \A i \in 1 .. Len(q) : Append(q, t)[i] = q[i]
           /\ Append(q, t)[Len(q) + 1] = t
PROOF
  BY AppendProperties, LenProperties

LEMMA TaskTaken ==
    ASSUME NEW q \in Seq(Tasks), q # <<>>
    PROVE  /\ Tail(q) \in Seq(Tasks)
           /\ Len(q) \in Nat /\ Len(q) > 0
           /\ DOMAIN q = 1 .. Len(q)
           /\ DOMAIN Tail(q) = 1 .. (Len(q) - 1)
           /\ \A i \in 1 .. (Len(q) - 1) : Tail(q)[i] = q[i + 1]
           /\ Head(q) = q[1] /\ Head(q) \in Tasks
PROOF
  BY HeadTailProperties, LenProperties, EmptySeq

(* The two kinds of tasks.                                                 *)
LEMMA TaskKinds ==
    /\ \A g \in Gets : Add(g) \in Tasks /\ Remove(g) \in Tasks
    /\ \A g, h \in Gets : Add(g) # Remove(h) /\ (Add(g) = Add(h) => g = h)
                             /\ (Remove(g) = Remove(h) => g = h)
    /\ \A t \in Tasks : /\ t.get \in Gets
                        /\ t.task = "add" => t = Add(t.get)
                        /\ t.task = "remove" => t = Remove(t.get)
PROOF
  BY DEF Tasks, Add, Remove

(* The events of a listener with one more, and without the first.          *)
LEMMA EventAppended ==
    ASSUME NEW s \in Seq(Outcomes), NEW e \in Outcomes
    PROVE  /\ Append(s, e) \in Seq(Outcomes)
           /\ Len(s) \in Nat
           /\ DOMAIN s = 1 .. Len(s)
           /\ Len(Append(s, e)) = Len(s) + 1
           /\ DOMAIN Append(s, e) = 1 .. (Len(s) + 1)
           /\ Append(s, e) # <<>>
           /\ \A i \in 1 .. Len(s) : Append(s, e)[i] = s[i]
           /\ Append(s, e)[Len(s) + 1] = e
PROOF
  BY AppendProperties, LenProperties, EmptySeq

LEMMA EventTaken ==
    ASSUME NEW s \in Seq(Outcomes), s # <<>>
    PROVE  /\ Tail(s) \in Seq(Outcomes)
           /\ Len(s) \in Nat /\ Len(s) > 0
           /\ DOMAIN s = 1 .. Len(s)
           /\ Len(Tail(s)) = Len(s) - 1
           /\ DOMAIN Tail(s) = 1 .. (Len(s) - 1)
           /\ \A i \in 1 .. (Len(s) - 1) : Tail(s)[i] = s[i + 1]
           /\ Head(s) = s[1] /\ Head(s) \in Outcomes
PROOF
  BY HeadTailProperties, LenProperties, EmptySeq
-------------------------------------------------------------------------------
(* What a step does to the listeners' events: a snapshot for those in gets.*)
Posted(gets) ==
    /\ \E kind \in [Gets -> {"server", "cache"}] :
          events' = [g \in Gets |-> IF g \in gets THEN Append(events[g], kind[g])
                                                  ELSE events[g]]
    /\ raised' = raised \cup gets

(* A step that only raises events, at most of listeners that are there.    *)
Quiet ==
    /\ UNCHANGED <<appVars, worker_queue, listening>>
    /\ \E gets \in SUBSET listening : Posted(gets)

LEMMA PostPosts ==
    ASSUME TypeOK, NEW gets \in SUBSET Gets, NEW v, Post(gets, v)
    PROVE  Posted(gets)
PROOF
  <1> DEFINE kind == [g \in Gets |-> IF FromCache(v[QueryOf[g]]) THEN "cache"
                                                                 ELSE "server"]
  <1>1. kind \in [Gets -> {"server", "cache"}]
    OBVIOUS
  <1>2. events' = [g \in Gets |-> IF g \in gets THEN Append(events[g], kind[g])
                                                ELSE events[g]]
    BY DEF Post
  <1> QED
    BY <1>1, <1>2 DEF Post, Posted

LEMMA NothingPosted ==
    ASSUME TypeOK, UNCHANGED <<events, raised>>
    PROVE  \E gets \in SUBSET listening : Posted(gets)
PROOF
  <1>1. [g \in Gets |-> "cache"] \in [Gets -> {"server", "cache"}]
    OBVIOUS
  <1>2. events' = [g \in Gets |-> IF g \in {} THEN Append(events[g], "cache")
                                               ELSE events[g]]
    BY DEF TypeOK
  <1>3. Posted({})
    BY <1>1, <1>2 DEF Posted
  <1> QED
    BY <1>3

LEMMA ShowPosts ==
    ASSUME TypeOK, NEW v, NEW changed, NEW s, Show(v, changed, s)
    PROVE  \E gets \in SUBSET listening : Posted(gets)
PROOF
  <1> DEFINE gets == {g \in listening :
               LET q == QueryOf[g]
               IN  IF g \in raised
                     THEN q \in changed \/ FromCache(v[q]) # FromCache(view[q])
                     ELSE ShouldRaiseInitialEvent(v[q], s)}
  <1>1. Post(gets, v)
    BY DEF Show
  <1>2. gets \in SUBSET listening /\ gets \in SUBSET Gets
    BY DEF TypeOK
  <1> QED
    BY <1>1, <1>2, PostPosts

LEMMA BroadcastPosts ==
    ASSUME TypeOK, NEW t, Broadcast(t)
    PROVE  \E gets \in SUBSET listening : Posted(gets)
PROOF
  BY ShowPosts, NothingPosted DEF Broadcast

(* Every step is one of the app's, a task, a rejection, or only raises     *)
(* events.                                                                 *)
LEMMA StepKinds ==
    ASSUME TypeOK, [Next]_vars
    PROVE  \/ \E g \in Gets : GetDocuments(g) \/ OnEvent(g)
           \/ AddQueryListener \/ RemoveQueryListener
           \/ \E q \in Queries : WatchError(q)
           \/ Quiet
PROOF
  <1>1. CASE UNCHANGED vars
    BY <1>1, NothingPosted DEF vars, Quiet, appVars, viewVars
  <1>2. CASE OpenWatchStream \/ BackoffElapsed \/ OtherMessage
    BY <1>2, NothingPosted
       DEF OpenWatchStream, BackoffElapsed, OtherMessage, Message, Quiet, viewVars
  <1>3. CASE FailWatchStream
    BY <1>3, BroadcastPosts DEF FailWatchStream, Quiet
  <1>4. CASE IdleTimeout
    BY <1>4, BroadcastPosts DEF IdleTimeout, Quiet
  <1>5. CASE OnlineStateTimeout
    BY <1>5, BroadcastPosts DEF OnlineStateTimeout, Quiet
  <1>6. CASE \E q \in Queries : LocalChange(q)
    BY <1>6, ShowPosts DEF LocalChange, Quiet
  <1>7. CASE \E q \in Queries : WatchSnapshot(q) \/ WatchReset(q) \/ ResolveLimbo(q)
    BY <1>7, ShowPosts DEF WatchSnapshot, WatchReset, ResolveLimbo, Message, Quiet
  <1>8. CASE \E changed \in SUBSET Queries : HandleCredentialChange(changed)
    BY <1>8, ShowPosts DEF HandleCredentialChange, Quiet
  <1> QED
    BY <1>1, <1>2, <1>3, <1>4, <1>5, <1>6, <1>7, <1>8 DEF Next, RunTask, Attempt
-------------------------------------------------------------------------------
(* The online state tracker.                                               *)
Trackers == [state : {"Unknown", "Online", "Offline"},
             failures : 0 .. MaxWatchStreamFailures, timer : BOOLEAN]

LEMMA TrackerUpdated ==
    ASSUME NEW t \in Trackers, NEW s \in {"Unknown", "Online", "Offline"}
    PROVE  /\ UpdateState(t, s) \in Trackers
           /\ UpdateState(t, s).state = s
           /\ UpdateState(t, s).failures = 0
           /\ UpdateState(t, s).timer = FALSE
PROOF
  BY GetPathAssumption DEF UpdateState, Trackers

LEMMA TrackerStarted ==
    ASSUME NEW t \in Trackers
    PROVE  LET n == HandleWatchStreamStart(t)
           IN  /\ n \in Trackers
               /\ t.failures # 0 => n = t
               /\ t.failures = 0 => /\ n.state = "Unknown"
                                    /\ n.failures = 0 /\ n.timer = TRUE
PROOF
  BY GetPathAssumption DEF HandleWatchStreamStart, Trackers

LEMMA TrackerFailed ==
    ASSUME NEW t \in Trackers
    PROVE  LET n == HandleWatchStreamFailure(t)
           IN  /\ n \in Trackers
               /\ n.state # "Online"
               /\ t.state = "Online" => /\ n.state = "Unknown"
                                        /\ n.failures = t.failures
                                        /\ n.timer = t.timer
               /\ t.state # "Online" => n.failures # 0
               /\ n.timer => t.timer /\ (t.state # "Online" => n.state = t.state)
PROOF
  BY GetPathAssumption DEF HandleWatchStreamFailure, Trackers

LEMMA TrackerTimedOut ==
    ASSUME NEW t \in Trackers
    PROVE  LET n == [t EXCEPT !.state = "Offline", !.timer = FALSE]
           IN  n \in Trackers /\ n.state = "Offline" /\ n.timer = FALSE
PROOF
  BY DEF Trackers

(* The tracker's assertions hold and the watch stream is up when needed,   *)
(* after every step.                                                       *)
LEMMA NetworkNext ==
    TypeOK /\ TrackerAsserts /\ StreamAsNeeded /\ [Next]_vars
        => TrackerAsserts' /\ StreamAsNeeded'
PROOF
  <1> SUFFICES ASSUME TypeOK, TrackerAsserts, StreamAsNeeded, [Next]_vars
               PROVE  TrackerAsserts' /\ StreamAsNeeded'
    OBVIOUS
  <1>t. tracker \in Trackers
    BY DEF TypeOK, Trackers
  <1>1. CASE UNCHANGED <<listening, netVars>>
    BY <1>1 DEF TrackerAsserts, StreamAsNeeded, IsStarted, netVars
  <1>2. CASE (\E g \in Gets : GetDocuments(g) \/ OnEvent(g))
                \/ \E q \in Queries : LocalChange(q)
    BY <1>1, <1>2 DEF GetDocuments, OnEvent, LocalChange, viewVars
  <1>3. CASE AddQueryListener
    <2> DEFINE g == Head(worker_queue).get
               first == QueryOf[g] \notin Listened(listening)
    <2>1. /\ listening' = listening \cup {g}
          /\ IF first /\ ~IsStarted
               THEN /\ watch' = Started(watch)
                    /\ tracker' = HandleWatchStreamStart(tracker)
               ELSE UNCHANGED <<watch, tracker>>
          /\ idleness_timer' = CancelIdleCheck(first)
      BY <1>3 DEF AddQueryListener
    <2>2. ~first => listening # {}
      BY DEF Listened
    <2>3. IsStarted'
      BY <2>1, <2>2 DEF IsStarted, Started, StreamAsNeeded
    <2>4. ~idleness_timer'
      BY <2>1, <2>2 DEF CancelIdleCheck, StreamAsNeeded
    <2>5. TrackerAsserts'
      <3>1. CASE first /\ ~IsStarted
        BY <1>t, <2>1, <2>3, <3>1, TrackerStarted DEF TrackerAsserts
      <3>2. CASE ~(first /\ ~IsStarted)
        BY <2>1, <2>3, <3>2 DEF TrackerAsserts
      <3> QED
        BY <3>1, <3>2
    <2> QED
      BY <2>3, <2>4, <2>5 DEF StreamAsNeeded
  <1>4. CASE RemoveQueryListener
    BY <1>t, <1>4, TrackerUpdated
       DEF RemoveQueryListener, TrackerAsserts, StreamAsNeeded, IsStarted
  <1>5. CASE OpenWatchStream \/ BackoffElapsed
    BY <1>5 DEF OpenWatchStream, BackoffElapsed, viewVars, TrackerAsserts,
                StreamAsNeeded, IsStarted
  <1>6. CASE FailWatchStream
    <2>1. CASE listening # {}
      <3> DEFINE n == HandleWatchStreamFailure(tracker)
                 m == HandleWatchStreamStart(n)
      <3>1. watch' = "Backoff" /\ tracker' = m /\ ~idleness_timer' /\ listening' = listening
        BY <1>6, <2>1 DEF FailWatchStream, Broadcast, Started
      <3>2. /\ n \in Trackers
            /\ n.state # "Online"
            /\ n.timer => n.state = "Unknown"
        BY <1>t, TrackerFailed DEF TrackerAsserts
      <3> HIDE DEF n
      <3>3. (m.timer => m.state = "Unknown") /\ m.state # "Online"
        <4>1. CASE n.failures = 0
          BY <3>2, <4>1, TrackerStarted
        <4>2. CASE n.failures # 0
          BY <3>2, <4>2, TrackerStarted
        <4> QED
          BY <4>1, <4>2
      <3> HIDE DEF m
      <3> QED
        BY <3>1, <3>3 DEF TrackerAsserts, StreamAsNeeded, IsStarted
    <2>2. CASE listening = {}
      <3>1. /\ tracker' = UpdateState(tracker, "Unknown")
            /\ ~idleness_timer' /\ listening' = {}
        BY <1>6, <2>2 DEF FailWatchStream, Broadcast
      <3> QED
        BY <1>t, <3>1, TrackerUpdated DEF TrackerAsserts, StreamAsNeeded
    <2> QED
      BY <2>1, <2>2
  <1>7. CASE IdleTimeout
    <2>1. /\ tracker' = UpdateState(tracker, "Unknown")
          /\ ~idleness_timer' /\ listening' = {}
      BY <1>7 DEF IdleTimeout, Broadcast, StreamAsNeeded
    <2> QED
      BY <1>t, <2>1, TrackerUpdated DEF TrackerAsserts, StreamAsNeeded
  <1>8. CASE OnlineStateTimeout
    <2>1. /\ tracker' = [tracker EXCEPT !.state = "Offline", !.timer = FALSE]
          /\ UNCHANGED <<listening, watch, idleness_timer>>
      BY <1>8 DEF OnlineStateTimeout, Broadcast
    <2> QED
      BY <1>t, <2>1, TrackerTimedOut DEF TrackerAsserts, StreamAsNeeded, IsStarted
  <1>9. CASE Message /\ UNCHANGED listening
    <2>1. /\ tracker' = UpdateState(tracker, "Online")
          /\ UNCHANGED <<listening, watch, idleness_timer>>
      BY <1>9 DEF Message
    <2> QED
      BY <1>t, <2>1, TrackerUpdated DEF TrackerAsserts, StreamAsNeeded, IsStarted
  <1>10. ASSUME NEW q \in Queries, WatchError(q)
         PROVE  TrackerAsserts' /\ StreamAsNeeded'
    <2>1. /\ tracker' = UpdateState(tracker, "Online")
          /\ watch' = "Open" /\ listening' \subseteq listening
          /\ idleness_timer' => idleness_timer \/ listening' = {}
      BY <1>10 DEF WatchError
    <2> QED
      BY <1>t, <2>1, TrackerUpdated DEF TrackerAsserts, StreamAsNeeded, IsStarted
  <1>11. ASSUME NEW changed \in SUBSET Queries, HandleCredentialChange(changed)
         PROVE  TrackerAsserts' /\ StreamAsNeeded'
    <2> DEFINE t == UpdateState(tracker, "Unknown")
    <2>1. /\ ~idleness_timer' /\ listening' = listening
          /\ listening # {} => /\ watch' = "Starting"
                               /\ tracker' = HandleWatchStreamStart(t)
          /\ listening = {} => tracker' = t
      BY <1>11 DEF HandleCredentialChange
    <2>2. t \in Trackers /\ t.failures = 0 /\ ~t.timer /\ t.state = "Unknown"
      BY <1>t, TrackerUpdated
    <2> HIDE DEF t
    <2> QED
      BY <2>1, <2>2, TrackerStarted DEF TrackerAsserts, StreamAsNeeded, IsStarted
  <1>12. CASE UNCHANGED vars
    BY <1>1, <1>12 DEF vars, viewVars
  <1>13. CASE \E q \in Queries : WatchSnapshot(q) \/ WatchReset(q) \/ ResolveLimbo(q)
    BY <1>9, <1>13 DEF WatchSnapshot, WatchReset, ResolveLimbo
  <1>14. CASE OtherMessage
    BY <1>9, <1>14 DEF OtherMessage, viewVars
  <1> QED
    BY <1>2, <1>3, <1>4, <1>5, <1>6, <1>7, <1>8, <1>10, <1>11, <1>12, <1>13, <1>14
       DEF Next, RunTask, Attempt
-------------------------------------------------------------------------------
(* Views.                                                                  *)
AllViews == [Queries -> [current : BOOLEAN, limbo : BOOLEAN]]

LEMMA ViewsAre ==
    ASSUME view \in AllViews, NEW q \in Queries, NEW c \in BOOLEAN,
           NEW v \in Views(q, c)
    PROVE  /\ v \in AllViews
           /\ v[q].current = c
           /\ \A p \in Queries : p # q => v[p] = view[p]
PROOF
  <1>1. PICK l \in BOOLEAN : v = [view EXCEPT ![q] = [current |-> c, limbo |-> l]]
    BY DEF Views, AllViews
  <1> QED
    BY <1>1 DEF AllViews

LEMMA ViewsOfAre ==
    ASSUME view \in AllViews, NEW gets
    PROVE  /\ ViewsOf(gets) \in AllViews
           /\ \A q \in Queries : ViewsOf(gets)[q].current => view[q].current
PROOF
  BY DEF ViewsOf, NewView, AllViews

LEMMA ViewsWhenAre ==
    ASSUME view \in AllViews, NEW s
    PROVE  /\ ViewsWhen(s) \in AllViews
           /\ s = "Offline" => \A q \in Queries : ~ViewsWhen(s)[q].current
PROOF
  BY DEF ViewsWhen, AllViews

(* After a change of credentials views are as current as before.           *)
LEMMA ViewsChanged ==
    ASSUME view \in AllViews, NEW changed \in SUBSET Queries,
           NEW v \in AllViews,
           \A q \in Queries : v[q] \in IF q \in changed
                                THEN {w[q] : w \in Views(q, view[q].current)}
                                ELSE {view[q]}
    PROVE  \A q \in Queries : v[q].current = view[q].current
PROOF
  <1> TAKE q \in Queries
  <1>1. CASE q \in changed
    <2>1. PICK w \in Views(q, view[q].current) : v[q] = w[q]
      BY <1>1
    <2>2. view[q].current \in BOOLEAN
      BY DEF AllViews
    <2> QED
      BY <2>1, <2>2, ViewsAre
  <1>2. CASE q \notin changed
    BY <1>2
  <1> QED
    BY <1>1, <1>2
-------------------------------------------------------------------------------
(* Types.                                                                  *)
LEMMA PostedTypes ==
    ASSUME TypeOK, NEW gets \in SUBSET asked, Posted(gets)
    PROVE  /\ events' \in [Gets -> Seq(Outcomes)]
           /\ raised' \subseteq asked
PROOF
  <1>1. PICK kind \in [Gets -> {"server", "cache"}] :
          events' = [g \in Gets |-> IF g \in gets THEN Append(events[g], kind[g])
                                                  ELSE events[g]]
    BY DEF Posted
  <1>2. ASSUME NEW g \in Gets
        PROVE  Append(events[g], kind[g]) \in Seq(Outcomes)
    <2>1. kind[g] \in Outcomes
      BY <1>1 DEF Outcomes
    <2> QED
      BY <2>1, EventAppended DEF TypeOK
  <1> QED
    BY <1>1, <1>2 DEF TypeOK, Posted

LEMMA AppTypes ==
    TypeOK /\ AddsAreNew /\ [Next]_vars =>
        /\ asked' \subseteq Gets
        /\ worker_queue' \in Seq(Tasks)
        /\ events' \in [Gets -> Seq(Outcomes)]
        /\ muted' \subseteq asked' /\ answers' \in [Gets -> Seq(Outcomes)]
        /\ listening' \subseteq asked' /\ raised' \subseteq asked'
PROOF
  <1> SUFFICES ASSUME TypeOK, AddsAreNew, [Next]_vars
               PROVE  /\ asked' \subseteq Gets
                      /\ worker_queue' \in Seq(Tasks)
                      /\ events' \in [Gets -> Seq(Outcomes)]
                      /\ muted' \subseteq asked' /\ answers' \in [Gets -> Seq(Outcomes)]
                      /\ listening' \subseteq asked' /\ raised' \subseteq asked'
    OBVIOUS
  <1>q. worker_queue \in Seq(Tasks)
    BY DEF TypeOK, Tasks
  <1>1. CASE \E g \in Gets : GetDocuments(g)
    <2>1. PICK g \in Gets : GetDocuments(g)
      BY <1>1
    <2>2. worker_queue' \in Seq(Tasks)
      BY <1>q, <2>1, TaskKinds, TaskAppended DEF GetDocuments
    <2> QED
      BY <2>1, <2>2 DEF GetDocuments, TypeOK, viewVars
  <1>2. CASE \E g \in Gets : OnEvent(g)
    <2>1. PICK g \in Gets : OnEvent(g)
      BY <1>2
    <2>2. /\ Tail(events[g]) \in Seq(Outcomes)
          /\ Head(events[g]) \in Outcomes
      BY <2>1, EventTaken DEF OnEvent, TypeOK
    <2>3. Append(answers[g], Head(events[g])) \in Seq(Outcomes)
      BY <2>2, EventAppended DEF TypeOK
    <2>4. worker_queue' \in {worker_queue, Append(worker_queue, Remove(g))}
      BY <2>1 DEF OnEvent
    <2>5. worker_queue' \in Seq(Tasks)
      BY <1>q, <2>4, TaskKinds, TaskAppended
    <2>6. g \in asked
      BY <2>1 DEF OnEvent, AddsAreNew, Untouched
    <2>7. events' \in [Gets -> Seq(Outcomes)] /\ answers' \in [Gets -> Seq(Outcomes)]
      BY <2>1, <2>2, <2>3 DEF OnEvent, TypeOK, appVars
    <2>8. UNCHANGED <<asked, listening, raised>> /\ muted' \subseteq muted \cup {g}
      BY <2>1 DEF OnEvent, Mute, appVars
    <2> QED
      BY <2>5, <2>6, <2>7, <2>8 DEF TypeOK
  <1>3. CASE AddQueryListener
    <2> DEFINE g == Head(worker_queue).get
    <2>1. worker_queue # <<>> /\ worker_queue' = Tail(worker_queue)
             /\ Head(worker_queue).task = "add" /\ UNCHANGED appVars
             /\ listening' = listening \cup {g}
             /\ Post(RaisedAtOnce(g, view), view)
      BY <1>3 DEF AddQueryListener, Task
    <2>2. worker_queue' \in Seq(Tasks) /\ worker_queue[1] = Add(g) /\ g \in Gets
             /\ 1 \in DOMAIN worker_queue
      BY <1>q, <2>1, TaskTaken, TaskKinds
    <2>3. g \in asked
      BY <2>2 DEF AddsAreNew, Waits
    <2>4. RaisedAtOnce(g, view) \subseteq asked
      BY <2>3 DEF RaisedAtOnce
    <2>5. /\ events' \in [Gets -> Seq(Outcomes)]
          /\ raised' \subseteq asked
      BY <2>1, <2>4, PostPosts, PostedTypes DEF TypeOK
    <2> QED
      BY <2>1, <2>2, <2>3, <2>5 DEF TypeOK, appVars
  <1>4. CASE RemoveQueryListener
    <2>1. worker_queue # <<>> /\ worker_queue' = Tail(worker_queue)
             /\ UNCHANGED <<appVars, events, raised>> /\ listening' \subseteq listening
      BY <1>4 DEF RemoveQueryListener, Task
    <2> QED
      BY <1>q, <2>1, TaskTaken DEF TypeOK, appVars
  <1>5. CASE \E q \in Queries : WatchError(q)
    <2>1. PICK q \in Queries : WatchError(q)
      BY <1>5
    <2>2. /\ events' = [g \in Gets |->
                    IF g \in listening /\ QueryOf[g] = q
                      THEN Append(events[g], "error") ELSE events[g]]
          /\ UNCHANGED <<appVars, worker_queue, raised>> /\ listening' \subseteq listening
      BY <2>1 DEF WatchError
    <2>3. \A g \in Gets : Append(events[g], "error") \in Seq(Outcomes)
      BY EventAppended DEF TypeOK, Outcomes
    <2> QED
      BY <1>q, <2>2, <2>3 DEF TypeOK, appVars
  <1>6. CASE Quiet
    <2>1. PICK gets \in SUBSET listening : Posted(gets)
      BY <1>6 DEF Quiet
    <2>2. gets \subseteq asked
      BY DEF TypeOK
    <2>3. UNCHANGED <<appVars, worker_queue, listening>>
      BY <1>6 DEF Quiet
    <2> QED
      BY <1>q, <2>1, <2>2, <2>3, PostedTypes DEF TypeOK, appVars
  <1> QED
    BY <1>1, <1>2, <1>3, <1>4, <1>5, <1>6, StepKinds

LEMMA NetworkTypes ==
    TypeOK /\ [Next]_vars =>
        /\ view' \in AllViews
        /\ tracker' \in Trackers
        /\ watch' \in {"Initial", "Starting", "Open", "Error", "Backoff"}
        /\ idleness_timer' \in BOOLEAN
        /\ faults' \in 0 .. MaxFaults
PROOF
  <1> SUFFICES ASSUME TypeOK, [Next]_vars
               PROVE  /\ view' \in AllViews
                      /\ tracker' \in Trackers
                      /\ watch' \in {"Initial", "Starting", "Open", "Error", "Backoff"}
                      /\ idleness_timer' \in BOOLEAN
                      /\ faults' \in 0 .. MaxFaults
    OBVIOUS
  <1>t. tracker \in Trackers /\ view \in AllViews
    BY DEF TypeOK, Trackers, AllViews
  <1>f. Fault => faults' \in 0 .. MaxFaults
    BY GetPathAssumption DEF Fault, TypeOK
  <1>b. ASSUME NEW u, Broadcast(u) PROVE view' \in AllViews
    BY <1>t, <1>b, ViewsWhenAre DEF Broadcast, Show
  <1>1. CASE UNCHANGED <<view, netVars>>
    BY <1>t, <1>1 DEF netVars, TypeOK
  <1>2. CASE \E q \in Queries : LocalChange(q)
    <2>1. PICK q \in Queries : LocalChange(q)
      BY <1>2
    <2>2. view[q].current \in BOOLEAN
      BY <1>t DEF AllViews
    <2>3. view' \in AllViews
      BY <1>t, <2>1, <2>2, ViewsAre DEF LocalChange, Show
    <2> QED
      BY <1>t, <2>1, <2>3 DEF LocalChange, netVars, TypeOK
  <1>3. CASE AddQueryListener
    BY <1>t, <1>3, TrackerStarted
       DEF AddQueryListener, CancelIdleCheck, Started, TypeOK
  <1>4. CASE RemoveQueryListener
    BY <1>t, <1>4, TrackerUpdated, ViewsOfAre DEF RemoveQueryListener, TypeOK
  <1>5. CASE OpenWatchStream \/ BackoffElapsed
    BY <1>t, <1>5 DEF OpenWatchStream, BackoffElapsed, viewVars, TypeOK
  <1>6. CASE FailWatchStream
    <2>1. /\ watch' \in {"Backoff", "Error"} /\ idleness_timer' = FALSE
          /\ view' \in AllViews
          /\ faults' \in 0 .. MaxFaults
      BY <1>b, <1>f, <1>6 DEF FailWatchStream, Started
    <2>2. HandleWatchStreamFailure(tracker) \in Trackers
      BY <1>t, TrackerFailed
    <2>3. HandleWatchStreamStart(HandleWatchStreamFailure(tracker)) \in Trackers
      BY <2>2, TrackerStarted
    <2>4. UpdateState(tracker, "Unknown") \in Trackers
      BY <1>t, TrackerUpdated
    <2> QED
      BY <1>6, <2>1, <2>3, <2>4 DEF FailWatchStream, Broadcast
  <1>7. CASE IdleTimeout
    BY <1>t, <1>b, <1>7, TrackerUpdated DEF IdleTimeout, Broadcast, TypeOK
  <1>8. CASE OnlineStateTimeout
    BY <1>t, <1>b, <1>8, TrackerTimedOut DEF OnlineStateTimeout, Broadcast, TypeOK
  <1>9. ASSUME Message, view' \in AllViews, UNCHANGED faults \/ Fault
        PROVE  /\ view' \in AllViews
               /\ tracker' \in Trackers
               /\ watch' \in {"Initial", "Starting", "Open", "Error", "Backoff"}
               /\ idleness_timer' \in BOOLEAN
               /\ faults' \in 0 .. MaxFaults
    BY <1>t, <1>f, <1>9, TrackerUpdated DEF Message, TypeOK
  <1>10. CASE OtherMessage
    BY <1>t, <1>9, <1>10 DEF OtherMessage, viewVars
  <1>11. CASE \E q \in Queries : WatchSnapshot(q)
    BY <1>t, <1>9, <1>11, ViewsAre DEF WatchSnapshot, Show
  <1>12. CASE \E q \in Queries : WatchReset(q)
    BY <1>t, <1>9, <1>12, ViewsAre DEF WatchReset, Show
  <1>13. CASE \E q \in Queries : ResolveLimbo(q)
    <2>1. PICK q \in Queries : ResolveLimbo(q)
      BY <1>13
    <2>2. view' = [view EXCEPT ![q].limbo = FALSE]
      BY <2>1 DEF ResolveLimbo, Show
    <2>3. view' \in AllViews
      BY <1>t, <2>2 DEF AllViews
    <2> QED
      BY <1>9, <2>1, <2>3 DEF ResolveLimbo
  <1>14. CASE \E q \in Queries : WatchError(q)
    <2>1. PICK q \in Queries : WatchError(q)
      BY <1>14
    <2>2. view' \in AllViews
      BY <1>t, <2>1, ViewsOfAre DEF WatchError
    <2>3. view[q].limbo \in BOOLEAN
      BY <1>t DEF AllViews
    <2> QED
      BY <1>t, <1>f, <2>1, <2>2, <2>3, TrackerUpdated DEF WatchError, TypeOK
  <1>15. CASE \E changed \in SUBSET Queries : HandleCredentialChange(changed)
    <2>1. PICK changed \in SUBSET Queries : HandleCredentialChange(changed)
      BY <1>15
    <2>2. view' \in AllViews
      BY <2>1 DEF HandleCredentialChange, Show, AllViews
    <2>3. UpdateState(tracker, "Unknown") \in Trackers
      BY <1>t, TrackerUpdated
    <2>4. HandleWatchStreamStart(UpdateState(tracker, "Unknown")) \in Trackers
      BY <2>3, TrackerStarted
    <2> QED
      BY <1>f, <2>1, <2>2, <2>3, <2>4 DEF HandleCredentialChange, TypeOK
  <1>16. CASE UNCHANGED vars
    BY <1>1, <1>16 DEF vars, viewVars
  <1>17. CASE \E g \in Gets : GetDocuments(g) \/ OnEvent(g)
    BY <1>1, <1>17 DEF GetDocuments, OnEvent, viewVars
  <1> QED
    BY <1>2, <1>3, <1>4, <1>5, <1>6, <1>7, <1>8, <1>10, <1>11, <1>12, <1>13, <1>14,
       <1>15, <1>16, <1>17 DEF Next, RunTask, Attempt
-------------------------------------------------------------------------------
(* What the client shows while it counts as offline.                       *)

(* A change to offline shows every listener its view, which is not current.*)
LEMMA OfflineIsShown ==
    ASSUME TypeOK, NEW v, NEW changed, Show(v, changed, "Offline")
    PROVE  listening \subseteq raised'
PROOF
  BY DEF Show, Post, ShouldRaiseInitialEvent

LEMMA OfflineBroadcast ==
    ASSUME TypeOK, OfflineShown, NEW t, Broadcast(t), t.state = "Offline"
    PROVE  /\ listening \subseteq raised'
           /\ \A q \in Queries : ~view'[q].current
PROOF
  <1>1. CASE t.state = tracker.state
    BY <1>1 DEF Broadcast, OfflineShown
  <1>2. CASE t.state # tracker.state
    <2>1. Show(ViewsWhen("Offline"), {}, "Offline")
      BY <1>2 DEF Broadcast
    <2>2. view \in AllViews
      BY DEF TypeOK, AllViews
    <2>3. \A q \in Queries : ~ViewsWhen("Offline")[q].current
      BY <2>2, ViewsWhenAre
    <2>4. view' = ViewsWhen("Offline")
      BY <2>1 DEF Show
    <2>5. listening \subseteq raised'
      BY <2>1, OfflineIsShown
    <2> QED
      BY <2>3, <2>4, <2>5
  <1> QED
    BY <1>1, <1>2

LEMMA OfflineNext ==
    TypeOK /\ TrackerAsserts /\ OfflineShown /\ [Next]_vars => OfflineShown'
PROOF
  <1> SUFFICES ASSUME TypeOK, TrackerAsserts, OfflineShown, [Next]_vars,
                      tracker'.state = "Offline"
               PROVE  /\ IsStarted'
                      /\ listening' \subseteq raised'
                      /\ \A q \in Queries : ~view'[q].current
    BY DEF OfflineShown
  <1>t. tracker \in Trackers /\ view \in AllViews
    BY DEF TypeOK, Trackers, AllViews
  <1>1. CASE UNCHANGED <<listening, raised, view, tracker>> /\ (IsStarted => IsStarted')
    BY <1>1 DEF OfflineShown
  <1>2. CASE AddQueryListener
    <2> DEFINE g == Head(worker_queue).get
    <2>1. /\ listening' = listening \cup {g}
          /\ Post(RaisedAtOnce(g, view), view)
          /\ view' = view
          /\ IF QueryOf[g] \notin Listened(listening) /\ ~IsStarted
               THEN tracker' = HandleWatchStreamStart(tracker)
               ELSE UNCHANGED <<watch, tracker>>
      BY <1>2 DEF AddQueryListener
    <2>2. tracker.state = "Offline"
      BY <1>t, <2>1, TrackerStarted
    <2>3. IsStarted /\ UNCHANGED watch
      BY <2>1, <2>2 DEF OfflineShown
    <2>4. RaisedAtOnce(g, view) = {g}
      BY <2>2 DEF RaisedAtOnce, ShouldRaiseInitialEvent
    <2>5. listening' \subseteq raised'
      BY <2>1, <2>2, <2>4 DEF OfflineShown, Post
    <2> QED
      BY <2>1, <2>2, <2>3, <2>5 DEF OfflineShown, IsStarted
  <1>3. CASE RemoveQueryListener
    <2>1. /\ listening' \subseteq listening /\ UNCHANGED <<raised, watch>>
          /\ \E gets \in SUBSET listening : view' = ViewsOf(gets)
          /\ tracker' = tracker \/ tracker' = UpdateState(tracker, "Unknown")
      BY <1>3 DEF RemoveQueryListener
    <2>2. tracker' = tracker
      BY <1>t, <2>1, TrackerUpdated
    <2> QED
      BY <1>t, <2>1, <2>2, ViewsOfAre DEF OfflineShown, IsStarted
  <1>4. ASSUME NEW q \in Queries, LocalChange(q)
        PROVE  /\ IsStarted'
               /\ listening' \subseteq raised'
               /\ \A p \in Queries : ~view'[p].current
    <2>1. /\ tracker' = tracker /\ watch' = watch /\ listening' = listening
          /\ \E v \in Views(q, view[q].current) : Show(v, {q}, tracker.state)
      BY <1>4 DEF LocalChange, netVars
    <2>2. PICK v \in Views(q, view[q].current) : Show(v, {q}, tracker.state)
      BY <2>1
    <2>3. view' = v /\ raised \subseteq raised'
      BY <2>2 DEF Show, Post
    <2>4. view[q].current \in BOOLEAN
      BY <1>t DEF AllViews
    <2>5. v[q].current = view[q].current /\ \A p \in Queries : p # q => v[p] = view[p]
      BY <1>t, <2>4, ViewsAre
    <2> QED
      BY <2>1, <2>3, <2>5 DEF OfflineShown, IsStarted
  <1>5. CASE FailWatchStream
    <2>1. listening # {}
      BY <1>t, <1>5, TrackerUpdated DEF FailWatchStream, Broadcast
    <2>2. /\ watch' = "Backoff" /\ listening' = listening
          /\ Broadcast(HandleWatchStreamStart(HandleWatchStreamFailure(tracker)))
      BY <1>5, <2>1 DEF FailWatchStream, Started
    <2>3. tracker' = HandleWatchStreamStart(HandleWatchStreamFailure(tracker))
      BY <2>2 DEF Broadcast
    <2> QED
      BY <2>2, <2>3, OfflineBroadcast DEF IsStarted
  <1>6. CASE OnlineStateTimeout
    <2> DEFINE t == [tracker EXCEPT !.state = "Offline", !.timer = FALSE]
    <2>1. Broadcast(t) /\ tracker.timer /\ UNCHANGED <<listening, watch>>
      BY <1>6 DEF OnlineStateTimeout
    <2>2. t.state = "Offline"
      BY <1>t, TrackerTimedOut
    <2> HIDE DEF t
    <2>3. IsStarted'
      BY <2>1 DEF TrackerAsserts, IsStarted
    <2> QED
      BY <2>1, <2>2, <2>3, OfflineBroadcast
  <1>7. CASE IdleTimeout
    BY <1>t, <1>7, TrackerUpdated DEF IdleTimeout, Broadcast
  <1>8. CASE Message \/ \E q \in Queries : WatchError(q)
    <2>1. tracker' = UpdateState(tracker, "Online")
      BY <1>8 DEF Message, WatchError
    <2> QED
      BY <1>t, <2>1, TrackerUpdated
  <1>9. CASE \E changed \in SUBSET Queries : HandleCredentialChange(changed)
    <2> DEFINE t == UpdateState(tracker, "Unknown")
    <2>1. tracker' = t \/ tracker' = HandleWatchStreamStart(t)
      BY <1>9 DEF HandleCredentialChange
    <2>2. t \in Trackers /\ t.state = "Unknown" /\ t.failures = 0
      BY <1>t, TrackerUpdated
    <2> HIDE DEF t
    <2> QED
      BY <2>1, <2>2, TrackerStarted
  <1>10. CASE OpenWatchStream \/ BackoffElapsed
    BY <1>1, <1>10 DEF OpenWatchStream, BackoffElapsed, viewVars, IsStarted
  <1>11. CASE UNCHANGED vars \/ \E g \in Gets : GetDocuments(g) \/ OnEvent(g)
    BY <1>1, <1>11 DEF vars, GetDocuments, OnEvent, viewVars, netVars, IsStarted
  <1> QED
    BY <1>2, <1>3, <1>4, <1>5, <1>6, <1>7, <1>8, <1>9, <1>10, <1>11
       DEF Next, RunTask, Attempt, OtherMessage, WatchSnapshot, WatchReset, ResolveLimbo

(* The last event of a listener is of the kind of its view.                *)
LEMMA LastEvent ==
    ASSUME TypeOK, NEW gets \in SUBSET Gets, NEW v, Post(gets, v),
           NEW g \in gets
    PROVE  events'[g][Len(events'[g])] =
              IF FromCache(v[QueryOf[g]]) THEN "cache" ELSE "server"
PROOF
  <1> DEFINE e == IF FromCache(v[QueryOf[g]]) THEN "cache" ELSE "server"
  <1>1. events'[g] = Append(events[g], e)
    BY DEF Post, TypeOK
  <1>2. e \in Outcomes /\ events[g] \in Seq(Outcomes)
    BY DEF Outcomes, TypeOK
  <1> HIDE DEF e
  <1>3. events'[g][Len(events'[g])] = e
    BY <1>1, <1>2, EventAppended
  <1> QED
    BY <1>3 DEF e

(* So is the first event of one that is shown the views v, none of which is*)
(* current while the client is offline.                                    *)
LEMMA FirstEvent ==
    ASSUME TypeOK, NEW v, NEW changed, NEW s, Show(v, changed, s),
           s = "Offline" => \A q \in Queries : ~v[q].current,
           NEW g \in raised' \ raised
    PROVE  /\ g \in listening
           /\ events'[g][Len(events'[g])] = "cache" <=> s = "Offline"
PROOF
  <1> DEFINE gets == {h \in listening :
               LET q == QueryOf[h]
               IN  IF h \in raised
                     THEN q \in changed \/ FromCache(v[q]) # FromCache(view[q])
                     ELSE ShouldRaiseInitialEvent(v[q], s)}
  <1>1. Post(gets, v)
    BY DEF Show
  <1>2. g \in gets /\ gets \in SUBSET Gets
    BY <1>1 DEF Post, TypeOK
  <1>3. g \in listening /\ g \in Gets /\ QueryOf[g] \in Queries
    BY <1>2, GetPathAssumption
  <1>4. ShouldRaiseInitialEvent(v[QueryOf[g]], s)
    BY <1>2
  <1>5. events'[g][Len(events'[g])] =
           IF FromCache(v[QueryOf[g]]) THEN "cache" ELSE "server"
    <2> HIDE DEF gets
    <2> QED
      BY <1>1, <1>2, LastEvent
  <1>6. FromCache(v[QueryOf[g]]) <=> s = "Offline"
    BY <1>3, <1>4 DEF ShouldRaiseInitialEvent, FromCache
  <1> QED
    BY <1>3, <1>5, <1>6

LEMMA CacheStep ==
    TypeOK /\ TrackerAsserts /\ OfflineShown /\ [Next]_vars
        => \A g \in raised' \ raised :
              events'[g][Len(events'[g])] = "cache" <=> tracker'.state = "Offline"
PROOF
  <1> SUFFICES ASSUME TypeOK, TrackerAsserts, OfflineShown, [Next]_vars,
                      NEW g \in raised' \ raised
               PROVE  events'[g][Len(events'[g])] = "cache"
                         <=> tracker'.state = "Offline"
    OBVIOUS
  <1>t. tracker \in Trackers /\ view \in AllViews
    BY DEF TypeOK, Trackers, AllViews
  <1>1. CASE raised' = raised
    BY <1>1
  <1>2. CASE AddQueryListener
    <2> DEFINE h == Head(worker_queue).get
    <2>1. /\ Post(RaisedAtOnce(h, view), view)
          /\ \/ tracker' = tracker
             \/ ~IsStarted /\ tracker' = HandleWatchStreamStart(tracker)
      BY <1>2 DEF AddQueryListener
    <2>2. g = h /\ g \in RaisedAtOnce(h, view)
      BY <2>1 DEF Post, RaisedAtOnce
    <2>3. h \in Gets
      <3>1. worker_queue \in Seq(Tasks) /\ worker_queue # <<>>
        BY <1>2 DEF TypeOK, Tasks, AddQueryListener, Task
      <3> QED
        BY <3>1, TaskTaken, TaskKinds
    <2>4. events'[g][Len(events'[g])] =
             IF FromCache(view[QueryOf[g]]) THEN "cache" ELSE "server"
      <3>1. RaisedAtOnce(h, view) \in SUBSET Gets
        BY <2>3 DEF RaisedAtOnce
      <3> QED
        BY <2>1, <2>2, <3>1, LastEvent
    <2>5. QueryOf[g] \in Queries
      BY <2>2, <2>3, GetPathAssumption
    <2>6. FromCache(view[QueryOf[g]]) <=> tracker.state = "Offline"
      BY <2>2, <2>5 DEF RaisedAtOnce, ShouldRaiseInitialEvent, FromCache, OfflineShown
    <2>7. tracker'.state = "Offline" <=> tracker.state = "Offline"
      BY <1>t, <2>1, TrackerStarted DEF OfflineShown
    <2> QED
      BY <2>4, <2>6, <2>7
  <1>3. ASSUME NEW t, Broadcast(t)
        PROVE  events'[g][Len(events'[g])] = "cache" <=> tracker'.state = "Offline"
    <2>1. CASE t.state = tracker.state
      BY <1>1, <1>3, <2>1 DEF Broadcast
    <2>2. CASE t.state # tracker.state
      <3>1. Show(ViewsWhen(t.state), {}, t.state) /\ tracker' = t
        BY <1>3, <2>2 DEF Broadcast
      <3>2. t.state = "Offline" => \A q \in Queries : ~ViewsWhen(t.state)[q].current
        BY <1>t, ViewsWhenAre
      <3> QED
        BY <3>1, <3>2, FirstEvent
    <2> QED
      BY <2>1, <2>2
  <1>4. CASE FailWatchStream \/ IdleTimeout \/ OnlineStateTimeout
    BY <1>3, <1>4 DEF FailWatchStream, IdleTimeout, OnlineStateTimeout
  <1>5. ASSUME NEW q \in Queries, LocalChange(q)
        PROVE  events'[g][Len(events'[g])] = "cache" <=> tracker'.state = "Offline"
    <2>1. PICK v \in Views(q, view[q].current) : Show(v, {q}, tracker.state)
      BY <1>5 DEF LocalChange
    <2>2. view[q].current \in BOOLEAN
      BY <1>t DEF AllViews
    <2>3. v[q].current = view[q].current /\ \A p \in Queries : p # q => v[p] = view[p]
      BY <1>t, <2>2, ViewsAre
    <2>4. tracker.state = "Offline" => \A p \in Queries : ~v[p].current
      BY <2>3 DEF OfflineShown
    <2>5. tracker' = tracker
      BY <1>5 DEF LocalChange, netVars
    <2> QED
      BY <2>1, <2>4, <2>5, FirstEvent
  <1>6. ASSUME Message, NEW v, NEW changed, Show(v, changed, "Online")
        PROVE  events'[g][Len(events'[g])] = "cache" <=> tracker'.state = "Offline"
    <2>1. tracker'.state = "Online"
      BY <1>t, <1>6, TrackerUpdated DEF Message
    <2> QED
      BY <1>6, <2>1, FirstEvent
  <1>7. CASE \E q \in Queries : WatchSnapshot(q) \/ WatchReset(q) \/ ResolveLimbo(q)
    BY <1>6, <1>7 DEF WatchSnapshot, WatchReset, ResolveLimbo
  <1>8. ASSUME NEW changed \in SUBSET Queries, HandleCredentialChange(changed)
        PROVE  events'[g][Len(events'[g])] = "cache" <=> tracker'.state = "Offline"
    <2> DEFINE t == UpdateState(tracker, "Unknown")
    <2>1. PICK v \in AllViews :
             /\ \A q \in Queries :
                   v[q] \in IF q \in changed
                              THEN {w[q] : w \in Views(q, view[q].current)}
                              ELSE {view[q]}
             /\ Show(v, changed, tracker.state)
      BY <1>8 DEF HandleCredentialChange, AllViews
    <2>2. tracker.state = "Offline" => \A q \in Queries : ~v[q].current
      BY <1>t, <2>1, ViewsChanged DEF OfflineShown
    <2>3. /\ g \in listening
          /\ events'[g][Len(events'[g])] = "cache" <=> tracker.state = "Offline"
      BY <2>1, <2>2, FirstEvent
    <2>4. tracker.state # "Offline"
      BY <2>3 DEF OfflineShown
    <2>5. tracker' = t \/ tracker' = HandleWatchStreamStart(t)
      BY <1>8 DEF HandleCredentialChange
    <2>6. t \in Trackers /\ t.state = "Unknown" /\ t.failures = 0
      BY <1>t, TrackerUpdated
    <2> HIDE DEF t
    <2>7. tracker'.state # "Offline"
      BY <2>5, <2>6, TrackerStarted
    <2> QED
      BY <2>3, <2>4, <2>7
  <1>9. CASE RemoveQueryListener \/ \E q \in Queries : WatchError(q)
    BY <1>1, <1>9 DEF RemoveQueryListener, WatchError
  <1>10. CASE OpenWatchStream \/ BackoffElapsed \/ OtherMessage
    BY <1>1, <1>10 DEF OpenWatchStream, BackoffElapsed, OtherMessage, viewVars
  <1>11. CASE UNCHANGED vars \/ \E h \in Gets : GetDocuments(h) \/ OnEvent(h)
    BY <1>1, <1>11 DEF vars, GetDocuments, OnEvent, viewVars
  <1> QED
    BY <1>2, <1>4, <1>5, <1>7, <1>8, <1>9, <1>10, <1>11 DEF Next, RunTask, Attempt
-------------------------------------------------------------------------------
(* The worker queue, and what becomes of a call.                           *)
Queued(t) == \E i \in DOMAIN worker_queue : worker_queue[i] = t

LEMMA QueueAppended ==
    ASSUME TypeOK, NEW t \in Tasks, worker_queue' = Append(worker_queue, t)
    PROVE  /\ \A u : Queued(u)' <=> Queued(u) \/ u = t
           /\ \A g : Waits(g)' <=> Waits(g) \/ Add(g) = t
           /\ \A g : AddedOnce(g) /\ (Add(g) = t => ~Waits(g)) => AddedOnce(g)'
PROOF
  <1> DEFINE q == worker_queue
             n == Len(q)
  <1>1. q \in Seq(Tasks)
    BY DEF TypeOK, Tasks
  <1>2. /\ n \in Nat /\ DOMAIN q = 1 .. n
        /\ DOMAIN worker_queue' = 1 .. (n + 1)
        /\ \A i \in 1 .. n : worker_queue'[i] = q[i]
        /\ worker_queue'[n + 1] = t
    BY <1>1, TaskAppended
  <1> HIDE DEF n
  <1>3. \A i \in 1 .. (n + 1) : i \in 1 .. n \/ i = n + 1
    BY <1>2
  <1>4. 1 .. n \subseteq 1 .. (n + 1) /\ n + 1 \in 1 .. (n + 1)
    BY <1>2
  <1>5. \A u : Queued(u)' <=> Queued(u) \/ u = t
    BY <1>2, <1>3, <1>4 DEF Queued
  <1>6. \A g : Waits(g)' <=> Waits(g) \/ Add(g) = t
    BY <1>2, <1>3, <1>4 DEF Waits
  <1>7. ASSUME NEW g, AddedOnce(g), Add(g) = t => ~Waits(g)
        PROVE  AddedOnce(g)'
    BY <1>2, <1>3, <1>7 DEF AddedOnce, Waits
  <1> QED
    BY <1>5, <1>6, <1>7

LEMMA QueueTaken ==
    ASSUME TypeOK, worker_queue # <<>>, worker_queue' = Tail(worker_queue)
    PROVE  /\ Queued(Head(worker_queue)) /\ Head(worker_queue) \in Tasks
           /\ \A u : Queued(u) /\ u # Head(worker_queue) => Queued(u)'
           /\ \A g : Waits(g)' => Waits(g)
           /\ \A g : AddedOnce(g) => AddedOnce(g)'
           /\ \A g : AddedOnce(g) /\ Add(g) = Head(worker_queue) => ~Waits(g)'
PROOF
  <1> DEFINE q == worker_queue
             n == Len(q)
  <1>1. q \in Seq(Tasks)
    BY DEF TypeOK, Tasks
  <1>2. /\ n \in Nat /\ n > 0 /\ DOMAIN q = 1 .. n
        /\ DOMAIN worker_queue' = 1 .. (n - 1)
        /\ \A i \in 1 .. (n - 1) : worker_queue'[i] = q[i + 1]
        /\ Head(q) = q[1] /\ Head(q) \in Tasks
    BY <1>1, TaskTaken
  <1> HIDE DEF n
  <1>3. \A i \in 1 .. (n - 1) : i \in Nat /\ i + 1 \in 1 .. n /\ i + 1 # 1
    BY <1>2
  <1>4. 1 \in 1 .. n
    BY <1>2
  <1>5. Queued(Head(q))
    BY <1>2, <1>4 DEF Queued
  <1>6. ASSUME NEW u, Queued(u), u # Head(q)
        PROVE  Queued(u)'
    <2>1. PICK i \in 1 .. n : q[i] = u
      BY <1>2, <1>6 DEF Queued
    <2>2. i - 1 \in 1 .. (n - 1) /\ (i - 1) + 1 = i
      BY <1>2, <1>6, <2>1
    <2>3. worker_queue'[i - 1] = u
      BY <1>2, <2>1, <2>2
    <2> QED
      BY <1>2, <2>2, <2>3 DEF Queued
  <1>7. \A g : Waits(g)' => Waits(g)
    BY <1>2, <1>3 DEF Waits
  <1>8. ASSUME NEW g, AddedOnce(g)
        PROVE  AddedOnce(g)'
    <2> SUFFICES ASSUME NEW i \in 1 .. (n - 1), NEW j \in 1 .. (n - 1),
                        worker_queue'[i] = Add(g), worker_queue'[j] = Add(g)
                 PROVE  i = j
      BY <1>2 DEF AddedOnce
    <2>1. i + 1 = j + 1
      BY <1>2, <1>3, <1>8 DEF AddedOnce
    <2> QED
      BY <1>3, <2>1
  <1>9. ASSUME NEW g, AddedOnce(g), Add(g) = Head(q), Waits(g)'
        PROVE  FALSE
    <2>1. PICK i \in 1 .. (n - 1) : worker_queue'[i] = Add(g)
      BY <1>2, <1>9 DEF Waits
    <2>2. q[i + 1] = Add(g) /\ q[1] = Add(g)
      BY <1>2, <1>9, <2>1
    <2> QED
      BY <1>2, <1>3, <1>4, <1>9, <2>2 DEF AddedOnce
  <1> QED
    BY <1>2, <1>5, <1>6, <1>7, <1>8, <1>9

(* What the calls' invariants say together.                                *)
Calls == AddsAreNew /\ ErrorsAreLast /\ AnsweredIsOver /\ ListenersReleased

LEMMA ReleasedQueued ==
    ListenersReleased <=> \A g \in listening : answers[g] # <<>> => Queued(Remove(g))
PROOF
  BY DEF ListenersReleased, Queued

LEMMA CallsGetDocuments ==
    ASSUME TypeOK, Calls, NEW g \in Gets, GetDocuments(g)
    PROVE  Calls'
PROOF
  <1>1. /\ g \notin asked /\ asked' = asked \cup {g}
        /\ worker_queue' = Append(worker_queue, Add(g))
        /\ UNCHANGED <<muted, answers, events, listening, raised>>
    BY DEF GetDocuments, viewVars
  <1>2. /\ \A u : Queued(u)' <=> Queued(u) \/ u = Add(g)
        /\ \A h : Waits(h)' <=> Waits(h) \/ Add(h) = Add(g)
        /\ \A h : AddedOnce(h) /\ (Add(h) = Add(g) => ~Waits(h)) => AddedOnce(h)'
    BY <1>1, TaskKinds, QueueAppended
  <1>3. AddsAreNew'
    <2> SUFFICES ASSUME NEW h \in Gets
                 PROVE  /\ h \notin asked' => ~Waits(h)'
                        /\ (h \notin asked' \/ Waits(h)') => Untouched(h)'
                        /\ AddedOnce(h)'
      BY DEF AddsAreNew
    <2>1. Add(h) = Add(g) => h = g
      BY TaskKinds
    <2>2. /\ h \notin asked => ~Waits(h)
          /\ (h \notin asked \/ Waits(h)) => Untouched(h)
          /\ AddedOnce(h)
      BY DEF Calls, AddsAreNew
    <2>3. Untouched(h) => Untouched(h)'
      BY <1>1 DEF Untouched
    <2>4. h \notin asked' => ~Waits(h)'
      BY <1>1, <1>2, <2>1, <2>2
    <2>5. (h \notin asked' \/ Waits(h)') => Untouched(h)'
      BY <1>1, <1>2, <2>1, <2>2, <2>3
    <2>6. AddedOnce(h)'
      BY <1>1, <1>2, <2>1, <2>2
    <2> QED
      BY <2>4, <2>5, <2>6
  <1>4. ErrorsAreLast' /\ AnsweredIsOver'
    BY <1>1 DEF Calls, ErrorsAreLast, AnsweredIsOver, Over
  <1>5. ListenersReleased'
    BY <1>1, <1>2 DEF Calls, ListenersReleased, Queued
  <1> QED
    BY <1>3, <1>4, <1>5 DEF Calls

LEMMA CallsOnEvent ==
    ASSUME TypeOK, Calls, NEW g \in Gets, OnEvent(g)
    PROVE  Calls'
PROOF
  <1> DEFINE e == Head(events[g])
  <1>1. /\ events[g] # <<>>
        /\ events' = [events EXCEPT ![g] = Tail(@)]
        /\ UNCHANGED <<asked, listening, raised>>
    BY DEF OnEvent, appVars
  <1>2. /\ events[g] \in Seq(Outcomes) /\ events'[g] = Tail(events[g])
        /\ \A h \in Gets : h # g => events'[h] = events[h]
    BY <1>1 DEF TypeOK
  <1>3. /\ Len(events[g]) \in Nat /\ Len(events[g]) > 0
        /\ DOMAIN events[g] = 1 .. Len(events[g])
        /\ Len(events'[g]) = Len(events[g]) - 1
        /\ DOMAIN events'[g] = 1 .. (Len(events[g]) - 1)
        /\ \A i \in 1 .. (Len(events[g]) - 1) : events'[g][i] = events[g][i + 1]
        /\ e = events[g][1]
    BY <1>1, <1>2, EventTaken
  <1>4. g \in asked /\ ~Waits(g)
    BY <1>1 DEF Calls, AddsAreNew, Untouched
  <1>5. ErrorsAreLast'
    <2> SUFFICES ASSUME NEW h \in Gets, NEW i \in DOMAIN events'[h],
                        events'[h][i] = "error"
                 PROVE  i = Len(events'[h]) /\ h \notin listening'
      BY DEF ErrorsAreLast
    <2>1. CASE h # g
      BY <1>1, <1>2, <2>1 DEF Calls, ErrorsAreLast
    <2>2. CASE h = g
      <3>1. i + 1 \in 1 .. Len(events[g]) /\ events[g][i + 1] = "error"
        BY <1>3, <2>2
      <3>2. i + 1 = Len(events[g]) /\ g \notin listening
        BY <1>3, <3>1 DEF Calls, ErrorsAreLast
      <3>3. i = Len(events[g]) - 1
        BY <1>3, <2>2, <3>2
      <3> QED
        BY <1>1, <1>3, <2>2, <3>2, <3>3
    <2> QED
      BY <2>1, <2>2
  <1>6. ASSUME \A h : Waits(h)' <=> Waits(h),
               \A h \in Gets : AddedOnce(h) => AddedOnce(h)',
               \A h \in Gets : h # g => (h \in muted' <=> h \in muted)
                                           /\ answers'[h] = answers[h]
        PROVE  AddsAreNew'
    <2> SUFFICES ASSUME NEW h \in Gets
                 PROVE  /\ h \notin asked' => ~Waits(h)'
                        /\ (h \notin asked' \/ Waits(h)') => Untouched(h)'
                        /\ AddedOnce(h)'
      BY DEF AddsAreNew
    <2>2. /\ h \notin asked => ~Waits(h)
          /\ (h \notin asked \/ Waits(h)) => Untouched(h)
          /\ AddedOnce(h)
      BY DEF Calls, AddsAreNew
    <2>3. h # g /\ Untouched(h) => Untouched(h)'
      BY <1>1, <1>2, <1>6 DEF Untouched
    <2> QED
      BY <1>1, <1>4, <1>6, <2>2, <2>3
  <1>7. CASE g \in muted
    <2>1. UNCHANGED <<appVars, worker_queue>>
      BY <1>7 DEF OnEvent
    <2>2. (\A h : Waits(h)' <=> Waits(h)) /\ \A h \in Gets : AddedOnce(h) => AddedOnce(h)'
      BY <2>1 DEF Waits, AddedOnce
    <2>3. AddsAreNew'
      BY <1>6, <2>1, <2>2 DEF appVars
    <2>4. AnsweredIsOver'
      BY <1>1, <1>2, <1>7, <2>1 DEF Calls, AnsweredIsOver, Over, appVars
    <2>5. ListenersReleased'
      BY <1>1, <2>1 DEF Calls, ListenersReleased, appVars
    <2> QED
      BY <1>5, <2>3, <2>4, <2>5 DEF Calls
  <1>8. CASE g \notin muted /\ e = "error"
    <2>1. /\ answers' = [answers EXCEPT ![g] = Append(@, e)]
          /\ UNCHANGED <<muted, worker_queue>>
      BY <1>8 DEF OnEvent
    <2>2. (\A h : Waits(h)' <=> Waits(h)) /\ \A h \in Gets : AddedOnce(h) => AddedOnce(h)'
      BY <2>1 DEF Waits, AddedOnce
    <2>3. \A h \in Gets : h # g => answers'[h] = answers[h]
      BY <2>1 DEF TypeOK
    <2>4. AddsAreNew'
      BY <1>6, <2>1, <2>2, <2>3
    <2>5. 1 = Len(events[g]) /\ g \notin listening
      <3>1. 1 \in DOMAIN events[g] /\ events[g][1] = "error"
        BY <1>3, <1>8
      <3> QED
        BY <3>1 DEF Calls, ErrorsAreLast
    <2>6. events'[g] = <<>>
      <3>1. Tail(events[g]) \in Seq(Outcomes) /\ Len(Tail(events[g])) = 0
        BY <1>1, <1>2, <1>3, <2>5, EventTaken
      <3> QED
        BY <1>2, <3>1, EmptySeq
    <2>7. AnsweredIsOver'
      BY <1>1, <1>2, <2>1, <2>3, <2>5, <2>6 DEF Calls, AnsweredIsOver, Over
    <2>8. ListenersReleased'
      BY <1>1, <2>1, <2>3, <2>5 DEF Calls, ListenersReleased, TypeOK
    <2> QED
      BY <1>5, <2>4, <2>7, <2>8 DEF Calls
  <1>9. CASE g \notin muted /\ e # "error"
    <2>1. /\ answers' = [answers EXCEPT ![g] = Append(@, e)]
          /\ muted' = muted \cup {g}
          /\ worker_queue' = Append(worker_queue, Remove(g))
      BY <1>9 DEF OnEvent, Mute
    <2>2. /\ \A u : Queued(u)' <=> Queued(u) \/ u = Remove(g)
          /\ \A h : Waits(h)' <=> Waits(h) \/ Add(h) = Remove(g)
          /\ \A h : AddedOnce(h) /\ (Add(h) = Remove(g) => ~Waits(h)) => AddedOnce(h)'
      BY <2>1, TaskKinds, QueueAppended
    <2>3. \A h : Add(h) # Remove(g)
      BY DEF Add, Remove
    <2>4. \A h \in Gets : h # g => answers'[h] = answers[h]
      BY <2>1 DEF TypeOK
    <2>5. AddsAreNew'
      BY <1>6, <2>1, <2>2, <2>3, <2>4
    <2>6. AnsweredIsOver'
      BY <1>1, <1>2, <2>1, <2>4 DEF Calls, AnsweredIsOver, Over
    <2>7. ListenersReleased'
      BY <1>1, <2>1, <2>2, <2>4 DEF Calls, ListenersReleased, Queued, TypeOK
    <2> QED
      BY <1>5, <2>5, <2>6, <2>7 DEF Calls
  <1> QED
    BY <1>7, <1>8, <1>9

LEMMA CallsAddQueryListener ==
    ASSUME TypeOK, Calls, AddQueryListener
    PROVE  Calls'
PROOF
  <1> DEFINE t == Head(worker_queue)
  <1>1. /\ worker_queue # <<>> /\ worker_queue' = Tail(worker_queue)
        /\ t.task = "add"
        /\ listening' = listening \cup {t.get}
        /\ Post(RaisedAtOnce(t.get, view), view)
        /\ UNCHANGED <<asked, muted, answers>>
    BY DEF AddQueryListener, Task, appVars
  <1>2. /\ Queued(t) /\ t \in Tasks
        /\ \A u : Queued(u) /\ u # t => Queued(u)'
        /\ \A h : Waits(h)' => Waits(h)
        /\ \A h : AddedOnce(h) => AddedOnce(h)'
        /\ \A h : AddedOnce(h) /\ Add(h) = t => ~Waits(h)'
    BY <1>1, QueueTaken
  <1>3. PICK g \in Gets : t.get = g /\ t = Add(g)
    BY <1>1, <1>2, TaskKinds
  <1> HIDE DEF t
  <1>4. Waits(g) /\ Untouched(g) /\ g \in asked /\ ~Waits(g)'
    <2>1. Waits(g)
      BY <1>2, <1>3 DEF Queued, Waits
    <2> QED
      BY <1>2, <1>3, <2>1 DEF Calls, AddsAreNew
  <1>5. /\ RaisedAtOnce(g, view) \in SUBSET Gets
        /\ RaisedAtOnce(g, view) \subseteq {g}
    BY <1>3 DEF RaisedAtOnce
  <1>6. Posted(RaisedAtOnce(g, view))
    BY <1>1, <1>3, <1>5, PostPosts
  <1>7. PICK kind \in [Gets -> {"server", "cache"}] :
          events' = [h \in Gets |-> IF h \in RaisedAtOnce(g, view)
                                      THEN Append(events[h], kind[h]) ELSE events[h]]
    BY <1>6 DEF Posted
  <1>8. \A h \in Gets : h # g =>
           events'[h] = events[h] /\ (h \in raised' <=> h \in raised)
    BY <1>5, <1>6, <1>7 DEF Posted
  <1>9. AddsAreNew'
    <2> SUFFICES ASSUME NEW h \in Gets
                 PROVE  /\ h \notin asked' => ~Waits(h)'
                        /\ (h \notin asked' \/ Waits(h)') => Untouched(h)'
                        /\ AddedOnce(h)'
      BY DEF AddsAreNew
    <2>1. /\ h \notin asked => ~Waits(h)
          /\ (h \notin asked \/ Waits(h)) => Untouched(h)
          /\ AddedOnce(h)
      BY DEF Calls, AddsAreNew
    <2>2. h # g /\ Untouched(h) => Untouched(h)'
      BY <1>1, <1>3, <1>8 DEF Untouched
    <2> QED
      BY <1>1, <1>2, <1>4, <2>1, <2>2
  <1>10. ErrorsAreLast'
    <2> SUFFICES ASSUME NEW h \in Gets, NEW i \in DOMAIN events'[h],
                        events'[h][i] = "error"
                 PROVE  i = Len(events'[h]) /\ h \notin listening'
      BY DEF ErrorsAreLast
    <2>1. CASE h # g
      BY <1>1, <1>3, <1>8, <2>1 DEF Calls, ErrorsAreLast
    <2>2. CASE h = g
      <3>1. /\ events[g] = <<>> /\ <<>> \in Seq(Outcomes)
            /\ kind[g] \in {"server", "cache"} /\ kind[g] \in Outcomes
        BY <1>3, <1>4, <1>7, EmptySeq DEF Untouched, Outcomes
      <3>2. events'[g] = <<>> \/ events'[g] = Append(<<>>, kind[g])
        BY <1>3, <1>7, <3>1
      <3>3. CASE events'[g] = <<>>
        BY <2>2, <3>3
      <3>4. CASE events'[g] = Append(<<>>, kind[g])
        BY <2>2, <3>1, <3>4
      <3> QED
        BY <3>2, <3>3, <3>4
    <2> QED
      BY <2>1, <2>2
  <1>11. AnsweredIsOver'
    BY <1>1, <1>3, <1>4, <1>8 DEF Calls, AnsweredIsOver, Over, Untouched
  <1>12. ListenersReleased'
    <2>1. \A h : Remove(h) # Add(g)
      BY DEF Add, Remove
    <2>2. \A h \in listening' : answers'[h] # <<>> => Queued(Remove(h))'
      BY <1>1, <1>2, <1>3, <1>4, <2>1, ReleasedQueued DEF Calls, Untouched
    <2> QED
      BY <2>2 DEF ListenersReleased, Queued
  <1> QED
    BY <1>9, <1>10, <1>11, <1>12 DEF Calls

LEMMA CallsRemoveQueryListener ==
    ASSUME TypeOK, Calls, RemoveQueryListener
    PROVE  Calls'
PROOF
  <1> DEFINE g == Head(worker_queue).get
  <1>1. /\ worker_queue # <<>> /\ worker_queue' = Tail(worker_queue)
        /\ Head(worker_queue).task = "remove"
        /\ listening' = listening \ {g}
        /\ UNCHANGED <<asked, muted, answers, events, raised>>
    BY DEF RemoveQueryListener, Task, appVars
  <1>2. /\ Head(worker_queue) \in Tasks
        /\ \A u : Queued(u) /\ u # Head(worker_queue) => Queued(u)'
        /\ \A h : Waits(h)' => Waits(h)
        /\ \A h : AddedOnce(h) => AddedOnce(h)'
    BY <1>1, QueueTaken
  <1>3. g \in Gets /\ Head(worker_queue) = Remove(g)
    BY <1>1, <1>2, TaskKinds
  <1>4. AddsAreNew'
    <2>1. \A h \in Gets : Untouched(h) => Untouched(h)'
      BY <1>1 DEF Untouched
    <2> QED
      BY <1>1, <1>2, <2>1 DEF Calls, AddsAreNew
  <1>5. ErrorsAreLast' /\ AnsweredIsOver'
    BY <1>1 DEF Calls, ErrorsAreLast, AnsweredIsOver, Over
  <1>6. ListenersReleased'
    <2>1. \A h \in listening' : h # g /\ h \in Gets
      BY <1>1 DEF TypeOK
    <2>2. \A h \in listening' : answers'[h] # <<>> => Queued(Remove(h))'
      BY <1>1, <1>2, <1>3, <2>1, TaskKinds, ReleasedQueued DEF Calls
    <2> QED
      BY <2>2 DEF ListenersReleased, Queued
  <1> QED
    BY <1>4, <1>5, <1>6 DEF Calls

(* A step that leaves the app and the worker queue alone, and raises no    *)
(* event but of listeners that are there, of which only those that hear an *)
(* error go.                                                               *)
LEMMA CallsUndisturbed ==
    ASSUME TypeOK, Calls, UNCHANGED <<appVars, worker_queue>>,
           listening' \subseteq listening, ErrorsAreLast',
           \A h \in Gets : h \notin listening =>
              events'[h] = events[h] /\ (h \in raised' <=> h \in raised)
    PROVE  Calls'
PROOF
  <1>1. AddsAreNew'
    <2>1. \A h \in Gets : Untouched(h) => Untouched(h)'
      BY DEF Untouched, appVars
    <2>2. \A h : (Waits(h)' <=> Waits(h)) /\ (AddedOnce(h)' <=> AddedOnce(h))
      BY DEF Waits, AddedOnce
    <2>3. asked' = asked
      BY DEF appVars
    <2> QED
      BY <2>1, <2>2, <2>3 DEF Calls, AddsAreNew
  <1>2. AnsweredIsOver'
    BY DEF Calls, AnsweredIsOver, Over, appVars
  <1>3. ListenersReleased'
    BY DEF Calls, ListenersReleased, appVars
  <1> QED
    BY <1>1, <1>2, <1>3 DEF Calls

LEMMA CallsWatchError ==
    ASSUME TypeOK, Calls, NEW q \in Queries, WatchError(q)
    PROVE  Calls'
PROOF
  <1> DEFINE gone == ListenersOf(q)
  <1>1. /\ events' = [g \in Gets |-> IF g \in gone THEN Append(events[g], "error")
                                                  ELSE events[g]]
        /\ listening' = listening \ gone
        /\ UNCHANGED <<appVars, worker_queue, raised>>
        /\ gone \subseteq listening
    BY DEF WatchError, ListenersOf
  <1> HIDE DEF gone
  <1>2. ErrorsAreLast'
    <2> SUFFICES ASSUME NEW h \in Gets, NEW i \in DOMAIN events'[h],
                        events'[h][i] = "error"
                 PROVE  i = Len(events'[h]) /\ h \notin listening'
      BY DEF ErrorsAreLast
    <2>1. CASE h \notin gone
      BY <1>1, <2>1 DEF Calls, ErrorsAreLast
    <2>2. CASE h \in gone
      <3>1. events'[h] = Append(events[h], "error")
        BY <1>1, <2>2
      <3>2. events[h] \in Seq(Outcomes) /\ "error" \in Outcomes
        BY DEF TypeOK, Outcomes
      <3>3. /\ Len(events[h]) \in Nat /\ DOMAIN events[h] = 1 .. Len(events[h])
            /\ Len(events'[h]) = Len(events[h]) + 1
            /\ DOMAIN events'[h] = 1 .. (Len(events[h]) + 1)
            /\ \A j \in 1 .. Len(events[h]) : events'[h][j] = events[h][j]
        BY <3>1, <3>2, EventAppended
      <3>4. i \notin 1 .. Len(events[h])
        BY <1>1, <2>2, <3>3 DEF Calls, ErrorsAreLast
      <3>5. i = Len(events[h]) + 1
        BY <3>3, <3>4
      <3> QED
        BY <1>1, <2>2, <3>3, <3>5
    <2> QED
      BY <2>1, <2>2
  <1>3. \A h \in Gets : h \notin listening =>
           events'[h] = events[h] /\ (h \in raised' <=> h \in raised)
    BY <1>1
  <1> QED
    BY <1>1, <1>2, <1>3, CallsUndisturbed

LEMMA CallsQuiet ==
    ASSUME TypeOK, Calls, Quiet
    PROVE  Calls'
PROOF
  <1>1. UNCHANGED <<appVars, worker_queue, listening>>
    BY DEF Quiet
  <1>2. PICK gets \in SUBSET listening : Posted(gets)
    BY DEF Quiet
  <1>3. PICK kind \in [Gets -> {"server", "cache"}] :
          events' = [g \in Gets |-> IF g \in gets THEN Append(events[g], kind[g])
                                                  ELSE events[g]]
    BY <1>2 DEF Posted
  <1>4. raised' = raised \cup gets
    BY <1>2 DEF Posted
  <1>5. ErrorsAreLast'
    <2> SUFFICES ASSUME NEW h \in Gets, NEW i \in DOMAIN events'[h],
                        events'[h][i] = "error"
                 PROVE  i = Len(events'[h]) /\ h \notin listening'
      BY DEF ErrorsAreLast
    <2>1. CASE h \notin gets
      BY <1>1, <1>3, <2>1 DEF Calls, ErrorsAreLast
    <2>2. CASE h \in gets
      <3>1. events'[h] = Append(events[h], kind[h])
        BY <1>3, <2>2
      <3>2. /\ events[h] \in Seq(Outcomes)
            /\ kind[h] \in {"server", "cache"} /\ kind[h] \in Outcomes
        BY <1>3 DEF TypeOK, Outcomes
      <3>3. /\ Len(events[h]) \in Nat /\ DOMAIN events[h] = 1 .. Len(events[h])
            /\ DOMAIN events'[h] = 1 .. (Len(events[h]) + 1)
            /\ \A j \in 1 .. Len(events[h]) : events'[h][j] = events[h][j]
            /\ events'[h][Len(events[h]) + 1] = kind[h]
        BY <3>1, <3>2, EventAppended
      <3>4. i \notin 1 .. Len(events[h])
        BY <1>2, <2>2, <3>3 DEF Calls, ErrorsAreLast
      <3>5. i = Len(events[h]) + 1
        BY <3>3, <3>4
      <3> QED
        BY <3>2, <3>3, <3>5
    <2> QED
      BY <2>1, <2>2
  <1>6. \A h \in Gets : h \notin listening =>
           events'[h] = events[h] /\ (h \in raised' <=> h \in raised)
    BY <1>2, <1>3, <1>4
  <1> QED
    BY <1>1, <1>5, <1>6, CallsUndisturbed

LEMMA CallsNext == TypeOK /\ Calls /\ [Next]_vars => Calls'
PROOF
  BY StepKinds, CallsGetDocuments, CallsOnEvent, CallsAddQueryListener,
     CallsRemoveQueryListener, CallsWatchError, CallsQuiet
-------------------------------------------------------------------------------
(* The inductive invariant.                                                *)
LEMMA IInvInit == Init => IInv
PROOF
  <1> SUFFICES ASSUME Init PROVE IInv
    OBVIOUS
  <1>1. /\ worker_queue \in Seq([task : {"add", "remove"}, get : Gets])
        /\ events \in [Gets -> Seq(Outcomes)]
        /\ answers \in [Gets -> Seq(Outcomes)]
    BY EmptySeq DEF Init
  <1>2. /\ view \in [Queries -> [current : BOOLEAN, limbo : BOOLEAN]]
        /\ faults \in 0 .. MaxFaults
        /\ tracker \in [state : {"Unknown", "Online", "Offline"},
                        failures : 0 .. MaxWatchStreamFailures, timer : BOOLEAN]
    BY GetPathAssumption DEF Init, NewView
  <1>3. TypeOK
    BY <1>1, <1>2 DEF Init, TypeOK
  <1>4. TrackerAsserts /\ StreamAsNeeded /\ OfflineShown
    BY DEF Init, TrackerAsserts, StreamAsNeeded, OfflineShown
  <1>5. AddsAreNew /\ ErrorsAreLast /\ AnsweredIsOver /\ ListenersReleased
    BY DEF Init, AddsAreNew, AddedOnce, Waits, Untouched, ErrorsAreLast,
           AnsweredIsOver, ListenersReleased
  <1> QED
    BY <1>3, <1>4, <1>5 DEF IInv

LEMMA IInvNext == IInv /\ [Next]_vars => IInv'
PROOF
  <1> SUFFICES ASSUME IInv, [Next]_vars PROVE IInv'
    OBVIOUS
  <1>1. TypeOK'
    <2>1. TypeOK /\ AddsAreNew
      BY DEF IInv
    <2>2. /\ asked' \subseteq Gets /\ worker_queue' \in Seq(Tasks)
          /\ events' \in [Gets -> Seq(Outcomes)]
          /\ muted' \subseteq asked' /\ answers' \in [Gets -> Seq(Outcomes)]
          /\ listening' \subseteq asked' /\ raised' \subseteq asked'
      BY <2>1, AppTypes
    <2>3. /\ view' \in AllViews /\ tracker' \in Trackers
          /\ watch' \in {"Initial", "Starting", "Open", "Error", "Backoff"}
          /\ idleness_timer' \in BOOLEAN /\ faults' \in 0 .. MaxFaults
      BY <2>1, NetworkTypes
    <2> QED
      BY <2>2, <2>3 DEF TypeOK, Tasks, AllViews, Trackers
  <1>2. TrackerAsserts' /\ StreamAsNeeded'
    BY NetworkNext DEF IInv
  <1>3. OfflineShown'
    BY OfflineNext DEF IInv
  <1>4. Calls'
    BY CallsNext DEF IInv, Calls
  <1> QED
    BY <1>1, <1>2, <1>3, <1>4 DEF IInv, Calls

LEMMA IInvHolds == Spec => []IInv
PROOF
  BY IInvInit, IInvNext, PTL DEF Spec

(* Type correctness of the gets.                                           *)
THEOREM GetPathTypeCorrect == Spec => []TypeOK
PROOF
  <1>1. IInv => TypeOK
    BY DEF IInv
  <1> QED
    BY <1>1, IInvHolds, PTL

(* None of the tracker's assertions fails, however attempts to connect,    *)
(* their timer and changes of credentials interleave.                      *)
THEOREM AssertsHold == Spec => []TrackerAsserts
PROOF
  <1>1. IInv => TrackerAsserts
    BY DEF IInv
  <1> QED
    BY <1>1, IInvHolds, PTL

(* The watch stream is up, or coming up, whenever a query is listened to,  *)
(* and closed as idle only when none is.                                   *)
THEOREM StreamIsAsNeeded == Spec => []StreamAsNeeded
PROOF
  <1>1. IInv => StreamAsNeeded
    BY DEF IInv
  <1> QED
    BY <1>1, IInvHolds, PTL

(* A listener whose call was answered is about to be removed.              *)
THEOREM ListenersAreReleased == Spec => []ListenersReleased
PROOF
  <1>1. IInv => ListenersReleased
    BY DEF IInv
  <1> QED
    BY <1>1, IInvHolds, PTL

(* The first event of a listener is from the cache if and only if the      *)
(* client counts as offline by then.                                       *)
THEOREM CacheMeansOffline == Spec => CacheWhenOffline
PROOF
  <1>1. IInv /\ [Next]_vars =>
          [\A g \in raised' \ raised :
              events'[g][Len(events'[g])] = "cache" <=> tracker'.state = "Offline"
          ]_vars
    BY CacheStep DEF IInv
  <1> QED
    BY <1>1, IInvHolds, PTL DEF Spec, CacheWhenOffline
-------------------------------------------------------------------------------
(* No call is forgotten. A listener that has not raised its first event may*)
(* not do so yet.                                                          *)
UnraisedWait ==
    \A g \in listening \ raised :
        ~ShouldRaiseInitialEvent(view[QueryOf[g]], tracker.state)

(* An unanswered call is with one of the queues or with its listener; only *)
(* answered ones are muted or about to be removed.                         *)
Carried(g) ==
    Waits(g) \/ events[g] # <<>> \/ answers[g] # <<>> \/ g \in listening \ raised

CallsCarried ==
    /\ \A g \in asked : Carried(g)
    /\ \A g \in muted : answers[g] # <<>>
    /\ \A g \in Gets : Queued(Remove(g)) => answers[g] # <<>>

(* A view that may not be shown in some state may not be shown in any but  *)
(* offline.                                                                *)
LEMMA WaitsUntilOffline ==
    ASSUME NEW v, NEW s, ~ShouldRaiseInitialEvent(v, s),
           NEW t, t # "Offline" \/ t = s
    PROVE  ~ShouldRaiseInitialEvent(v, t)
PROOF
  BY DEF ShouldRaiseInitialEvent

(* After the listeners were shown the views v, those that have not raised  *)
(* their first event may not.                                              *)
LEMMA ShownWait ==
    ASSUME TypeOK, NEW v, NEW changed, NEW s, Show(v, changed, s),
           tracker'.state # "Offline" \/ tracker'.state = s, listening' = listening
    PROVE  UnraisedWait'
PROOF
  <1> SUFFICES ASSUME NEW g \in listening, g \notin raised'
               PROVE  ~ShouldRaiseInitialEvent(view'[QueryOf[g]], tracker'.state)
    BY DEF UnraisedWait
  <1>1. view' = v
    BY DEF Show
  <1>2. g \notin raised /\ ~ShouldRaiseInitialEvent(v[QueryOf[g]], s)
    BY DEF Show, Post
  <1> QED
    BY <1>1, <1>2, WaitsUntilOffline

LEMMA BroadcastWait ==
    ASSUME TypeOK, UnraisedWait, NEW t, Broadcast(t), listening' = listening
    PROVE  UnraisedWait'
PROOF
  <1>1. CASE t.state = tracker.state
    BY <1>1 DEF Broadcast, UnraisedWait
  <1>2. CASE t.state # tracker.state
    BY <1>2, ShownWait DEF Broadcast
  <1> QED
    BY <1>1, <1>2

LEMMA UnraisedNext ==
    TypeOK /\ TrackerAsserts /\ UnraisedWait /\ [Next]_vars => UnraisedWait'
PROOF
  <1> SUFFICES ASSUME TypeOK, TrackerAsserts, UnraisedWait, [Next]_vars
               PROVE  UnraisedWait'
    OBVIOUS
  <1>t. tracker \in Trackers
    BY DEF TypeOK, Trackers
  <1>1. CASE UNCHANGED <<listening, raised, view, tracker>>
    BY <1>1 DEF UnraisedWait
  <1>2. CASE AddQueryListener
    <2> DEFINE g == Head(worker_queue).get
    <2>1. /\ listening' = listening \cup {g}
          /\ raised' = raised \cup RaisedAtOnce(g, view)
          /\ view' = view
          /\ tracker' = tracker \/ tracker' = HandleWatchStreamStart(tracker)
      BY <1>2 DEF AddQueryListener, Post
    <2>2. tracker'.state # "Offline" \/ tracker'.state = tracker.state
      BY <1>t, <2>1, TrackerStarted
    <2> SUFFICES ASSUME NEW h \in listening', h \notin raised'
                 PROVE  ~ShouldRaiseInitialEvent(view'[QueryOf[h]], tracker'.state)
      BY DEF UnraisedWait
    <2>3. ~ShouldRaiseInitialEvent(view[QueryOf[h]], tracker.state)
      <3>1. CASE h = g
        BY <2>1, <3>1 DEF RaisedAtOnce
      <3>2. CASE h \in listening
        BY <2>1, <3>2 DEF UnraisedWait
      <3> QED
        BY <2>1, <3>1, <3>2
    <2> QED
      BY <2>1, <2>2, <2>3, WaitsUntilOffline
  <1>3. ASSUME raised' = raised, listening' \subseteq listening,
               view' = ViewsOf(listening'),
               tracker'.state # "Offline" \/ tracker'.state = tracker.state
        PROVE  UnraisedWait'
    <2> SUFFICES ASSUME NEW h \in listening', h \notin raised'
                 PROVE  ~ShouldRaiseInitialEvent(view'[QueryOf[h]], tracker'.state)
      BY DEF UnraisedWait
    <2>1. h \in Gets /\ QueryOf[h] \in Queries
      BY <1>3, GetPathAssumption DEF TypeOK
    <2>2. view'[QueryOf[h]] = view[QueryOf[h]]
      BY <1>3, <2>1 DEF ViewsOf, Listened
    <2> QED
      BY <1>3, <2>2, WaitsUntilOffline DEF UnraisedWait
  <1>4. CASE RemoveQueryListener
    <2>1. /\ raised' = raised /\ listening' \subseteq listening
          /\ view' = ViewsOf(listening')
          /\ tracker' = tracker \/ tracker' = UpdateState(tracker, "Unknown")
      BY <1>4 DEF RemoveQueryListener
    <2>2. tracker'.state # "Offline" \/ tracker'.state = tracker.state
      BY <2>1 DEF UpdateState
    <2> QED
      BY <1>3, <2>1, <2>2
  <1>5. CASE \E q \in Queries : WatchError(q)
    BY <1>3, <1>5 DEF WatchError, UpdateState
  <1>6. CASE FailWatchStream \/ IdleTimeout \/ OnlineStateTimeout
    BY <1>6, BroadcastWait DEF FailWatchStream, IdleTimeout, OnlineStateTimeout
  <1>7. CASE \E q \in Queries : LocalChange(q)
    BY <1>7, ShownWait DEF LocalChange, netVars
  <1>8. CASE \E q \in Queries : WatchSnapshot(q) \/ WatchReset(q) \/ ResolveLimbo(q)
    <2>1. Message /\ listening' = listening
      BY <1>8 DEF WatchSnapshot, WatchReset, ResolveLimbo
    <2>2. tracker'.state = "Online"
      BY <2>1 DEF Message, UpdateState
    <2>3. \E v, changed : Show(v, changed, "Online")
      BY <1>8 DEF WatchSnapshot, WatchReset, ResolveLimbo
    <2> QED
      BY <2>1, <2>2, <2>3, ShownWait
  <1>9. CASE OtherMessage
    BY <1>9, WaitsUntilOffline
       DEF OtherMessage, Message, viewVars, UpdateState, UnraisedWait
  <1>10. CASE \E changed \in SUBSET Queries : HandleCredentialChange(changed)
    <2> DEFINE t == UpdateState(tracker, "Unknown")
    <2>1. /\ listening' = listening
          /\ tracker' = t \/ tracker' = HandleWatchStreamStart(t)
          /\ \E v, changed : Show(v, changed, tracker.state)
      BY <1>10 DEF HandleCredentialChange
    <2>2. t \in Trackers /\ t.state = "Unknown" /\ t.failures = 0
      BY <1>t, TrackerUpdated
    <2> HIDE DEF t
    <2>3. tracker'.state # "Offline"
      BY <2>1, <2>2, TrackerStarted
    <2> QED
      BY <2>1, <2>3, ShownWait
  <1>11. CASE OpenWatchStream \/ BackoffElapsed
    BY <1>1, <1>11 DEF OpenWatchStream, BackoffElapsed, viewVars
  <1>12. CASE UNCHANGED vars \/ \E g \in Gets : GetDocuments(g) \/ OnEvent(g)
    BY <1>1, <1>12 DEF vars, GetDocuments, OnEvent, viewVars, netVars
  <1> QED
    BY <1>2, <1>4, <1>5, <1>6, <1>7, <1>8, <1>9, <1>10, <1>11, <1>12
       DEF Next, RunTask, Attempt

(* Appending to a sequence leaves it with something in it.                 *)
LEMMA NotEmptied ==
    ASSUME TypeOK, NEW gets \in SUBSET Gets, Posted(gets), NEW g \in Gets
    PROVE  events[g] # <<>> \/ g \in gets => events'[g] # <<>>
PROOF
  <1>1. PICK kind \in [Gets -> {"server", "cache"}] :
          events' = [h \in Gets |-> IF h \in gets THEN Append(events[h], kind[h])
                                                  ELSE events[h]]
    BY DEF Posted
  <1>2. CASE g \in gets
    <2>1. events[g] \in Seq(Outcomes) /\ kind[g] \in Outcomes
      BY <1>1 DEF TypeOK, Outcomes
    <2> QED
      BY <1>1, <1>2, <2>1, EventAppended
  <1>3. CASE g \notin gets
    BY <1>1, <1>3
  <1> QED
    BY <1>2, <1>3

(* A step that leaves the app and the worker queue alone carries every call*)
(* on if a listener that goes, or raises its first event, has an event.    *)
LEMMA CarriedOn ==
    ASSUME TypeOK, CallsCarried, UNCHANGED <<appVars, worker_queue>>,
           \A g \in Gets : events[g] # <<>> => events'[g] # <<>>,
           \A g \in listening \ raised :
              g \in listening' \ raised' \/ events'[g] # <<>>
    PROVE  CallsCarried'
PROOF
  <1>1. \A g \in asked : g \in Gets
    BY DEF TypeOK
  <1>2. \A g \in asked : Carried(g)'
    BY <1>1 DEF CallsCarried, Carried, Waits, appVars
  <1> QED
    BY <1>2 DEF CallsCarried, Queued, appVars

LEMMA CarriedQuiet ==
    ASSUME TypeOK, CallsCarried, Quiet
    PROVE  CallsCarried'
PROOF
  <1>1. PICK gets \in SUBSET listening : Posted(gets)
    BY DEF Quiet
  <1>2. gets \in SUBSET Gets /\ listening \subseteq Gets
    BY DEF TypeOK
  <1>3. raised' = raised \cup gets
    BY <1>1 DEF Posted
  <1>4. \A g \in Gets : events[g] # <<>> \/ g \in gets => events'[g] # <<>>
    BY <1>1, <1>2, NotEmptied
  <1> QED
    BY <1>2, <1>3, <1>4, CarriedOn DEF Quiet

LEMMA CarriedWatchError ==
    ASSUME TypeOK, CallsCarried, NEW q \in Queries, WatchError(q)
    PROVE  CallsCarried'
PROOF
  <1>1. /\ events' = [g \in Gets |-> IF g \in ListenersOf(q)
                                       THEN Append(events[g], "error")
                                       ELSE events[g]]
        /\ listening' = listening \ ListenersOf(q)
        /\ UNCHANGED <<appVars, worker_queue, raised>>
    BY DEF WatchError, ListenersOf
  <1>2. ASSUME NEW g \in Gets, events[g] # <<>> \/ g \in ListenersOf(q)
        PROVE  events'[g] # <<>>
    <2>1. CASE g \in ListenersOf(q)
      <3>1. events[g] \in Seq(Outcomes) /\ "error" \in Outcomes
        BY DEF TypeOK, Outcomes
      <3> QED
        BY <1>1, <2>1, <3>1, EventAppended
    <2>2. CASE g \notin ListenersOf(q)
      BY <1>1, <1>2, <2>2
    <2> QED
      BY <2>1, <2>2
  <1>3. \A g \in listening \ raised : g \in listening' \ raised' \/ events'[g] # <<>>
    BY <1>1, <1>2 DEF TypeOK
  <1> QED
    BY <1>1, <1>2, <1>3, CarriedOn

LEMMA CarriedGetDocuments ==
    ASSUME TypeOK, CallsCarried, NEW g \in Gets, GetDocuments(g)
    PROVE  CallsCarried'
PROOF
  <1>1. /\ asked' = asked \cup {g}
        /\ worker_queue' = Append(worker_queue, Add(g))
        /\ UNCHANGED <<muted, answers, events, listening, raised>>
    BY DEF GetDocuments, viewVars
  <1>2. /\ \A u : Queued(u)' <=> Queued(u) \/ u = Add(g)
        /\ \A h : Waits(h)' <=> Waits(h) \/ Add(h) = Add(g)
    BY <1>1, TaskKinds, QueueAppended
  <1>3. \A h : Remove(h) # Add(g)
    BY DEF Add, Remove
  <1>4. \A h \in asked' : Carried(h)'
    BY <1>1, <1>2 DEF CallsCarried, Carried
  <1> QED
    BY <1>1, <1>2, <1>3, <1>4 DEF CallsCarried

LEMMA CarriedOnEvent ==
    ASSUME TypeOK, CallsCarried, NEW g \in Gets, OnEvent(g)
    PROVE  CallsCarried'
PROOF
  <1> DEFINE e == Head(events[g])
  <1>1. /\ events[g] # <<>>
        /\ events' = [events EXCEPT ![g] = Tail(@)]
        /\ UNCHANGED <<asked, listening, raised>>
    BY DEF OnEvent, appVars
  <1>2. \A h \in Gets : h # g => events'[h] = events[h]
    BY <1>1 DEF TypeOK
  <1>3. CASE g \in muted
    <2>1. UNCHANGED <<appVars, worker_queue>> /\ answers[g] # <<>>
      BY <1>3 DEF OnEvent, CallsCarried
    <2>2. \A h \in asked : Carried(h)'
      BY <1>1, <1>2, <2>1 DEF CallsCarried, Carried, Waits, appVars, TypeOK
    <2> QED
      BY <2>1, <2>2 DEF CallsCarried, Queued, appVars
  <1>4. CASE g \notin muted
    <2>1. /\ answers' = [answers EXCEPT ![g] = Append(@, e)]
          /\ \/ UNCHANGED <<muted, worker_queue>>
             \/ /\ muted' = muted \cup {g}
                /\ worker_queue' = Append(worker_queue, Remove(g))
      BY <1>4 DEF OnEvent, Mute
    <2>2. e \in Outcomes /\ answers[g] \in Seq(Outcomes)
      BY <1>1, EventTaken DEF TypeOK
    <2> HIDE DEF e
    <2>3. answers'[g] # <<>> /\ \A h \in Gets : h # g => answers'[h] = answers[h]
      BY <2>1, <2>2, EventAppended DEF TypeOK
    <2>4. CASE UNCHANGED <<muted, worker_queue>>
      <3>1. \A h \in asked : Carried(h)'
        BY <1>1, <1>2, <2>3, <2>4 DEF CallsCarried, Carried, Waits, TypeOK
      <3>2. \A h \in muted : answers'[h] # <<>>
        BY <2>3 DEF CallsCarried, TypeOK
      <3>3. \A h \in Gets : Queued(Remove(h))' => answers'[h] # <<>>
        BY <2>3, <2>4 DEF CallsCarried, Queued
      <3> QED
        BY <1>1, <2>4, <3>1, <3>2, <3>3 DEF CallsCarried
    <2>5. CASE /\ muted' = muted \cup {g}
               /\ worker_queue' = Append(worker_queue, Remove(g))
      <3>1. /\ \A u : Queued(u)' <=> Queued(u) \/ u = Remove(g)
            /\ \A h : Waits(h)' <=> Waits(h) \/ Add(h) = Remove(g)
        BY <2>5, TaskKinds, QueueAppended
      <3>2. \A h \in asked : Carried(h)'
        BY <1>1, <1>2, <2>3, <3>1 DEF CallsCarried, Carried, TypeOK
      <3>3. \A h \in muted' : answers'[h] # <<>>
        BY <2>3, <2>5 DEF CallsCarried, TypeOK
      <3>4. \A h \in Gets : Queued(Remove(h))' => answers'[h] # <<>>
        BY <2>3, <3>1, TaskKinds DEF CallsCarried
      <3> QED
        BY <1>1, <3>2, <3>3, <3>4 DEF CallsCarried
    <2> QED
      BY <2>1, <2>4, <2>5
  <1> QED
    BY <1>3, <1>4

(* The oldest task is done: no other is lost, and none is new.             *)
LEMMA TaskDone ==
    ASSUME TypeOK, CallsCarried, worker_queue # <<>>,
           worker_queue' = Tail(worker_queue)
    PROVE  /\ \A h : Queued(Remove(h))' => Queued(Remove(h))
           /\ \A h : Waits(h) /\ Add(h) # Head(worker_queue) => Waits(h)'
           /\ Queued(Head(worker_queue)) /\ Head(worker_queue) \in Tasks
PROOF
  <1>1. worker_queue \in Seq(Tasks)
    BY DEF TypeOK, Tasks
  <1>2. \A i \in DOMAIN worker_queue' :
           i + 1 \in DOMAIN worker_queue /\ worker_queue'[i] = worker_queue[i + 1]
    BY <1>1, TaskTaken
  <1>3. \A h : Waits(h) <=> Queued(Add(h))
    BY DEF Waits, Queued
  <1>4. \A h : Waits(h)' <=> Queued(Add(h))'
    BY DEF Waits, Queued
  <1> QED
    BY <1>2, <1>3, <1>4, QueueTaken DEF Queued

LEMMA CarriedAddQueryListener ==
    ASSUME TypeOK, CallsCarried, AddsAreNew, AddQueryListener
    PROVE  CallsCarried'
PROOF
  <1> DEFINE t == Head(worker_queue)
  <1>1. /\ worker_queue # <<>> /\ worker_queue' = Tail(worker_queue)
        /\ t.task = "add"
        /\ listening' = listening \cup {t.get}
        /\ Post(RaisedAtOnce(t.get, view), view)
        /\ UNCHANGED <<asked, muted, answers>>
    BY DEF AddQueryListener, Task, appVars
  <1>2. /\ \A h : Queued(Remove(h))' => Queued(Remove(h))
        /\ \A h : Waits(h) /\ Add(h) # t => Waits(h)'
        /\ Queued(t) /\ t \in Tasks
    BY <1>1, TaskDone
  <1>3. PICK g \in Gets : t.get = g /\ t = Add(g)
    BY <1>1, <1>2, TaskKinds
  <1> HIDE DEF t
  <1>4. g \notin raised
    BY <1>2, <1>3 DEF AddsAreNew, Untouched, Waits, Queued
  <1> DEFINE gets == RaisedAtOnce(g, view)
  <1>5. gets \in SUBSET Gets /\ gets \subseteq {g}
    BY <1>3 DEF RaisedAtOnce
  <1>6. Posted(gets)
    BY <1>1, <1>3, <1>5, PostPosts
  <1>7. raised' = raised \cup gets
    BY <1>6 DEF Posted
  <1>8. \A h \in Gets : events[h] # <<>> \/ h \in gets => events'[h] # <<>>
    BY <1>5, <1>6, NotEmptied
  <1> HIDE DEF gets
  <1>9. ASSUME NEW h \in asked
        PROVE  Carried(h)'
    <2>1. h \in Gets /\ Carried(h)
      BY DEF TypeOK, CallsCarried
    <2>2. CASE h = g
      BY <1>1, <1>3, <1>4, <1>7, <1>8, <2>1, <2>2 DEF Carried
    <2>3. CASE h # g
      <3>1. Add(h) # t
        BY <1>3, <2>1, <2>3, TaskKinds
      <3> QED
        BY <1>1, <1>2, <1>5, <1>7, <1>8, <2>1, <2>3, <3>1 DEF Carried
    <2> QED
      BY <2>2, <2>3
  <1> QED
    BY <1>1, <1>2, <1>9 DEF CallsCarried

LEMMA CarriedRemoveQueryListener ==
    ASSUME TypeOK, CallsCarried, RemoveQueryListener
    PROVE  CallsCarried'
PROOF
  <1> DEFINE t == Head(worker_queue)
  <1>1. /\ worker_queue # <<>> /\ worker_queue' = Tail(worker_queue)
        /\ t.task = "remove"
        /\ listening' = listening \ {t.get}
        /\ UNCHANGED <<asked, muted, answers, events, raised>>
    BY DEF RemoveQueryListener, Task, appVars
  <1>2. /\ \A h : Queued(Remove(h))' => Queued(Remove(h))
        /\ \A h : Waits(h) /\ Add(h) # t => Waits(h)'
        /\ Queued(t) /\ t \in Tasks
    BY <1>1, TaskDone
  <1>3. t.get \in Gets /\ t = Remove(t.get)
    BY <1>1, <1>2, TaskKinds
  <1> HIDE DEF t
  <1>4. answers[t.get] # <<>>
    BY <1>2, <1>3 DEF CallsCarried
  <1>5. \A h : Add(h) # t
    BY <1>3 DEF Add, Remove
  <1>6. \A h \in asked : Carried(h)'
    BY <1>1, <1>2, <1>4, <1>5 DEF CallsCarried, Carried
  <1> QED
    BY <1>1, <1>2, <1>6 DEF CallsCarried

LEMMA CarriedNext == TypeOK /\ AddsAreNew /\ CallsCarried /\ [Next]_vars => CallsCarried'
PROOF
  BY StepKinds, CarriedGetDocuments, CarriedOnEvent, CarriedAddQueryListener,
     CarriedRemoveQueryListener, CarriedWatchError, CarriedQuiet

(* A call that has no answer yet is about to be listened to, has an event  *)
(* waiting for its closure, or waits for news that are not there: no event *)
(* is dropped between the worker queue and the main queue, and no listener *)
(* misses the moment it may be shown what there is (OnViewSnapshot,        *)
(* OnOnlineStateChanged, AddQueryListener).                                *)
THEOREM GetsAreNotForgotten == Spec => []NoGetForgotten
PROOF
  <1>1. Init => UnraisedWait /\ CallsCarried
    BY DEF Init, UnraisedWait, CallsCarried, Queued
  <1>2. IInv /\ UnraisedWait /\ CallsCarried /\ [Next]_vars
           => (UnraisedWait /\ CallsCarried)'
    BY UnraisedNext, CarriedNext DEF IInv
  <1>3. UnraisedWait /\ CallsCarried => NoGetForgotten
    BY DEF UnraisedWait, CallsCarried, Carried, Waits, NoGetForgotten
  <1> QED
    BY <1>1, <1>2, <1>3, IInvHolds, PTL DEF Spec
-------------------------------------------------------------------------------
(* One answer at most: the step that appends to answers is OneAnswer's.    *)
LEMMA AnswersInit == Init => Promised!Init
PROOF
  BY DEF Init, Promised!Init

LEMMA AnswersNext == IInv /\ [Next]_vars => [Promised!Next]_(Promised!answerVars)
PROOF
  <1> SUFFICES ASSUME IInv, [Next]_vars
               PROVE  Promised!Next \/ UNCHANGED Promised!answerVars
    OBVIOUS
  <1>1. CASE UNCHANGED <<asked, answers>>
    BY <1>1 DEF Promised!answerVars
  <1>2. ASSUME NEW g \in Gets, GetDocuments(g)
        PROVE  Promised!Next
    BY <1>2 DEF GetDocuments, Promised!Next, Promised!Ask
  <1>3. ASSUME NEW g \in Gets, OnEvent(g)
        PROVE  Promised!Next \/ UNCHANGED <<asked, answers>>
    <2>1. CASE g \in muted
      BY <1>3, <2>1 DEF OnEvent, appVars
    <2>2. CASE g \notin muted
      <3> DEFINE e == Head(events[g])
      <3>1. /\ events[g] # <<>> /\ asked' = asked
            /\ answers' = [answers EXCEPT ![g] = Append(@, e)]
        BY <1>3, <2>2 DEF OnEvent
      <3>2. e \in Outcomes
        BY <3>1, EventTaken DEF IInv, TypeOK
      <3>3. g \in asked /\ answers[g] = <<>>
        BY <2>2, <3>1 DEF IInv, AddsAreNew, Untouched, AnsweredIsOver, Over
      <3>4. Append(answers[g], e) = <<e>>
        BY <3>3
      <3>5. Promised!Answer(g, e)
        BY <3>1, <3>3, <3>4 DEF Promised!Answer
      <3> QED
        BY <3>2, <3>5 DEF Promised!Next
    <2> QED
      BY <2>1, <2>2
  <1>4. CASE AddQueryListener \/ RemoveQueryListener \/ \E q \in Queries : WatchError(q)
    BY <1>1, <1>4 DEF AddQueryListener, RemoveQueryListener, WatchError, appVars
  <1>5. CASE Quiet
    BY <1>1, <1>5 DEF Quiet, appVars
  <1> QED
    BY <1>1, <1>2, <1>3, <1>4, <1>5, StepKinds DEF IInv

(* Every call is answered once at most: the gets implement OneAnswer.      *)
THEOREM GetsImplementOneAnswer == Spec => Implements
PROOF
  BY AnswersInit, AnswersNext, IInvHolds, PTL DEF Spec, Implements, Promised!Spec
===============================================================================
