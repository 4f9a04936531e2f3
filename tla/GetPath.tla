-------------------------------- MODULE GetPath -------------------------------
(***************************************************************************)
(* How the Firestore client of one device answers the app's getDocuments:  *)
(* a listener that removes itself after its first event (Query), the event *)
(* manager and the views of the sync engine, the watch stream of the remote*)
(* store, and the tracker that decides when the client counts as offline.  *)
(* Events cross from the client's worker queue to the app's main queue,    *)
(* removals cross back. How a starting stream gets its token is WritePath's*)
(* subject; here it opens or fails.                                        *)
(***************************************************************************)
EXTENDS Naturals, Sequences, FiniteSets

CONSTANTS
    Gets,                   \* getDocuments calls
    Queries,
    QueryOf,                \* the query of each call
    MaxWatchStreamFailures, \* kMaxWatchStreamFailures
    MaxGets,                \* bound: calls made
    MaxEvents,              \* bound: events of a listener waiting to run
    MaxFaults               \* bound: broken streams, rejections, resets, new
                            \* credentials

ASSUME GetPathAssumption ==
    /\ QueryOf \in [Gets -> Queries]
    /\ MaxWatchStreamFailures \in Nat \ {0}
    /\ MaxGets \in Nat /\ MaxEvents \in Nat \ {0} /\ MaxFaults \in Nat

VARIABLES
    asked,          \* calls made
    worker_queue,   \* tasks waiting on the client's worker queue
    events,         \* per call, waiting on the main queue
    muted,          \* calls whose listener raises no further events
    answers,        \* per call, what its closure was called with
    listening,      \* calls whose listener the event manager has
    raised,         \* calls whose listener raised its initial event
    view,           \* of every query that is listened to
    tracker,        \* the OnlineStateTracker
    watch,          \* state of the watch stream
    idleness_timer, \* of the watch stream
    faults          \* bound: faults so far

appVars  == <<asked, muted, answers>>
viewVars == <<events, listening, raised, view>>
netVars  == <<tracker, watch, idleness_timer, faults>>
vars == <<appVars, worker_queue, viewVars, netVars>>
-------------------------------------------------------------------------------
Outcomes == {"server", "cache", "error"}

Add(g)    == [task |-> "add", get |-> g]
Remove(g) == [task |-> "remove", get |-> g]

(* A query view: whether the server said it is complete, and whether some  *)
(* document of the cache is in limbo.                                      *)
NewView == [current |-> FALSE, limbo |-> FALSE]
FromCache(v) == v.limbo \/ ~v.current

IsStarted == watch \in {"Starting", "Open", "Backoff"}

(* The queries listened to, which are also the targets of the watch stream.*)
Listened(gets) == {QueryOf[g] : g \in gets}

TypeOK ==
    /\ asked \subseteq Gets
    /\ worker_queue \in Seq([task : {"add", "remove"}, get : Gets])
    /\ events \in [Gets -> Seq(Outcomes)]
    /\ muted \subseteq asked
    /\ answers \in [Gets -> Seq(Outcomes)]
    /\ listening \subseteq asked
    /\ raised \subseteq asked
    /\ view \in [Queries -> [current : BOOLEAN, limbo : BOOLEAN]]
    /\ tracker \in [state : {"Unknown", "Online", "Offline"},
                    failures : 0 .. MaxWatchStreamFailures, timer : BOOLEAN]
    /\ watch \in {"Initial", "Starting", "Open", "Error", "Backoff"}
    /\ idleness_timer \in BOOLEAN
    /\ faults \in 0 .. MaxFaults
-------------------------------------------------------------------------------
(* OnlineStateTracker. Failures are counted up to where they matter.       *)

(* Mutant: the timer is left running.                                      *)
UpdatedOnly(t, s) == [t EXCEPT !.state = s, !.failures = 0]

UpdateState(t, s) == [state |-> s, failures |-> 0, timer |-> FALSE]

HandleWatchStreamStart(t) ==
    IF t.failures # 0 THEN t ELSE [t EXCEPT !.state = "Unknown", !.timer = TRUE]

HandleWatchStreamFailure(t) ==
    IF t.state = "Online" THEN [t EXCEPT !.state = "Unknown"]
    ELSE IF t.failures + 1 < MaxWatchStreamFailures
           THEN [t EXCEPT !.failures = @ + 1]
           ELSE [state |-> "Offline", failures |-> MaxWatchStreamFailures,
                 timer |-> FALSE]
-------------------------------------------------------------------------------
(* Views and listeners.                                                    *)

(* The events of the listeners in gets, each of the kind its view is of.   *)
Post(gets, v) ==
    /\ events' = [g \in Gets |->
                    IF g \in gets
                      THEN Append(events[g], IF FromCache(v[QueryOf[g]])
                                               THEN "cache" ELSE "server")
                      ELSE events[g]]
    /\ raised' = raised \cup gets

(* ShouldRaiseInitialEvent: wait_for_sync_when_online is set.              *)
ShouldRaiseInitialEvent(v, state) == ~FromCache(v) \/ state = "Offline"

(* The views become v, those of the changed queries with other documents,  *)
(* and the online state becomes state: OnViewSnapshot and                  *)
(* OnOnlineStateChanged of every listener.                                 *)
Show(v, changed, state) ==
    /\ view' = v
    /\ Post({g \in listening :
               LET q == QueryOf[g]
               IN  IF g \in raised
                     THEN q \in changed \/ FromCache(v[q]) # FromCache(view[q])
                     ELSE ShouldRaiseInitialEvent(v[q], state)}, v)

(* RemoveAndCleanupQuery of the queries that lose their last listener.     *)
ViewsOf(gets) ==
    [q \in Queries |-> IF q \in Listened(gets) THEN view[q] ELSE NewView]

(* Mutant: views stay current when the client goes offline.                *)
StillCurrent(s) == view

(* View::ApplyOnlineStateChange.                                           *)
ViewsWhen(state) ==
    [q \in Queries |-> [view[q] EXCEPT !.current = @ /\ state # "Offline"]]

(* SetAndBroadcast, if the state is another than before.                   *)
Broadcast(t) ==
    /\ tracker' = t
    /\ IF t.state # tracker.state
         THEN Show(ViewsWhen(t.state), {}, t.state)
         ELSE UNCHANGED <<view, events, raised>>

(* A view after a snapshot: limbo documents are looked for only when it is *)
(* current.                                                                *)
Views(q, current) ==
    {[view EXCEPT ![q] = [current |-> current, limbo |-> l]] :
        l \in IF current THEN BOOLEAN ELSE {view[q].limbo}}
-------------------------------------------------------------------------------
(* The app.                                                                *)

Init ==
    /\ asked = {}
    /\ worker_queue = <<>>
    /\ events = [g \in Gets |-> <<>>]
    /\ muted = {}
    /\ answers = [g \in Gets |-> <<>>]
    /\ listening = {}
    /\ raised = {}
    /\ view = [q \in Queries |-> NewView]
    /\ tracker = [state |-> "Unknown", failures |-> 0, timer |-> FALSE]
    /\ watch = "Initial"
    /\ idleness_timer = FALSE
    /\ faults = 0

Room  == \A g \in Gets : Len(events[g]) < MaxEvents
Fault == faults < MaxFaults /\ faults' = faults + 1

(* Query::GetDocuments.                                                    *)
GetDocuments(g) ==
    /\ g \notin asked
    /\ Cardinality(asked) < MaxGets
    /\ asked' = asked \cup {g}
    /\ worker_queue' = Append(worker_queue, Add(g))
    /\ UNCHANGED <<muted, answers, viewVars, netVars>>

(* Mutant: Remove does not mute.                                           *)
MuteNobody(g) == {}

Mute(g) == {g}

(* AsyncEventListener's task and ListenOnce::OnEvent: a snapshot removes   *)
(* the listener before it is passed on, an error does not.                 *)
OnEvent(g) ==
    LET e == Head(events[g])
    IN  /\ events[g] # <<>>
        /\ events' = [events EXCEPT ![g] = Tail(@)]
        /\ IF g \in muted THEN UNCHANGED <<appVars, worker_queue>>
           ELSE /\ answers' = [answers EXCEPT ![g] = Append(@, e)]
                /\ IF e = "error" THEN UNCHANGED <<muted, worker_queue>>
                   ELSE /\ muted' = muted \cup Mute(g)
                        /\ worker_queue' = Append(worker_queue, Remove(g))
                /\ UNCHANGED asked
        /\ UNCHANGED <<listening, raised, view, netVars>>
-------------------------------------------------------------------------------
(* The client's worker queue.                                              *)

Task(t) ==
    /\ worker_queue # <<>>
    /\ Head(worker_queue).task = t
    /\ worker_queue' = Tail(worker_queue)

(* Stream::Start: after an error the stream backs off first.               *)
Started(s) == IF s = "Error" THEN "Backoff" ELSE "Starting"

(* Mutant: a listener of a known query waits for the next snapshot.        *)
RaisedIfNew(g, v) ==
    {h \in {g} :
        /\ QueryOf[g] \notin Listened(listening)
        /\ ShouldRaiseInitialEvent(v[QueryOf[g]], tracker.state)}

RaisedAtOnce(g, v) ==
    {h \in {g} : ShouldRaiseInitialEvent(v[QueryOf[g]], tracker.state)}

(* Mutant: a watch request leaves the idleness check running.              *)
KeepIdleCheck(sent) == idleness_timer

CancelIdleCheck(sent) == idleness_timer /\ ~sent

(* EventManager::AddQueryListener: another listener of a known query is    *)
(* shown its view; a new query is listened to.                             *)
AddQueryListener ==
    LET g == Head(worker_queue).get
        q == QueryOf[g]
        first == q \notin Listened(listening)
    IN  /\ Task("add")
        /\ listening' = listening \cup {g}
        /\ Post(RaisedAtOnce(g, view), view)
        /\ IF first /\ ~IsStarted
             THEN /\ watch' = Started(watch)
                  /\ tracker' = HandleWatchStreamStart(tracker)
             ELSE UNCHANGED <<watch, tracker>>
        /\ idleness_timer' = CancelIdleCheck(first)
        /\ UNCHANGED <<appVars, view, faults>>

(* EventManager::RemoveQueryListener and, of the query's last listener,    *)
(* StopListening.                                                          *)
RemoveQueryListener ==
    LET g == Head(worker_queue).get
        left == listening \ {g}
        unneeded == g \in listening /\ left = {}
    IN  /\ Task("remove")
        /\ listening' = left
        /\ view' = ViewsOf(left)
        /\ IF unneeded /\ watch # "Open"
             THEN tracker' = UpdateState(tracker, "Unknown")
             ELSE UNCHANGED tracker
        /\ idleness_timer' = IF unneeded /\ watch = "Open" THEN TRUE
                                                           ELSE idleness_timer
        /\ UNCHANGED <<appVars, events, raised, watch, faults>>

(* A local write, or the end of one, changes documents of a view.          *)
LocalChange(q) ==
    /\ Room
    /\ q \in Listened(listening)
    /\ \E v \in Views(q, view[q].current) : Show(v, {q}, tracker.state)
    /\ UNCHANGED <<appVars, worker_queue, listening, netVars>>

(* OnWatchStreamOpen: the targets are sent.                                *)
OpenWatchStream ==
    /\ watch = "Starting"
    /\ watch' = "Open"
    /\ idleness_timer' = FALSE
    /\ UNCHANGED <<appVars, worker_queue, viewVars, tracker, faults>>

BackoffElapsed ==
    /\ watch = "Backoff"
    /\ watch' = "Starting"
    /\ UNCHANGED <<appVars, worker_queue, viewVars, tracker, idleness_timer,
                   faults>>

(* OnWatchStreamClose after an error: no token, or a broken call.          *)
FailWatchStream ==
    /\ Room
    /\ watch \in {"Starting", "Open"}
    /\ Fault
    /\ idleness_timer' = FALSE
    /\ IF listening # {}
         THEN /\ watch' = Started("Error")
              /\ Broadcast(HandleWatchStreamStart(
                              HandleWatchStreamFailure(tracker)))
         ELSE /\ watch' = "Error"
              /\ Broadcast(UpdateState(tracker, "Unknown"))
    /\ UNCHANGED <<appVars, worker_queue, listening>>

(* The idleness timer stops the stream.                                    *)
IdleTimeout ==
    /\ idleness_timer
    /\ idleness_timer' = FALSE
    /\ watch' = "Initial"
    /\ Broadcast(UpdateState(tracker, "Unknown"))
    /\ UNCHANGED <<appVars, worker_queue, listening, faults>>

(* The timer set by HandleWatchStreamStart.                                *)
OnlineStateTimeout ==
    /\ Room
    /\ tracker.timer
    /\ Broadcast([tracker EXCEPT !.state = "Offline", !.timer = FALSE])
    /\ UNCHANGED <<appVars, worker_queue, listening, watch, idleness_timer,
                   faults>>

(* Any message of the server says that the client is online.               *)
Message ==
    /\ Room
    /\ watch = "Open"
    /\ tracker' = UpdateState(tracker, "Online")
    /\ UNCHANGED <<appVars, worker_queue, watch, idleness_timer>>

(* An acknowledgement, or documents whose snapshot is yet to come.         *)
OtherMessage == Message /\ UNCHANGED <<viewVars, faults>>

(* A snapshot, the first after which the target is current or a later one. *)
WatchSnapshot(q) ==
    /\ Message
    /\ q \in Listened(listening)
    /\ \E v \in Views(q, TRUE), changed \in SUBSET {q} :
          Show(v, changed, "Online")
    /\ UNCHANGED <<listening, faults>>

(* The server starts the target afresh, or sends a snapshot before it is   *)
(* current again.                                                          *)
WatchReset(q) ==
    /\ Message
    /\ q \in Listened(listening)
    /\ Fault
    /\ \E v \in Views(q, FALSE), changed \in SUBSET {q} :
          Show(v, changed, "Online")
    /\ UNCHANGED listening

(* The server answers or rejects the listens for documents in limbo.       *)
ResolveLimbo(q) ==
    /\ Message
    /\ q \in Listened(listening)
    /\ view[q].limbo
    /\ \E changed \in SUBSET {q} :
          Show([view EXCEPT ![q].limbo = FALSE], changed, "Online")
    /\ UNCHANGED <<listening, faults>>

(* Mutant: the listeners of a rejected query are kept.                     *)
NoneOf(q) == {}

ListenersOf(q) == {g \in listening : QueryOf[g] = q}

(* ProcessTargetError, HandleRejectedListen and EventManager::OnError: the *)
(* listeners are gone, the stream is not looked at.                        *)
WatchError(q) ==
    /\ Room
    /\ watch = "Open"
    /\ q \in Listened(listening)
    /\ Fault
    /\ tracker' = UpdateState(tracker, "Online")
    /\ events' = [g \in Gets |->
                    IF g \in listening /\ QueryOf[g] = q
                      THEN Append(events[g], "error") ELSE events[g]]
    /\ listening' = listening \ ListenersOf(q)
    /\ view' = ViewsOf(listening')
    /\ idleness_timer' = (idleness_timer
                             \/ (view[q].limbo /\ listening' = {}))
    /\ UNCHANGED <<appVars, worker_queue, raised, watch>>

(* HandleCredentialChange: the writes of another user show in the views of *)
(* the changed queries, and the stream is stopped and started again.       *)
HandleCredentialChange(changed) ==
    /\ Room
    /\ changed \subseteq Listened(listening)
    /\ Fault
    /\ \E v \in [Queries -> [current : BOOLEAN, limbo : BOOLEAN]] :
          /\ \A q \in Queries :
                v[q] \in IF q \in changed
                           THEN {w[q] : w \in Views(q, view[q].current)}
                           ELSE {view[q]}
          /\ Show(v, changed, tracker.state)
    /\ idleness_timer' = FALSE
    /\ watch' = IF listening # {} THEN "Starting"
                ELSE IF IsStarted THEN "Initial" ELSE watch
    /\ tracker' = LET t == UpdateState(tracker, "Unknown")
                  IN  IF listening # {} THEN HandleWatchStreamStart(t) ELSE t
    /\ UNCHANGED <<appVars, worker_queue, listening>>
-------------------------------------------------------------------------------
RunTask  == AddQueryListener \/ RemoveQueryListener
Attempt  == OpenWatchStream \/ BackoffElapsed
Reply(q) == (WatchSnapshot(q) /\ ~view[q].current) \/ ResolveLimbo(q)

Next ==
    \/ \E g \in Gets : GetDocuments(g) \/ OnEvent(g)
    \/ RunTask \/ Attempt
    \/ FailWatchStream \/ IdleTimeout \/ OnlineStateTimeout \/ OtherMessage
    \/ \E q \in Queries :
          \/ LocalChange(q)
          \/ WatchSnapshot(q) \/ WatchReset(q) \/ ResolveLimbo(q)
          \/ WatchError(q)
    \/ \E changed \in SUBSET Queries : HandleCredentialChange(changed)

Spec == Init /\ [][Next]_vars

(* Both queues and the timers run, and once the stream is open the server  *)
(* answers every listen; how long a connection takes nobody knows.         *)
FairSpec ==
    /\ Spec
    /\ WF_vars(RunTask)
    /\ WF_vars(\E g \in Gets : OnEvent(g))
    /\ WF_vars(OnlineStateTimeout)
    /\ WF_vars(Attempt)
    /\ \A q \in Queries : WF_vars(Reply(q))
-------------------------------------------------------------------------------
(* No assertion of the tracker ever fails: its timer runs only while the   *)
(* state is Unknown and an attempt to connect is under way, so that it is  *)
(* never started twice (HandleWatchStreamStart), nor fires in another state*)
(* (its task); and there are no failures to forget while the client is     *)
(* Online (HandleWatchStreamFailure).                                      *)
TrackerAsserts ==
    /\ tracker.timer => tracker.state = "Unknown" /\ IsStarted
    /\ tracker.state = "Online" => tracker.failures = 0

(* While anything is listened to, the watch stream is up, or coming up: no *)
(* failure, no change of credentials and no removal of the last listener   *)
(* racing a new one leaves a listener without a stream; and it is stopped  *)
(* as idle only when nothing is: "Watch stream was stopped gracefully while*)
(* still needed" cannot be.                                                *)
StreamAsNeeded ==
    /\ listening # {} => IsStarted
    /\ idleness_timer => watch = "Open" /\ listening = {}

(* Listeners do not pile up: one whose call has been answered is about to  *)
(* be removed, however the answer and a rejection overtook each other.     *)
ListenersReleased ==
    \A g \in listening :
        answers[g] # <<>> =>
            \E i \in DOMAIN worker_queue : worker_queue[i] = Remove(g)

(* No call is forgotten between the queues: one without an answer is still *)
(* to be listened to, or has an event on its way to its closure, or its    *)
(* listener waits with good reason: there is nothing it may show yet, for  *)
(* its view is not in sync and the client does not count as offline.       *)
NoGetForgotten ==
    \A g \in asked : answers[g] = <<>> =>
        \/ \E i \in DOMAIN worker_queue : worker_queue[i] = Add(g)
        \/ events[g] # <<>> /\ g \notin muted
        \/ /\ g \in listening
           /\ ~ShouldRaiseInitialEvent(view[QueryOf[g]], tracker.state)

(* The first event a listener raises, which becomes the call's answer, is  *)
(* from the cache if and only if the client counts as offline by then: an  *)
(* online client never passes cached documents for the server's, and one   *)
(* that went offline never passes for synced.                              *)
CacheWhenOffline ==
    [][\A g \in raised' \ raised :
          events'[g][Len(events'[g])] = "cache" <=> tracker'.state = "Offline"
      ]_vars

(* Each call is answered once at most, although the listener goes on       *)
(* raising events until the removal has crossed to the worker queue.       *)
Promised == INSTANCE OneAnswer
Implements == Promised!Spec

(* Every call is answered: by a snapshot, an error, or, when neither comes *)
(* in time, the cache. (Again and again, nobody is waiting.)               *)
GetsAnswered == []<>(\A g \in asked : answers[g] # <<>>)

(* "To deal with stream attempts that don't succeed or fail in a timely    *)
(* manner, we have a timeout for OnlineState to reach Online or Offline":  *)
(* while a query is listened to and neither is reached, the timer runs.    *)
UnknownIsTimed ==
    (listening # {} /\ tracker.state = "Unknown") => tracker.timer
===============================================================================
