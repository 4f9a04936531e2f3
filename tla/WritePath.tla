------------------------------- MODULE WritePath ------------------------------
(***************************************************************************)
(* How the Firestore client of one device sends its writes: the user's     *)
(* persistent mutation queue (LocalStore), the write pipeline (RemoteStore)*)
(* and the write stream with its credentials, backoff, idleness and        *)
(* handshake (Stream, WriteStream). All of it runs on the client's worker  *)
(* queue; the app, the credentials provider and the network do not.        *)
(***************************************************************************)
EXTENDS Naturals, Sequences

CONSTANTS
    Users,              \* who may be signed in (nobody being one of them)
    Failed,             \* the answer of a token request that failed
    MaxPendingWrites,   \* kMaxPendingWrites
    MaxTasks,           \* bound: tasks waiting on the worker queue
    MaxBatchId,         \* bound: batch ids in use
    MaxFaults           \* bound: broken calls, failed tokens and deaths

ASSUME WritePathAssumption ==
    /\ Users # {}
    /\ Failed \notin Users
    /\ MaxPendingWrites \in Nat \ {0}
    /\ MaxTasks \in Nat /\ MaxBatchId \in Nat /\ MaxFaults \in Nat

VARIABLES
    auth_user,          \* the credentials provider's current_user
    token_requests,     \* outstanding GetTokens
    worker_queue,       \* tasks waiting on the client's worker queue
    current_user,       \* the user whose mutation queue is in use
    mutations,          \* persistent: each user's pending batch ids
    next_batch_id,
    write_pipeline,     \* batches that have been or will be sent
    state,              \* of the write stream
    idleness_timer,     \* whether it is running
    handshake_complete,
    call_user,          \* whose token the stream's call was made with
    requests,           \* sent on the call, not yet served
    responses,          \* of the server, not yet read
    ended,              \* how the call ended: "no", "refused", "broken"
    faults              \* bound: faults so far

authVars   == <<auth_user, token_requests>>
localVars  == <<current_user, mutations, next_batch_id>>
streamVars == <<state, idleness_timer, handshake_complete>>
callVars   == <<call_user, requests, responses, ended>>
vars == <<authVars, worker_queue, localVars, write_pipeline, streamVars,
          callVars, faults>>
-------------------------------------------------------------------------------
IsStarted(s) == s \in {"Starting", "Open", "Backoff"}

(* A GetToken: who asked, whether the stream has not been closed since     *)
(* (close_count_) and the user has not changed (token_counter).            *)
Request(u, f, c) == [user |-> u, fresh |-> f, counted |-> c]

WriteTask(u)     == [task |-> "write", user |-> u, fresh |-> FALSE]
ChangeTask(u)    == [task |-> "change", user |-> u, fresh |-> FALSE]
ResumeTask(t, f) == [task |-> "resume", user |-> t, fresh |-> f]

Enqueue(tasks, t) == Append(tasks, t)

BatchIds  == Nat \ {0}
Handshake == 0      \* the first request of a call, and its response

TypeOK ==
    /\ auth_user \in Users
    /\ token_requests \subseteq
          [user : Users, fresh : BOOLEAN, counted : BOOLEAN]
    /\ worker_queue \in Seq([task : {"write", "change", "resume"},
                             user : Users \cup {Failed}, fresh : BOOLEAN])
    /\ current_user \in Users
    /\ mutations \in [Users -> Seq(BatchIds)]
    /\ next_batch_id \in BatchIds
    /\ write_pipeline \in Seq(BatchIds)
    /\ state \in {"Initial", "Starting", "Open", "Error", "Backoff"}
    /\ idleness_timer \in BOOLEAN
    /\ handshake_complete \in BOOLEAN
    /\ call_user \in Users \cup {Failed}
    /\ requests \in Seq(Nat)
    /\ responses \in Seq(Nat)
    /\ ended \in {"no", "refused", "broken"}
    /\ faults \in 0 .. MaxFaults
-------------------------------------------------------------------------------
(* The mutation queue.                                                     *)

Ids(s) == {s[i] : i \in DOMAIN s}

After(ids) ==
    CHOOSE n \in {1} \cup {b + 1 : b \in ids} : \A b \in ids : b < n

(* Mutant: only the current user's queue is looked at.                     *)
NextIdOfUser(queues) == After(Ids(queues[current_user]))

(* One more than the largest id in any user's queue.                       *)
LoadNextBatchId(queues) == After(UNION {Ids(queues[u]) : u \in Users})

Without(q, i) == SubSeq(q, 1, i - 1) \o SubSeq(q, i + 1, Len(q))

(* Mutant: the newest batch is removed.                                    *)
RemoveNewest(q, b) == Without(q, Len(q))

RemoveMutationBatch(q, b) == Without(q, CHOOSE i \in DOMAIN q : q[i] = b)

Least(i, j) == IF i < j THEN i ELSE j

(* NextMutationBatchAfterBatchId of the pipeline's last batch, again and   *)
(* again, until there is none or the pipeline is full.                     *)
Added(q, pipe) ==
    LET last == IF pipe = <<>> THEN 0 ELSE pipe[Len(pipe)]
        upto == CHOOSE n \in 0 .. Len(q) :
                   /\ \A i \in 1 .. n : q[i] <= last
                   /\ n < Len(q) => q[n + 1] > last
    IN  SubSeq(q, upto + 1,
               Least(Len(q), upto + MaxPendingWrites - Len(pipe)))
-------------------------------------------------------------------------------
(* The stream. Its parts return the new state or the new credential        *)
(* requests and tasks; the actions below put them together.                *)

(* Mutant: a token answered after a close is used.                         *)
NoTokenStale(toks) == toks

StaleTokens(toks) == {[r EXCEPT !.fresh = FALSE] : r \in toks}

(* ++close_count_: resumptions that were asked for before are ignored.     *)
StaleTasks(tasks) ==
    [i \in DOMAIN tasks |-> [tasks[i] EXCEPT !.fresh = FALSE]]

(* Start and RequestCredentials. After an error the stream backs off first.*)
Start(s, toks) ==
    IF s = "Error"
      THEN state' = "Backoff" /\ token_requests' = toks
      ELSE /\ state' = "Starting"
           /\ token_requests' = toks \cup {Request(auth_user, TRUE, TRUE)}

(* Close, for a stream that is started: the call is gone and its callbacks *)
(* with it, whatever had arrived.                                          *)
Hangup ==
    /\ idleness_timer' = FALSE
    /\ handshake_complete' = FALSE
    /\ call_user' = Failed
    /\ requests' = <<>>
    /\ responses' = <<>>
    /\ ended' = "no"

(* Mutant: a stream that failed is not started again.                      *)
StartIfInitial(pipe, s, toks) ==
    IF pipe # <<>> /\ s = "Initial"
      THEN Start(s, toks)
      ELSE state' = s /\ token_requests' = toks

(* ShouldStartWriteStream and StartWriteStream.                            *)
StartIfNeeded(pipe, s, toks) ==
    IF pipe # <<>> /\ ~IsStarted(s)
      THEN Start(s, toks)
      ELSE state' = s /\ token_requests' = toks

(* FillWritePipeline when no call is open: what was added is sent once the *)
(* handshake is complete.                                                  *)
Refill(q, pipe, s, toks) ==
    /\ write_pipeline' = pipe \o Added(q, pipe)
    /\ StartIfNeeded(write_pipeline', s, toks)

(* Mutant: what is added is sent before the handshake is complete.         *)
FillAndSend(q, pipe) ==
    LET sent == IF state = "Open" THEN Added(q, pipe) ELSE <<>>
    IN  /\ Refill(q, pipe, state, token_requests)
        /\ requests' = requests \o sent
        /\ idleness_timer' =
              IF sent # <<>> THEN FALSE
              ELSE idleness_timer
                      \/ (write_pipeline' = <<>> /\ state = "Open")

(* FillWritePipeline with whatever call there is: what is added is sent at *)
(* once if the handshake is complete; a stream left with nothing to send is*)
(* marked idle.                                                            *)
FillWritePipeline(q, pipe) ==
    LET sent == IF state = "Open" /\ handshake_complete
                  THEN Added(q, pipe) ELSE <<>>
    IN  /\ Refill(q, pipe, state, token_requests)
        /\ requests' = requests \o sent
        /\ idleness_timer' =
              IF sent # <<>> THEN FALSE
              ELSE idleness_timer
                      \/ (write_pipeline' = <<>> /\ state = "Open")
-------------------------------------------------------------------------------
(* The app, the credentials provider and the network.                      *)

Init ==
    /\ auth_user \in Users
    /\ token_requests = {}
    /\ worker_queue = <<>>
    /\ current_user = auth_user
    /\ mutations = [u \in Users |-> <<>>]
    /\ next_batch_id = 1
    /\ write_pipeline = <<>>
    /\ state = "Initial"
    /\ idleness_timer = FALSE
    /\ handshake_complete = FALSE
    /\ call_user = Failed
    /\ requests = <<>>
    /\ responses = <<>>
    /\ ended = "no"
    /\ faults = 0

Room  == Len(worker_queue) < MaxTasks
Fault == faults < MaxFaults /\ faults' = faults + 1

(* The app makes a write; setData, updateData and delete() return before   *)
(* it is in the mutation queue.                                            *)
MakeWrite ==
    /\ Room
    /\ next_batch_id <= MaxBatchId
    /\ worker_queue' = Enqueue(worker_queue, WriteTask(auth_user))
    /\ UNCHANGED <<authVars, localVars, write_pipeline, streamVars, callVars,
                   faults>>

(* Someone signs in or out, or the same user's token is refreshed.         *)
ChangeCredentials(u) ==
    /\ Room
    /\ auth_user' = u
    /\ token_requests' =
          {[r EXCEPT !.counted = FALSE] : r \in token_requests}
    /\ worker_queue' = Enqueue(worker_queue, ChangeTask(u))
    /\ UNCHANGED <<localVars, write_pipeline, streamVars, callVars, faults>>

(* The answer to a GetToken. It fails if the credentials changed since.    *)
AnswerToken(r, t) ==
    /\ r \in token_requests
    /\ Room
    /\ IF ~r.counted THEN t = Failed /\ UNCHANGED faults
       ELSE \/ t = r.user /\ UNCHANGED faults
            \/ t = Failed /\ Fault
    /\ token_requests' = token_requests \ {r}
    /\ worker_queue' = Enqueue(worker_queue, ResumeTask(t, r.fresh))
    /\ UNCHANGED <<auth_user, localVars, write_pipeline, streamVars, callVars>>

(* The server answers the oldest request: the handshake, or a batch that   *)
(* it has applied.                                                         *)
Serve ==
    /\ ended = "no"
    /\ requests # <<>>
    /\ requests' = Tail(requests)
    /\ responses' = Append(responses, Head(requests))
    /\ UNCHANGED <<authVars, worker_queue, localVars, write_pipeline,
                   streamVars, call_user, ended, faults>>

(* The server refuses the oldest request, a batch, with a permanent error, *)
(* which ends the call.                                                    *)
RefuseBatch ==
    /\ ended = "no"
    /\ requests # <<>>
    /\ Head(requests) # Handshake
    /\ ended' = "refused"
    /\ UNCHANGED <<authVars, worker_queue, localVars, write_pipeline,
                   streamVars, call_user, requests, responses, faults>>

(* A write on a call the server has ended fails. That completes after the  *)
(* response being read, and the later responses are never read.            *)
FailWrite ==
    /\ ended = "refused"
    /\ Len(requests) > 1
    /\ requests' = <<Head(requests)>>
    /\ responses' = SubSeq(responses, 1, Least(1, Len(responses)))
    /\ UNCHANGED <<authVars, worker_queue, localVars, write_pipeline,
                   streamVars, call_user, ended, faults>>

(* The connection breaks: requests and the last responses are lost.        *)
Break ==
    /\ state = "Open"
    /\ ended = "no"
    /\ ended' = "broken"
    /\ requests' = <<>>
    /\ \E n \in 0 .. Len(responses) : responses' = SubSeq(responses, 1, n)
    /\ Fault
    /\ UNCHANGED <<authVars, worker_queue, localVars, write_pipeline,
                   streamVars, call_user>>
-------------------------------------------------------------------------------
(* The client's worker queue.                                              *)

Next1 == worker_queue[1]

(* SyncEngine::WriteMutations: the batch is persisted, then sent if it may.*)
WriteMutations ==
    LET q == Append(mutations[current_user], next_batch_id)
    IN  /\ worker_queue # <<>>
        /\ Next1.task = "write"
        /\ worker_queue' = Tail(worker_queue)
        /\ mutations' = [mutations EXCEPT ![current_user] = q]
        /\ next_batch_id' = next_batch_id + 1
        /\ FillWritePipeline(q, write_pipeline)
        /\ UNCHANGED <<auth_user, current_user, handshake_complete, call_user,
                       responses, ended, faults>>

(* Mutant: the pipeline of the user before is kept.                        *)
KeptPipeline == write_pipeline

EmptyPipeline == <<>>

(* HandleCredentialChange of SyncEngine, LocalStore and RemoteStore: the   *)
(* mutation queue is swapped, the stream stopped, and the pipeline filled  *)
(* again from the queue of the user now signed in.                         *)
HandleCredentialChange ==
    LET u == Next1.user
        stops == IsStarted(state)
    IN  /\ worker_queue # <<>>
        /\ Next1.task = "change"
        /\ worker_queue' = IF stops THEN StaleTasks(Tail(worker_queue))
                                    ELSE Tail(worker_queue)
        /\ current_user' = u
        /\ next_batch_id' = IF u = current_user THEN next_batch_id
                                                ELSE LoadNextBatchId(mutations)
        /\ Hangup
        /\ Refill(mutations[u], EmptyPipeline,
                  IF stops THEN "Initial" ELSE state,
                  IF stops THEN StaleTokens(token_requests)
                           ELSE token_requests)
        /\ UNCHANGED <<auth_user, mutations, faults>>

(* Mutant: the call is made for whoever is signed in by now.               *)
SignedIn(task) == auth_user

TokenOf(task) == task.user

(* ResumeStartWithCredentials and OnStreamStart: the call is made and the  *)
(* handshake sent.                                                         *)
OpenCall ==
    /\ worker_queue # <<>>
    /\ Next1.task = "resume"
    /\ Next1.fresh
    /\ Next1.user # Failed
    /\ worker_queue' = Tail(worker_queue)
    /\ state' = "Open"
    /\ call_user' = TokenOf(Next1)
    /\ requests' = <<Handshake>>
    /\ idleness_timer' = FALSE
    /\ UNCHANGED <<authVars, localVars, write_pipeline, handshake_complete,
                   responses, ended, faults>>

(* ResumeStartWithCredentials without a token: the stream fails, and is    *)
(* started again if there is something to send.                            *)
FailToOpen ==
    /\ worker_queue # <<>>
    /\ Next1.task = "resume"
    /\ Next1.fresh
    /\ Next1.user = Failed
    /\ worker_queue' = StaleTasks(Tail(worker_queue))
    /\ Hangup
    /\ StartIfNeeded(write_pipeline, "Error", StaleTokens(token_requests))
    /\ UNCHANGED <<auth_user, localVars, write_pipeline, faults>>

(* The stream was closed since the token was asked for.                    *)
IgnoreToken ==
    /\ worker_queue # <<>>
    /\ Next1.task = "resume"
    /\ ~Next1.fresh
    /\ worker_queue' = Tail(worker_queue)
    /\ UNCHANGED <<authVars, localVars, write_pipeline, streamVars, callVars,
                   faults>>

BackoffElapsed ==
    /\ state = "Backoff"
    /\ Start("Initial", token_requests)
    /\ UNCHANGED <<auth_user, worker_queue, localVars, write_pipeline,
                   idleness_timer, handshake_complete, callVars, faults>>

(* The idleness timer stops the stream.                                    *)
IdleTimeout ==
    /\ idleness_timer
    /\ worker_queue' = StaleTasks(worker_queue)
    /\ token_requests' = StaleTokens(token_requests)
    /\ Hangup
    /\ state' = "Initial"
    /\ UNCHANGED <<auth_user, localVars, write_pipeline, faults>>

(* Mutant: what was in the pipeline before the handshake is never sent.    *)
SentNever == <<>>

SentOnHandshake == write_pipeline

(* OnWriteStreamHandshakeComplete: the whole pipeline is sent.             *)
ReadHandshake ==
    /\ responses # <<>>
    /\ ~handshake_complete
    /\ responses' = Tail(responses)
    /\ handshake_complete' = TRUE
    /\ requests' = requests \o SentOnHandshake
    /\ idleness_timer' = (idleness_timer /\ write_pipeline = <<>>)
    /\ UNCHANGED <<authVars, worker_queue, localVars, write_pipeline, state,
                   call_user, ended, faults>>

(* OnWriteStreamMutationResult and HandleSuccessfulWrite: the first batch  *)
(* of the pipeline is done, whatever the response was to.                  *)
ReadResult ==
    LET q == RemoveMutationBatch(mutations[current_user],
                                 Head(write_pipeline))
    IN  /\ responses # <<>>
        /\ handshake_complete
        /\ responses' = Tail(responses)
        /\ mutations' = [mutations EXCEPT ![current_user] = q]
        /\ FillWritePipeline(q, Tail(write_pipeline))
        /\ UNCHANGED <<auth_user, worker_queue, current_user, next_batch_id,
                       handshake_complete, call_user, ended, faults>>

(* OnStreamFinish after an error that is no batch's fault: what was sent   *)
(* will be sent again, after a while.                                      *)
RetryLater ==
    /\ Hangup
    /\ StartIfNeeded(write_pipeline, "Error", StaleTokens(token_requests))
    /\ UNCHANGED <<localVars, write_pipeline>>

(* HandleWriteError and HandleRejectedWrite after a permanent error: the   *)
(* first batch of the pipeline is given up, the rest sent again at once.   *)
GiveUpFirst ==
    LET q == RemoveMutationBatch(mutations[current_user],
                                 Head(write_pipeline))
    IN  /\ Hangup
        /\ mutations' = [mutations EXCEPT ![current_user] = q]
        /\ Refill(q, Tail(write_pipeline), "Initial",
                  StaleTokens(token_requests))
        /\ UNCHANGED <<current_user, next_batch_id>>

IsPermanentWriteError(status) == status = "refused"

(* OnStreamFinish, OnWriteStreamClose: the end of the call is noticed once *)
(* the responses are read.                                                 *)
FinishCall ==
    /\ ended # "no"
    /\ responses = <<>>
    /\ worker_queue' = StaleTasks(worker_queue)
    /\ IF /\ write_pipeline # <<>>
          /\ handshake_complete
          /\ IsPermanentWriteError(ended)
         THEN GiveUpFirst ELSE RetryLater
    /\ UNCHANGED <<auth_user, faults>>

(* The process ends and is started again: only the mutation queues and the *)
(* signed-in user are left, and not the writes still on the worker queue.  *)
Restart ==
    /\ Fault
    /\ worker_queue' = <<>>
    /\ current_user' = auth_user
    /\ next_batch_id' = LoadNextBatchId(mutations)
    /\ Hangup
    /\ Refill(mutations[auth_user], EmptyPipeline, "Initial", {})
    /\ UNCHANGED <<auth_user, mutations>>
-------------------------------------------------------------------------------
AnswerSomeToken ==
    \E r \in token_requests, t \in Users \cup {Failed} : AnswerToken(r, t)

Task == WriteMutations \/ HandleCredentialChange \/ OpenCall \/ FailToOpen
           \/ IgnoreToken

(* What goes on by itself, when nobody touches the app and nothing breaks. *)
Progress ==
    \/ Task
    \/ AnswerSomeToken
    \/ BackoffElapsed
    \/ Serve \/ RefuseBatch
    \/ ReadHandshake \/ ReadResult \/ FinishCall

Next ==
    \/ MakeWrite
    \/ \E u \in Users : ChangeCredentials(u)
    \/ Progress
    \/ IdleTimeout
    \/ FailWrite
    \/ Break
    \/ Restart

Spec == Init /\ [][Next]_vars

(* The client and the server do not both stop while there is something to  *)
(* do. Faults are bounded; nothing is assumed of the users.                *)
FairSpec == Spec /\ WF_vars(Progress)
-------------------------------------------------------------------------------
(* The pipeline holds the oldest pending batches of the signed-in user, in *)
(* order, as many as fit: none is skipped, sent for another user, or kept  *)
(* after a change of users (FillWritePipeline, DisableNetworkInternal).    *)
PipelineIsFront ==
    LET q == mutations[current_user]
    IN  write_pipeline = SubSeq(q, 1, Least(Len(q), MaxPendingWrites))

(* Whenever the pipeline is not empty, the stream is started or about to   *)
(* be: no close, of any kind and at any time, leaves writes behind; and it *)
(* is stopped as idle only when there is nothing to send ("Write stream was*)
(* stopped gracefully while still needed" cannot be).                      *)
StreamAsNeeded ==
    /\ write_pipeline # <<>> => IsStarted(state)
    /\ idleness_timer => state = "Open" /\ write_pipeline = <<>>

(* A starting stream waits for exactly one token, and no other resumption  *)
(* can run: one that was asked for before the stream was closed never      *)
(* finds the stream in a state it does not expect.                         *)
OneTokenAwaited ==
    LET asked   == {r \in token_requests : r.fresh}
        resumes == {i \in DOMAIN worker_queue : worker_queue[i].fresh}
    IN  /\ asked # {} => resumes = {}
        /\ \A r, s \in asked : r = s
        /\ \A i, j \in resumes : i = j
        /\ state = "Starting" <=> (asked # {} \/ resumes # {})

(* A call carries the writes of the user whose token opened it, although   *)
(* tokens, changes of user and writes race one another.                    *)
CallOfUser == state = "Open" => call_user = current_user

(* Responses belong to the pipeline's batches in order: the one that is    *)
(* read next is the first batch's, also after interruptions and refills.   *)
AnswersInOrder ==
    handshake_complete =>
        /\ Len(responses) <= Len(write_pipeline)
        /\ \A i \in DOMAIN responses : responses[i] = write_pipeline[i]
        /\ ended = "no" => responses \o requests = write_pipeline

(* No two pending batches share an id, whoever made them and however often *)
(* the client was started again or the user changed in between.            *)
BatchIdsUnique ==
    \A u, v \in Users :
        \A i \in DOMAIN mutations[u], j \in DOMAIN mutations[v] :
            mutations[u][i] = mutations[v][j] => u = v /\ i = j

(* A pending write of the signed-in user always waits for something that   *)
(* will come: a token still asked for or answered, the end of a backoff, or*)
(* a request, a response or the end of the open call. No failure, change of*)
(* users or restart, at whatever point of the start of the stream, leaves  *)
(* it in a queue that nothing moves.                                       *)
NoWriteStranded ==
    mutations[current_user] # <<>> =>
        \/ \E r \in token_requests : r.fresh
        \/ \E i \in DOMAIN worker_queue : worker_queue[i].fresh
        \/ state = "Backoff"
        \/ state = "Open" /\ (requests # <<>> \/ responses # <<>> \/ ended # "no")

(* A batch is given up only if it is the one the server refused: "If this  *)
(* was a permanent error, the request itself was the problem".             *)
GivenUpWasRefused ==
    (ended = "refused" /\ responses = <<>>) =>
        Head(write_pipeline) = Head(requests)

(* Users' writes are delivered in order, at least once, and leave only by  *)
(* being settled or refused, over any crashes, broken calls and changes of *)
(* user.                                                                   *)
Promised == INSTANCE Outbox WITH
    Batches <- 1 .. (MaxBatchId + MaxTasks),
    outbox <- mutations, carrier <- current_user,
    delivered <- IF handshake_complete THEN Len(responses) ELSE 0,
    refused <- ended = "refused"
Implements == Promised!Spec

(* Once nobody signs in or out any more, the signed-in user's writes are   *)
(* all settled: none waits forever for a token, a backoff or a handshake.  *)
Settled(u) ==
    /\ auth_user = u
    /\ \A i \in DOMAIN worker_queue : worker_queue[i].task # "change"

WritesSettle ==
    \A u \in Users : <>[]Settled(u) => []<>(mutations[u] = <<>>)
===============================================================================
