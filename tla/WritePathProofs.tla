---------------------------- MODULE WritePathProofs ---------------------------
(***************************************************************************)
(* Proofs about the writes of the Firestore client, for any users, sizes of*)
(* the pipeline and of the worker queue, batches and faults: every user's  *)
(* writes are delivered in order and leave their queue only from its front,*)
(* on calls made with that user's token. The last part is about Delivery:  *)
(* what the writes do to /Postings/ is what a client of Store does.        *)
(***************************************************************************)
EXTENDS Delivery, TLAPS, SequenceTheorems, WellFoundedInduction

(* The token awaited, and the resumption it was answered with.             *)
IsChange(i) == worker_queue[i].task = "change"

(* Only resumptions are fresh; a fresh one with a token is of the user now *)
(* signed in on the worker queue, unless a change of users comes before it,*)
(* which will make it stale.                                               *)
ResumesOfUser ==
    \A i \in DOMAIN worker_queue :
        worker_queue[i].fresh =>
            /\ worker_queue[i].task = "resume"
            /\ \/ worker_queue[i].user \in {Failed, current_user}
               \/ \E j \in DOMAIN worker_queue : j < i /\ IsChange(j)

(* The worker queue will have caught up with the credentials provider once *)
(* the last change waiting on it has run.                                  *)
ChangesCatchUp ==
    /\ \A i \in DOMAIN worker_queue : IsChange(i) => worker_queue[i].user \in Users
    /\ \A i \in DOMAIN worker_queue :
          IsChange(i) /\ (\A j \in DOMAIN worker_queue : j > i => ~IsChange(j))
              => worker_queue[i].user = auth_user
    /\ (\A i \in DOMAIN worker_queue : ~IsChange(i)) => current_user = auth_user

CountedAreCurrent ==
    \A r \in token_requests : r.counted => r.user = auth_user

Tokens == OneTokenAwaited /\ ResumesOfUser /\ ChangesCatchUp /\ CountedAreCurrent
             /\ CallOfUser

(* Batch ids ascend in every queue and are below the next one, which is in *)
(* the bound whenever a write waits to take it.                            *)
IsAscending(q) == \A i, j \in DOMAIN q : i < j => q[i] < q[j]

IdsAscend ==
    \A u \in Users :
        /\ IsAscending(mutations[u])
        /\ \A i \in DOMAIN mutations[u] : mutations[u][i] < next_batch_id

IdsBounded ==
    \A i \in DOMAIN worker_queue :
        worker_queue[i].task = "write" => next_batch_id + i <= MaxBatchId + MaxTasks

Queues == IdsAscend /\ BatchIdsUnique /\ IdsBounded

(* There is a call only while the stream is open. Until the handshake is   *)
(* complete it carries nothing else.                                       *)
CallWhenOpen ==
    /\ state # "Open" =>
          /\ ~handshake_complete /\ requests = <<>> /\ responses = <<>>
          /\ ended = "no"
    /\ state = "Open" /\ ~handshake_complete =>
          /\ ended # "refused" /\ ~idleness_timer
          /\ responses = <<>> \/ responses = <<Handshake>>
          /\ ended = "no" => responses \o requests = <<Handshake>>
          /\ ended = "broken" => requests = <<>>

IInv ==
    /\ TypeOK
    /\ Tokens
    /\ Queues /\ PipelineIsFront
    /\ StreamAsNeeded
    /\ CallWhenOpen /\ AnswersInOrder
-------------------------------------------------------------------------------
(* Sequences of any kind.                                                  *)
LEMMA Appended ==
    ASSUME NEW S, NEW s \in Seq(S), NEW x \in S
    PROVE  /\ Append(s, x) \in Seq(S)
           /\ Len(s) \in Nat /\ DOMAIN s = 1 .. Len(s)
           /\ Len(Append(s, x)) = Len(s) + 1
           /\ DOMAIN Append(s, x) = 1 .. (Len(s) + 1)
           /\ \A i \in 1 .. Len(s) : Append(s, x)[i] = s[i]
           /\ Append(s, x)[Len(s) + 1] = x
PROOF
  BY AppendProperties, LenProperties

LEMMA Taken ==
    ASSUME NEW S, NEW s \in Seq(S), s # <<>>
    PROVE  /\ Tail(s) \in Seq(S)
           /\ Len(s) \in Nat /\ Len(s) > 0
           /\ DOMAIN s = 1 .. Len(s)
           /\ Len(Tail(s)) = Len(s) - 1
           /\ DOMAIN Tail(s) = 1 .. (Len(s) - 1)
           /\ \A i \in 1 .. (Len(s) - 1) : Tail(s)[i] = s[i + 1]
           /\ Head(s) = s[1] /\ s[1] \in S
PROOF
  BY HeadTailProperties, LenProperties, EmptySeq

LEMMA Cut ==
    ASSUME NEW S, NEW s \in Seq(S), NEW k \in Nat, k <= Len(s), NEW n \in Nat,
           n <= Len(s), k <= n
    PROVE  /\ SubSeq(s, k + 1, n) \in Seq(S)
           /\ Len(SubSeq(s, k + 1, n)) = n - k
           /\ DOMAIN SubSeq(s, k + 1, n) = 1 .. (n - k)
           /\ \A i \in 1 .. (n - k) : SubSeq(s, k + 1, n)[i] = s[k + i]
PROOF
  <1>1. Len(s) \in Nat /\ \A i \in 1 .. Len(s) : s[i] \in S
    BY LenProperties, ElementOfSeq
  <1>2. \A i \in k + 1 .. n : s[i] \in S
    BY <1>1
  <1>3. /\ SubSeq(s, k + 1, n) \in Seq(S)
        /\ Len(SubSeq(s, k + 1, n)) = IF k + 1 <= n THEN n - (k + 1) + 1 ELSE 0
        /\ \A i \in 1 .. n - (k + 1) + 1 : SubSeq(s, k + 1, n)[i] = s[k + 1 + i - 1]
    <2>1. k + 1 \in Int /\ n \in Int
      OBVIOUS
    <2> QED
      BY <1>2, <2>1, SubSeqProperties
  <1>4. Len(SubSeq(s, k + 1, n)) = n - k /\ n - (k + 1) + 1 = n - k
    BY <1>3
  <1>5. \A i \in 1 .. (n - k) : k + 1 + i - 1 = k + i
    OBVIOUS
  <1> QED
    BY <1>3, <1>4, <1>5, LenProperties

(* Queues of batches.                                                      *)
LEMMA FrontCut ==
    ASSUME NEW q \in Seq(BatchIds), NEW k \in Nat, k <= Len(q)
    PROVE  /\ SubSeq(q, 1, k) \in Seq(BatchIds)
           /\ Len(SubSeq(q, 1, k)) = k
           /\ DOMAIN SubSeq(q, 1, k) = 1 .. k
           /\ \A i \in 1 .. k : SubSeq(q, 1, k)[i] = q[i]
PROOF
  <1>1. Len(q) \in Nat
    BY LenProperties
  <1>2. /\ SubSeq(q, 0 + 1, k) \in Seq(BatchIds)
        /\ Len(SubSeq(q, 0 + 1, k)) = k - 0
        /\ DOMAIN SubSeq(q, 0 + 1, k) = 1 .. (k - 0)
        /\ \A i \in 1 .. (k - 0) : SubSeq(q, 0 + 1, k)[i] = q[0 + i]
    BY <1>1, Cut
  <1>3. 0 + 1 = 1 /\ k - 0 = k /\ \A i \in 1 .. k : 0 + i = i
    OBVIOUS
  <1> QED
    BY <1>2, <1>3

(* FillWritePipeline continues where the pipeline ends.                    *)
Front(q) == SubSeq(q, 1, Least(Len(q), MaxPendingWrites))

LEMMA FrontSize ==
    ASSUME NEW q \in Seq(BatchIds)
    PROVE  /\ Least(Len(q), MaxPendingWrites) \in Nat
           /\ Least(Len(q), MaxPendingWrites) <= Len(q)
           /\ Least(Len(q), MaxPendingWrites) <= MaxPendingWrites
           /\ q # <<>> => Least(Len(q), MaxPendingWrites) > 0
PROOF
  BY LenProperties, EmptySeq, WritePathAssumption DEF Least

LEMMA AddedIs ==
    ASSUME NEW q \in Seq(BatchIds), IsAscending(q),
           NEW k \in Nat, k <= Len(q), k <= MaxPendingWrites
    PROVE  Added(q, SubSeq(q, 1, k)) =
              SubSeq(q, k + 1, Least(Len(q), MaxPendingWrites))
PROOF
  <1> DEFINE pipe == SubSeq(q, 1, k)
             last == IF pipe = <<>> THEN 0 ELSE pipe[Len(pipe)]
             P(n) == /\ \A i \in 1 .. n : q[i] <= last
                     /\ n < Len(q) => q[n + 1] > last
             upto == CHOOSE n \in 0 .. Len(q) : P(n)
  <1>1. /\ Len(q) \in Nat /\ DOMAIN q = 1 .. Len(q)
        /\ \A i \in 1 .. Len(q) : q[i] \in Nat /\ q[i] > 0
    BY LenProperties, ElementOfSeq DEF BatchIds
  <1>2. /\ pipe \in Seq(BatchIds) /\ Len(pipe) = k
        /\ \A i \in 1 .. k : pipe[i] = q[i]
    BY FrontCut
  <1>3. last = IF k = 0 THEN 0 ELSE q[k]
    <2>1. pipe = <<>> <=> k = 0
      BY <1>2, EmptySeq
    <2>2. k # 0 => k \in 1 .. k
      OBVIOUS
    <2> QED
      BY <1>2, <2>1, <2>2
  <1>4. last \in Nat
    BY <1>1, <1>3
  <1> HIDE DEF pipe, last
  <1>5. \A i, j \in 1 .. Len(q) : i < j => q[i] < q[j]
    BY <1>1 DEF IsAscending
  <1>6. P(k)
    <2>1. ASSUME NEW i \in 1 .. k PROVE q[i] <= last
      <3>1. k # 0 /\ i \in 1 .. Len(q) /\ k \in 1 .. Len(q)
        BY <1>1
      <3>2. last = q[k]
        BY <1>3, <3>1
      <3>3. i = k \/ i < k
        OBVIOUS
      <3> QED
        BY <1>1, <1>5, <3>1, <3>2, <3>3
    <2>2. ASSUME k < Len(q) PROVE q[k + 1] > last
      <3>1. k + 1 \in 1 .. Len(q)
        BY <1>1, <2>2
      <3>2. CASE k = 0
        BY <1>1, <1>3, <3>1, <3>2
      <3>3. CASE k # 0
        <4>1. k \in 1 .. Len(q) /\ k < k + 1
          BY <1>1, <3>3
        <4>2. q[k] < q[k + 1]
          BY <1>5, <3>1, <4>1
        <4> QED
          BY <1>1, <1>3, <3>1, <3>3, <4>1, <4>2
      <3> QED
        BY <3>2, <3>3
    <2> QED
      BY <2>1, <2>2
  <1>7. k \in 0 .. Len(q)
    BY <1>1
  <1>8. upto \in 0 .. Len(q) /\ P(upto)
    <2> HIDE DEF P
    <2> QED
      BY <1>6, <1>7
  <1> HIDE DEF upto
  <1>9. upto = k
    <2>1. ASSUME upto < k PROVE FALSE
      <3>1. upto + 1 \in 1 .. k /\ upto + 1 \in 1 .. Len(q) /\ upto < Len(q)
        BY <1>1, <1>7, <1>8, <2>1
      <3>2. q[upto + 1] <= last /\ q[upto + 1] > last
        BY <1>6, <1>8, <3>1
      <3> QED
        BY <1>1, <1>4, <3>1, <3>2
    <2>2. ASSUME k < upto PROVE FALSE
      <3>1. k + 1 \in 1 .. upto /\ k + 1 \in 1 .. Len(q) /\ k < Len(q)
        BY <1>1, <1>7, <1>8, <2>2
      <3>2. q[k + 1] <= last /\ q[k + 1] > last
        BY <1>6, <1>8, <3>1
      <3> QED
        BY <1>1, <1>4, <3>1, <3>2
    <2> QED
      BY <1>1, <1>7, <1>8, <2>1, <2>2
  <1>10. Added(q, pipe) =
            SubSeq(q, upto + 1, Least(Len(q), upto + MaxPendingWrites - Len(pipe)))
    BY DEF Added, upto, last
  <1>11. upto + MaxPendingWrites - Len(pipe) = MaxPendingWrites
    BY <1>2, <1>9, WritePathAssumption
  <1> QED
    BY <1>9, <1>10, <1>11 DEF pipe

LEMMA Filled ==
    ASSUME NEW q \in Seq(BatchIds), IsAscending(q),
           NEW k \in Nat, k <= Len(q), k <= MaxPendingWrites
    PROVE  LET pipe == SubSeq(q, 1, k)
           IN  /\ pipe \o Added(q, pipe) = Front(q)
               /\ Added(q, pipe) \in Seq(BatchIds)
               /\ pipe \in Seq(BatchIds) /\ Len(pipe) = k
               /\ Front(q) \in Seq(BatchIds) /\ (q # <<>> => Front(q) # <<>>)
               /\ Len(Front(q)) = Least(Len(q), MaxPendingWrites)
PROOF
  <1> DEFINE n == Least(Len(q), MaxPendingWrites)
  <1>1. /\ n \in Nat /\ n <= Len(q) /\ n <= MaxPendingWrites
        /\ q # <<>> => n > 0
    BY FrontSize
  <1>2. k <= n /\ Len(q) \in Nat
    BY LenProperties, WritePathAssumption DEF Least
  <1> HIDE DEF n
  <1>3. Added(q, SubSeq(q, 1, k)) = SubSeq(q, k + 1, n)
    BY AddedIs DEF n
  <1>4. SubSeq(q, 1, k) \o SubSeq(q, k + 1, n) = SubSeq(q, 1, n)
    <2>1. 1 \in 1 .. Len(q) + 1 /\ k \in 1 - 1 .. Len(q) /\ n \in k .. Len(q)
      BY <1>1, <1>2
    <2> QED
      BY <2>1, ConcatAdjacentSubSeq
  <1>5. Front(q) = SubSeq(q, 1, n)
    BY DEF Front, n
  <1>6. SubSeq(q, k + 1, n) \in Seq(BatchIds)
    BY <1>1, <1>2, Cut
  <1>7. SubSeq(q, 1, k) \in Seq(BatchIds) /\ Len(SubSeq(q, 1, k)) = k
    BY FrontCut
  <1>8. SubSeq(q, 1, n) \in Seq(BatchIds) /\ Len(SubSeq(q, 1, n)) = n
    BY <1>1, FrontCut
  <1>9. q # <<>> => SubSeq(q, 1, n) # <<>>
    BY <1>1, <1>8, EmptySeq
  <1> QED
    BY <1>3, <1>4, <1>5, <1>6, <1>7, <1>8, <1>9 DEF n

(* After is one more than the largest of a bounded set of batch ids, or 1. *)
LEMMA AfterIs ==
    ASSUME NEW ids \in SUBSET BatchIds, NEW n \in BatchIds, \A b \in ids : b < n
    PROVE  /\ After(ids) \in BatchIds /\ After(ids) <= n
           /\ \A b \in ids : b < After(ids)
PROOF
  <1> DEFINE T == {m \in BatchIds : \A b \in ids : b < m}
             R == {ss \in Nat \X Nat : ss[1] < ss[2]}
             C == {1} \cup {b + 1 : b \in ids}
  <1>1. n \in T /\ T \subseteq Nat
    BY DEF BatchIds
  <1>2. PICK m \in T : \A k \in T : ~(<<k, m>> \in R)
    <2> HIDE DEF T, R
    <2>1. IsWellFoundedOn(R, Nat)
      BY NatLessThanWellFounded DEF OpToRel, R
    <2> QED
      BY <1>1, <2>1, WFMin
  <1>3. m \in BatchIds /\ \A b \in ids : b < m
    BY <1>2
  <1>4. \A k \in T : m <= k
    <2> TAKE k \in T
    <2>1. k \in Nat /\ m \in Nat
      BY <1>1, <1>2
    <2>2. ~(k < m)
      BY <1>2, <2>1
    <2> QED
      BY <2>1, <2>2
  <1>5. m \in C
    <2>1. CASE m = 1
      BY <2>1
    <2>2. CASE m # 1
      <3>1. m - 1 \in BatchIds /\ m - 1 < m
        BY <1>3, <2>2 DEF BatchIds
      <3>2. m - 1 \notin T
        BY <1>3, <1>4, <3>1 DEF BatchIds
      <3>3. PICK b \in ids : ~(b < m - 1)
        BY <3>1, <3>2
      <3>4. b \in Nat /\ b < m /\ m \in Nat
        BY <1>3 DEF BatchIds
      <3>5. m = b + 1
        BY <3>3, <3>4
      <3> QED
        BY <3>5
    <2> QED
      BY <2>1, <2>2
  <1>6. /\ After(ids) \in C /\ \A b \in ids : b < After(ids)
    <2> DEFINE P(x) == \A b \in ids : b < x
    <2>1. \E x \in C : P(x)
      BY <1>3, <1>5
    <2>2. After(ids) = CHOOSE x \in C : P(x)
      BY DEF After
    <2> HIDE DEF P, C
    <2>3. After(ids) \in C /\ P(After(ids))
      BY <2>1, <2>2
    <2> QED
      BY <2>3 DEF P
  <1>7. After(ids) \in BatchIds
    BY <1>6 DEF BatchIds
  <1>8. After(ids) <= n
    <2>1. CASE After(ids) = 1
      BY <2>1 DEF BatchIds
    <2>2. CASE \E b \in ids : After(ids) = b + 1
      BY <2>2 DEF BatchIds
    <2> QED
      BY <1>6, <2>1, <2>2
  <1> QED
    BY <1>6, <1>7, <1>8
-------------------------------------------------------------------------------
(* A queue with one batch more, and without its first.                     *)
LEMMA FrontAppended ==
    ASSUME NEW q \in Seq(BatchIds), NEW b \in BatchIds
    PROVE  Front(q) = SubSeq(Append(q, b), 1, Least(Len(q), MaxPendingWrites))
PROOF
  <1> DEFINE n == Least(Len(q), MaxPendingWrites)
             r == Append(q, b)
  <1>1. n \in Nat /\ n <= Len(q) /\ Len(q) \in Nat
    BY FrontSize, LenProperties
  <1>2. r \in Seq(BatchIds) /\ Len(r) = Len(q) + 1 /\ \A i \in 1 .. Len(q) : r[i] = q[i]
    BY Appended
  <1> HIDE DEF n, r
  <1>3. n <= Len(r)
    BY <1>1, <1>2
  <1>4. /\ SubSeq(q, 1, n) \in Seq(BatchIds) /\ Len(SubSeq(q, 1, n)) = n
        /\ \A i \in 1 .. n : SubSeq(q, 1, n)[i] = q[i]
    BY <1>1, FrontCut
  <1>5. /\ SubSeq(r, 1, n) \in Seq(BatchIds) /\ Len(SubSeq(r, 1, n)) = n
        /\ \A i \in 1 .. n : SubSeq(r, 1, n)[i] = r[i]
    BY <1>1, <1>2, <1>3, FrontCut
  <1>6. \A i \in 1 .. n : SubSeq(q, 1, n)[i] = SubSeq(r, 1, n)[i]
    BY <1>1, <1>2, <1>4, <1>5
  <1>7. SubSeq(q, 1, n) = SubSeq(r, 1, n)
    BY <1>4, <1>5, <1>6, SeqEqual
  <1> QED
    BY <1>7 DEF Front, n, r

LEMMA AppendAscends ==
    ASSUME NEW q \in Seq(BatchIds), NEW b \in BatchIds, IsAscending(q),
           \A i \in DOMAIN q : q[i] < b
    PROVE  IsAscending(Append(q, b))
PROOF
  <1>1. /\ Len(q) \in Nat /\ DOMAIN q = 1 .. Len(q)
        /\ DOMAIN Append(q, b) = 1 .. (Len(q) + 1)
        /\ \A i \in 1 .. Len(q) : Append(q, b)[i] = q[i]
        /\ Append(q, b)[Len(q) + 1] = b
    BY Appended
  <1> SUFFICES ASSUME NEW i \in 1 .. (Len(q) + 1), NEW j \in 1 .. (Len(q) + 1), i < j
               PROVE  Append(q, b)[i] < Append(q, b)[j]
    BY <1>1 DEF IsAscending
  <1>2. i \in 1 .. Len(q)
    BY <1>1
  <1>3. j \in 1 .. Len(q) \/ j = Len(q) + 1
    BY <1>1
  <1> QED
    BY <1>1, <1>2, <1>3 DEF IsAscending

LEMMA TailAscends ==
    ASSUME NEW q \in Seq(BatchIds), q # <<>>, IsAscending(q)
    PROVE  IsAscending(Tail(q)) /\ Tail(q) \in Seq(BatchIds)
PROOF
  <1>1. /\ Len(q) \in Nat /\ DOMAIN q = 1 .. Len(q)
        /\ DOMAIN Tail(q) = 1 .. (Len(q) - 1) /\ Tail(q) \in Seq(BatchIds)
        /\ \A i \in 1 .. (Len(q) - 1) : Tail(q)[i] = q[i + 1]
    BY Taken
  <1>2. \A i \in 1 .. (Len(q) - 1) : i + 1 \in 1 .. Len(q)
    BY <1>1
  <1>3. \A i, j \in 1 .. (Len(q) - 1) : i < j => i + 1 < j + 1
    BY <1>1
  <1>4. \A i, j \in 1 .. (Len(q) - 1) : i < j => Tail(q)[i] < Tail(q)[j]
    BY <1>1, <1>2, <1>3 DEF IsAscending
  <1> QED
    BY <1>1, <1>4 DEF IsAscending

(* The batch removed is the oldest, which leads the pipeline.              *)
LEMMA FirstRemoved ==
    ASSUME NEW q \in Seq(BatchIds), IsAscending(q), Front(q) # <<>>
    PROVE  /\ q # <<>>
           /\ Head(Front(q)) = q[1]
           /\ RemoveMutationBatch(q, Head(Front(q))) = Tail(q)
           /\ LET k == Least(Len(q), MaxPendingWrites) - 1
              IN  /\ k \in Nat /\ k <= Len(Tail(q)) /\ k <= MaxPendingWrites
                  /\ Tail(Front(q)) = SubSeq(Tail(q), 1, k)
PROOF
  <1> DEFINE n == Least(Len(q), MaxPendingWrites)
             f == SubSeq(q, 1, n)
  <1>1. /\ n \in Nat /\ n <= Len(q) /\ n <= MaxPendingWrites /\ Len(q) \in Nat
        /\ DOMAIN q = 1 .. Len(q)
    BY FrontSize, LenProperties
  <1>2. f \in Seq(BatchIds) /\ Len(f) = n /\ \A i \in 1 .. n : f[i] = q[i]
    BY <1>1, FrontCut
  <1>3. Front(q) = f
    BY DEF Front
  <1> HIDE DEF n, f
  <1>4. n > 0
    BY <1>2, <1>3, EmptySeq
  <1>5. q # <<>>
    BY <1>1, <1>4, EmptySeq
  <1>6. Head(Front(q)) = q[1]
    <2>1. Head(f) = f[1] /\ 1 \in 1 .. n
      BY <1>1, <1>2, <1>3, <1>4, Taken
    <2> QED
      BY <1>2, <1>3, <2>1
  <1>7. (CHOOSE i \in DOMAIN q : q[i] = q[1]) = 1
    <2>1. 1 \in DOMAIN q
      BY <1>1, <1>4
    <2>2. ASSUME NEW i \in DOMAIN q, q[i] = q[1] PROVE i = 1
      <3>1. i # 1 => 1 < i
        BY <1>1
      <3>2. q[1] \in Nat
        BY <1>1, <2>1, ElementOfSeq DEF BatchIds
      <3>3. i # 1 => q[1] < q[i]
        BY <2>1, <3>1 DEF IsAscending
      <3> QED
        BY <2>2, <3>2, <3>3
    <2> QED
      BY <2>1, <2>2
  <1>8. RemoveMutationBatch(q, q[1]) = SubSeq(q, 1, 1 - 1) \o SubSeq(q, 1 + 1, Len(q))
    BY <1>7 DEF RemoveMutationBatch, Without
  <1>9. SubSeq(q, 1, 1 - 1) = <<>> /\ SubSeq(q, 1 + 1, Len(q)) = Tail(q)
    <2>1. SubSeq(q, 1, 0) = <<>>
      BY SubSeqEmpty
    <2>2. SubSeq(q, 2, Len(q)) = Tail(q)
      BY <1>5, TailIsSubSeq
    <2> QED
      BY <2>1, <2>2
  <1>10. RemoveMutationBatch(q, q[1]) = Tail(q)
    <2>1. Tail(q) \in Seq(BatchIds)
      BY <1>5, Taken
    <2> QED
      BY <1>8, <1>9, <2>1, ConcatEmptySeq
  <1>11. /\ Tail(q) \in Seq(BatchIds) /\ Len(Tail(q)) = Len(q) - 1
         /\ \A i \in 1 .. (Len(q) - 1) : Tail(q)[i] = q[i + 1]
    BY <1>5, Taken
  <1>12. n - 1 \in Nat /\ n - 1 <= Len(Tail(q)) /\ n - 1 <= MaxPendingWrites
    BY <1>1, <1>4, <1>11, WritePathAssumption
  <1>13. /\ Tail(f) \in Seq(BatchIds) /\ Len(Tail(f)) = n - 1
         /\ \A i \in 1 .. (n - 1) : Tail(f)[i] = f[i + 1]
    BY <1>2, <1>3, Taken
  <1>14. /\ SubSeq(Tail(q), 1, n - 1) \in Seq(BatchIds)
         /\ Len(SubSeq(Tail(q), 1, n - 1)) = n - 1
         /\ \A i \in 1 .. (n - 1) : SubSeq(Tail(q), 1, n - 1)[i] = Tail(q)[i]
    BY <1>11, <1>12, FrontCut
  <1>15. ASSUME NEW i \in 1 .. (n - 1)
         PROVE  Tail(f)[i] = SubSeq(Tail(q), 1, n - 1)[i]
    <2>1. i + 1 \in 1 .. n /\ i \in 1 .. (Len(q) - 1)
      BY <1>1, <1>4
    <2> QED
      BY <1>2, <1>11, <1>13, <1>14, <2>1
  <1>16. Tail(f) = SubSeq(Tail(q), 1, n - 1)
    BY <1>13, <1>14, <1>15, SeqEqual
  <1> QED
    BY <1>3, <1>5, <1>6, <1>10, <1>12, <1>16 DEF n
-------------------------------------------------------------------------------
(* The tasks of the worker queue.                                          *)
Tasks == [task : {"write", "change", "resume"}, user : Users \cup {Failed},
          fresh : BOOLEAN]

LEMMA TaskTypes ==
    /\ \A u \in Users : WriteTask(u) \in Tasks /\ ChangeTask(u) \in Tasks
    /\ \A t \in Users \cup {Failed}, f \in BOOLEAN : ResumeTask(t, f) \in Tasks
PROOF
  BY DEF WriteTask, ChangeTask, ResumeTask, Tasks

LEMMA TasksStale ==
    ASSUME NEW q \in Seq(Tasks)
    PROVE  /\ StaleTasks(q) \in Seq(Tasks)
           /\ DOMAIN StaleTasks(q) = DOMAIN q
           /\ \A i \in DOMAIN q : /\ StaleTasks(q)[i].task = q[i].task
                                  /\ StaleTasks(q)[i].user = q[i].user
                                  /\ ~StaleTasks(q)[i].fresh
PROOF
  <1>1. Len(q) \in Nat /\ DOMAIN q = 1 .. Len(q) /\ \A i \in DOMAIN q : q[i] \in Tasks
    BY LenProperties, ElementOfSeq
  <1>2. \A i \in DOMAIN q : [q[i] EXCEPT !.fresh = FALSE] \in Tasks
    BY <1>1 DEF Tasks
  <1>3. StaleTasks(q) = [i \in 1 .. Len(q) |-> [q[i] EXCEPT !.fresh = FALSE]]
    BY <1>1 DEF StaleTasks
  <1>4. StaleTasks(q) \in Seq(Tasks)
    BY <1>1, <1>2, <1>3, IsASeq
  <1> QED
    BY <1>1, <1>3, <1>4 DEF Tasks

Requests == [user : Users, fresh : BOOLEAN, counted : BOOLEAN]

LEMMA TokensStale ==
    ASSUME NEW toks \in SUBSET Requests
    PROVE  /\ StaleTokens(toks) \in SUBSET Requests
           /\ \A r \in StaleTokens(toks) :
                 ~r.fresh /\ \E s \in toks : r.user = s.user /\ r.counted = s.counted
PROOF
  BY DEF StaleTokens, Requests

-------------------------------------------------------------------------------
(* What a step does to the mutation queues and the pipeline: nothing, or a *)
(* batch comes in, the first one leaves, or the pipeline is filled afresh. *)
Kept == UNCHANGED <<mutations, current_user, next_batch_id, write_pipeline>>

Written ==
    LET q == Append(mutations[current_user], next_batch_id)
    IN  /\ mutations' = [mutations EXCEPT ![current_user] = q]
        /\ next_batch_id' = next_batch_id + 1
        /\ UNCHANGED current_user
        /\ write_pipeline' = Front(q)

Left ==
    LET q == Tail(mutations[current_user])
    IN  /\ write_pipeline # <<>> /\ mutations[current_user] # <<>>
        /\ mutations' = [mutations EXCEPT ![current_user] = q]
        /\ UNCHANGED <<current_user, next_batch_id>>
        /\ write_pipeline' = Front(q)

Renewed ==
    /\ UNCHANGED mutations
    /\ current_user' \in Users
    /\ next_batch_id' = next_batch_id \/ next_batch_id' = LoadNextBatchId(mutations)
    /\ write_pipeline' = Front(mutations[current_user'])

LEMMA PipelineIs ==
    ASSUME IInv
    PROVE  LET q == mutations[current_user]
           IN  /\ current_user \in Users /\ q \in Seq(BatchIds) /\ IsAscending(q)
               /\ write_pipeline = Front(q) /\ write_pipeline \in Seq(BatchIds)
               /\ next_batch_id \in BatchIds
               /\ \A i \in DOMAIN q : q[i] < next_batch_id
PROOF
  BY DEF IInv, TypeOK, Queues, IdsAscend, PipelineIsFront, Front

(* WriteMutations' part.                                                   *)
LEMMA FilledAfterWrite ==
    ASSUME IInv
    PROVE  LET q == Append(mutations[current_user], next_batch_id)
           IN  /\ q \in Seq(BatchIds) /\ q # <<>> /\ IsAscending(q)
               /\ write_pipeline \o Added(q, write_pipeline) = Front(q)
               /\ Added(q, write_pipeline) \in Seq(BatchIds)
               /\ Front(q) # <<>>
PROOF
  <1> DEFINE q == mutations[current_user]
             b == next_batch_id
             r == Append(q, b)
             k == Least(Len(q), MaxPendingWrites)
  <1>1. /\ q \in Seq(BatchIds) /\ IsAscending(q) /\ b \in BatchIds
        /\ write_pipeline = Front(q) /\ \A i \in DOMAIN q : q[i] < b
    BY PipelineIs
  <1> HIDE DEF q, b
  <1>2. r \in Seq(BatchIds) /\ r # <<>> /\ Len(r) = Len(q) + 1 /\ IsAscending(r)
    BY <1>1, AppendProperties, AppendAscends
  <1>3. k \in Nat /\ k <= Len(q) /\ k <= MaxPendingWrites /\ Len(q) \in Nat
    BY <1>1, FrontSize, LenProperties
  <1>4. write_pipeline = SubSeq(r, 1, k)
    BY <1>1, FrontAppended
  <1> HIDE DEF k, r
  <1>5. k <= Len(r)
    BY <1>2, <1>3
  <1>6. /\ write_pipeline \o Added(r, write_pipeline) = Front(r)
        /\ Added(r, write_pipeline) \in Seq(BatchIds) /\ Front(r) # <<>>
    BY <1>2, <1>3, <1>4, <1>5, Filled
  <1> QED
    BY <1>2, <1>6 DEF q, b, r

(* HandleSuccessfulWrite's and HandleRejectedWrite's part.                 *)
LEMMA FilledAfterFirst ==
    ASSUME IInv, write_pipeline # <<>>
    PROVE  LET q == mutations[current_user]
               pipe == Tail(write_pipeline)
           IN  /\ q # <<>> /\ Head(write_pipeline) = q[1]
               /\ RemoveMutationBatch(q, Head(write_pipeline)) = Tail(q)
               /\ pipe \o Added(Tail(q), pipe) = Front(Tail(q))
               /\ pipe \in Seq(BatchIds) /\ Added(Tail(q), pipe) \in Seq(BatchIds)
PROOF
  <1> DEFINE q == mutations[current_user]
             k == Least(Len(q), MaxPendingWrites) - 1
  <1>1. /\ q \in Seq(BatchIds) /\ IsAscending(q) /\ write_pipeline = Front(q)
    BY PipelineIs
  <1> HIDE DEF q
  <1>2. /\ q # <<>> /\ Head(write_pipeline) = q[1]
        /\ RemoveMutationBatch(q, Head(write_pipeline)) = Tail(q)
        /\ k \in Nat /\ k <= Len(Tail(q)) /\ k <= MaxPendingWrites
        /\ Tail(write_pipeline) = SubSeq(Tail(q), 1, k)
    BY <1>1, FirstRemoved
  <1>3. IsAscending(Tail(q)) /\ Tail(q) \in Seq(BatchIds)
    BY <1>1, <1>2, TailAscends
  <1> HIDE DEF k
  <1>4. LET pipe == Tail(write_pipeline)
        IN  /\ pipe \o Added(Tail(q), pipe) = Front(Tail(q))
            /\ pipe \in Seq(BatchIds) /\ Added(Tail(q), pipe) \in Seq(BatchIds)
    BY <1>2, <1>3, Filled
  <1> QED
    BY <1>2, <1>4 DEF q

LEMMA FilledAfresh ==
    ASSUME IInv, NEW u \in Users
    PROVE  /\ EmptyPipeline \o Added(mutations[u], EmptyPipeline) = Front(mutations[u])
           /\ Front(mutations[u]) \in Seq(BatchIds)
PROOF
  <1> DEFINE q == mutations[u]
  <1>1. q \in Seq(BatchIds) /\ IsAscending(q)
    BY DEF IInv, TypeOK, Queues, IdsAscend
  <1> HIDE DEF q
  <1>2. 0 \in Nat /\ 0 <= Len(q) /\ 0 <= MaxPendingWrites
    BY <1>1, LenProperties, WritePathAssumption
  <1>3. SubSeq(q, 1, 0) = <<>>
    BY SubSeqEmpty
  <1>4. /\ <<>> \o Added(q, <<>>) = Front(q) /\ Front(q) \in Seq(BatchIds)
    BY <1>1, <1>2, <1>3, Filled
  <1> QED
    BY <1>4 DEF EmptyPipeline, q

(* A response after the handshake finds a batch in the pipeline.           *)
LEMMA ResultHasBatch ==
    ASSUME IInv, responses # <<>>, handshake_complete
    PROVE  write_pipeline # <<>>
PROOF
  <1>1. Len(responses) <= Len(write_pipeline) /\ responses \in Seq(Nat)
    BY DEF IInv, AnswersInOrder, TypeOK
  <1>2. Len(responses) > 0 /\ Len(responses) \in Nat
    BY <1>1, EmptySeq
  <1>3. Len(<<>>) = 0
    BY EmptySeq
  <1> QED
    BY <1>1, <1>2, <1>3

LEMMA PipelineStep ==
    ASSUME IInv, [Next]_vars
    PROVE  Kept \/ Written \/ Left \/ Renewed
PROOF
  <1>1. CASE MakeWrite \/ UNCHANGED vars \/ OpenCall \/ FailToOpen \/ IgnoreToken
                \/ BackoffElapsed
    BY <1>1 DEF MakeWrite, vars, OpenCall, FailToOpen, IgnoreToken, BackoffElapsed,
                localVars, Kept
  <1>2. CASE (\E u \in Users : ChangeCredentials(u)) \/ AnswerSomeToken
    BY <1>2 DEF ChangeCredentials, AnswerSomeToken, AnswerToken, localVars, Kept
  <1>3. CASE Serve \/ RefuseBatch \/ ReadHandshake \/ IdleTimeout \/ FailWrite \/ Break
    BY <1>3 DEF Serve, RefuseBatch, ReadHandshake, IdleTimeout, FailWrite, Break,
                localVars, Kept
  <1>4. CASE WriteMutations
    <2> DEFINE q == Append(mutations[current_user], next_batch_id)
    <2>1. /\ mutations' = [mutations EXCEPT ![current_user] = q]
          /\ next_batch_id' = next_batch_id + 1 /\ UNCHANGED current_user
          /\ write_pipeline' = write_pipeline \o Added(q, write_pipeline)
      BY <1>4 DEF WriteMutations, FillWritePipeline, Refill
    <2>2. write_pipeline \o Added(q, write_pipeline) = Front(q)
      BY FilledAfterWrite
    <2>3. Written
      BY <2>1, <2>2 DEF Written
    <2> QED
      BY <2>3
  <1>5. ASSUME write_pipeline # <<>>,
               LET q == RemoveMutationBatch(mutations[current_user],
                                            Head(write_pipeline))
                   pipe == Tail(write_pipeline)
               IN  /\ mutations' = [mutations EXCEPT ![current_user] = q]
                   /\ UNCHANGED <<current_user, next_batch_id>>
                   /\ write_pipeline' = pipe \o Added(q, pipe)
        PROVE  Left
    BY <1>5, FilledAfterFirst DEF Left
  <1>6. CASE ReadResult
    BY <1>5, <1>6, ResultHasBatch DEF ReadResult, FillWritePipeline, Refill
  <1>7. CASE FinishCall
    BY <1>5, <1>7 DEF FinishCall, GiveUpFirst, RetryLater, Refill, localVars, Kept
  <1>8. CASE HandleCredentialChange
    <2>1. /\ UNCHANGED mutations /\ current_user' = Next1.user
          /\ next_batch_id' = next_batch_id
                \/ next_batch_id' = LoadNextBatchId(mutations)
          /\ write_pipeline' = EmptyPipeline \o
                Added(mutations[current_user'], EmptyPipeline)
      BY <1>8 DEF HandleCredentialChange, Refill
    <2>2. Next1.user \in Users
      <3>1. worker_queue \in Seq(Tasks) /\ worker_queue # <<>>
        BY <1>8 DEF HandleCredentialChange, IInv, TypeOK, Tasks
      <3>2. /\ Next1 \in Tasks /\ DOMAIN worker_queue = 1 .. Len(worker_queue)
            /\ Len(worker_queue) \in Nat /\ Len(worker_queue) > 0
        BY <3>1, Taken DEF Next1
      <3>3. Next1.task = "change"
        BY <1>8 DEF HandleCredentialChange
      <3> QED
        BY <3>2, <3>3 DEF IInv, Tokens, ChangesCatchUp, IsChange, Next1
    <2> QED
      BY <2>1, <2>2, FilledAfresh DEF Renewed
  <1>9. CASE Restart
    <2>1. /\ UNCHANGED mutations /\ current_user' = auth_user
          /\ next_batch_id' = LoadNextBatchId(mutations)
          /\ write_pipeline' = EmptyPipeline \o
                Added(mutations[auth_user], EmptyPipeline)
      BY <1>9 DEF Restart, Refill
    <2>2. auth_user \in Users
      BY DEF IInv, TypeOK
    <2> QED
      BY <2>1, <2>2, FilledAfresh DEF Renewed
  <1> QED
    BY <1>1, <1>2, <1>3, <1>4, <1>6, <1>7, <1>8, <1>9 DEF Next, Progress, Task
-------------------------------------------------------------------------------
(* The mutation queues.                                                    *)

(* An id that is looked for is above those in every queue.                 *)
LEMMA LoadedId ==
    ASSUME IInv
    PROVE  LET n == LoadNextBatchId(mutations)
           IN  /\ n \in BatchIds /\ n <= next_batch_id
               /\ \A u \in Users : \A i \in DOMAIN mutations[u] : mutations[u][i] < n
PROOF
  <1> DEFINE ids == UNION {Ids(mutations[u]) : u \in Users}
  <1>1. ASSUME NEW b \in ids PROVE b \in BatchIds /\ b < next_batch_id
    <2>1. PICK u \in Users : b \in Ids(mutations[u])
      OBVIOUS
    <2>2. PICK i \in DOMAIN mutations[u] : b = mutations[u][i]
      BY <2>1 DEF Ids
    <2>3. mutations[u] \in Seq(BatchIds)
      BY DEF IInv, TypeOK
    <2>4. b \in BatchIds
      BY <2>2, <2>3, ElementOfSeq, LenProperties
    <2> QED
      BY <2>2, <2>4 DEF IInv, Queues, IdsAscend
  <1>2. \A u \in Users : \A i \in DOMAIN mutations[u] : mutations[u][i] \in ids
    BY DEF Ids
  <1> HIDE DEF ids
  <1>3. ids \in SUBSET BatchIds /\ next_batch_id \in BatchIds
    BY <1>1 DEF IInv, TypeOK
  <1>4. /\ After(ids) \in BatchIds /\ After(ids) <= next_batch_id
        /\ \A b \in ids : b < After(ids)
    BY <1>1, <1>3, AfterIs
  <1> QED
    BY <1>2, <1>4 DEF LoadNextBatchId, ids

LEMMA QueuesTyped ==
    ASSUME IInv, Kept \/ Written \/ Left \/ Renewed
    PROVE  /\ current_user' \in Users /\ mutations' \in [Users -> Seq(BatchIds)]
           /\ next_batch_id' \in BatchIds /\ write_pipeline' \in Seq(BatchIds)
           /\ PipelineIsFront'
PROOF
  <1> DEFINE q == mutations[current_user]
  <1>0. /\ mutations \in [Users -> Seq(BatchIds)] /\ current_user \in Users
        /\ next_batch_id \in BatchIds
    BY DEF IInv, TypeOK
  <1>1. CASE Kept
    BY <1>0, <1>1, PipelineIs DEF Kept, PipelineIsFront, Front
  <1>2. CASE Written
    <2>1. Append(q, next_batch_id) \in Seq(BatchIds)
      BY <1>0, Appended
    <2>2. Front(Append(q, next_batch_id)) \in Seq(BatchIds)
      BY <2>1, FrontSize, FrontCut DEF Front
    <2>3. mutations'[current_user'] = Append(q, next_batch_id)
      BY <1>0, <1>2 DEF Written
    <2>4. next_batch_id' \in BatchIds
      BY <1>0, <1>2 DEF Written, BatchIds
    <2> QED
      BY <1>0, <1>2, <2>1, <2>2, <2>3, <2>4 DEF Written, PipelineIsFront, Front
  <1>3. CASE Left
    <2>1. Tail(q) \in Seq(BatchIds)
      BY <1>0, <1>3, Taken DEF Left
    <2>2. Front(Tail(q)) \in Seq(BatchIds)
      BY <2>1, FrontSize, FrontCut DEF Front
    <2>3. mutations'[current_user'] = Tail(q)
      BY <1>0, <1>3 DEF Left
    <2> QED
      BY <1>0, <1>3, <2>1, <2>2, <2>3 DEF Left, PipelineIsFront, Front
  <1>4. CASE Renewed
    <2>1. Front(mutations[current_user']) \in Seq(BatchIds)
      BY <1>4, FilledAfresh DEF Renewed
    <2> QED
      BY <1>0, <1>4, <2>1, LoadedId DEF Renewed, PipelineIsFront, Front
  <1> QED
    BY <1>1, <1>2, <1>3, <1>4

LEMMA IdsNext ==
    ASSUME IInv, Kept \/ Written \/ Left \/ Renewed
    PROVE  IdsAscend' /\ BatchIdsUnique'
PROOF
  <1> DEFINE c == current_user
             q == mutations[c]
             b == next_batch_id
  <1>0. /\ mutations \in [Users -> Seq(BatchIds)] /\ c \in Users
        /\ b \in BatchIds
        /\ IdsAscend /\ BatchIdsUnique
    BY DEF IInv, TypeOK, Queues
  <1>1. CASE Kept
    BY <1>0, <1>1 DEF Kept, IdsAscend, BatchIdsUnique
  <1>2. CASE Written
    <2> DEFINE r == Append(q, b)
    <2>1. /\ Len(q) \in Nat /\ DOMAIN q = 1 .. Len(q)
          /\ DOMAIN r = 1 .. (Len(q) + 1)
          /\ \A i \in 1 .. Len(q) : r[i] = q[i]
          /\ r[Len(q) + 1] = b
      BY <1>0, Appended
    <2>2. IsAscending(r)
      BY <1>0, AppendAscends DEF IdsAscend
    <2>3. /\ mutations' = [mutations EXCEPT ![c] = r]
          /\ next_batch_id' = b + 1
      BY <1>2 DEF Written
    <2>4. /\ mutations'[c] = r
          /\ \A u \in Users : u # c => mutations'[u] = mutations[u]
      BY <1>0, <2>3
    <2>5. \A u \in Users : \A i \in DOMAIN mutations[u] :
             mutations[u][i] < b /\ mutations[u][i] \in Nat
      <3>1. \A u \in Users : \A i \in DOMAIN mutations[u] : mutations[u][i] \in BatchIds
        BY <1>0, ElementOfSeq, LenProperties
      <3> QED
        BY <1>0, <3>1 DEF IdsAscend, BatchIds
    <2>6. b \in Nat
      BY <1>0 DEF BatchIds
    <2> HIDE DEF b, q, r, c
    <2>7. \A i \in DOMAIN r :
             \/ i \in DOMAIN q /\ r[i] = q[i]
             \/ i = Len(q) + 1 /\ r[i] = b
      <3> TAKE i \in DOMAIN r
      <3>1. i \in 1 .. Len(q) \/ i = Len(q) + 1
        BY <2>1
      <3> QED
        BY <2>1, <3>1
    <2>8. IdsAscend'
      <3> SUFFICES ASSUME NEW u \in Users
                   PROVE  /\ IsAscending(mutations'[u])
                          /\ \A i \in DOMAIN mutations'[u] :
                                mutations'[u][i] < next_batch_id'
        BY DEF IdsAscend, IsAscending
      <3>1. CASE u = c
        <4>1. \A i \in DOMAIN r : r[i] < b + 1
          BY <1>0, <2>5, <2>6, <2>7 DEF q
        <4> QED
          BY <2>2, <2>3, <2>4, <3>1, <4>1
      <3>2. CASE u # c
        <4>1. \A i \in DOMAIN mutations[u] : mutations[u][i] < b + 1
          BY <2>5, <2>6
        <4> QED
          BY <1>0, <2>3, <2>4, <3>2, <4>1 DEF IdsAscend
      <3> QED
        BY <3>1, <3>2
    <2>9. BatchIdsUnique'
      <3> SUFFICES ASSUME NEW u \in Users, NEW v \in Users,
                          NEW i \in DOMAIN mutations'[u], NEW j \in DOMAIN mutations'[v],
                          mutations'[u][i] = mutations'[v][j]
                   PROVE  u = v /\ i = j
        BY DEF BatchIdsUnique
      <3>1. \A w \in Users : \A k \in DOMAIN mutations'[w] :
               \/ k \in DOMAIN mutations[w] /\ mutations'[w][k] = mutations[w][k]
               \/ w = c /\ k = Len(q) + 1 /\ mutations'[w][k] = b
        BY <2>4, <2>7 DEF q
      <3>2. \A w \in Users : \A k \in DOMAIN mutations[w] : mutations[w][k] # b
        BY <2>5, <2>6
      <3> QED
        BY <1>0, <3>1, <3>2 DEF BatchIdsUnique
    <2> QED
      BY <2>8, <2>9
  <1>3. CASE Left
    <2> DEFINE r == Tail(q)
    <2>1. /\ Len(q) \in Nat /\ DOMAIN q = 1 .. Len(q)
          /\ DOMAIN r = 1 .. (Len(q) - 1)
          /\ \A i \in 1 .. (Len(q) - 1) : r[i] = q[i + 1]
      BY <1>0, <1>3, Taken DEF Left
    <2>2. IsAscending(r)
      BY <1>0, <1>3, TailAscends DEF IdsAscend, Left
    <2>3. /\ mutations' = [mutations EXCEPT ![c] = r]
          /\ next_batch_id' = b
      BY <1>3 DEF Left
    <2>4. /\ mutations'[c] = r
          /\ \A u \in Users : u # c => mutations'[u] = mutations[u]
      BY <1>0, <2>3
    <2>5. \A i \in DOMAIN r : i + 1 \in DOMAIN q /\ r[i] = q[i + 1] /\ i \in Nat
      BY <2>1
    <2> HIDE DEF b, q, r, c
    <2>6. \A w \in Users : \A k \in DOMAIN mutations'[w] :
             \/ w # c /\ k \in DOMAIN mutations[w] /\ mutations'[w][k] = mutations[w][k]
             \/ w = c /\ k + 1 \in DOMAIN mutations[w] /\ k \in Nat
                      /\ mutations'[w][k] = mutations[w][k + 1]
      BY <2>4, <2>5 DEF q
    <2>7. IdsAscend'
      <3> SUFFICES ASSUME NEW u \in Users
                   PROVE  /\ IsAscending(mutations'[u])
                          /\ \A i \in DOMAIN mutations'[u] :
                                mutations'[u][i] < next_batch_id'
        BY DEF IdsAscend, IsAscending
      <3>1. \A i \in DOMAIN mutations'[u] : mutations'[u][i] < b
        BY <1>0, <2>6 DEF IdsAscend, b
      <3>2. IsAscending(mutations'[u])
        BY <1>0, <2>2, <2>4 DEF IdsAscend
      <3> QED
        BY <2>3, <3>1, <3>2
    <2>8. BatchIdsUnique'
      <3> SUFFICES ASSUME NEW u \in Users, NEW v \in Users,
                          NEW i \in DOMAIN mutations'[u], NEW j \in DOMAIN mutations'[v],
                          mutations'[u][i] = mutations'[v][j]
                   PROVE  u = v /\ i = j
        BY DEF BatchIdsUnique
      <3>1. CASE u = c /\ v = c
        <4>1. i + 1 = j + 1 /\ i \in Nat /\ j \in Nat
          BY <1>0, <2>6, <3>1 DEF BatchIdsUnique
        <4> QED
          BY <3>1, <4>1
      <3>2. CASE u # c \/ v # c
        <4>1. u = v
          BY <1>0, <2>6 DEF BatchIdsUnique
        <4> QED
          BY <1>0, <2>6, <3>2, <4>1 DEF BatchIdsUnique
      <3> QED
        BY <3>1, <3>2
    <2> QED
      BY <2>7, <2>8
  <1>4. CASE Renewed
    BY <1>0, <1>4, LoadedId DEF Renewed, IdsAscend, BatchIdsUnique
  <1> QED
    BY <1>1, <1>2, <1>3, <1>4
-------------------------------------------------------------------------------
(* What a step does to the worker queue: tasks keep their order, the first *)
(* is taken or one more put behind the others, and only that one may be    *)
(* fresh if it was not before.                                             *)
Alike(q, r) ==
    /\ q \in Seq(Tasks) /\ DOMAIN q = DOMAIN r
    /\ \A i \in DOMAIN q : /\ q[i].task = r[i].task /\ q[i].user = r[i].user
                           /\ q[i].fresh => r[i].fresh

LEMMA QueueTyped ==
    ASSUME IInv
    PROVE  /\ worker_queue \in Seq(Tasks) /\ token_requests \in SUBSET Requests
           /\ Len(worker_queue) \in Nat /\ DOMAIN worker_queue = 1 .. Len(worker_queue)
           /\ \A i \in DOMAIN worker_queue : worker_queue[i] \in Tasks
           /\ Alike(worker_queue, worker_queue)
           /\ Alike(StaleTasks(worker_queue), worker_queue)
PROOF
  <1>1. worker_queue \in Seq(Tasks) /\ token_requests \in SUBSET Requests
    BY DEF IInv, TypeOK, Tasks, Requests
  <1> QED
    BY <1>1, LenProperties, ElementOfSeq, TasksStale DEF Alike

LEMMA RestTyped ==
    ASSUME IInv, worker_queue # <<>>
    PROVE  /\ Tail(worker_queue) \in Seq(Tasks)
           /\ Len(worker_queue) > 0 /\ Next1 = worker_queue[1] /\ Next1 \in Tasks
           /\ 1 \in DOMAIN worker_queue
           /\ DOMAIN Tail(worker_queue) = 1 .. (Len(worker_queue) - 1)
           /\ \A i \in DOMAIN Tail(worker_queue) :
                 /\ i + 1 \in DOMAIN worker_queue /\ i + 1 > 1
                 /\ Tail(worker_queue)[i] = worker_queue[i + 1]
           /\ Alike(Tail(worker_queue), Tail(worker_queue))
           /\ Alike(StaleTasks(Tail(worker_queue)), Tail(worker_queue))
PROOF
  <1>1. worker_queue \in Seq(Tasks)
    BY QueueTyped
  <1>2. /\ Tail(worker_queue) \in Seq(Tasks)
        /\ Len(worker_queue) \in Nat /\ Len(worker_queue) > 0
        /\ DOMAIN worker_queue = 1 .. Len(worker_queue)
        /\ DOMAIN Tail(worker_queue) = 1 .. (Len(worker_queue) - 1)
        /\ \A i \in 1 .. (Len(worker_queue) - 1) :
              Tail(worker_queue)[i] = worker_queue[i + 1]
        /\ worker_queue[1] \in Tasks
    BY <1>1, Taken
  <1>3. \A i \in 1 .. (Len(worker_queue) - 1) :
           i + 1 \in 1 .. Len(worker_queue) /\ i + 1 > 1
    BY <1>2
  <1>4. Alike(Tail(worker_queue), Tail(worker_queue))
    BY <1>2 DEF Alike
  <1>5. Alike(StaleTasks(Tail(worker_queue)), Tail(worker_queue))
    BY <1>2, TasksStale DEF Alike
  <1> QED
    BY <1>2, <1>3, <1>4, <1>5 DEF Next1

TakesOne == worker_queue # <<>> /\ Alike(worker_queue', Tail(worker_queue))
PutsOne(t) == Len(worker_queue) < MaxTasks /\ worker_queue' = Append(worker_queue, t)

LEMMA QueueStep ==
    ASSUME IInv, [Next]_vars
    PROVE  \/ Alike(worker_queue', worker_queue)
           \/ TakesOne
           \/ \E t \in Tasks : PutsOne(t) /\ (t.task = "write" => next_batch_id <= MaxBatchId)
           \/ worker_queue' = <<>>
PROOF
  <1>1. CASE UNCHANGED worker_queue \/ worker_queue' = StaleTasks(worker_queue)
    BY <1>1, QueueTyped
  <1>2. CASE MakeWrite
    <2>1. WriteTask(auth_user) \in Tasks
      BY TaskTypes DEF IInv, TypeOK
    <2> QED
      BY <1>2, <2>1 DEF MakeWrite, Room, PutsOne, Enqueue
  <1>3. ASSUME NEW u \in Users, ChangeCredentials(u)
        PROVE  \E t \in Tasks : PutsOne(t) /\ t.task # "write"
    <2>1. ChangeTask(u) \in Tasks /\ ChangeTask(u).task # "write"
      BY TaskTypes DEF ChangeTask
    <2> QED
      BY <1>3, <2>1 DEF ChangeCredentials, Room, PutsOne, Enqueue
  <1>4. ASSUME NEW r \in token_requests, NEW t \in Users \cup {Failed}, AnswerToken(r, t)
        PROVE  \E x \in Tasks : PutsOne(x) /\ x.task # "write"
    <2>1. r.fresh \in BOOLEAN
      BY QueueTyped DEF Requests
    <2>2. ResumeTask(t, r.fresh) \in Tasks /\ ResumeTask(t, r.fresh).task # "write"
      BY <2>1, TaskTypes DEF ResumeTask
    <2> QED
      BY <1>4, <2>2 DEF AnswerToken, Room, PutsOne, Enqueue
  <1>5. ASSUME worker_queue # <<>>,
               \/ worker_queue' = Tail(worker_queue)
               \/ worker_queue' = StaleTasks(Tail(worker_queue))
        PROVE  TakesOne
    BY <1>5, RestTyped DEF TakesOne
  <1>6. CASE Task
    BY <1>5, <1>6 DEF Task, WriteMutations, HandleCredentialChange, OpenCall, FailToOpen,
                      IgnoreToken
  <1>7. CASE Restart
    BY <1>7 DEF Restart
  <1>8. CASE IdleTimeout \/ FinishCall \/ BackoffElapsed \/ Serve \/ RefuseBatch
                \/ ReadHandshake \/ ReadResult \/ FailWrite \/ Break
    BY <1>1, <1>8 DEF IdleTimeout, FinishCall, BackoffElapsed, Serve, RefuseBatch,
                      ReadHandshake, ReadResult, FailWrite, Break
  <1>9. CASE UNCHANGED vars
    BY <1>1, <1>9 DEF vars
  <1> QED
    BY <1>2, <1>3, <1>4, <1>6, <1>7, <1>8, <1>9 DEF Next, Progress, AnswerSomeToken

(* A new id is taken with the write it is for.                             *)
LEMMA NextIdStep ==
    ASSUME IInv, [Next]_vars
    PROVE  /\ next_batch_id' \in Nat /\ next_batch_id \in Nat
           /\ \/ next_batch_id' <= next_batch_id
              \/ next_batch_id' = next_batch_id + 1 /\ TakesOne
PROOF
  <1>1. next_batch_id \in Nat /\ LoadNextBatchId(mutations) <= next_batch_id
        /\ LoadNextBatchId(mutations) \in Nat
    BY LoadedId DEF IInv, TypeOK, BatchIds
  <1>2. CASE WriteMutations
    BY <1>1, <1>2, RestTyped DEF WriteMutations, TakesOne
  <1>3. CASE HandleCredentialChange \/ Restart
    BY <1>1, <1>3 DEF HandleCredentialChange, Restart
  <1>4. CASE UNCHANGED next_batch_id
    BY <1>1, <1>4
  <1>5. CASE MakeWrite \/ UNCHANGED vars \/ OpenCall \/ FailToOpen \/ IgnoreToken
                \/ BackoffElapsed
    BY <1>4, <1>5 DEF MakeWrite, vars, OpenCall, FailToOpen, IgnoreToken,
                      BackoffElapsed, localVars
  <1>6. CASE (\E u \in Users : ChangeCredentials(u)) \/ AnswerSomeToken
    BY <1>4, <1>6 DEF ChangeCredentials, AnswerSomeToken, AnswerToken, localVars
  <1>7. CASE Serve \/ RefuseBatch \/ ReadHandshake \/ IdleTimeout \/ FailWrite \/ Break
                \/ ReadResult \/ FinishCall
    BY <1>4, <1>7 DEF Serve, RefuseBatch, ReadHandshake, IdleTimeout, FailWrite, Break,
                      ReadResult, FinishCall, GiveUpFirst, RetryLater, localVars
  <1> QED
    BY <1>2, <1>3, <1>5, <1>6, <1>7 DEF Next, Progress, Task

LEMMA IdsBoundedNext ==
    ASSUME IInv, [Next]_vars
    PROVE  IdsBounded' /\ worker_queue' \in Seq(Tasks)
PROOF
  <1> DEFINE q == worker_queue
  <1>0. /\ q \in Seq(Tasks) /\ Len(q) \in Nat /\ DOMAIN q = 1 .. Len(q)
        /\ IdsBounded /\ MaxTasks \in Nat /\ MaxBatchId \in Nat
        /\ \A i \in DOMAIN q : q[i].task = "write" =>
              next_batch_id + i <= MaxBatchId + MaxTasks
    BY QueueTyped, WritePathAssumption DEF IInv, Queues, IdsBounded
  <1>1. /\ next_batch_id' \in Nat /\ next_batch_id \in Nat
        /\ \/ next_batch_id' <= next_batch_id
           \/ next_batch_id' = next_batch_id + 1 /\ TakesOne
    BY NextIdStep
  <1>2. CASE TakesOne
    <2> SUFFICES ASSUME NEW i \in DOMAIN worker_queue', worker_queue'[i].task = "write"
                 PROVE  next_batch_id' + i <= MaxBatchId + MaxTasks
      BY <1>2 DEF IdsBounded, TakesOne, Alike
    <2>1. /\ i \in 1 .. (Len(q) - 1) /\ i + 1 \in DOMAIN q
          /\ q[i + 1].task = "write"
      BY <1>2, RestTyped DEF TakesOne, Alike
    <2>2. next_batch_id + (i + 1) <= MaxBatchId + MaxTasks
      BY <1>0, <2>1
    <2>3. next_batch_id' <= next_batch_id + 1 /\ i \in Nat
      BY <1>1, <2>1
    <2> QED
      BY <1>0, <1>1, <2>2, <2>3
  <1>3. CASE Alike(worker_queue', q) /\ ~TakesOne
    <2> SUFFICES ASSUME NEW i \in DOMAIN worker_queue', worker_queue'[i].task = "write"
                 PROVE  next_batch_id' + i <= MaxBatchId + MaxTasks
      BY <1>3 DEF IdsBounded, Alike
    <2>1. i \in 1 .. Len(q) /\ q[i].task = "write"
      BY <1>0, <1>3 DEF Alike
    <2>2. next_batch_id + i <= MaxBatchId + MaxTasks
      BY <1>0, <2>1
    <2> QED
      BY <1>0, <1>1, <1>3, <2>1, <2>2
  <1>4. ASSUME NEW t \in Tasks, PutsOne(t), ~TakesOne,
               t.task = "write" => next_batch_id <= MaxBatchId
        PROVE  IdsBounded' /\ worker_queue' \in Seq(Tasks)
    <2>1. /\ worker_queue' \in Seq(Tasks) /\ DOMAIN worker_queue' = 1 .. (Len(q) + 1)
          /\ \A i \in 1 .. Len(q) : worker_queue'[i] = q[i]
          /\ worker_queue'[Len(q) + 1] = t
      BY <1>0, <1>4, Appended DEF PutsOne
    <2> SUFFICES ASSUME NEW i \in DOMAIN worker_queue', worker_queue'[i].task = "write"
                 PROVE  next_batch_id' + i <= MaxBatchId + MaxTasks
      BY <2>1 DEF IdsBounded
    <2>2. i \in 1 .. Len(q) \/ i = Len(q) + 1
      BY <1>0, <2>1
    <2>3. CASE i \in 1 .. Len(q)
      <3>1. next_batch_id + i <= MaxBatchId + MaxTasks
        BY <1>0, <2>1, <2>3
      <3> QED
        BY <1>0, <1>1, <1>4, <2>3, <3>1
    <2>4. CASE i = Len(q) + 1
      <3>1. next_batch_id <= MaxBatchId /\ i <= MaxTasks /\ i \in Nat
        BY <1>0, <1>4, <2>1, <2>4 DEF PutsOne
      <3> QED
        BY <1>0, <1>1, <1>4, <3>1
    <2> QED
      BY <2>2, <2>3, <2>4
  <1>5. CASE worker_queue' = <<>>
    BY <1>5, EmptySeq DEF IdsBounded
  <1> QED
    BY <1>2, <1>3, <1>4, <1>5, QueueStep
-------------------------------------------------------------------------------
(* The token awaited.                                                      *)
Awaited(s, toks, tasks) ==
    /\ \A r \in toks : r.fresh => \A i \in DOMAIN tasks : ~tasks[i].fresh
    /\ \A r1, r2 \in toks : r1.fresh /\ r2.fresh => r1 = r2
    /\ \A i, j \in DOMAIN tasks : tasks[i].fresh /\ tasks[j].fresh => i = j
    /\ s = "Starting" <=> \/ \E r \in toks : r.fresh
                          \/ \E i \in DOMAIN tasks : tasks[i].fresh

LEMMA AwaitedIs ==
    /\ OneTokenAwaited <=> Awaited(state, token_requests, worker_queue)
    /\ OneTokenAwaited' <=> Awaited(state', token_requests', worker_queue')
PROOF
  BY Zenon DEF OneTokenAwaited, Awaited

NoneFresh(toks, tasks) ==
    (\A r \in toks : ~r.fresh) /\ (\A i \in DOMAIN tasks : ~tasks[i].fresh)

States == {"Initial", "Starting", "Open", "Error", "Backoff"}

(* Starting a stream for which nothing is under way.                       *)
LEMMA StartedAfresh ==
    ASSUME NEW toks \in SUBSET Requests, NEW tasks, NoneFresh(toks, tasks),
           NEW s \in States, s # "Starting", auth_user \in Users,
           NEW pipe, StartIfNeeded(pipe, s, toks) \/ Start(s, toks)
    PROVE  /\ Awaited(state', token_requests', tasks)
           /\ token_requests' \in SUBSET Requests
           /\ state' \in States /\ (state' = "Open" => s = "Open")
           /\ \A r \in token_requests' : r \in toks \/ r.user = auth_user
PROOF
  <1> DEFINE new == Request(auth_user, TRUE, TRUE)
  <1>1. new \in Requests /\ new.fresh /\ new.user = auth_user
    BY DEF Request, Requests
  <1> HIDE DEF new
  <1>2. \/ state' = s /\ token_requests' = toks
        \/ state' = "Backoff" /\ token_requests' = toks
        \/ state' = "Starting" /\ token_requests' = toks \cup {new}
    BY DEF StartIfNeeded, Start, new
  <1>3. CASE (state' = s \/ state' = "Backoff") /\ token_requests' = toks
    BY <1>3 DEF Awaited, NoneFresh, States
  <1>4. CASE state' = "Starting" /\ token_requests' = toks \cup {new}
    BY <1>1, <1>4 DEF Awaited, NoneFresh, States
  <1> QED
    BY <1>2, <1>3, <1>4

(* After a close nothing is under way.                                     *)
LEMMA ClosedIsStale ==
    ASSUME NEW toks \in SUBSET Requests, NEW tasks \in Seq(Tasks)
    PROVE  /\ NoneFresh(StaleTokens(toks), StaleTasks(tasks))
           /\ StaleTokens(toks) \in SUBSET Requests
           /\ \A r \in StaleTokens(toks) :
                 \E r1 \in toks : r.user = r1.user /\ r.counted = r1.counted
PROOF
  BY TokensStale, TasksStale DEF NoneFresh

LEMMA NotStarting ==
    ASSUME IInv, state # "Starting"
    PROVE  NoneFresh(token_requests, worker_queue)
PROOF
  BY AwaitedIs DEF IInv, Tokens, Awaited, NoneFresh

(* The rest of Tokens, when the worker queue keeps its order.              *)
Caught == ResumesOfUser /\ ChangesCatchUp /\ CountedAreCurrent

LEMMA KeepsOrder ==
    ASSUME IInv, UNCHANGED <<auth_user, current_user>>,
           \A r \in token_requests' :
              r.counted => \/ r.user = auth_user
                           \/ \E s \in token_requests : s.user = r.user /\ s.counted,
           \/ Alike(worker_queue', worker_queue)
           \/ TakesOne /\ Next1.task # "change"
           \/ worker_queue' = <<>> /\ current_user = auth_user
    PROVE  ResumesOfUser' /\ ChangesCatchUp' /\ CountedAreCurrent'
PROOF
  <1>0. /\ ResumesOfUser /\ ChangesCatchUp /\ CountedAreCurrent
        /\ Len(worker_queue) \in Nat /\ DOMAIN worker_queue = 1 .. Len(worker_queue)
    BY QueueTyped DEF IInv, Tokens
  <1>1. CountedAreCurrent'
    BY <1>0 DEF CountedAreCurrent
  <1>2. CASE Alike(worker_queue', worker_queue)
    BY <1>0, <1>1, <1>2 DEF Alike, ResumesOfUser, ChangesCatchUp, IsChange
  <1>3. CASE TakesOne /\ Next1.task # "change"
    <2> DEFINE n == Len(worker_queue)
    <2>1. /\ DOMAIN worker_queue' = 1 .. (n - 1)
          /\ \A i \in 1 .. (n - 1) :
                /\ worker_queue'[i].task = worker_queue[i + 1].task
                /\ worker_queue'[i].user = worker_queue[i + 1].user
                /\ worker_queue'[i].fresh => worker_queue[i + 1].fresh
      BY <1>3, RestTyped DEF TakesOne, Alike
    <2>2. ~IsChange(1) /\ n > 0
      BY <1>3, RestTyped DEF TakesOne, IsChange
    <2> HIDE DEF n
    <2>3. n \in Nat /\ DOMAIN worker_queue = 1 .. n
      BY <1>0 DEF n
    <2>4. \A j \in 1 .. n : IsChange(j) =>
             j - 1 \in 1 .. (n - 1) /\ worker_queue'[j - 1].task = "change"
      <3> SUFFICES ASSUME NEW j \in 1 .. n, IsChange(j)
                   PROVE  j - 1 \in 1 .. (n - 1) /\ worker_queue'[j - 1].task = "change"
        OBVIOUS
      <3>1. j # 1
        BY <2>2
      <3>2. j - 1 \in 1 .. (n - 1) /\ (j - 1) + 1 = j
        BY <2>3, <3>1
      <3> QED
        BY <2>1, <3>2 DEF IsChange
    <2>5. \A i \in 1 .. (n - 1) : i + 1 \in 1 .. n
      BY <2>3
    <2>6. ResumesOfUser'
      <3> SUFFICES ASSUME NEW i \in 1 .. (n - 1), worker_queue'[i].fresh
                   PROVE  /\ worker_queue'[i].task = "resume"
                          /\ \/ worker_queue'[i].user \in {Failed, current_user}
                             \/ \E j \in 1 .. (n - 1) :
                                   j < i /\ worker_queue'[j].task = "change"
        BY <2>1 DEF ResumesOfUser, IsChange
      <3>1. i + 1 \in 1 .. n /\ worker_queue[i + 1].fresh
        BY <2>1, <2>5
      <3>2. CASE worker_queue[i + 1].user \in {Failed, current_user}
        BY <1>0, <2>1, <2>3, <3>1, <3>2 DEF ResumesOfUser
      <3>3. ASSUME NEW j \in 1 .. n, j < i + 1, IsChange(j)
            PROVE  \E k \in 1 .. (n - 1) : k < i /\ worker_queue'[k].task = "change"
        <4>1. j - 1 \in 1 .. (n - 1) /\ worker_queue'[j - 1].task = "change"
          BY <2>4, <3>3
        <4>2. j - 1 < i
          BY <3>3
        <4> QED
          BY <4>1, <4>2
      <3> QED
        BY <1>0, <2>1, <2>3, <3>1, <3>2, <3>3 DEF ResumesOfUser
    <2>7. ChangesCatchUp'
      <3>1. \A i \in 1 .. (n - 1) : worker_queue'[i].task = "change" =>
               IsChange(i + 1) /\ worker_queue'[i].user = worker_queue[i + 1].user
        BY <2>1 DEF IsChange
      <3>2. ASSUME NEW i \in 1 .. (n - 1), worker_queue'[i].task = "change",
                   \A j \in 1 .. (n - 1) : j > i => worker_queue'[j].task # "change"
            PROVE  worker_queue'[i].user = auth_user
        <4>1. \A j \in 1 .. n : j > i + 1 => ~IsChange(j)
          <5> SUFFICES ASSUME NEW j \in 1 .. n, j > i + 1, IsChange(j) PROVE FALSE
            OBVIOUS
          <5>1. j - 1 \in 1 .. (n - 1) /\ worker_queue'[j - 1].task = "change"
            BY <2>4
          <5>2. j - 1 > i
            OBVIOUS
          <5> QED
            BY <3>2, <5>1, <5>2
        <4> QED
          BY <1>0, <2>3, <2>5, <3>1, <3>2, <4>1 DEF ChangesCatchUp
      <3>3. (\A i \in 1 .. (n - 1) : worker_queue'[i].task # "change") =>
               current_user = auth_user
        BY <1>0, <2>3, <2>4 DEF ChangesCatchUp
      <3>4. \A i \in 1 .. (n - 1) : worker_queue'[i].task = "change" =>
               worker_queue'[i].user \in Users
        BY <1>0, <2>3, <2>5, <3>1 DEF ChangesCatchUp
      <3> QED
        BY <2>1, <3>2, <3>3, <3>4 DEF ChangesCatchUp, IsChange
    <2> QED
      BY <1>1, <2>6, <2>7
  <1>4. CASE worker_queue' = <<>> /\ current_user = auth_user
    <2>1. DOMAIN worker_queue' = {}
      BY <1>4, EmptySeq
    <2> QED
      BY <1>1, <1>4, <2>1 DEF ResumesOfUser, ChangesCatchUp
  <1> QED
    BY <1>2, <1>3, <1>4
LEMMA TokenStates ==
    ASSUME IInv
    PROVE  /\ auth_user \in Users /\ current_user \in Users /\ state \in States
           /\ Awaited(state, token_requests, worker_queue)
           /\ CallOfUser /\ Caught
           /\ call_user \in Users \cup {Failed}
           /\ IsStarted(state) <=> state \in {"Starting", "Open", "Backoff"}
PROOF
  BY AwaitedIs DEF IInv, TypeOK, Tokens, States, Caught, IsStarted

TokensKept ==
    /\ Awaited(state', token_requests', worker_queue')
    /\ token_requests' \in SUBSET Requests /\ state' \in States
    /\ auth_user' \in Users
    /\ ResumesOfUser' /\ ChangesCatchUp' /\ CountedAreCurrent' /\ CallOfUser'

(* The stream is closed, whatever it waited for, and perhaps started again.*)
LEMMA ClosedTokens ==
    ASSUME IInv, UNCHANGED <<auth_user, current_user>>,
           worker_queue' = StaleTasks(worker_queue),
           NEW s \in {"Initial", "Error"}, NEW pipe,
           StartIfNeeded(pipe, s, StaleTokens(token_requests))
    PROVE  TokensKept
PROOF
  <1>1. /\ token_requests \in SUBSET Requests /\ worker_queue \in Seq(Tasks)
        /\ Alike(worker_queue', worker_queue)
    BY QueueTyped
  <1>2. /\ NoneFresh(StaleTokens(token_requests), StaleTasks(worker_queue))
        /\ StaleTokens(token_requests) \in SUBSET Requests
        /\ \A r \in StaleTokens(token_requests) :
              \E r1 \in token_requests : r.user = r1.user /\ r.counted = r1.counted
    BY <1>1, ClosedIsStale
  <1>3. s \in States /\ s # "Starting" /\ s # "Open"
    BY DEF States
  <1>4. /\ Awaited(state', token_requests', StaleTasks(worker_queue))
        /\ token_requests' \in SUBSET Requests
        /\ state' \in States /\ state' # "Open"
        /\ \A r \in token_requests' :
              r \in StaleTokens(token_requests) \/ r.user = auth_user
    <2> HIDE DEF StaleTokens
    <2> QED
      BY <1>2, <1>3, StartedAfresh, TokenStates
  <1>5. \A r \in token_requests' :
           r.counted => \/ r.user = auth_user
                        \/ \E r1 \in token_requests : r1.user = r.user /\ r1.counted
    BY <1>2, <1>4
  <1>6. ResumesOfUser' /\ ChangesCatchUp' /\ CountedAreCurrent'
    BY <1>1, <1>5, KeepsOrder
  <1> QED
    BY <1>4, <1>6, TokenStates DEF TokensKept, CallOfUser

(* The first task is taken and what is under way is left alone.            *)
LEMMA PoppedTokens ==
    ASSUME IInv, worker_queue # <<>>, ~Next1.fresh
    PROVE  /\ Awaited(state, token_requests, Tail(worker_queue))
           /\ state # "Starting" => NoneFresh(token_requests, Tail(worker_queue))
PROOF
  <1>1. /\ ~worker_queue[1].fresh /\ 1 \in DOMAIN worker_queue
        /\ DOMAIN worker_queue = 1 .. Len(worker_queue) /\ Len(worker_queue) \in Nat
        /\ DOMAIN Tail(worker_queue) = 1 .. (Len(worker_queue) - 1)
        /\ \A i \in 1 .. (Len(worker_queue) - 1) :
              /\ i + 1 \in DOMAIN worker_queue
              /\ Tail(worker_queue)[i] = worker_queue[i + 1]
    BY QueueTyped, RestTyped
  <1>2. \A i \in DOMAIN worker_queue : worker_queue[i].fresh =>
           i - 1 \in 1 .. (Len(worker_queue) - 1) /\ (i - 1) + 1 = i
    <2> SUFFICES ASSUME NEW i \in DOMAIN worker_queue, worker_queue[i].fresh
                 PROVE  i - 1 \in 1 .. (Len(worker_queue) - 1) /\ (i - 1) + 1 = i
      OBVIOUS
    <2>1. i # 1
      BY <1>1
    <2> QED
      BY <1>1, <2>1
  <1>3. \A i, j \in 1 .. (Len(worker_queue) - 1) : i + 1 = j + 1 => i = j
    BY <1>1
  <1>4. \A i \in DOMAIN worker_queue : worker_queue[i].fresh =>
           \E j \in DOMAIN Tail(worker_queue) : Tail(worker_queue)[j].fresh
    BY <1>1, <1>2
  <1> QED
    BY <1>1, <1>3, <1>4, TokenStates DEF Awaited, NoneFresh

LEMMA TakenTokens ==
    ASSUME IInv, [Next]_vars, WriteMutations \/ IgnoreToken
    PROVE  TokensKept
PROOF
  <1>1. /\ worker_queue # <<>> /\ worker_queue' = Tail(worker_queue)
        /\ Next1.task # "change" /\ ~Next1.fresh
        /\ UNCHANGED <<auth_user, current_user, call_user>>
        /\ \/ UNCHANGED <<state, token_requests>>
           \/ StartIfNeeded(write_pipeline', state, token_requests)
    <2>1. ASSUME worker_queue # <<>>, Next1.task = "write" PROVE ~Next1.fresh
      BY <2>1, RestTyped DEF IInv, Tokens, ResumesOfUser
    <2> QED
      BY <2>1 DEF WriteMutations, IgnoreToken, FillWritePipeline, Refill, authVars,
                  localVars, streamVars, callVars
  <1>2. TakesOne /\ Next1.task # "change"
    BY <1>1, RestTyped DEF TakesOne
  <1>3. /\ Awaited(state, token_requests, Tail(worker_queue))
        /\ state # "Starting" => NoneFresh(token_requests, Tail(worker_queue))
    BY <1>1, PoppedTokens
  <1>4. /\ Awaited(state', token_requests', worker_queue')
        /\ token_requests' \in SUBSET Requests
        /\ state' \in States /\ (state' = "Open" => state = "Open")
        /\ \A r \in token_requests' : r \in token_requests \/ r.user = auth_user
    <2>1. CASE UNCHANGED <<state, token_requests>>
      BY <1>1, <1>3, <2>1, TokenStates, QueueTyped
    <2>2. CASE StartIfNeeded(write_pipeline', state, token_requests) /\ state # "Starting"
      BY <1>1, <1>3, <2>2, StartedAfresh, TokenStates, QueueTyped
    <2>3. CASE StartIfNeeded(write_pipeline', state, token_requests) /\ state = "Starting"
      <3>1. UNCHANGED <<state, token_requests>>
        BY <2>3 DEF StartIfNeeded, IsStarted
      <3> QED
        BY <2>1, <3>1
    <2> QED
      BY <1>1, <2>1, <2>2, <2>3
  <1>5. \A r \in token_requests' :
           r.counted => \/ r.user = auth_user
                        \/ \E r1 \in token_requests : r1.user = r.user /\ r1.counted
    BY <1>4
  <1>6. ResumesOfUser' /\ ChangesCatchUp' /\ CountedAreCurrent'
    BY <1>1, <1>2, <1>5, KeepsOrder
  <1> QED
    BY <1>1, <1>4, <1>6, TokenStates DEF TokensKept, CallOfUser
LEMMA ResumedTokens ==
    ASSUME IInv, [Next]_vars, OpenCall \/ FailToOpen
    PROVE  TokensKept
PROOF
  <1>1. /\ worker_queue # <<>> /\ Next1.task = "resume" /\ Next1.fresh
        /\ UNCHANGED <<auth_user, current_user>>
    BY DEF OpenCall, FailToOpen, authVars, localVars
  <1>2. /\ token_requests \in SUBSET Requests /\ worker_queue \in Seq(Tasks)
        /\ Tail(worker_queue) \in Seq(Tasks) /\ 1 \in DOMAIN worker_queue
        /\ Next1 = worker_queue[1]
        /\ \A i \in DOMAIN Tail(worker_queue) :
              /\ i + 1 \in DOMAIN worker_queue /\ i + 1 > 1
              /\ Tail(worker_queue)[i] = worker_queue[i + 1]
    BY <1>1, QueueTyped, RestTyped
  <1>3. NoneFresh(token_requests, Tail(worker_queue))
    <2>1. \A i \in DOMAIN worker_queue : worker_queue[i].fresh => i = 1
      BY <1>1, <1>2, TokenStates DEF Awaited
    <2>2. \A i \in DOMAIN Tail(worker_queue) : i + 1 # 1
      BY <1>2, QueueTyped, RestTyped, <1>1
    <2> QED
      BY <1>1, <1>2, <2>1, <2>2, TokenStates DEF Awaited, NoneFresh
  <1>4. TakesOne
    BY <1>1, RestTyped DEF TakesOne, OpenCall, FailToOpen
  <1>5. \A r \in StaleTokens(token_requests) :
           \E r1 \in token_requests : r.user = r1.user /\ r.counted = r1.counted
    BY <1>2, ClosedIsStale
  <1>6. ASSUME \A r \in token_requests' :
                  \/ r \in token_requests \/ r.user = auth_user
                  \/ r \in StaleTokens(token_requests)
        PROVE  ResumesOfUser' /\ ChangesCatchUp' /\ CountedAreCurrent'
    <2>1. \A r \in token_requests' :
             r.counted => \/ r.user = auth_user
                          \/ \E r1 \in token_requests : r1.user = r.user /\ r1.counted
      BY <1>5, <1>6
    <2> QED
      BY <1>1, <1>4, <2>1, KeepsOrder
  <1>7. CASE OpenCall
    <2>1. /\ state' = "Open" /\ call_user' = Next1.user /\ Next1.user # Failed
          /\ UNCHANGED token_requests /\ worker_queue' = Tail(worker_queue)
      BY <1>7 DEF OpenCall, TokenOf, authVars
    <2>2. Awaited(state', token_requests', worker_queue') /\ state' \in States
      BY <1>3, <2>1 DEF Awaited, NoneFresh, States
    <2>3. Next1.user = current_user
      <3>1. \A j \in DOMAIN worker_queue : ~(j < 1)
        BY QueueTyped
      <3> QED
        BY <1>1, <1>2, <2>1, <3>1, TokenStates DEF Caught, ResumesOfUser
    <2> QED
      BY <1>1, <1>2, <1>6, <2>1, <2>2, <2>3, TokenStates DEF TokensKept, CallOfUser
  <1>8. CASE FailToOpen
    <2>1. /\ worker_queue' = StaleTasks(Tail(worker_queue))
          /\ StartIfNeeded(write_pipeline, "Error", StaleTokens(token_requests))
      BY <1>8 DEF FailToOpen
    <2>2. /\ NoneFresh(StaleTokens(token_requests), StaleTasks(Tail(worker_queue)))
          /\ StaleTokens(token_requests) \in SUBSET Requests
      BY <1>2, ClosedIsStale
    <2>3. "Error" \in States /\ "Error" # "Starting"
      BY DEF States
    <2> HIDE DEF StaleTokens
    <2>4. /\ Awaited(state', token_requests', StaleTasks(Tail(worker_queue)))
          /\ token_requests' \in SUBSET Requests
          /\ state' \in States /\ state' # "Open"
          /\ \A r \in token_requests' :
                r \in StaleTokens(token_requests) \/ r.user = auth_user
      BY <2>1, <2>2, <2>3, StartedAfresh, TokenStates
    <2> QED
      BY <1>1, <1>6, <2>1, <2>4, TokenStates DEF TokensKept, CallOfUser
  <1> QED
    BY <1>7, <1>8

LEMMA ChangedTokens ==
    ASSUME IInv, HandleCredentialChange
    PROVE  TokensKept
PROOF
  <1> DEFINE u == Next1.user
             rest == Tail(worker_queue)
             stops == IsStarted(state)
             s == IF stops THEN "Initial" ELSE state
             toks == IF stops THEN StaleTokens(token_requests) ELSE token_requests
  <1>1. /\ worker_queue # <<>> /\ Next1.task = "change"
        /\ worker_queue' = IF stops THEN StaleTasks(rest) ELSE rest
        /\ UNCHANGED auth_user /\ current_user' = u
        /\ StartIfNeeded(write_pipeline', s, toks)
    BY DEF HandleCredentialChange, Refill
  <1>2. /\ token_requests \in SUBSET Requests
        /\ rest \in Seq(Tasks) /\ 1 \in DOMAIN worker_queue /\ Next1 = worker_queue[1]
        /\ DOMAIN worker_queue = 1 .. Len(worker_queue) /\ Len(worker_queue) \in Nat
        /\ DOMAIN rest = 1 .. (Len(worker_queue) - 1)
        /\ \A i \in DOMAIN rest :
              /\ i + 1 \in DOMAIN worker_queue /\ i + 1 > 1
              /\ rest[i] = worker_queue[i + 1]
    BY <1>1, QueueTyped, RestTyped
  <1>3. Alike(worker_queue', rest)
    BY <1>1, RestTyped
  <1>4. ~Next1.fresh
    BY <1>1, <1>2, TokenStates DEF Caught, ResumesOfUser
  <1>5. /\ NoneFresh(toks, worker_queue') /\ toks \in SUBSET Requests
        /\ \A r \in toks :
              \E r1 \in token_requests : r.user = r1.user /\ r.counted = r1.counted
    <2>1. CASE stops
      BY <1>1, <1>2, <2>1, ClosedIsStale
    <2>2. CASE ~stops
      BY <1>1, <1>2, <1>4, <2>2, PoppedTokens, TokenStates
    <2> QED
      BY <2>1, <2>2
  <1>6. s \in States /\ s # "Starting" /\ s # "Open"
    BY TokenStates DEF States
  <1> HIDE DEF toks, s
  <1>7. /\ Awaited(state', token_requests', worker_queue')
        /\ token_requests' \in SUBSET Requests
        /\ state' \in States /\ state' # "Open"
        /\ \A r \in token_requests' : r \in toks \/ r.user = auth_user
    <2> DEFINE tasks == worker_queue'
    <2>1. NoneFresh(toks, tasks)
      BY <1>5
    <2> HIDE DEF tasks
    <2>2. /\ Awaited(state', token_requests', tasks)
          /\ token_requests' \in SUBSET Requests
          /\ state' \in States /\ (state' = "Open" => s = "Open")
          /\ \A r \in token_requests' : r \in toks \/ r.user = auth_user
      BY <1>1, <1>5, <1>6, <2>1, StartedAfresh, TokenStates
    <2> QED
      BY <1>6, <2>2 DEF tasks
  <1>8. CountedAreCurrent'
    BY <1>1, <1>5, <1>7, TokenStates DEF Caught, CountedAreCurrent
  <1>9. ResumesOfUser'
    <2>1. \A i \in DOMAIN worker_queue' : ~worker_queue'[i].fresh
      BY <1>5 DEF NoneFresh
    <2> QED
      BY <2>1 DEF ResumesOfUser
  <1>10. /\ DOMAIN worker_queue' = 1 .. (Len(worker_queue) - 1)
         /\ \A i \in 1 .. (Len(worker_queue) - 1) :
               /\ worker_queue'[i].task = worker_queue[i + 1].task
               /\ worker_queue'[i].user = worker_queue[i + 1].user
               /\ i + 1 \in DOMAIN worker_queue /\ i + 1 > 1
    BY <1>2, <1>3 DEF Alike
  <1>11. \A j \in DOMAIN worker_queue :
            j = 1 \/ (j - 1 \in 1 .. (Len(worker_queue) - 1) /\ (j - 1) + 1 = j)
    BY <1>2
  <1> DEFINE Changes(i) == worker_queue'[i].task = "change"
  <1>12. ASSUME NEW i \in DOMAIN worker_queue, IsChange(i),
                \A j \in DOMAIN worker_queue : j > i => ~IsChange(j)
         PROVE  worker_queue[i].user = auth_user
    BY <1>12, TokenStates DEF Caught, ChangesCatchUp
  <1>13. ASSUME NEW i \in DOMAIN worker_queue', Changes(i),
                \A j \in DOMAIN worker_queue' : j > i => ~Changes(j)
         PROVE  worker_queue'[i].user = auth_user
    <2>1. i + 1 \in DOMAIN worker_queue /\ IsChange(i + 1)
      BY <1>10, <1>13 DEF IsChange
    <2>2. ASSUME NEW j \in DOMAIN worker_queue, j > i + 1, IsChange(j) PROVE FALSE
      <3>1. j - 1 \in DOMAIN worker_queue' /\ Changes(j - 1) /\ j - 1 > i
        BY <1>2, <1>10, <1>11, <2>2 DEF IsChange
      <3> QED
        BY <1>13, <3>1
    <2>3. worker_queue[i + 1].user = auth_user
      BY <1>12, <2>1, <2>2
    <2> QED
      BY <1>10, <1>13, <2>3
  <1>14. ASSUME \A i \in DOMAIN worker_queue' : ~Changes(i)
         PROVE  u = auth_user
    <2>1. ASSUME NEW j \in DOMAIN worker_queue, j > 1, IsChange(j) PROVE FALSE
      <3>1. j - 1 \in DOMAIN worker_queue' /\ Changes(j - 1)
        BY <1>2, <1>10, <1>11, <2>1 DEF IsChange
      <3> QED
        BY <1>14, <3>1
    <2>2. IsChange(1)
      BY <1>1, <1>2 DEF IsChange
    <2> QED
      BY <1>2, <1>12, <2>1, <2>2
  <1>15. \A i \in DOMAIN worker_queue' : Changes(i) => worker_queue'[i].user \in Users
    BY <1>10, TokenStates DEF Caught, ChangesCatchUp, IsChange
  <1>16. ChangesCatchUp'
    BY <1>1, <1>13, <1>14, <1>15 DEF ChangesCatchUp, IsChange
  <1> QED
    BY <1>1, <1>7, <1>8, <1>9, <1>16, TokenStates DEF TokensKept, CallOfUser
(* One task more, with what it does to the tokens.                         *)
LEMMA PutTokens ==
    ASSUME IInv, NEW t \in Tasks, PutsOne(t),
           t.fresh => /\ t.task = "resume"
                      /\ \/ t.user \in {Failed, auth_user}
                         \/ \E j \in DOMAIN worker_queue : IsChange(j),
           UNCHANGED current_user, auth_user' \in Users,
           IF t.task = "change" THEN t.user = auth_user' ELSE UNCHANGED auth_user
    PROVE  ResumesOfUser' /\ ChangesCatchUp'
PROOF
  <1> DEFINE n == Len(worker_queue)
  <1>1. /\ worker_queue \in Seq(Tasks) /\ n \in Nat /\ DOMAIN worker_queue = 1 .. n
    BY QueueTyped
  <1>2. /\ DOMAIN worker_queue' = 1 .. (n + 1)
        /\ \A i \in 1 .. n : worker_queue'[i] = worker_queue[i]
        /\ worker_queue'[n + 1] = t
    BY <1>1, Appended DEF PutsOne
  <1> HIDE DEF n
  <1>3. /\ \A i \in 1 .. (n + 1) : i \in 1 .. n \/ i = n + 1
        /\ \A i \in 1 .. n : i \in 1 .. (n + 1) /\ n + 1 > i
        /\ n + 1 \in 1 .. (n + 1)
    BY <1>1
  <1>4. (\A j \in DOMAIN worker_queue : ~IsChange(j)) => current_user = auth_user
    BY TokenStates DEF Caught, ChangesCatchUp
  <1>5. ResumesOfUser'
    <2> SUFFICES ASSUME NEW i \in 1 .. (n + 1), worker_queue'[i].fresh
                 PROVE  /\ worker_queue'[i].task = "resume"
                        /\ \/ worker_queue'[i].user \in {Failed, current_user}
                           \/ \E j \in 1 .. (n + 1) : j < i /\ worker_queue'[j].task = "change"
      BY <1>2 DEF ResumesOfUser, IsChange
    <2>1. CASE i \in 1 .. n
      BY <1>1, <1>2, <1>3, <2>1, TokenStates DEF Caught, ResumesOfUser, IsChange
    <2>2. CASE i = n + 1
      <3>1. /\ t.fresh /\ t.task = "resume"
            /\ \/ t.user \in {Failed, auth_user}
               \/ \E j \in DOMAIN worker_queue : IsChange(j)
        BY <1>2, <2>2
      <3>2. CASE \E j \in DOMAIN worker_queue : IsChange(j)
        <4>1. PICK j \in 1 .. n : IsChange(j)
          BY <1>1, <3>2
        <4>2. j \in 1 .. (n + 1) /\ j < i /\ worker_queue'[j].task = "change"
          BY <1>2, <1>3, <2>2, <4>1 DEF IsChange
        <4> QED
          BY <1>2, <2>2, <3>1, <4>2
      <3>3. CASE ~\E j \in DOMAIN worker_queue : IsChange(j)
        BY <1>2, <1>4, <2>2, <3>1, <3>3
      <3> QED
        BY <3>2, <3>3
    <2> QED
      BY <1>3, <2>1, <2>2
  <1>6. ChangesCatchUp'
    <2> DEFINE Changes(i) == worker_queue'[i].task = "change"
    <2>1. \A i \in 1 .. n : Changes(i) <=> IsChange(i)
      BY <1>2 DEF IsChange
    <2>2. \A i \in 1 .. (n + 1) : Changes(i) => worker_queue'[i].user \in Users
      BY <1>1, <1>2, <1>3, <2>1, TokenStates DEF Caught, ChangesCatchUp
    <2>3. ASSUME NEW i \in 1 .. (n + 1), Changes(i),
                 \A j \in 1 .. (n + 1) : j > i => ~Changes(j)
          PROVE  worker_queue'[i].user = auth_user'
      <3>1. CASE i = n + 1
        BY <1>2, <2>3, <3>1
      <3>2. CASE i \in 1 .. n
        <4>1. ~Changes(n + 1)
          BY <1>3, <2>3, <3>2
        <4>2. UNCHANGED auth_user
          BY <1>2, <4>1
        <4>3. IsChange(i) /\ \A j \in 1 .. n : j > i => ~IsChange(j)
          BY <1>3, <2>1, <2>3, <3>2
        <4> QED
          BY <1>1, <1>2, <3>2, <4>2, <4>3, TokenStates DEF Caught, ChangesCatchUp
      <3> QED
        BY <1>3, <3>1, <3>2
    <2>4. ASSUME \A i \in 1 .. (n + 1) : ~Changes(i)
          PROVE  current_user' = auth_user'
      <3>1. \A i \in 1 .. n : ~IsChange(i)
        BY <1>3, <2>1, <2>4
      <3>2. UNCHANGED auth_user
        BY <1>2, <1>3, <2>4
      <3> QED
        BY <1>1, <1>4, <3>1, <3>2
    <2> QED
      BY <1>2, <2>2, <2>3, <2>4 DEF ChangesCatchUp, IsChange
  <1> QED
    BY <1>5, <1>6

(* A task that is not fresh awaits nothing.                                *)
LEMMA PutAwaited ==
    ASSUME IInv, NEW t \in Tasks, PutsOne(t), NEW toks,
           \/ ~t.fresh /\ Awaited(state, toks, worker_queue)
           \/ t.fresh /\ state = "Starting" /\ NoneFresh(toks, worker_queue)
    PROVE  Awaited(state, toks, worker_queue')
PROOF
  <1> DEFINE n == Len(worker_queue)
  <1>1. /\ worker_queue \in Seq(Tasks) /\ n \in Nat /\ DOMAIN worker_queue = 1 .. n
    BY QueueTyped
  <1>2. /\ DOMAIN worker_queue' = 1 .. (n + 1)
        /\ \A i \in 1 .. n : worker_queue'[i] = worker_queue[i]
        /\ worker_queue'[n + 1] = t
    BY <1>1, Appended DEF PutsOne
  <1> HIDE DEF n
  <1>3. /\ \A i \in 1 .. (n + 1) : i \in 1 .. n \/ i = n + 1
        /\ \A i \in 1 .. n : i \in 1 .. (n + 1)
        /\ n + 1 \in 1 .. (n + 1)
    BY <1>1
  <1> DEFINE tasks == worker_queue'
  <1>4. /\ DOMAIN tasks = 1 .. (n + 1) /\ tasks[n + 1] = t
        /\ \A i \in 1 .. n : tasks[i] = worker_queue[i]
    BY <1>2
  <1> HIDE DEF tasks
  <1>5. CASE ~t.fresh /\ Awaited(state, toks, worker_queue)
    <2>1. \A i \in DOMAIN tasks : tasks[i].fresh =>
             i \in DOMAIN worker_queue /\ worker_queue[i].fresh
      BY <1>1, <1>3, <1>4, <1>5
    <2>2. \A i \in DOMAIN worker_queue : i \in DOMAIN tasks /\ tasks[i] = worker_queue[i]
      BY <1>1, <1>3, <1>4
    <2>3. Awaited(state, toks, tasks)
      BY <1>5, <2>1, <2>2 DEF Awaited
    <2> QED
      BY <2>3 DEF tasks
  <1>6. CASE t.fresh /\ state = "Starting" /\ NoneFresh(toks, worker_queue)
    <2>1. \A i \in DOMAIN tasks : tasks[i].fresh <=> i = n + 1
      BY <1>1, <1>3, <1>4, <1>6 DEF NoneFresh
    <2>2. n + 1 \in DOMAIN tasks
      BY <1>3, <1>4
    <2>3. Awaited(state, toks, tasks)
      BY <1>6, <2>1, <2>2 DEF Awaited, NoneFresh
    <2> QED
      BY <2>3 DEF tasks
  <1> QED
    BY <1>5, <1>6

LEMMA AskedTokens ==
    ASSUME IInv, MakeWrite \/ (\E u \in Users : ChangeCredentials(u))
    PROVE  TokensKept
PROOF
  <1>0. Awaited(state, token_requests, worker_queue) /\ token_requests \in SUBSET Requests
    BY TokenStates, QueueTyped
  <1>1. CASE MakeWrite
    <2> DEFINE t == WriteTask(auth_user)
    <2>1. /\ t \in Tasks /\ ~t.fresh /\ t.task = "write" /\ PutsOne(t)
          /\ UNCHANGED <<auth_user, token_requests, current_user, state, call_user>>
      BY <1>1, TaskTypes, TokenStates
      DEF MakeWrite, Room, PutsOne, Enqueue, WriteTask, authVars, localVars, streamVars,
          callVars
    <2> HIDE DEF t
    <2>2. Awaited(state, token_requests, worker_queue')
      BY <1>0, <2>1, PutAwaited
    <2>3. ResumesOfUser' /\ ChangesCatchUp'
      BY <2>1, PutTokens, TokenStates
    <2> QED
      BY <1>0, <2>1, <2>2, <2>3, TokenStates
      DEF TokensKept, CallOfUser, Caught, CountedAreCurrent
  <1>2. ASSUME NEW u \in Users, ChangeCredentials(u) PROVE TokensKept
    <2> DEFINE t == ChangeTask(u)
               toks == {[r EXCEPT !.counted = FALSE] : r \in token_requests}
    <2>1. /\ t \in Tasks /\ ~t.fresh /\ t.task = "change" /\ PutsOne(t) /\ t.user = u
          /\ auth_user' = u /\ token_requests' = toks
          /\ UNCHANGED <<current_user, state, call_user>>
      BY <1>2, TaskTypes
      DEF ChangeCredentials, Room, PutsOne, Enqueue, ChangeTask, localVars, streamVars,
          callVars
    <2>2. toks \in SUBSET Requests /\ \A r \in toks : ~r.counted
      BY <1>0 DEF Requests
    <2>3. Awaited(state, toks, worker_queue)
      <3>1. \A r \in toks : \E r1 \in token_requests :
               r = [r1 EXCEPT !.counted = FALSE] /\ r.fresh = r1.fresh
        BY <1>0 DEF Requests
      <3>2. \A r1 \in token_requests : \E r \in toks : r.fresh = r1.fresh
        <4> TAKE r1 \in token_requests
        <4>1. [r1 EXCEPT !.counted = FALSE] \in toks
          OBVIOUS
        <4>2. [r1 EXCEPT !.counted = FALSE].fresh = r1.fresh
          BY <1>0 DEF Requests
        <4> QED
          BY <4>1, <4>2
      <3> HIDE DEF toks
      <3>3. /\ \A r \in toks : r.fresh => \E r1 \in token_requests : r1.fresh
            /\ (\E r \in token_requests : r.fresh) <=> (\E r \in toks : r.fresh)
        BY <3>1, <3>2
      <3>4. ASSUME NEW r1 \in toks, NEW r2 \in toks, r1.fresh, r2.fresh
            PROVE  r1 = r2
        <4>1. PICK s1 \in token_requests :
                 r1 = [s1 EXCEPT !.counted = FALSE] /\ r1.fresh = s1.fresh
          BY <3>1
        <4>2. PICK s2 \in token_requests :
                 r2 = [s2 EXCEPT !.counted = FALSE] /\ r2.fresh = s2.fresh
          BY <3>1
        <4>3. s1 = s2
          BY <1>0, <3>4, <4>1, <4>2 DEF Awaited
        <4> QED
          BY <4>1, <4>2, <4>3
      <3> QED
        BY <1>0, <3>3, <3>4 DEF Awaited
    <2> HIDE DEF t, toks
    <2>4. Awaited(state, toks, worker_queue')
      BY <2>1, <2>3, PutAwaited
    <2>5. ResumesOfUser' /\ ChangesCatchUp'
      BY <2>1, PutTokens
    <2> QED
      BY <2>1, <2>2, <2>4, <2>5, TokenStates DEF TokensKept, CallOfUser, CountedAreCurrent
  <1> QED
    BY <1>1, <1>2

LEMMA AnsweredTokens ==
    ASSUME IInv, AnswerSomeToken
    PROVE  TokensKept
PROOF
  <1>1. PICK r \in token_requests, t \in Users \cup {Failed} : AnswerToken(r, t)
    BY DEF AnswerSomeToken
  <1> DEFINE x == ResumeTask(t, r.fresh)
             toks == token_requests \ {r}
  <1>2. /\ token_requests \in SUBSET Requests
        /\ Awaited(state, token_requests, worker_queue)
        /\ r.fresh \in BOOLEAN
    BY QueueTyped, TokenStates DEF Requests
  <1>3. /\ x \in Tasks /\ x.task = "resume" /\ (x.fresh <=> r.fresh) /\ x.user = t
        /\ PutsOne(x)
        /\ t # Failed => t = r.user /\ r.counted
        /\ token_requests' = toks
        /\ UNCHANGED <<auth_user, current_user, state, call_user>>
    <2>1. x \in Tasks /\ x.task = "resume" /\ x.fresh = r.fresh /\ x.user = t
      BY <1>2, TaskTypes DEF ResumeTask
    <2> QED
      BY <1>1, <2>1 DEF AnswerToken, Room, PutsOne, Enqueue, localVars, streamVars, callVars
  <1> HIDE DEF x
  <1>4. Awaited(state, toks, worker_queue')
    <2>1. CASE r.fresh
      <3>1. state = "Starting" /\ NoneFresh(toks, worker_queue)
        BY <1>2, <2>1 DEF Awaited, NoneFresh
      <3> QED
        BY <1>3, <2>1, <3>1, PutAwaited
    <2>2. CASE ~r.fresh
      <3>1. Awaited(state, toks, worker_queue)
        BY <1>2, <2>2 DEF Awaited
      <3> HIDE DEF toks
      <3> QED
        BY <1>3, <2>2, <3>1, PutAwaited
    <2> QED
      BY <2>1, <2>2
  <1>5. ResumesOfUser' /\ ChangesCatchUp'
    <2>1. t \in {Failed, auth_user}
      BY <1>3, TokenStates DEF Caught, CountedAreCurrent
    <2> QED
      BY <1>3, <2>1, PutTokens, TokenStates
  <1>6. CountedAreCurrent' /\ token_requests' \in SUBSET Requests
    BY <1>2, <1>3, TokenStates DEF Caught, CountedAreCurrent
  <1> QED
    BY <1>3, <1>4, <1>5, <1>6, TokenStates DEF TokensKept, CallOfUser
LEMMA OtherTokens ==
    ASSUME IInv, BackoffElapsed \/ IdleTimeout \/ FinishCall \/ Restart
    PROVE  TokensKept
PROOF
  <1>0. /\ token_requests \in SUBSET Requests /\ auth_user \in Users
        /\ state \in States /\ Caught
        /\ Alike(worker_queue, worker_queue)
    BY TokenStates, QueueTyped
  <1>1. CASE IdleTimeout
    <2>1. /\ worker_queue' = StaleTasks(worker_queue)
          /\ UNCHANGED <<auth_user, current_user>>
          /\ StartIfNeeded(<<>>, "Initial", StaleTokens(token_requests))
      BY <1>1 DEF IdleTimeout, StartIfNeeded, localVars
    <2> QED
      BY <2>1, ClosedTokens
  <1>2. CASE FinishCall
    <2>1. /\ worker_queue' = StaleTasks(worker_queue)
          /\ UNCHANGED <<auth_user, current_user>>
          /\ \/ StartIfNeeded(write_pipeline', "Initial", StaleTokens(token_requests))
             \/ StartIfNeeded(write_pipeline, "Error", StaleTokens(token_requests))
      BY <1>2 DEF FinishCall, GiveUpFirst, RetryLater, Refill, localVars
    <2> QED
      BY <2>1, ClosedTokens
  <1>3. CASE BackoffElapsed
    <2>1. /\ Start("Initial", token_requests) /\ state = "Backoff"
          /\ UNCHANGED <<auth_user, current_user, worker_queue>>
      BY <1>3 DEF BackoffElapsed, localVars
    <2>2. NoneFresh(token_requests, worker_queue)
      BY <2>1, NotStarting
    <2>3. /\ Awaited(state', token_requests', worker_queue)
          /\ token_requests' \in SUBSET Requests
          /\ state' \in States /\ state' # "Open"
          /\ \A r \in token_requests' : r \in token_requests \/ r.user = auth_user
      BY <1>0, <2>1, <2>2, StartedAfresh DEF States
    <2>4. ResumesOfUser' /\ ChangesCatchUp' /\ CountedAreCurrent'
      BY <1>0, <2>1, <2>3, KeepsOrder
    <2> QED
      BY <1>0, <2>1, <2>3, <2>4 DEF TokensKept, CallOfUser
  <1>4. CASE Restart
    <2>1. /\ worker_queue' = <<>> /\ current_user' = auth_user /\ UNCHANGED auth_user
          /\ StartIfNeeded(write_pipeline', "Initial", {})
      BY <1>4 DEF Restart, Refill
    <2>2. DOMAIN worker_queue' = {}
      BY <2>1, EmptySeq
    <2>3. NoneFresh({}, <<>>) /\ {} \in SUBSET Requests /\ "Initial" \in States
      BY EmptySeq DEF NoneFresh, States
    <2>4. /\ Awaited(state', token_requests', <<>>)
          /\ token_requests' \in SUBSET Requests
          /\ state' \in States /\ state' # "Open"
          /\ \A r \in token_requests' : r.user = auth_user
      BY <1>0, <2>1, <2>3, StartedAfresh
    <2> QED
      BY <1>0, <2>1, <2>2, <2>4
      DEF TokensKept, CallOfUser, ResumesOfUser, ChangesCatchUp, CountedAreCurrent
  <1> QED
    BY <1>1, <1>2, <1>3, <1>4

LEMMA TokensNext ==
    ASSUME IInv, [Next]_vars
    PROVE  TokensKept
PROOF
  <1>1. ASSUME UNCHANGED <<auth_user, current_user, token_requests, worker_queue, state,
                           call_user>>
        PROVE  TokensKept
    BY <1>1, TokenStates, QueueTyped
    DEF TokensKept, CallOfUser, Caught, ResumesOfUser, ChangesCatchUp, CountedAreCurrent,
        IsChange
  <1>2. CASE ReadResult
    <2>1. state = "Open"
      BY <1>2 DEF ReadResult, IInv, CallWhenOpen
    <2>2. UNCHANGED <<auth_user, current_user, token_requests, worker_queue, state, call_user>>
      BY <1>2, <2>1 DEF ReadResult, FillWritePipeline, Refill, StartIfNeeded, IsStarted
    <2> QED
      BY <1>1, <2>2
  <1>3. CASE UNCHANGED vars \/ Serve \/ RefuseBatch \/ FailWrite \/ Break \/ ReadHandshake
    BY <1>1, <1>3 DEF vars, authVars, localVars, streamVars, callVars, Serve, RefuseBatch,
                      FailWrite, Break, ReadHandshake
  <1> QED
    BY <1>2, <1>3, AskedTokens, AnsweredTokens, TakenTokens, ResumedTokens, ChangedTokens,
       OtherTokens DEF Next, Progress, Task
-------------------------------------------------------------------------------
(* Requests and responses, in the order of the pipeline.                   *)
LedBy(r, p) == Len(r) <= Len(p) /\ \A i \in DOMAIN r : r[i] = p[i]

LEMMA Moved ==
    ASSUME NEW r \in Seq(Nat), NEW q \in Seq(Nat), q # <<>>
    PROVE  /\ Append(r, Head(q)) \o Tail(q) = r \o q
           /\ Append(r, Head(q)) \in Seq(Nat) /\ Tail(q) \in Seq(Nat)
           /\ Head(q) \in Nat
PROOF
  <1>1. Head(q) \in Nat /\ Tail(q) \in Seq(Nat)
    BY HeadTailProperties
  <1>2. Append(r, Head(q)) = r \o <<Head(q)>> /\ <<Head(q)>> \in Seq(Nat)
    BY <1>1, AppendIsConcat
  <1>3. <<Head(q)>> \o Tail(q) = q
    <2> DEFINE h == <<Head(q)>>
               s == h \o Tail(q)
    <2>1. h \in Seq(Nat) /\ Len(h) = 1 /\ h[1] = Head(q)
      BY <1>1
    <2>2. /\ Len(q) \in Nat /\ Len(q) > 0 /\ Len(Tail(q)) = Len(q) - 1
          /\ \A i \in 1 .. (Len(q) - 1) : Tail(q)[i] = q[i + 1]
          /\ Head(q) = q[1]
      BY Taken
    <2> HIDE DEF h
    <2>0. /\ s \in Seq(Nat) /\ Len(s) = Len(h) + Len(Tail(q))
          /\ \A i \in 1 .. Len(h) + Len(Tail(q)) :
                s[i] = IF i <= Len(h) THEN h[i] ELSE Tail(q)[i - Len(h)]
      BY <1>1, <2>1, ConcatProperties
    <2> HIDE DEF s
    <2>3. /\ s \in Seq(Nat) /\ Len(s) = Len(q)
          /\ \A i \in 1 .. Len(q) : s[i] = IF i <= 1 THEN h[i] ELSE Tail(q)[i - 1]
      <3>1. Len(h) + Len(Tail(q)) = Len(q)
        BY <2>1, <2>2
      <3> QED
        BY <2>0, <2>1, <3>1
    <2>4. ASSUME NEW i \in 1 .. Len(s) PROVE s[i] = q[i]
      <3>1. CASE i = 1
        BY <2>1, <2>2, <2>3, <3>1
      <3>2. CASE i # 1
        <4>1. i - 1 \in 1 .. (Len(q) - 1) /\ ~(i <= 1) /\ (i - 1) + 1 = i
          BY <2>2, <2>3, <3>2
        <4> QED
          BY <2>2, <2>3, <4>1
      <3> QED
        BY <3>1, <3>2
    <2>5. s = q
      BY <2>2, <2>3, <2>4, SeqEqual
    <2> QED
      BY <2>5 DEF s, h
  <1>4. (r \o <<Head(q)>>) \o Tail(q) = r \o (<<Head(q)>> \o Tail(q))
    BY <1>1, <1>2, ConcatAssociative
  <1>5. Append(r, Head(q)) \in Seq(Nat)
    BY <1>1, AppendProperties
  <1> QED
    BY <1>1, <1>2, <1>3, <1>4, <1>5

LEMMA TailOfConcat ==
    ASSUME NEW r \in Seq(Nat), NEW q \in Seq(Nat), r # <<>>
    PROVE  Tail(r \o q) = Tail(r) \o q
PROOF
  <1> DEFINE s == r \o q
             t == Tail(r) \o q
  <1>1. /\ Len(r) \in Nat /\ Len(r) > 0 /\ Tail(r) \in Seq(Nat)
        /\ Len(Tail(r)) = Len(r) - 1
        /\ \A i \in 1 .. (Len(r) - 1) : Tail(r)[i] = r[i + 1]
        /\ Len(q) \in Nat
    BY Taken, LenProperties
  <1>2. /\ s \in Seq(Nat) /\ Len(s) = Len(r) + Len(q)
        /\ \A i \in 1 .. Len(r) + Len(q) :
              s[i] = IF i <= Len(r) THEN r[i] ELSE q[i - Len(r)]
    BY ConcatProperties
  <1>3. /\ t \in Seq(Nat) /\ Len(t) = Len(Tail(r)) + Len(q)
        /\ \A i \in 1 .. Len(Tail(r)) + Len(q) :
              t[i] = IF i <= Len(Tail(r)) THEN Tail(r)[i] ELSE q[i - Len(Tail(r))]
    BY <1>1, ConcatProperties
  <1> HIDE DEF s, t
  <1>4. s # <<>>
    BY <1>1, <1>2, EmptySeq
  <1>5. /\ Tail(s) \in Seq(Nat) /\ Len(Tail(s)) = Len(s) - 1
        /\ \A i \in 1 .. (Len(s) - 1) : Tail(s)[i] = s[i + 1]
    BY <1>2, <1>4, Taken
  <1>6. Len(Tail(s)) = Len(t) /\ Len(t) = Len(r) - 1 + Len(q)
    BY <1>1, <1>2, <1>3, <1>5
  <1>7. ASSUME NEW i \in 1 .. Len(t) PROVE Tail(s)[i] = t[i]
    <2>1. /\ i + 1 \in 1 .. Len(r) + Len(q) /\ i \in 1 .. Len(Tail(r)) + Len(q)
          /\ i \in 1 .. (Len(s) - 1)
      BY <1>1, <1>2, <1>6
    <2>2. CASE i <= Len(r) - 1
      <3>1. i + 1 <= Len(r) /\ i \in 1 .. (Len(r) - 1)
        BY <1>1, <2>1, <2>2
      <3>2. t[i] = r[i + 1]
        BY <1>1, <1>3, <2>1, <2>2, <3>1
      <3>3. s[i + 1] = r[i + 1]
        BY <1>2, <2>1, <3>1
      <3> QED
        BY <1>5, <2>1, <3>2, <3>3
    <2>3. CASE ~(i <= Len(r) - 1)
      <3>1. ~(i + 1 <= Len(r)) /\ (i + 1) - Len(r) = i - Len(Tail(r))
        BY <1>1, <2>1, <2>3
      <3>2. t[i] = q[i - Len(Tail(r))]
        BY <1>1, <1>3, <2>1, <2>3
      <3>3. s[i + 1] = q[(i + 1) - Len(r)]
        BY <1>2, <2>1, <3>1
      <3> QED
        BY <1>5, <2>1, <3>1, <3>2, <3>3
    <2> QED
      BY <2>2, <2>3
  <1>8. Tail(s) = t
    BY <1>3, <1>5, <1>6, <1>7, SeqEqual
  <1> QED
    BY <1>8 DEF s, t

LEMMA LedByConcat ==
    ASSUME NEW r \in Seq(Nat), NEW q \in Seq(Nat)
    PROVE  /\ r \o q \in Seq(Nat) /\ LedBy(r, r \o q)
           /\ Len(r \o q) = Len(r) + Len(q)
           /\ \A s \in Seq(Nat) : LedBy(s, r) => LedBy(s, r \o q)
PROOF
  <1>1. /\ r \o q \in Seq(Nat) /\ Len(r \o q) = Len(r) + Len(q)
        /\ \A i \in 1 .. Len(r) + Len(q) :
              (r \o q)[i] = IF i <= Len(r) THEN r[i] ELSE q[i - Len(r)]
        /\ Len(r) \in Nat /\ Len(q) \in Nat /\ DOMAIN r = 1 .. Len(r)
    BY ConcatProperties, LenProperties
  <1>2. \A i \in 1 .. Len(r) : i \in 1 .. Len(r) + Len(q) /\ i <= Len(r)
    BY <1>1
  <1>3. LedBy(r, r \o q)
    BY <1>1, <1>2 DEF LedBy
  <1>4. ASSUME NEW s \in Seq(Nat), LedBy(s, r) PROVE LedBy(s, r \o q)
    <2>1. Len(s) \in Nat /\ DOMAIN s = 1 .. Len(s) /\ Len(s) <= Len(r)
      BY <1>4, LenProperties DEF LedBy
    <2>2. \A i \in 1 .. Len(s) : i \in 1 .. Len(r)
      BY <1>1, <2>1
    <2> QED
      BY <1>1, <1>2, <1>4, <2>1, <2>2 DEF LedBy
  <1> QED
    BY <1>1, <1>3, <1>4

LEMMA LedByTail ==
    ASSUME NEW r \in Seq(Nat), NEW p \in Seq(Nat), r # <<>>, p # <<>>, LedBy(r, p)
    PROVE  LedBy(Tail(r), Tail(p)) /\ Tail(r) \in Seq(Nat) /\ Tail(p) \in Seq(Nat)
PROOF
  <1>1. /\ Len(r) \in Nat /\ Len(Tail(r)) = Len(r) - 1 /\ DOMAIN r = 1 .. Len(r)
        /\ DOMAIN Tail(r) = 1 .. (Len(r) - 1) /\ Tail(r) \in Seq(Nat)
        /\ \A i \in 1 .. (Len(r) - 1) : Tail(r)[i] = r[i + 1]
    BY Taken
  <1>2. /\ Len(p) \in Nat /\ Len(Tail(p)) = Len(p) - 1 /\ Tail(p) \in Seq(Nat)
        /\ \A i \in 1 .. (Len(p) - 1) : Tail(p)[i] = p[i + 1]
    BY Taken
  <1>3. Len(r) <= Len(p) /\ \A i \in 1 .. Len(r) : r[i] = p[i]
    BY <1>1 DEF LedBy
  <1>4. \A i \in 1 .. (Len(r) - 1) : i + 1 \in 1 .. Len(r) /\ i \in 1 .. (Len(p) - 1)
    BY <1>1, <1>2, <1>3
  <1>5. \A i \in 1 .. (Len(r) - 1) : Tail(r)[i] = Tail(p)[i]
    BY <1>1, <1>2, <1>3, <1>4
  <1>6. Len(Tail(r)) <= Len(Tail(p))
    BY <1>1, <1>2, <1>3
  <1> QED
    BY <1>1, <1>2, <1>5, <1>6 DEF LedBy

LEMMA LedByCut ==
    ASSUME NEW r \in Seq(Nat), NEW n \in Nat, n <= Len(r)
    PROVE  /\ SubSeq(r, 1, n) \in Seq(Nat) /\ Len(SubSeq(r, 1, n)) = n
           /\ \A p \in Seq(Nat) : LedBy(r, p) => LedBy(SubSeq(r, 1, n), p)
PROOF
  <1>1. Len(r) \in Nat /\ DOMAIN r = 1 .. Len(r)
    BY LenProperties
  <1>2. /\ SubSeq(r, 0 + 1, n) \in Seq(Nat) /\ Len(SubSeq(r, 0 + 1, n)) = n - 0
        /\ DOMAIN SubSeq(r, 0 + 1, n) = 1 .. (n - 0)
        /\ \A i \in 1 .. (n - 0) : SubSeq(r, 0 + 1, n)[i] = r[0 + i]
    BY <1>1, Cut
  <1>3. 0 + 1 = 1 /\ n - 0 = n /\ \A i \in 1 .. n : 0 + i = i /\ i \in 1 .. Len(r)
    BY <1>1
  <1>4. ASSUME NEW p \in Seq(Nat), LedBy(r, p) PROVE LedBy(SubSeq(r, 1, n), p)
    <2>1. Len(p) \in Nat /\ Len(r) <= Len(p)
      BY <1>4, LenProperties DEF LedBy
    <2> QED
      BY <1>1, <1>2, <1>3, <1>4, <2>1 DEF LedBy
  <1> QED
    BY <1>2, <1>3, <1>4
-------------------------------------------------------------------------------
(* The stream and its call.                                                *)
StreamKept ==
    /\ StreamAsNeeded' /\ CallWhenOpen' /\ AnswersInOrder'
    /\ idleness_timer' \in BOOLEAN /\ handshake_complete' \in BOOLEAN
    /\ call_user' \in Users \cup {Failed}
    /\ requests' \in Seq(Nat) /\ responses' \in Seq(Nat)
    /\ ended' \in {"no", "refused", "broken"}

LEMMA BatchesAreNat ==
    ASSUME NEW s \in Seq(BatchIds)
    PROVE  s \in Seq(Nat)
PROOF
  BY SeqMonotonic DEF BatchIds

LEMMA StreamStates ==
    ASSUME IInv
    PROVE  /\ StreamAsNeeded /\ CallWhenOpen /\ AnswersInOrder
           /\ idleness_timer \in BOOLEAN /\ handshake_complete \in BOOLEAN
           /\ call_user \in Users \cup {Failed}
           /\ requests \in Seq(Nat) /\ responses \in Seq(Nat)
           /\ ended \in {"no", "refused", "broken"}
           /\ write_pipeline \in Seq(Nat)
           /\ handshake_complete => LedBy(responses, write_pipeline)
           /\ requests # <<>> \/ ended # "no" \/ responses # <<>> \/ handshake_complete
                 => state = "Open"
PROOF
  <1>1. write_pipeline \in Seq(Nat)
    BY BatchesAreNat DEF IInv, TypeOK
  <1> QED
    BY <1>1 DEF IInv, TypeOK, AnswersInOrder, LedBy, CallWhenOpen

LEMMA HungUp ==
    ASSUME IInv, Hangup, NEW s, s # "Open", NEW toks,
           StartIfNeeded(write_pipeline', s, toks)
    PROVE  StreamKept
PROOF
  <1>1. /\ idleness_timer' = FALSE /\ handshake_complete' = FALSE
        /\ call_user' = Failed /\ requests' = <<>> /\ responses' = <<>> /\ ended' = "no"
    BY DEF Hangup
  <1>2. state' # "Open" /\ (write_pipeline' # <<>> => IsStarted(state'))
    BY DEF StartIfNeeded, Start, IsStarted
  <1>3. <<>> \in Seq(Nat)
    BY EmptySeq
  <1> QED
    BY <1>1, <1>2, <1>3 DEF StreamKept, StreamAsNeeded, CallWhenOpen, AnswersInOrder, IsStarted

LEMMA ClosingSteps ==
    ASSUME IInv, \/ HandleCredentialChange \/ FailToOpen \/ IdleTimeout \/ FinishCall
                 \/ Restart
    PROVE  StreamKept
PROOF
  <1>1. Hangup
    BY DEF HandleCredentialChange, FailToOpen, IdleTimeout, FinishCall, Restart, GiveUpFirst,
           RetryLater
  <1>2. \E s, toks : s # "Open" /\ StartIfNeeded(write_pipeline', s, toks)
    <2>1. CASE HandleCredentialChange
      <3>1. \E toks : StartIfNeeded(write_pipeline',
                         IF IsStarted(state) THEN "Initial" ELSE state, toks)
        BY <2>1 DEF HandleCredentialChange, Refill
      <3>2. (IF IsStarted(state) THEN "Initial" ELSE state) # "Open"
        BY DEF IsStarted
      <3> QED
        BY <3>1, <3>2
    <2>2. CASE FailToOpen
      <3>1. write_pipeline' = write_pipeline
        BY <2>2 DEF FailToOpen
      <3> QED
        BY <2>2, <3>1 DEF FailToOpen
    <2>3. CASE IdleTimeout
      <3>1. write_pipeline' = <<>> /\ state' = "Initial"
            /\ token_requests' = StaleTokens(token_requests)
        BY <2>3, StreamStates DEF IdleTimeout, StreamAsNeeded
      <3>2. StartIfNeeded(write_pipeline', "Initial", StaleTokens(token_requests))
        BY <3>1 DEF StartIfNeeded
      <3> QED
        BY <3>2
    <2>4. CASE FinishCall
      <3>1. CASE GiveUpFirst
        <4>1. StartIfNeeded(write_pipeline', "Initial", StaleTokens(token_requests))
          BY <3>1 DEF GiveUpFirst, Refill
        <4> QED
          BY <4>1
      <3>2. CASE RetryLater
        <4>1. StartIfNeeded(write_pipeline', "Error", StaleTokens(token_requests))
          BY <3>2 DEF RetryLater
        <4> QED
          BY <4>1
      <3> QED
        BY <2>4, <3>1, <3>2 DEF FinishCall
    <2>5. CASE Restart
      <3>1. StartIfNeeded(write_pipeline', "Initial", {})
        BY <2>5 DEF Restart, Refill
      <3> QED
        BY <3>1
    <2> QED
      BY <2>1, <2>2, <2>3, <2>4, <2>5
  <1> QED
    BY <1>1, <1>2, HungUp

LEMMA IdleSteps ==
    ASSUME IInv, UNCHANGED <<idleness_timer, handshake_complete, callVars, write_pipeline>>,
           UNCHANGED state \/ BackoffElapsed
    PROVE  StreamKept
PROOF
  <1>1. CASE UNCHANGED state
    BY <1>1, StreamStates
    DEF callVars, StreamKept, StreamAsNeeded, CallWhenOpen, AnswersInOrder, IsStarted
  <1>2. CASE BackoffElapsed
    <2>1. state = "Backoff" /\ state' = "Starting"
      BY <1>2 DEF BackoffElapsed, Start
    <2> QED
      BY <2>1, StreamStates
      DEF callVars, StreamKept, StreamAsNeeded, CallWhenOpen, AnswersInOrder, IsStarted
  <1> QED
    BY <1>1, <1>2

LEMMA CallOpened ==
    ASSUME IInv, OpenCall
    PROVE  StreamKept
PROOF
  <1>1. /\ worker_queue # <<>> /\ Next1.fresh /\ state' = "Open"
        /\ call_user' = Next1.user /\ requests' = <<Handshake>> /\ idleness_timer' = FALSE
        /\ UNCHANGED <<write_pipeline, handshake_complete, responses, ended>>
    BY DEF OpenCall, TokenOf
  <1>2. state = "Starting" /\ Next1.user \in Users \cup {Failed}
    <2>1. Next1 = worker_queue[1] /\ 1 \in DOMAIN worker_queue /\ Next1 \in Tasks
      BY <1>1, RestTyped
    <2> QED
      BY <1>1, <2>1, TokenStates DEF Awaited, Tasks
  <1>3. ~handshake_complete /\ responses = <<>> /\ ended = "no"
    BY <1>2, StreamStates DEF CallWhenOpen
  <1>4. <<Handshake>> \in Seq(Nat) /\ <<>> \o <<Handshake>> = <<Handshake>>
    <2>1. <<Handshake>> \in Seq(Nat)
      BY DEF Handshake
    <2> QED
      BY <2>1, ConcatEmptySeq
  <1> QED
    BY <1>1, <1>2, <1>3, <1>4, StreamStates
    DEF StreamKept, StreamAsNeeded, CallWhenOpen, AnswersInOrder, IsStarted

(* Before the handshake is complete.                                       *)
LEMMA BeforeHandshake ==
    ASSUME IInv, state = "Open", ~handshake_complete
    PROVE  /\ ended = "no" /\ requests # <<>> =>
                 responses = <<>> /\ requests = <<Handshake>>
           /\ ended = "no" /\ responses # <<>> =>
                 responses = <<Handshake>> /\ requests = <<>>
           /\ Tail(<<Handshake>>) = <<>> /\ Head(<<Handshake>>) = Handshake
           /\ Append(<<>>, Handshake) = <<Handshake>>
           /\ <<Handshake>> \in Seq(Nat) /\ Len(<<Handshake>>) = 1
           /\ <<Handshake>> \o <<>> = <<Handshake>> /\ <<>> \o <<Handshake>> = <<Handshake>>
PROOF
  <1>1. /\ responses \in Seq(Nat) /\ requests \in Seq(Nat)
        /\ ended = "no" => responses \o requests = <<Handshake>>
        /\ responses = <<>> \/ responses = <<Handshake>>
    BY StreamStates DEF CallWhenOpen
  <1>2. /\ <<Handshake>> \in Seq(Nat) /\ Len(<<Handshake>>) = 1
        /\ Append(<<>>, Handshake) = <<Handshake>> /\ Head(<<Handshake>>) = Handshake
        /\ Tail(<<Handshake>>) = <<>>
    BY DEF Handshake
  <1>3. /\ <<Handshake>> \o <<>> = <<Handshake>> /\ <<>> \o <<Handshake>> = <<Handshake>>
        /\ <<>> \o requests = requests
    BY <1>1, <1>2, ConcatEmptySeq
  <1>4. responses = <<Handshake>> /\ ended = "no" => requests = <<>>
    <2> DEFINE h == <<Handshake>>
    <2>1. h \in Seq(Nat)
      BY <1>2
    <2> HIDE DEF h
    <2>2. h \o requests = h => requests = <<>>
      BY <1>1, <2>1, ConcatEqualIffEmpty
    <2> QED
      BY <1>1, <2>2 DEF h
  <1>5. responses = <<>> /\ ended = "no" => requests = <<Handshake>>
    BY <1>1, <1>3
  <1> QED
    BY <1>1, <1>2, <1>3, <1>4, <1>5
LEMMA ServedCall ==
    ASSUME IInv, Serve
    PROVE  StreamKept
PROOF
  <1>1. /\ ended = "no" /\ requests # <<>>
        /\ requests' = Tail(requests) /\ responses' = Append(responses, Head(requests))
        /\ UNCHANGED <<write_pipeline, streamVars, call_user, ended>>
    BY DEF Serve
  <1>2. state = "Open" /\ UNCHANGED <<state, idleness_timer, handshake_complete>>
    BY <1>1, StreamStates DEF streamVars
  <1>3. /\ responses' \o requests' = responses \o requests
        /\ responses' \in Seq(Nat) /\ requests' \in Seq(Nat)
    BY <1>1, Moved, StreamStates
  <1>4. CASE handshake_complete
    <2>1. responses' \o requests' = write_pipeline
      BY <1>1, <1>3, <1>4, StreamStates DEF AnswersInOrder
    <2>2. LedBy(responses', write_pipeline)
      BY <1>3, <2>1, LedByConcat
    <2> QED
      BY <1>1, <1>2, <1>3, <1>4, <2>1, <2>2, StreamStates
      DEF StreamKept, StreamAsNeeded, CallWhenOpen, AnswersInOrder, LedBy
  <1>5. CASE ~handshake_complete
    <2>1. responses' = <<Handshake>> /\ requests' = <<>>
      BY <1>1, <1>2, <1>5, BeforeHandshake
    <2>2. responses' \o requests' = <<Handshake>>
      BY <1>2, <1>5, <2>1, BeforeHandshake
    <2> QED
      BY <1>1, <1>2, <1>3, <1>5, <2>1, <2>2, StreamStates
      DEF StreamKept, StreamAsNeeded, CallWhenOpen, AnswersInOrder
  <1> QED
    BY <1>4, <1>5

LEMMA EndedCall ==
    ASSUME IInv, RefuseBatch \/ FailWrite \/ Break
    PROVE  StreamKept
PROOF
  <1>1. ASSUME NEW n \in Nat, n <= Len(responses), NEW q \in Seq(Nat), state = "Open",
               responses' = SubSeq(responses, 1, n), requests' = q,
               ended' \in {"refused", "broken"},
               ~handshake_complete => ended' = "broken" /\ q = <<>>,
               UNCHANGED <<state, idleness_timer, handshake_complete, call_user,
                           write_pipeline>>
        PROVE  StreamKept
    <2>1. /\ responses' \in Seq(Nat) /\ Len(responses') = n
          /\ LedBy(responses, write_pipeline) => LedBy(responses', write_pipeline)
      BY <1>1, LedByCut, StreamStates
    <2>2. CASE handshake_complete
      <3>1. LedBy(responses', write_pipeline)
        BY <2>1, <2>2, StreamStates
      <3> QED
        BY <1>1, <2>1, <2>2, <3>1, StreamStates
        DEF StreamKept, StreamAsNeeded, CallWhenOpen, AnswersInOrder, LedBy
    <2>3. CASE ~handshake_complete
      <3>1. responses' = <<>> \/ responses' = <<Handshake>>
        <4>1. CASE n = 0
          BY <2>1, <4>1, EmptySeq
        <4>2. CASE n # 0
          <5>1. responses # <<>>
            BY <1>1, <4>2, EmptySeq
          <5>2. responses = <<Handshake>>
            BY <1>1, <2>3, <5>1, StreamStates DEF CallWhenOpen
          <5>3. n = 1
            BY <1>1, <2>3, <4>2, <5>2, BeforeHandshake
          <5>4. SubSeq(<<Handshake>>, 1, Len(<<Handshake>>)) = <<Handshake>>
            BY <1>1, <2>3, BeforeHandshake, SubSeqFull
          <5>5. Len(<<Handshake>>) = 1
            BY <1>1, <2>3, BeforeHandshake
          <5>6. responses' = SubSeq(<<Handshake>>, 1, 1)
            BY <1>1, <5>2, <5>3
          <5> QED
            BY <5>4, <5>5, <5>6
        <4> QED
          BY <4>1, <4>2
      <3> QED
        BY <1>1, <2>1, <2>3, <3>1, StreamStates
        DEF StreamKept, StreamAsNeeded, CallWhenOpen, AnswersInOrder
    <2> QED
      BY <2>2, <2>3
  <1>2. CASE RefuseBatch
    <2>1. /\ ended = "no" /\ requests # <<>> /\ Head(requests) # Handshake
          /\ ended' = "refused"
          /\ UNCHANGED <<write_pipeline, state, idleness_timer, handshake_complete,
                         call_user, requests, responses>>
      BY <1>2 DEF RefuseBatch, streamVars
    <2>2. state = "Open" /\ handshake_complete
      BY <2>1, StreamStates, BeforeHandshake
    <2>3. responses' = SubSeq(responses, 1, Len(responses)) /\ Len(responses) \in Nat
      BY <2>1, StreamStates, SubSeqFull, LenProperties
    <2> QED
      BY <1>1, <2>1, <2>2, <2>3, StreamStates
  <1>3. CASE FailWrite
    <2> DEFINE n == Least(1, Len(responses))
    <2>1. /\ ended = "refused" /\ Len(requests) > 1 /\ requests' = <<Head(requests)>>
          /\ responses' = SubSeq(responses, 1, n)
          /\ UNCHANGED <<write_pipeline, state, idleness_timer, handshake_complete,
                         call_user, ended>>
      BY <1>3 DEF FailWrite, streamVars
    <2>2. state = "Open" /\ handshake_complete
      BY <2>1, StreamStates DEF CallWhenOpen
    <2>3. n \in Nat /\ n <= Len(responses)
      BY StreamStates, LenProperties DEF Least
    <2>4. <<Head(requests)>> \in Seq(Nat)
      <3>1. requests # <<>>
        BY <2>1, EmptySeq
      <3>2. Head(requests) \in Nat
        BY <3>1, StreamStates, HeadTailProperties
      <3> QED
        BY <3>2
    <2> HIDE DEF n
    <2> QED
      BY <1>1, <2>1, <2>2, <2>3, <2>4
  <1>4. CASE Break
    <2>1. PICK n \in 0 .. Len(responses) : responses' = SubSeq(responses, 1, n)
      BY <1>4 DEF Break
    <2>2. /\ state = "Open" /\ ended' = "broken" /\ requests' = <<>>
          /\ UNCHANGED <<write_pipeline, state, idleness_timer, handshake_complete, call_user>>
      BY <1>4 DEF Break, streamVars
    <2>3. n \in Nat /\ n <= Len(responses) /\ <<>> \in Seq(Nat)
      BY StreamStates, LenProperties, EmptySeq
    <2> QED
      BY <1>1, <2>1, <2>2, <2>3
  <1> QED
    BY <1>2, <1>3, <1>4

LEMMA HandshakeRead ==
    ASSUME IInv, ReadHandshake
    PROVE  StreamKept
PROOF
  <1>1. /\ responses # <<>> /\ ~handshake_complete /\ handshake_complete' = TRUE
        /\ responses' = Tail(responses) /\ requests' = requests \o write_pipeline
        /\ idleness_timer' = (idleness_timer /\ write_pipeline = <<>>)
        /\ UNCHANGED <<write_pipeline, state, call_user, ended>>
    BY DEF ReadHandshake, SentOnHandshake
  <1>2. state = "Open" /\ responses = <<Handshake>>
    BY <1>1, StreamStates DEF CallWhenOpen
  <1>3. responses' = <<>> /\ (ended = "no" => requests = <<>>)
    BY <1>1, <1>2, BeforeHandshake
  <1>4. /\ <<>> \o write_pipeline = write_pipeline
        /\ requests \o write_pipeline \in Seq(Nat) /\ <<>> \in Seq(Nat)
    BY StreamStates, ConcatEmptySeq, ConcatProperties, EmptySeq
  <1>5. ended = "no" => responses' \o requests' = write_pipeline
    <2> SUFFICES ASSUME ended = "no" PROVE responses' \o requests' = write_pipeline
      OBVIOUS
    <2>1. requests' = write_pipeline
      BY <1>1, <1>3, <1>4
    <2> QED
      BY <1>3, <1>4, <2>1
  <1>6. Len(<<>>) = 0 /\ DOMAIN <<>> = {} /\ Len(write_pipeline) \in Nat
    BY EmptySeq, StreamStates, LenProperties
  <1> QED
    BY <1>1, <1>2, <1>3, <1>4, <1>5, <1>6, StreamStates
    DEF StreamKept, StreamAsNeeded, CallWhenOpen, AnswersInOrder
(* More batches are sent behind those on the way.                          *)
LEMMA WriteSent ==
    ASSUME IInv, WriteMutations
    PROVE  StreamKept
PROOF
  <1> DEFINE q == Append(mutations[current_user], next_batch_id)
             a == Added(q, write_pipeline)
             sent == IF state = "Open" /\ handshake_complete THEN a ELSE <<>>
  <1>1. /\ write_pipeline' = write_pipeline \o a
        /\ StartIfNeeded(write_pipeline', state, token_requests)
        /\ requests' = requests \o sent
        /\ idleness_timer' =
              IF sent # <<>> THEN FALSE
              ELSE idleness_timer \/ (write_pipeline' = <<>> /\ state = "Open")
        /\ UNCHANGED <<handshake_complete, call_user, responses, ended>>
    BY DEF WriteMutations, FillWritePipeline, Refill
  <1>2. a \in Seq(Nat) /\ write_pipeline' # <<>>
    <2>1. /\ write_pipeline \o a = Front(q) /\ a \in Seq(BatchIds) /\ Front(q) # <<>>
      BY FilledAfterWrite
    <2> QED
      BY <1>1, <2>1, BatchesAreNat
  <1> HIDE DEF q, a
  <1>3. idleness_timer' = FALSE
    <2>1. CASE sent # <<>> \/ ~idleness_timer
      BY <1>1, <1>2, <2>1, StreamStates
    <2>2. CASE sent = <<>> /\ idleness_timer
      <3>1. state = "Open" /\ write_pipeline = <<>> /\ handshake_complete
        BY <2>2, StreamStates DEF StreamAsNeeded, CallWhenOpen
      <3>2. write_pipeline' = <<>>
        BY <1>1, <2>2, <3>1, EmptySeq, ConcatEmptySeq
      <3> QED
        BY <1>2, <3>2
    <2> QED
      BY <2>1, <2>2
  <1>4. /\ IsStarted(state') /\ (state = "Open" => state' = "Open")
        /\ (state' = "Open" => state = "Open")
    BY <1>1, <1>2 DEF StartIfNeeded, Start, IsStarted
  <1>5. CASE ~(state = "Open" /\ handshake_complete)
    <2>1. requests' = requests /\ ~handshake_complete
      BY <1>1, <1>5, StreamStates, ConcatEmptySeq DEF CallWhenOpen
    <2> QED
      BY <1>1, <1>3, <1>4, <2>1, StreamStates
      DEF StreamKept, StreamAsNeeded, CallWhenOpen, AnswersInOrder
  <1>6. CASE state = "Open" /\ handshake_complete
    <2>1. /\ LedBy(responses, write_pipeline') /\ requests' \in Seq(Nat)
          /\ responses \o requests = write_pipeline => responses \o requests' = write_pipeline'
      <3>1. /\ LedBy(responses, write_pipeline \o a) /\ requests \o a \in Seq(Nat)
            /\ responses \o requests = write_pipeline =>
                  responses \o (requests \o a) = write_pipeline \o a
        <4>1. /\ responses \in Seq(Nat) /\ requests \in Seq(Nat)
              /\ write_pipeline \in Seq(Nat) /\ LedBy(responses, write_pipeline)
          BY <1>6, StreamStates
        <4>2. LedBy(responses, write_pipeline \o a)
          BY <1>2, <4>1, LedByConcat
        <4>3. requests \o a \in Seq(Nat)
          BY <1>2, <4>1, LedByConcat
        <4>4. (responses \o requests) \o a = responses \o (requests \o a)
          BY <1>2, <4>1, ConcatAssociative
        <4> QED
          BY <4>2, <4>3, <4>4
      <3> QED
        BY <1>1, <1>6, <3>1
    <2>2. ended = "no" => responses \o requests' = write_pipeline'
      BY <1>6, <2>1, StreamStates DEF AnswersInOrder
    <2> QED
      BY <1>1, <1>3, <1>4, <1>6, <2>1, <2>2, StreamStates
      DEF StreamKept, StreamAsNeeded, CallWhenOpen, AnswersInOrder, LedBy
  <1> QED
    BY <1>5, <1>6

LEMMA ResultRead ==
    ASSUME IInv, ReadResult
    PROVE  StreamKept
PROOF
  <1> DEFINE q == RemoveMutationBatch(mutations[current_user], Head(write_pipeline))
             pipe == Tail(write_pipeline)
             a == Added(q, pipe)
             sent == IF state = "Open" /\ handshake_complete THEN a ELSE <<>>
  <1>1. /\ responses # <<>> /\ handshake_complete /\ responses' = Tail(responses)
        /\ write_pipeline' = pipe \o a
        /\ StartIfNeeded(write_pipeline', state, token_requests)
        /\ requests' = requests \o sent
        /\ idleness_timer' =
              IF sent # <<>> THEN FALSE
              ELSE idleness_timer \/ (write_pipeline' = <<>> /\ state = "Open")
        /\ UNCHANGED <<handshake_complete, call_user, ended>>
    BY DEF ReadResult, FillWritePipeline, Refill
  <1>2. write_pipeline # <<>>
    BY <1>1, ResultHasBatch
  <1>3. a \in Seq(Nat) /\ pipe \in Seq(Nat)
    BY <1>2, FilledAfterFirst, BatchesAreNat
  <1> HIDE DEF q, a
  <1>4. state = "Open" /\ sent = a /\ ~idleness_timer
    BY <1>1, <1>2, StreamStates DEF StreamAsNeeded
  <1>5. state' = "Open"
    BY <1>1, <1>4 DEF StartIfNeeded, IsStarted
  <1>6. /\ LedBy(Tail(responses), pipe) /\ Tail(responses) \in Seq(Nat)
    BY <1>1, <1>2, LedByTail, StreamStates
  <1>7. ended = "no" => Tail(responses) \o requests = pipe
    <2>1. Tail(responses \o requests) = Tail(responses) \o requests
      BY <1>1, TailOfConcat, StreamStates
    <2>2. ended = "no" => responses \o requests = write_pipeline
      BY <1>1, StreamStates DEF AnswersInOrder
    <2> QED
      BY <2>1, <2>2
  <1> HIDE DEF pipe
  <1>8. /\ LedBy(responses', write_pipeline') /\ requests' \in Seq(Nat)
        /\ responses' \in Seq(Nat)
        /\ ended = "no" => responses' \o requests' = write_pipeline'
    <2> DEFINE r == Tail(responses)
    <2>1. r \in Seq(Nat) /\ LedBy(r, pipe) /\ responses' = r
      BY <1>1, <1>6
    <2> HIDE DEF r
    <2>2. /\ LedBy(r, pipe \o a) /\ requests \o a \in Seq(Nat)
          /\ r \o requests = pipe => r \o (requests \o a) = pipe \o a
      <3>1. requests \in Seq(Nat)
        BY StreamStates
      <3>2. LedBy(r, pipe \o a)
        BY <1>3, <2>1, LedByConcat
      <3>3. requests \o a \in Seq(Nat)
        BY <1>3, <3>1, LedByConcat
      <3>4. (r \o requests) \o a = r \o (requests \o a)
        BY <1>3, <2>1, <3>1, ConcatAssociative
      <3> QED
        BY <3>2, <3>3, <3>4
    <2>3. ended = "no" => r \o requests = pipe
      BY <1>7 DEF r
    <2>4. requests' = requests \o a /\ write_pipeline' = pipe \o a
      BY <1>1, <1>4
    <2> QED
      BY <2>1, <2>2, <2>3, <2>4
  <1>9. idleness_timer' \in BOOLEAN /\ (idleness_timer' => write_pipeline' = <<>>)
    <2>1. idleness_timer' = IF a # <<>> THEN FALSE ELSE write_pipeline' = <<>>
      BY <1>1, <1>4
    <2> QED
      BY <2>1
  <1> QED
    BY <1>1, <1>5, <1>8, <1>9, StreamStates
    DEF StreamKept, StreamAsNeeded, CallWhenOpen, AnswersInOrder, LedBy, IsStarted

LEMMA StreamNext ==
    ASSUME IInv, [Next]_vars
    PROVE  StreamKept
PROOF
  <1>1. CASE MakeWrite \/ (\E u \in Users : ChangeCredentials(u)) \/ AnswerSomeToken
                \/ IgnoreToken \/ BackoffElapsed \/ UNCHANGED vars
    <2>1. /\ UNCHANGED <<idleness_timer, handshake_complete, callVars, write_pipeline>>
          /\ UNCHANGED state \/ BackoffElapsed
      BY <1>1 DEF MakeWrite, ChangeCredentials, AnswerSomeToken, AnswerToken, IgnoreToken,
                  BackoffElapsed, vars, streamVars
    <2> QED
      BY <2>1, IdleSteps
  <1> QED
    BY <1>1, ClosingSteps, CallOpened, ServedCall, EndedCall, HandshakeRead, WriteSent,
       ResultRead DEF Next, Progress, Task
-------------------------------------------------------------------------------
(* Every step keeps the invariant.                                         *)
LEMMA FaultsNext ==
    ASSUME IInv, [Next]_vars
    PROVE  faults' \in 0 .. MaxFaults
PROOF
  <1>1. faults \in 0 .. MaxFaults /\ MaxFaults \in Nat
    BY WritePathAssumption DEF IInv, TypeOK
  <1>2. CASE Fault
    BY <1>1, <1>2 DEF Fault
  <1>3. CASE UNCHANGED faults
    BY <1>1, <1>3
  <1>4. CASE Break \/ Restart \/ AnswerSomeToken \/ UNCHANGED vars
    BY <1>2, <1>3, <1>4 DEF Break, Restart, AnswerSomeToken, AnswerToken, vars
  <1>5. CASE MakeWrite \/ (\E u \in Users : ChangeCredentials(u)) \/ Task \/ BackoffElapsed
                \/ Serve \/ RefuseBatch
    BY <1>3, <1>5 DEF MakeWrite, ChangeCredentials, Task, WriteMutations,
       HandleCredentialChange, OpenCall, FailToOpen, IgnoreToken, BackoffElapsed, Serve,
       RefuseBatch
  <1>6. CASE ReadHandshake \/ ReadResult \/ FinishCall \/ IdleTimeout \/ FailWrite
    BY <1>3, <1>6 DEF ReadHandshake, ReadResult, FinishCall, IdleTimeout, FailWrite
  <1> QED
    BY <1>4, <1>5, <1>6 DEF Next, Progress

LEMMA Inductive == IInv /\ [Next]_vars => IInv'
PROOF
  <1> SUFFICES ASSUME IInv, [Next]_vars PROVE IInv'
    OBVIOUS
  <1>1. /\ Kept \/ Written \/ Left \/ Renewed
        /\ TokensKept /\ StreamKept /\ faults' \in 0 .. MaxFaults
        /\ IdsBounded' /\ worker_queue' \in Seq(Tasks)
    BY PipelineStep, TokensNext, StreamNext, FaultsNext, IdsBoundedNext
  <1>2. /\ current_user' \in Users /\ mutations' \in [Users -> Seq(BatchIds)]
        /\ next_batch_id' \in BatchIds /\ write_pipeline' \in Seq(BatchIds)
        /\ PipelineIsFront'
    BY <1>1, QueuesTyped
  <1>3. IdsAscend' /\ BatchIdsUnique'
    BY <1>1, IdsNext
  <1>4. OneTokenAwaited'
    BY <1>1, AwaitedIs DEF TokensKept
  <1>5. TypeOK'
    BY <1>1, <1>2 DEF TypeOK, TokensKept, StreamKept, States, Requests, Tasks
  <1> QED
    BY <1>1, <1>2, <1>3, <1>4, <1>5 DEF IInv, Tokens, Queues, TokensKept, StreamKept

LEMMA Initially == Init => IInv
PROOF
  <1> SUFFICES ASSUME Init PROVE IInv
    OBVIOUS
  <1>1. /\ <<>> \in Seq(BatchIds) /\ <<>> \in Seq(Nat) /\ <<>> \in Seq(Tasks)
        /\ Len(<<>>) = 0 /\ DOMAIN <<>> = {}
    BY EmptySeq
  <1>2. TypeOK
    <2>1. [u \in Users |-> <<>>] \in [Users -> Seq(BatchIds)]
      BY <1>1
    <2>2. 0 \in 0 .. MaxFaults /\ 1 \in BatchIds
      BY WritePathAssumption DEF BatchIds
    <2> QED
      BY <1>1, <2>1, <2>2 DEF Init, TypeOK, Tasks
  <1>3. Tokens
    BY <1>1 DEF Init, Tokens, OneTokenAwaited, ResumesOfUser, ChangesCatchUp,
                CountedAreCurrent, CallOfUser
  <1>4. Queues
    BY <1>1 DEF Init, Queues, IdsAscend, IsAscending, BatchIdsUnique, IdsBounded
  <1>5. PipelineIsFront
    <2>1. mutations[current_user] = <<>> /\ write_pipeline = <<>>
      BY DEF Init
    <2>2. Least(0, MaxPendingWrites) = 0
      BY WritePathAssumption DEF Least
    <2>3. SubSeq(<<>>, 1, 0) = <<>>
      BY SubSeqEmpty
    <2> QED
      BY <1>1, <2>1, <2>2, <2>3 DEF PipelineIsFront
  <1>6. StreamAsNeeded /\ CallWhenOpen /\ AnswersInOrder
    BY <1>1 DEF Init, StreamAsNeeded, CallWhenOpen, AnswersInOrder
  <1> QED
    BY <1>2, <1>3, <1>4, <1>5, <1>6 DEF IInv

THEOREM Invariant == Spec => []IInv
PROOF
  BY Initially, Inductive, PTL DEF Spec
-------------------------------------------------------------------------------
(* The promise to the users, step by step.                                 *)
Delivered == IF handshake_complete THEN Len(responses) ELSE 0
Refused   == ended = "refused"

promisedVars == <<mutations, current_user, Delivered, Refused>>

LEMMA LostCall ==
    ASSUME IInv, Hangup, UNCHANGED mutations, current_user' \in Users
    PROVE  Promised!Reconnect
PROOF
  BY DEF Hangup, Promised!Reconnect

LEMMA ReconnectSteps ==
    ASSUME IInv, [Next]_vars,
           \/ HandleCredentialChange \/ FailToOpen \/ IdleTimeout \/ Restart
           \/ FinishCall /\ RetryLater
    PROVE  Promised!Reconnect
PROOF
  <1>1. Hangup /\ UNCHANGED mutations
    BY DEF HandleCredentialChange, FailToOpen, IdleTimeout, Restart, RetryLater, localVars
  <1>2. current_user' \in Users
    BY PipelineStep, QueuesTyped
  <1> QED
    BY <1>1, <1>2, LostCall

LEMMA PutStep ==
    ASSUME IInv, WriteMutations
    PROVE  \E u \in Users, b \in 1 .. (MaxBatchId + MaxTasks) : Promised!Put(u, b)
PROOF
  <1> DEFINE u == current_user
             b == next_batch_id
  <1>1. /\ mutations' = [mutations EXCEPT ![u] = Append(mutations[u], b)]
        /\ UNCHANGED <<current_user, handshake_complete, responses, ended>>
        /\ worker_queue # <<>> /\ Next1.task = "write"
    BY DEF WriteMutations
  <1>2. u \in Users /\ mutations \in [Users -> Seq(BatchIds)] /\ b \in BatchIds
    BY DEF IInv, TypeOK
  <1>3. b \in 1 .. (MaxBatchId + MaxTasks)
    <2>1. b + 1 <= MaxBatchId + MaxTasks
      BY <1>1, RestTyped DEF IInv, Queues, IdsBounded
    <2> QED
      BY <1>2, <2>1, WritePathAssumption DEF BatchIds
  <1>4. \A i \in DOMAIN mutations[u] : mutations[u][i] # b
    <2>1. \A i \in DOMAIN mutations[u] : mutations[u][i] \in Nat /\ mutations[u][i] < b
      <3>1. mutations[u] \in Seq(BatchIds)
        BY <1>2
      <3>2. \A i \in DOMAIN mutations[u] : mutations[u][i] \in BatchIds
        BY <3>1, ElementOfSeq, LenProperties
      <3> QED
        BY <1>2, <3>2 DEF IInv, Queues, IdsAscend, BatchIds
    <2> QED
      BY <1>2, <2>1 DEF BatchIds
  <1>5. mutations' = [mutations EXCEPT ![u] = Append(@, b)]
    BY <1>1
  <1>6. Promised!Put(u, b)
    BY <1>1, <1>4, <1>5 DEF Promised!Put
  <1> QED
    BY <1>2, <1>3, <1>6

(* The server sees no more than what is pending.                           *)
LEMMA Undelivered ==
    ASSUME IInv, handshake_complete, ended = "no", requests # <<>>
    PROVE  Len(responses) < Len(mutations[current_user])
PROOF
  <1> DEFINE q == mutations[current_user]
  <1>1. /\ q \in Seq(BatchIds) /\ write_pipeline = Front(q)
    BY PipelineIs
  <1> HIDE DEF q
  <1>2. /\ Len(write_pipeline) = Least(Len(q), MaxPendingWrites)
        /\ Least(Len(q), MaxPendingWrites) <= Len(q)
        /\ Least(Len(q), MaxPendingWrites) \in Nat /\ Len(q) \in Nat
    BY <1>1, FrontSize, FrontCut, LenProperties DEF Front
  <1>3. /\ responses \in Seq(Nat) /\ requests \in Seq(Nat)
        /\ responses \o requests = write_pipeline
    BY StreamStates DEF AnswersInOrder
  <1>4. /\ Len(responses \o requests) = Len(responses) + Len(requests)
        /\ Len(responses) \in Nat /\ Len(requests) \in Nat /\ Len(requests) # 0
    BY <1>3, ConcatProperties, LenProperties, EmptySeq
  <1>5. Len(responses) < Len(q)
    BY <1>2, <1>3, <1>4
  <1> QED
    BY <1>5 DEF q

LEMMA ServerSteps ==
    ASSUME IInv, Serve \/ RefuseBatch \/ FailWrite \/ Break
    PROVE  \/ Promised!Deliver \/ Promised!Refuse \/ Promised!Forget
           \/ UNCHANGED promisedVars
PROOF
  <1>1. Len(responses) \in Nat /\ responses \in Seq(Nat) /\ requests \in Seq(Nat)
    BY StreamStates, LenProperties
  <1>2. CASE Serve
    <2>1. /\ ended = "no" /\ requests # <<>> /\ responses' = Append(responses, Head(requests))
          /\ UNCHANGED <<mutations, current_user, handshake_complete, ended>>
      BY <1>2 DEF Serve, localVars, streamVars
    <2>2. CASE handshake_complete
      <3>1. Len(responses') = Len(responses) + 1
        BY <1>1, <2>1, HeadTailProperties, AppendProperties
      <3>2. Len(responses) < Len(mutations[current_user])
        BY <2>1, <2>2, Undelivered
      <3> QED
        BY <2>1, <2>2, <3>1, <3>2 DEF Promised!Deliver
    <2>3. CASE ~handshake_complete
      BY <2>1, <2>3 DEF promisedVars, Delivered, Refused
    <2> QED
      BY <2>2, <2>3
  <1>3. CASE RefuseBatch
    <2>1. /\ ended = "no" /\ requests # <<>> /\ Head(requests) # Handshake
          /\ ended' = "refused"
          /\ UNCHANGED <<mutations, current_user, handshake_complete, responses>>
      BY <1>3 DEF RefuseBatch, localVars, streamVars
    <2>2. handshake_complete
      BY <2>1, StreamStates, BeforeHandshake
    <2>3. Len(responses) < Len(mutations[current_user])
      BY <2>1, <2>2, Undelivered
    <2> QED
      BY <2>1, <2>2, <2>3 DEF Promised!Refuse
  <1>4. ASSUME NEW n \in 0 .. Len(responses), responses' = SubSeq(responses, 1, n),
               (ended' = "refused") = (ended = "refused"),
               UNCHANGED <<mutations, current_user, handshake_complete>>
        PROVE  Promised!Forget
    <2>1. Len(responses') = n
      BY <1>1, <1>4, LedByCut
    <2> QED
      BY <1>1, <1>4, <2>1 DEF Promised!Forget
  <1>5. CASE FailWrite
    <2> DEFINE n == Least(1, Len(responses))
    <2>1. /\ responses' = SubSeq(responses, 1, n)
          /\ UNCHANGED <<mutations, current_user, handshake_complete, ended>>
      BY <1>5 DEF FailWrite, localVars, streamVars
    <2>2. n \in 0 .. Len(responses)
      BY <1>1 DEF Least
    <2> HIDE DEF n
    <2> QED
      BY <1>4, <2>1, <2>2
  <1>6. CASE Break
    <2>1. /\ \E n \in 0 .. Len(responses) : responses' = SubSeq(responses, 1, n)
          /\ ended = "no" /\ ended' = "broken"
          /\ UNCHANGED <<mutations, current_user, handshake_complete>>
      BY <1>6 DEF Break, localVars, streamVars
    <2> QED
      BY <1>4, <2>1
  <1> QED
    BY <1>2, <1>3, <1>5, <1>6

(* The first batch leaves: settled, or given up.                           *)
LEMMA LeavingSteps ==
    ASSUME IInv, ReadResult \/ (FinishCall /\ ~RetryLater)
    PROVE  Promised!Settle \/ Promised!Drop
PROOF
  <1> DEFINE c == current_user
             q == mutations[c]
             b == Head(write_pipeline)
  <1>1. ASSUME write_pipeline # <<>>,
               mutations' = [mutations EXCEPT ![c] = RemoveMutationBatch(q, b)]
        PROVE  mutations' = [mutations EXCEPT ![c] = Tail(@)] /\ q # <<>>
    BY <1>1, FilledAfterFirst
  <1>2. CASE ReadResult
    <2>1. /\ responses # <<>> /\ handshake_complete /\ responses' = Tail(responses)
          /\ mutations' = [mutations EXCEPT ![c] = RemoveMutationBatch(q, b)]
          /\ UNCHANGED <<current_user, handshake_complete, ended>>
      BY <1>2 DEF ReadResult
    <2>2. mutations' = [mutations EXCEPT ![c] = Tail(@)]
      BY <1>1, <2>1, ResultHasBatch
    <2>3. Len(responses) > 0 /\ Len(responses') = Len(responses) - 1
      BY <2>1, StreamStates, Taken
    <2> QED
      BY <2>1, <2>2, <2>3 DEF Promised!Settle
  <1>3. CASE FinishCall /\ ~RetryLater
    <2>1. /\ write_pipeline # <<>> /\ ended = "refused" /\ Hangup
          /\ mutations' = [mutations EXCEPT ![c] = RemoveMutationBatch(q, b)]
          /\ UNCHANGED current_user
      BY <1>3 DEF FinishCall, GiveUpFirst, IsPermanentWriteError
    <2>2. mutations' = [mutations EXCEPT ![c] = Tail(@)] /\ q # <<>>
      BY <1>1, <2>1
    <2> QED
      BY <2>1, <2>2 DEF Hangup, Promised!Drop
  <1> QED
    BY <1>2, <1>3

LEMMA PromisedStep ==
    ASSUME IInv, [Next]_vars
    PROVE  Promised!Next \/ UNCHANGED promisedVars
PROOF
  <1>1. CASE MakeWrite \/ (\E u \in Users : ChangeCredentials(u)) \/ AnswerSomeToken
                \/ IgnoreToken \/ BackoffElapsed \/ OpenCall \/ UNCHANGED vars
    <2>1. UNCHANGED <<mutations, current_user, handshake_complete, responses, ended>>
      BY <1>1 DEF MakeWrite, ChangeCredentials, AnswerSomeToken, AnswerToken, IgnoreToken,
                  BackoffElapsed, OpenCall, vars, localVars, streamVars, callVars
    <2> QED
      BY <2>1 DEF promisedVars, Delivered, Refused
  <1>2. CASE ReadHandshake
    <2>1. /\ responses # <<>> /\ ~handshake_complete /\ handshake_complete' = TRUE
          /\ responses' = Tail(responses)
          /\ UNCHANGED <<mutations, current_user, ended>>
      BY <1>2 DEF ReadHandshake, localVars
    <2>2. state = "Open" /\ responses = <<Handshake>>
      BY <2>1, StreamStates DEF CallWhenOpen
    <2>3. Len(responses') = 0
      BY <2>1, <2>2, BeforeHandshake, EmptySeq
    <2> QED
      BY <2>1, <2>3 DEF promisedVars, Delivered, Refused
  <1> QED
    BY <1>1, <1>2, ReconnectSteps, PutStep, ServerSteps, LeavingSteps
    DEF Next, Progress, Task, Promised!Next
-------------------------------------------------------------------------------
(* Whoever signs in and out and whatever breaks, the client's writes, the  *)
(* stream and its call are of their types.                                 *)
THEOREM WritePathTypeCorrect == Spec => []TypeOK
PROOF
  BY Invariant, PTL DEF IInv

(* The write pipeline is always the front of the signed-in user's mutation *)
(* queue: FillWritePipeline neither skips nor repeats a batch, whatever    *)
(* left, was refused or changed hands (remote_store.cc).                   *)
THEOREM PipelineIsAlwaysFront == Spec => []PipelineIsFront
PROOF
  BY Invariant, PTL DEF IInv

(* A pipeline with batches always has a write stream started or starting,  *)
(* and the idleness timer runs only on an open stream with none to send    *)
(* (OnWriteStreamClose, FillWritePipeline, MarkIdle).                      *)
THEOREM WriteStreamIsAsNeeded == Spec => []StreamAsNeeded
PROOF
  BY Invariant, PTL DEF IInv

(* A starting stream awaits one token and one resumption, and no other can *)
(* still run: close_count_ discards those from before (Stream).            *)
THEOREM TokensDoNotCross == Spec => []OneTokenAwaited
PROOF
  BY Invariant, PTL DEF IInv, Tokens

(* The call that carries a user's writes was made with that user's token,  *)
(* for the worker queue hears of a change of users before any token that   *)
(* was asked for after it (HandleCredentialChange, token_counter).         *)
THEOREM CallsAreOfTheirUser == Spec => []CallOfUser
PROOF
  BY Invariant, PTL DEF IInv, Tokens

(* The n-th response on a call is to the n-th batch of the pipeline: taking*)
(* it to be the first's, as OnWriteStreamMutationResult does, is right.    *)
THEOREM ResponsesFollowPipeline == Spec => []AnswersInOrder
PROOF
  BY Invariant, PTL DEF IInv

(* Batch ids are never used twice among pending batches, of any users,     *)
(* though each restart and change of users starts from what is pending.    *)
THEOREM PendingIdsDiffer == Spec => []BatchIdsUnique
PROOF
  BY Invariant, PTL DEF IInv, Queues

(* A pending write of the signed-in user waits for a token, the end of a   *)
(* backoff, or something on the open call, after any failure, refusal,     *)
(* change of users or restart: Start, Hangup and FillWritePipeline leave   *)
(* none behind. All it rests on is that the pipeline has the queue's front,*)
(* that a stream with a pipeline is started, and that what is open has sent*)
(* the pipeline or its handshake.                                          *)
THEOREM NoWriteIsStranded == Spec => []NoWriteStranded
PROOF
  <1>1. IInv => NoWriteStranded
    <2> SUFFICES ASSUME IInv, mutations[current_user] # <<>>
                 PROVE  \/ \E r \in token_requests : r.fresh
                        \/ \E i \in DOMAIN worker_queue : worker_queue[i].fresh
                        \/ state = "Backoff"
                        \/ /\ state = "Open"
                           /\ requests # <<>> \/ responses # <<>> \/ ended # "no"
      BY DEF NoWriteStranded
    <2> DEFINE q == mutations[current_user]
               k == Least(Len(q), MaxPendingWrites)
    <2>1. q \in Seq(BatchIds)
      BY DEF IInv, TypeOK
    <2>2. write_pipeline = SubSeq(q, 1, k)
      BY DEF IInv, PipelineIsFront
    <2>3. k \in Nat /\ k <= Len(q) /\ k > 0
      BY <2>1, FrontSize
    <2>4. write_pipeline \in Seq(BatchIds) /\ Len(write_pipeline) > 0
      BY <2>1, <2>2, <2>3, FrontCut
    <2>5. write_pipeline # <<>>
      BY <2>4, EmptySeq
    <2>6. state \in {"Starting", "Open", "Backoff"}
      BY <2>5 DEF IInv, StreamAsNeeded, IsStarted
    <2>7. CASE state = "Starting"
      BY <2>7 DEF IInv, Tokens, OneTokenAwaited
    <2>8. CASE state = "Open"
      <3>1. (requests = <<>> /\ responses = <<>>) => responses \o requests = <<>>
        BY EmptySeq
      <3>2. ended = "no" => responses \o requests \in {write_pipeline, <<Handshake>>}
        BY <2>8 DEF IInv, CallWhenOpen, AnswersInOrder, TypeOK
      <3> QED
        BY <2>5, <2>8, <3>1, <3>2
    <2> QED
      BY <2>6, <2>7, <2>8
  <1> QED
    BY <1>1, Invariant, PTL

(* The client keeps the promise of Outbox: writes are delivered in order,  *)
(* at least once, and leave their queue from its front only.               *)
THEOREM WritesImplementOutbox == Spec => Implements
PROOF
  <1>1. Init => Promised!Init
    BY DEF Init, Promised!Init
  <1>2. IInv /\ [Next]_vars => [Promised!Next]_(Promised!outboxVars)
    <2> SUFFICES ASSUME IInv, [Next]_vars
                 PROVE  Promised!Next \/ UNCHANGED Promised!outboxVars
      OBVIOUS
    <2>1. UNCHANGED promisedVars => UNCHANGED Promised!outboxVars
      BY DEF promisedVars, Promised!outboxVars, Delivered, Refused
    <2> QED
      BY <2>1, PromisedStep
  <1> QED
    BY <1>1, <1>2, Invariant, PTL DEF Spec, Implements, Promised!Spec
-------------------------------------------------------------------------------
(* Every write on the worker queue is of the user who will be current when *)
(* it runs: that of the last change before it, or the one current now.     *)
NoChangeBefore(i) == \A j \in DOMAIN worker_queue : j < i => ~IsChange(j)

LastChangeBefore(i, j) ==
    /\ j < i /\ IsChange(j)
    /\ \A k \in DOMAIN worker_queue : j < k /\ k < i => ~IsChange(k)

WritesOfMakers ==
    \A i \in DOMAIN worker_queue : worker_queue[i].task = "write" =>
        /\ NoChangeBefore(i) => worker_queue[i].user = current_user
        /\ \A j \in DOMAIN worker_queue :
              LastChangeBefore(i, j) => worker_queue[i].user = worker_queue[j].user

(* What a step does to the worker queue and to who is current.             *)
LEMMA MakersStep ==
    ASSUME IInv, [Next]_vars
    PROVE  \/ Alike(worker_queue', worker_queue) /\ UNCHANGED current_user
           \/ TakesOne /\ current_user' = IF Next1.task = "change" THEN Next1.user
                                                                   ELSE current_user
           \/ /\ UNCHANGED current_user
              /\ \E t \in Tasks : PutsOne(t) /\ (t.task = "write" => t.user = auth_user)
           \/ worker_queue' = <<>>
PROOF
  <1>1. CASE IdleTimeout \/ FinishCall \/ BackoffElapsed \/ Serve \/ RefuseBatch
                \/ ReadHandshake \/ ReadResult \/ FailWrite \/ Break \/ UNCHANGED vars
    <2>1. \/ UNCHANGED worker_queue
          \/ worker_queue' = StaleTasks(worker_queue)
      BY <1>1 DEF IdleTimeout, FinishCall, BackoffElapsed, Serve, RefuseBatch,
                  ReadHandshake, ReadResult, FailWrite, Break, vars
    <2>2. UNCHANGED current_user
      BY <1>1 DEF IdleTimeout, FinishCall, GiveUpFirst, RetryLater, BackoffElapsed, Serve,
                  RefuseBatch, ReadHandshake, ReadResult, FailWrite, Break, localVars, vars
    <2> QED
      BY <2>1, <2>2, QueueTyped
  <1>2. CASE MakeWrite
    <2>1. WriteTask(auth_user) \in Tasks /\ WriteTask(auth_user).user = auth_user
      BY TaskTypes DEF IInv, TypeOK, WriteTask
    <2> QED
      BY <1>2, <2>1 DEF MakeWrite, Room, PutsOne, Enqueue, localVars
  <1>3. ASSUME NEW u \in Users, ChangeCredentials(u)
        PROVE  UNCHANGED current_user /\ \E t \in Tasks : PutsOne(t) /\ t.task # "write"
    <2>1. ChangeTask(u) \in Tasks /\ ChangeTask(u).task # "write"
      BY TaskTypes DEF ChangeTask
    <2> QED
      BY <1>3, <2>1 DEF ChangeCredentials, Room, PutsOne, Enqueue, localVars
  <1>4. ASSUME NEW r \in token_requests, NEW t \in Users \cup {Failed}, AnswerToken(r, t)
        PROVE  UNCHANGED current_user /\ \E x \in Tasks : PutsOne(x) /\ x.task # "write"
    <2>1. r.fresh \in BOOLEAN
      BY QueueTyped DEF Requests
    <2>2. ResumeTask(t, r.fresh) \in Tasks /\ ResumeTask(t, r.fresh).task # "write"
      BY <2>1, TaskTypes DEF ResumeTask
    <2> QED
      BY <1>4, <2>2 DEF AnswerToken, Room, PutsOne, Enqueue, localVars
  <1>5. CASE Task
    <2>1. /\ worker_queue # <<>>
          /\ \/ worker_queue' = Tail(worker_queue)
             \/ worker_queue' = StaleTasks(Tail(worker_queue))
      BY <1>5 DEF Task, WriteMutations, HandleCredentialChange, OpenCall, FailToOpen,
                  IgnoreToken
    <2>2. TakesOne
      BY <2>1, RestTyped DEF TakesOne
    <2>3. current_user' = IF Next1.task = "change" THEN Next1.user ELSE current_user
      BY <1>5 DEF Task, WriteMutations, HandleCredentialChange, OpenCall, FailToOpen,
                  IgnoreToken, localVars
    <2> QED
      BY <2>2, <2>3
  <1>6. CASE Restart
    BY <1>6 DEF Restart
  <1> QED
    BY <1>1, <1>2, <1>3, <1>4, <1>5, <1>6 DEF Next, Progress, AnswerSomeToken

LEMMA MakersNext ==
    ASSUME IInv, WritesOfMakers, [Next]_vars
    PROVE  WritesOfMakers'
PROOF
  <1> DEFINE n == Len(worker_queue)
  <1>0. /\ n \in Nat /\ DOMAIN worker_queue = 1 .. n /\ worker_queue \in Seq(Tasks)
        /\ ChangesCatchUp
    BY QueueTyped DEF IInv, Tokens
  <1>1. CASE Alike(worker_queue', worker_queue) /\ UNCHANGED current_user
    BY <1>1 DEF Alike, WritesOfMakers, NoChangeBefore, LastChangeBefore, IsChange
  <1>2. CASE TakesOne /\ current_user' = IF Next1.task = "change" THEN Next1.user
                                                                  ELSE current_user
    <2>1. /\ DOMAIN worker_queue' = 1 .. (n - 1)
          /\ \A i \in 1 .. (n - 1) :
                /\ worker_queue'[i].task = worker_queue[i + 1].task
                /\ worker_queue'[i].user = worker_queue[i + 1].user
          /\ n > 0 /\ Next1 = worker_queue[1]
      BY <1>2, RestTyped DEF TakesOne, Alike
    <2> HIDE DEF n
    <2>2. \A i \in 1 .. (n - 1) : i + 1 \in 1 .. n /\ IsChange(i)' = IsChange(i + 1)
      BY <1>0, <2>1 DEF IsChange
    <2>3. \A k \in 2 .. n : k - 1 \in 1 .. (n - 1) /\ (k - 1) + 1 = k
      BY <1>0
    <2> SUFFICES ASSUME NEW i \in 1 .. (n - 1), worker_queue'[i].task = "write"
                 PROVE  /\ NoChangeBefore(i)' => worker_queue'[i].user = current_user'
                        /\ \A j \in 1 .. (n - 1) : LastChangeBefore(i, j)' =>
                              worker_queue'[i].user = worker_queue'[j].user
      BY <2>1 DEF WritesOfMakers
    <2>4. i + 1 \in 1 .. n /\ worker_queue[i + 1].task = "write"
      BY <2>1, <2>2
    <2>5. ASSUME NoChangeBefore(i)'
          PROVE  worker_queue'[i].user = current_user'
      <3>1. \A k \in 2 .. n : k < i + 1 => ~IsChange(k)
        <4> SUFFICES ASSUME NEW k \in 2 .. n, k < i + 1 PROVE ~IsChange(k)
          OBVIOUS
        <4>1. k - 1 \in 1 .. (n - 1) /\ k - 1 < i /\ (k - 1) + 1 = k
          BY <2>3
        <4>2. ~IsChange(k - 1)'
          BY <2>1, <2>5, <4>1 DEF NoChangeBefore
        <4> QED
          BY <2>2, <4>1, <4>2
      <3>2. CASE Next1.task = "change"
        <4>1. LastChangeBefore(i + 1, 1)
          BY <1>0, <2>1, <3>1, <3>2 DEF LastChangeBefore, IsChange
        <4>2. worker_queue[i + 1].user = worker_queue[1].user
          BY <1>0, <2>1, <2>4, <4>1 DEF WritesOfMakers
        <4> QED
          BY <1>2, <2>1, <3>2, <4>2
      <3>3. CASE Next1.task # "change"
        <4>1. NoChangeBefore(i + 1)
          BY <1>0, <2>1, <3>1, <3>3 DEF NoChangeBefore, IsChange
        <4>2. worker_queue[i + 1].user = current_user
          BY <1>0, <2>4, <4>1 DEF WritesOfMakers
        <4> QED
          BY <1>2, <2>1, <3>3, <4>2
      <3> QED
        BY <3>2, <3>3
    <2>6. ASSUME NEW j \in 1 .. (n - 1), LastChangeBefore(i, j)'
          PROVE  worker_queue'[i].user = worker_queue'[j].user
      <3>1. j < i /\ IsChange(j)'
            /\ \A k \in 1 .. (n - 1) : j < k /\ k < i => ~IsChange(k)'
        BY <2>1, <2>6 DEF LastChangeBefore
      <3>2. \A k \in 1 .. n : j + 1 < k /\ k < i + 1 => ~IsChange(k)
        <4> SUFFICES ASSUME NEW k \in 1 .. n, j + 1 < k, k < i + 1 PROVE ~IsChange(k)
          OBVIOUS
        <4>1. k \in 2 .. n
          BY <1>0
        <4>2. k - 1 \in 1 .. (n - 1) /\ j < k - 1 /\ k - 1 < i /\ (k - 1) + 1 = k
          BY <2>3, <4>1
        <4> QED
          BY <2>2, <3>1, <4>2
      <3>3. LastChangeBefore(i + 1, j + 1)
        BY <1>0, <2>2, <3>1, <3>2 DEF LastChangeBefore
      <3>4. j + 1 \in 1 .. n
        BY <2>2
      <3>5. worker_queue[i + 1].user = worker_queue[j + 1].user
        BY <1>0, <2>4, <3>3, <3>4 DEF WritesOfMakers
      <3> QED
        BY <2>1, <3>5
    <2> QED
      BY <2>5, <2>6
  <1>3. ASSUME UNCHANGED current_user, NEW t \in Tasks, PutsOne(t),
               t.task = "write" => t.user = auth_user
        PROVE  WritesOfMakers'
    <2>1. /\ DOMAIN worker_queue' = 1 .. (n + 1)
          /\ \A i \in 1 .. n : worker_queue'[i] = worker_queue[i]
          /\ worker_queue'[n + 1] = t
      BY <1>0, <1>3, Appended DEF PutsOne
    <2> HIDE DEF n
    <2>2. \A i \in 1 .. n : i \in 1 .. (n + 1) /\ IsChange(i)' = IsChange(i)
      BY <1>0, <2>1 DEF IsChange
    <2> SUFFICES ASSUME NEW i \in 1 .. (n + 1), worker_queue'[i].task = "write"
                 PROVE  /\ NoChangeBefore(i)' => worker_queue'[i].user = current_user'
                        /\ \A j \in 1 .. (n + 1) : LastChangeBefore(i, j)' =>
                              worker_queue'[i].user = worker_queue'[j].user
      BY <2>1 DEF WritesOfMakers
    <2>3. NoChangeBefore(i)' => \A j \in 1 .. n : j < i => ~IsChange(j)
      BY <2>1, <2>2 DEF NoChangeBefore
    <2>4. \A j \in 1 .. (n + 1) : LastChangeBefore(i, j)' =>
             /\ j \in 1 .. n /\ j < i /\ IsChange(j)
             /\ \A k \in 1 .. n : j < k /\ k < i => ~IsChange(k)
      <3> SUFFICES ASSUME NEW j \in 1 .. (n + 1), LastChangeBefore(i, j)'
                   PROVE  /\ j \in 1 .. n /\ j < i /\ IsChange(j)
                          /\ \A k \in 1 .. n : j < k /\ k < i => ~IsChange(k)
        OBVIOUS
      <3>1. j < i /\ IsChange(j)'
            /\ \A k \in 1 .. (n + 1) : j < k /\ k < i => ~IsChange(k)'
        BY <2>1 DEF LastChangeBefore
      <3>2. j \in 1 .. n
        BY <1>0, <3>1
      <3> QED
        BY <2>2, <3>1, <3>2
    <2>5. CASE i \in 1 .. n
      <3>1. worker_queue[i].task = "write"
        BY <2>1, <2>5
      <3>2. NoChangeBefore(i)' => NoChangeBefore(i)
        BY <1>0, <2>3 DEF NoChangeBefore
      <3>3. \A j \in 1 .. (n + 1) :
               LastChangeBefore(i, j)' => j \in 1 .. n /\ LastChangeBefore(i, j)
        BY <1>0, <2>4 DEF LastChangeBefore
      <3> QED
        BY <1>0, <1>3, <2>1, <2>5, <3>1, <3>2, <3>3 DEF WritesOfMakers
    <2>6. CASE i = n + 1
      <3>1. worker_queue'[i].user = auth_user
        BY <1>3, <2>1, <2>6
      <3>2. \A j \in 1 .. n : j < i
        BY <1>0, <2>6
      <3>3. NoChangeBefore(i)' => current_user = auth_user
        BY <1>0, <2>3, <3>2 DEF ChangesCatchUp
      <3>4. \A j \in 1 .. (n + 1) : LastChangeBefore(i, j)' =>
               j \in 1 .. n /\ worker_queue[j].user = auth_user
        BY <1>0, <2>4, <3>2 DEF ChangesCatchUp
      <3> QED
        BY <1>3, <2>1, <3>1, <3>3, <3>4
    <2> QED
      BY <1>0, <2>5, <2>6
  <1>4. CASE worker_queue' = <<>>
    BY <1>4, EmptySeq DEF WritesOfMakers
  <1> QED
    BY <1>1, <1>2, <1>3, <1>4, MakersStep

(* The write that runs is of the user who is current.                      *)
LEMMA MakerIsCurrent ==
    ASSUME IInv, WritesOfMakers, WriteMutations
    PROVE  Next1.user = current_user
PROOF
  <1>1. /\ 1 \in DOMAIN worker_queue /\ Next1 = worker_queue[1]
        /\ worker_queue[1].task = "write" /\ DOMAIN worker_queue = 1 .. Len(worker_queue)
        /\ Len(worker_queue) \in Nat
    BY RestTyped, QueueTyped DEF WriteMutations
  <1>2. NoChangeBefore(1)
    BY <1>1 DEF NoChangeBefore
  <1> QED
    BY <1>1, <1>2 DEF WritesOfMakers
-------------------------------------------------------------------------------
(* The batches of a queue, seen as the writes in them.                     *)
LEMMA Mapped ==
    ASSUME NEW S, NEW m \in [Batches -> S], NEW q \in Seq(BatchIds),
           \A i \in DOMAIN q : q[i] \in Batches
    PROVE  LET s == [i \in DOMAIN q |-> m[q[i]]]
           IN  /\ s \in Seq(S) /\ Len(s) = Len(q) /\ Len(q) \in Nat
               /\ DOMAIN s = 1 .. Len(q) /\ DOMAIN q = 1 .. Len(q)
               /\ \A i \in 1 .. Len(q) : s[i] = m[q[i]]
PROOF
  <1> DEFINE s == [i \in DOMAIN q |-> m[q[i]]]
  <1>1. Len(q) \in Nat /\ DOMAIN q = 1 .. Len(q)
    BY LenProperties
  <1>2. s \in [1 .. Len(q) -> S]
    BY <1>1
  <1>3. s \in Seq(S)
    BY <1>1, <1>2
  <1>4. Len(s) = Len(q)
    BY <1>1, <1>2, <1>3, LenProperties
  <1> QED
    BY <1>1, <1>3, <1>4

LEMMA MappedAppend ==
    ASSUME NEW S, NEW m \in [Batches -> S], NEW q \in Seq(BatchIds),
           \A i \in DOMAIN q : q[i] \in Batches,
           NEW b \in Batches, \A i \in DOMAIN q : q[i] # b, NEW w \in S
    PROVE  [i \in DOMAIN Append(q, b) |-> [m EXCEPT ![b] = w][Append(q, b)[i]]]
              = Append([i \in DOMAIN q |-> m[q[i]]], w)
PROOF
  <1> DEFINE s == [i \in DOMAIN q |-> m[q[i]]]
             q2 == Append(q, b)
             m2 == [m EXCEPT ![b] = w]
             s2 == [i \in DOMAIN q2 |-> m2[q2[i]]]
  <1>1. /\ s \in Seq(S) /\ Len(s) = Len(q) /\ Len(q) \in Nat /\ DOMAIN q = 1 .. Len(q)
        /\ \A i \in 1 .. Len(q) : s[i] = m[q[i]]
    BY Mapped
  <1>2. b \in BatchIds
    BY DEF Batches, BatchIds
  <1>3. /\ q2 \in Seq(BatchIds) /\ Len(q2) = Len(q) + 1
        /\ DOMAIN q2 = 1 .. (Len(q) + 1)
        /\ \A i \in 1 .. Len(q) : q2[i] = q[i]
        /\ q2[Len(q) + 1] = b
    BY <1>2, Appended
  <1> HIDE DEF q2
  <1>4. m2 \in [Batches -> S] /\ m2[b] = w /\ \A c \in Batches : c # b => m2[c] = m[c]
    OBVIOUS
  <1> HIDE DEF m2
  <1>5. \A i \in DOMAIN q2 : q2[i] \in Batches
    BY <1>1, <1>3
  <1>6. /\ s2 \in Seq(S) /\ Len(s2) = Len(q) + 1
        /\ \A i \in 1 .. (Len(q) + 1) : s2[i] = m2[q2[i]]
    BY <1>3, <1>4, <1>5, Mapped
  <1> HIDE DEF s, s2
  <1>7. /\ Append(s, w) \in Seq(S) /\ Len(Append(s, w)) = Len(q) + 1
        /\ \A i \in 1 .. Len(q) : Append(s, w)[i] = s[i]
        /\ Append(s, w)[Len(q) + 1] = w
    BY <1>1, Appended
  <1>8. \A i \in 1 .. (Len(q) + 1) : s2[i] = Append(s, w)[i]
    <2> SUFFICES ASSUME NEW i \in 1 .. (Len(q) + 1) PROVE s2[i] = Append(s, w)[i]
      OBVIOUS
    <2>1. CASE i \in 1 .. Len(q)
      BY <1>1, <1>3, <1>4, <1>6, <1>7, <2>1
    <2>2. CASE i = Len(q) + 1
      BY <1>3, <1>4, <1>6, <1>7, <2>2
    <2> QED
      BY <1>1, <2>1, <2>2
  <1>9. s2 = Append(s, w)
    BY <1>6, <1>7, <1>8, SeqEqual
  <1> QED
    BY <1>9 DEF s, s2, q2, m2

LEMMA MappedTail ==
    ASSUME NEW S, NEW m \in [Batches -> S], NEW q \in Seq(BatchIds), q # <<>>,
           \A i \in DOMAIN q : q[i] \in Batches
    PROVE  LET s == [i \in DOMAIN q |-> m[q[i]]]
           IN  [i \in DOMAIN Tail(q) |-> m[Tail(q)[i]]] = Tail(s) /\ s # <<>>
PROOF
  <1> DEFINE s == [i \in DOMAIN q |-> m[q[i]]]
             q2 == Tail(q)
             s2 == [i \in DOMAIN q2 |-> m[q2[i]]]
  <1>1. /\ s \in Seq(S) /\ Len(s) = Len(q) /\ Len(q) \in Nat /\ DOMAIN q = 1 .. Len(q)
        /\ \A i \in 1 .. Len(q) : s[i] = m[q[i]]
    BY Mapped
  <1>2. /\ q2 \in Seq(BatchIds) /\ Len(q2) = Len(q) - 1 /\ Len(q) > 0
        /\ DOMAIN q2 = 1 .. (Len(q) - 1)
        /\ \A i \in 1 .. (Len(q) - 1) : q2[i] = q[i + 1]
    BY Taken
  <1> HIDE DEF q2
  <1>3. \A i \in 1 .. (Len(q) - 1) : i + 1 \in 1 .. Len(q)
    BY <1>1
  <1>4. \A i \in DOMAIN q2 : q2[i] \in Batches
    BY <1>1, <1>2, <1>3
  <1>5. /\ s2 \in Seq(S) /\ Len(s2) = Len(q) - 1
        /\ \A i \in 1 .. (Len(q) - 1) : s2[i] = m[q2[i]]
    BY <1>2, <1>4, Mapped
  <1> HIDE DEF s, s2
  <1>6. s # <<>>
    BY <1>1, <1>2, EmptySeq
  <1>7. /\ Tail(s) \in Seq(S) /\ Len(Tail(s)) = Len(q) - 1
        /\ \A i \in 1 .. (Len(q) - 1) : Tail(s)[i] = s[i + 1]
    BY <1>1, <1>6, Taken
  <1>8. \A i \in 1 .. (Len(q) - 1) : s2[i] = Tail(s)[i]
    BY <1>1, <1>2, <1>3, <1>5, <1>7
  <1>9. s2 = Tail(s)
    BY <1>5, <1>7, <1>8, SeqEqual
  <1> QED
    BY <1>6, <1>9 DEF s, s2, q2

(* What is mapped to the variables of Store.                               *)
Waiting   == [u \in Users |-> [i \in DOMAIN mutations[u] |-> mutation[mutations[u][i]]]]
OnTheWay  == [u \in Users |-> IF u = current_user THEN applied ELSE 0]
RefusedOf == [u \in Users |-> u = current_user /\ ended = "refused"]

(* Every batch that is pending has its write.                              *)
PendingAreBatches ==
    /\ mutation \in [Batches -> Store!Writes \cup {None}]
    /\ \A u \in Users : \A i \in DOMAIN mutations[u] : mutations[u][i] \in Batches

(* What the server applied on a call was answered, unless the call has     *)
(* ended: then answers may be lost.                                        *)
AppliedOnCall ==
    /\ applied \in Nat
    /\ ~handshake_complete => applied = 0
    /\ handshake_complete => Len(responses) <= applied
    /\ handshake_complete /\ ended = "no" => applied = Len(responses)

DInv == IInv /\ WritesOfMakers /\ PendingAreBatches /\ AppliedOnCall

LEMMA WaitingIs ==
    ASSUME IInv, PendingAreBatches
    PROVE  LET q == mutations[current_user]
               s == Waiting[current_user]
           IN  /\ current_user \in Users /\ mutations \in [Users -> Seq(BatchIds)]
               /\ q \in Seq(BatchIds) /\ \A i \in DOMAIN q : q[i] \in Batches
               /\ s = [i \in DOMAIN q |-> mutation[q[i]]]
               /\ Len(s) = Len(q) /\ Len(q) \in Nat
               /\ \A i \in 1 .. Len(q) : s[i] = mutation[q[i]]
PROOF
  <1>1. /\ current_user \in Users /\ mutations \in [Users -> Seq(BatchIds)]
        /\ mutations[current_user] \in Seq(BatchIds)
    BY DEF IInv, TypeOK
  <1> QED
    BY <1>1, Mapped DEF PendingAreBatches, Waiting

(* The request the server is to answer is the first it has not applied.    *)
LEMMA NextRequest ==
    ASSUME IInv, ended = "no", requests # <<>>
    PROVE  /\ ~handshake_complete => Head(requests) = Handshake
           /\ handshake_complete =>
                 /\ Head(requests) \in BatchIds /\ Head(requests) # Handshake
                 /\ Len(responses) < Len(mutations[current_user])
                 /\ mutations[current_user][Len(responses) + 1] = Head(requests)
PROOF
  <1>1. state = "Open"
    BY StreamStates DEF CallWhenOpen
  <1>2. CASE ~handshake_complete
    BY <1>1, <1>2, BeforeHandshake
  <1>3. CASE handshake_complete
    <2> DEFINE q == mutations[current_user]
               n == Len(responses) + 1
    <2>1. Len(responses) < Len(q)
      BY <1>3, Undelivered
    <2>2. /\ q \in Seq(BatchIds) /\ write_pipeline = Front(q)
          /\ write_pipeline \in Seq(BatchIds)
      BY PipelineIs
    <2> HIDE DEF q
    <2>3. /\ responses \in Seq(Nat) /\ requests \in Seq(Nat)
          /\ responses \o requests = write_pipeline
      BY <1>3, StreamStates DEF AnswersInOrder
    <2>4. /\ Len(responses) \in Nat /\ Len(requests) \in Nat /\ Len(requests) > 0
          /\ Head(requests) = requests[1]
          /\ Len(write_pipeline) = Len(responses) + Len(requests)
          /\ write_pipeline[n] = requests[1]
      <3>1. /\ Len(responses) \in Nat /\ Len(requests) \in Nat /\ Len(requests) > 0
            /\ Head(requests) = requests[1]
        BY <2>3, Taken, LenProperties
      <3>2. Len(responses \o requests) = Len(responses) + Len(requests)
        BY <2>3, ConcatProperties
      <3>3. (responses \o requests)[n] = requests[n - Len(responses)]
        BY <2>3, <3>1, ConcatProperties
      <3>4. n - Len(responses) = 1
        BY <3>1
      <3> QED
        BY <2>3, <3>1, <3>2, <3>3, <3>4
    <2>5. n \in 1 .. Len(write_pipeline)
      BY <2>4
    <2>6. write_pipeline[n] \in BatchIds
      BY <2>2, <2>5, ElementOfSeq
    <2>7. write_pipeline[n] = q[n]
      <3>1. Least(Len(q), MaxPendingWrites) \in Nat /\ Least(Len(q), MaxPendingWrites) <= Len(q)
        BY <2>2, FrontSize
      <3>2. Len(write_pipeline) = Least(Len(q), MaxPendingWrites)
        BY <2>2, <3>1, FrontCut DEF Front
      <3> QED
        BY <2>2, <2>5, <3>1, <3>2, FrontCut DEF Front
    <2> QED
      BY <1>3, <2>1, <2>4, <2>6, <2>7 DEF q, BatchIds, Handshake
  <1> QED
    BY <1>2, <1>3

(* A write of the app gets a new batch at the end of its maker's queue.    *)
LEMMA PersistStep ==
    ASSUME DInv, NEW w \in Store!Writes, Persist(w)
    PROVE  /\ Store!Enqueue(Next1.user, w)
           /\ PendingAreBatches' /\ AppliedOnCall'
PROOF
  <1> DEFINE c == current_user
             b == next_batch_id
             S == Store!Writes \cup {None}
  <1>1. /\ mutations' = [mutations EXCEPT ![c] = Append(mutations[c], b)]
        /\ UNCHANGED <<current_user, handshake_complete, responses, ended>>
    BY DEF Persist, WriteMutations
  <1>2. /\ c \in Users /\ mutations \in [Users -> Seq(BatchIds)]
        /\ mutation \in [Batches -> S]
        /\ \A u \in Users : \A i \in DOMAIN mutations[u] : mutations[u][i] \in Batches
    BY WaitingIs DEF DInv, PendingAreBatches
  <1>3. b \in Batches
    <2>1. b + 1 <= MaxBatchId + MaxTasks
      BY RestTyped DEF DInv, IInv, Queues, IdsBounded, Persist, WriteMutations
    <2> QED
      BY <2>1, WritePathAssumption DEF Batches, DInv, IInv, TypeOK, BatchIds
  <1>4. \A u \in Users : \A i \in DOMAIN mutations[u] : mutations[u][i] # b
    <2> SUFFICES ASSUME NEW u \in Users, NEW i \in DOMAIN mutations[u], mutations[u][i] = b
                 PROVE  FALSE
      OBVIOUS
    <2>1. b < b
      BY DEF DInv, IInv, Queues, IdsAscend
    <2> QED
      BY <1>3, <2>1 DEF Batches
  <1>5. mutation' = [mutation EXCEPT ![b] = w]
    BY DEF Persist
  <1>6. ASSUME NEW u \in Users, u # c
        PROVE  mutations'[u] = mutations[u] /\ Waiting'[u] = Waiting[u]
    <2>1. mutations'[u] = mutations[u]
      BY <1>1, <1>2, <1>6
    <2>2. \A i \in DOMAIN mutations[u] : mutation'[mutations[u][i]] = mutation[mutations[u][i]]
      BY <1>2, <1>4, <1>5
    <2> QED
      BY <2>1, <2>2 DEF Waiting
  <1>7. mutations'[c] = Append(mutations[c], b)
    BY <1>1, <1>2
  <1>8. Waiting'[c] = Append(Waiting[c], w)
    <2>1. /\ Waiting[c] = [i \in DOMAIN mutations[c] |-> mutation[mutations[c][i]]]
          /\ Waiting'[c] = [i \in DOMAIN mutations'[c] |-> mutation'[mutations'[c][i]]]
      BY <1>2 DEF Waiting
    <2> QED
      BY <1>2, <1>3, <1>4, <1>5, <1>7, <2>1, MappedAppend
  <1>9. Waiting' = [Waiting EXCEPT ![c] = Append(@, w)]
    BY <1>2, <1>6, <1>8 DEF Waiting
  <1>10. OnTheWay' = OnTheWay /\ RefusedOf' = RefusedOf
    BY <1>1 DEF Persist, OnTheWay, RefusedOf
  <1>11. Next1.user = c
    BY MakerIsCurrent DEF DInv, Persist
  <1>12. Store!Enqueue(Next1.user, w)
    BY <1>9, <1>10, <1>11 DEF Store!Enqueue, Waiting, OnTheWay, RefusedOf, Persist
  <1>13. PendingAreBatches'
    <2>1. mutation' \in [Batches -> S]
      BY <1>2, <1>5
    <2>2. ASSUME NEW i \in DOMAIN mutations'[c]
          PROVE  mutations'[c][i] \in Batches
      <3>1. /\ DOMAIN mutations'[c] = 1 .. (Len(mutations[c]) + 1)
            /\ DOMAIN mutations[c] = 1 .. Len(mutations[c]) /\ Len(mutations[c]) \in Nat
            /\ \A j \in 1 .. Len(mutations[c]) : mutations'[c][j] = mutations[c][j]
            /\ mutations'[c][Len(mutations[c]) + 1] = b
        BY <1>2, <1>3, <1>7, Appended DEF Batches, BatchIds
      <3>2. i \in 1 .. Len(mutations[c]) \/ i = Len(mutations[c]) + 1
        BY <2>2, <3>1
      <3> QED
        BY <1>2, <1>3, <3>1, <3>2
    <2> QED
      BY <1>2, <1>6, <2>1, <2>2 DEF PendingAreBatches
  <1>14. AppliedOnCall'
    BY <1>1 DEF Persist, DInv, AppliedOnCall
  <1> QED
    BY <1>12, <1>13, <1>14

(* What the user of the device looks like to Store.                        *)
LEMMA Seen ==
    ASSUME DInv, NEW u \in Users, u = current_user
    PROVE  /\ OnTheWay[u] = applied /\ RefusedOf[u] = (ended = "refused")
           /\ Len(Waiting[u]) = Len(mutations[u]) /\ Len(mutations[u]) \in Nat
           /\ \A i \in 1 .. Len(mutations[u]) : Waiting[u][i] = mutation[mutations[u][i]]
PROOF
  BY WaitingIs DEF DInv, OnTheWay, RefusedOf

LEMMA NothingNew ==
    ASSUME DInv, UNCHANGED <<mutations, mutation>>
    PROVE  PendingAreBatches' /\ UNCHANGED Waiting
PROOF
  BY DEF DInv, PendingAreBatches, Waiting

(* The oldest batch of the current user leaves.                            *)
LEMMA FirstLeaves ==
    ASSUME DInv, NEW u \in Users, u = current_user, mutations[u] # <<>>,
           mutations' = [mutations EXCEPT ![u] = Tail(@)], UNCHANGED mutation
    PROVE  /\ PendingAreBatches'
           /\ Waiting[u] # <<>> /\ Waiting' = [Waiting EXCEPT ![u] = Tail(@)]
PROOF
  <1> DEFINE q == mutations[u]
             S == Store!Writes \cup {None}
  <1>1. /\ mutations \in [Users -> Seq(BatchIds)] /\ q \in Seq(BatchIds)
        /\ mutation \in [Batches -> S]
        /\ \A v \in Users : \A i \in DOMAIN mutations[v] : mutations[v][i] \in Batches
    BY WaitingIs DEF DInv, PendingAreBatches
  <1>2. mutations'[u] = Tail(q) /\ \A v \in Users : v # u => mutations'[v] = mutations[v]
    BY <1>1
  <1>3. /\ Waiting[u] = [i \in DOMAIN q |-> mutation[q[i]]]
        /\ Waiting'[u] = [i \in DOMAIN Tail(q) |-> mutation[Tail(q)[i]]]
    <2>1. Waiting'[u] = [i \in DOMAIN mutations'[u] |-> mutation'[mutations'[u][i]]]
      BY DEF Waiting
    <2>2. mutation' = mutation
      OBVIOUS
    <2>3. Waiting'[u] = [i \in DOMAIN Tail(q) |-> mutation[Tail(q)[i]]]
      BY <1>2, <2>1, <2>2
    <2> QED
      BY <2>3 DEF Waiting
  <1>4. Waiting'[u] = Tail(Waiting[u]) /\ Waiting[u] # <<>>
    BY <1>1, <1>3, MappedTail
  <1>5. \A v \in Users : v # u => Waiting'[v] = Waiting[v]
    BY <1>2 DEF Waiting
  <1>6. Waiting' = [Waiting EXCEPT ![u] = Tail(@)]
    <2>1. /\ Waiting = [v \in Users |-> Waiting[v]]
          /\ Waiting' = [v \in Users |-> Waiting'[v]]
      BY DEF Waiting
    <2> QED
      BY <1>4, <1>5, <2>1
  <1>7. \A i \in DOMAIN Tail(q) : Tail(q)[i] \in Batches
    <2>1. /\ DOMAIN Tail(q) = 1 .. (Len(q) - 1) /\ DOMAIN q = 1 .. Len(q) /\ Len(q) \in Nat
          /\ \A i \in 1 .. (Len(q) - 1) : Tail(q)[i] = q[i + 1]
      BY <1>1, Taken
    <2>2. \A i \in 1 .. (Len(q) - 1) : i + 1 \in 1 .. Len(q)
      BY <2>1
    <2> QED
      BY <1>1, <2>1, <2>2
  <1>8. PendingAreBatches'
    BY <1>1, <1>2, <1>7 DEF PendingAreBatches
  <1> QED
    BY <1>4, <1>6, <1>8

(* The server applies the next write of the current user, or refuses it.   *)
LEMMA ServerAnswers ==
    ASSUME DInv, NEW u \in Users, u = current_user, Apply \/ TurnDown
    PROVE  /\ Store!Deliver(u) \/ Store!Refuse(u)
           /\ PendingAreBatches' /\ AppliedOnCall'
PROOF
  <1>1. /\ ended = "no" /\ requests # <<>> /\ Head(requests) # Handshake
        /\ UNCHANGED <<mutations, mutation, current_user, handshake_complete, versions>>
    BY DEF Apply, TurnDown, Serve, RefuseBatch, localVars, streamVars
  <1>2. Len(responses) \in Nat /\ responses \in Seq(Nat) /\ requests \in Seq(Nat)
        /\ handshake_complete \in BOOLEAN
    BY StreamStates, LenProperties DEF DInv
  <1>3. /\ handshake_complete /\ Len(responses) < Len(mutations[u])
        /\ mutations[u][Len(responses) + 1] = Head(requests)
        /\ applied = Len(responses)
    BY <1>1, <1>2, NextRequest DEF DInv, AppliedOnCall
  <1>4. /\ ~RefusedOf[u] /\ OnTheWay[u] < Len(Waiting[u])
        /\ Waiting[u][OnTheWay[u] + 1] = mutation[Head(requests)]
    <2> DEFINE n == Len(responses)
    <2>1. /\ OnTheWay[u] = n /\ Len(Waiting[u]) = Len(mutations[u])
          /\ Len(mutations[u]) \in Nat
          /\ \A i \in 1 .. Len(mutations[u]) : Waiting[u][i] = mutation[mutations[u][i]]
      BY <1>3, Seen
    <2>2. RefusedOf[u] = (ended = "refused")
      BY Seen
    <2>3. ~RefusedOf[u]
      BY <1>1, <2>2
    <2>4. /\ n \in Nat /\ n < Len(mutations[u])
          /\ mutations[u][n + 1] = Head(requests)
      BY <1>2, <1>3
    <2> HIDE DEF n
    <2> QED
      BY <2>1, <2>3, <2>4
  <1>5. PendingAreBatches' /\ UNCHANGED Waiting
    BY <1>1, NothingNew
  <1>6. CASE Apply
    <2>1. /\ UNCHANGED ended /\ responses' = Append(responses, Head(requests))
          /\ applied' = applied + 1
          /\ server' = Store!Applied(mutation[Head(requests)], server)
          /\ ~Store!Inapplicable(mutation[Head(requests)], server)
      BY <1>6 DEF Apply, Serve
    <2>2. OnTheWay' = [OnTheWay EXCEPT ![u] = @ + 1] /\ UNCHANGED RefusedOf
      BY <1>1, <2>1 DEF OnTheWay, RefusedOf
    <2>3. Store!Deliver(u)
      BY <1>1, <1>4, <1>5, <2>1, <2>2
      DEF Store!Deliver, Store!NextWrite, Waiting, OnTheWay, RefusedOf
    <2>4. Len(responses') = Len(responses) + 1
      BY <1>1, <1>2, <2>1, HeadTailProperties, AppendProperties
    <2>5. AppliedOnCall'
      BY <1>1, <1>2, <1>3, <2>1, <2>4 DEF AppliedOnCall
    <2> QED
      BY <1>5, <2>3, <2>5
  <1>7. CASE TurnDown
    <2>1. /\ ended' = "refused" /\ UNCHANGED <<responses, applied, server>>
          /\ Store!Inapplicable(mutation[Head(requests)], server)
      BY <1>7 DEF TurnDown, RefuseBatch
    <2>2. RefusedOf' = [RefusedOf EXCEPT ![u] = TRUE] /\ UNCHANGED OnTheWay
      BY <1>1, <2>1 DEF OnTheWay, RefusedOf
    <2>3. Store!Refuse(u)
      BY <1>1, <1>4, <1>5, <2>1, <2>2
      DEF Store!Refuse, Store!NextWrite, Waiting, OnTheWay, RefusedOf
    <2>4. AppliedOnCall'
      BY <1>1, <1>2, <1>3, <2>1 DEF AppliedOnCall
    <2> QED
      BY <1>5, <2>3, <2>4
  <1> QED
    BY <1>6, <1>7

(* A response is read, and the oldest write is done.                       *)
LEMMA LearnStep ==
    ASSUME DInv, NEW u \in Users, u = current_user, Learn
    PROVE  Store!Acknowledge(u) /\ PendingAreBatches' /\ AppliedOnCall'
PROOF
  <1>1. /\ responses # <<>> /\ handshake_complete /\ responses' = Tail(responses)
        /\ applied' = applied - 1
        /\ UNCHANGED <<mutation, current_user, handshake_complete, ended, server, versions>>
        /\ mutations' = [mutations EXCEPT ![u] =
                            RemoveMutationBatch(mutations[u], Head(write_pipeline))]
    BY DEF Learn, ReadResult
  <1>2. mutations' = [mutations EXCEPT ![u] = Tail(@)] /\ mutations[u] # <<>>
    BY <1>1, ResultHasBatch, FilledAfterFirst DEF DInv
  <1>3. /\ PendingAreBatches'
        /\ Waiting' = [Waiting EXCEPT ![u] = Tail(@)]
    BY <1>1, <1>2, FirstLeaves
  <1>4. /\ Len(responses) \in Nat /\ Len(responses) > 0
        /\ Len(responses') = Len(responses) - 1
    BY <1>1, StreamStates, Taken DEF DInv
  <1>5. applied \in Nat /\ applied > 0 /\ Len(responses) <= applied
        /\ (ended = "no" => applied = Len(responses))
    <2>1. handshake_complete
      BY <1>1
    <2> QED
      BY <1>4, <2>1 DEF DInv, AppliedOnCall
  <1>6. /\ OnTheWay[u] > 0 /\ OnTheWay' = [OnTheWay EXCEPT ![u] = @ - 1]
        /\ UNCHANGED RefusedOf
    BY <1>1, <1>5, Seen DEF OnTheWay, RefusedOf
  <1>7. Store!Acknowledge(u)
    BY <1>1, <1>3, <1>6 DEF Store!Acknowledge, Waiting, OnTheWay, RefusedOf
  <1>8. AppliedOnCall'
    <2>1. /\ applied' = applied - 1 /\ handshake_complete' = TRUE
          /\ ended' = ended
      BY <1>1, StreamStates DEF DInv
    <2>2. Len(responses)' = Len(responses) - 1
      BY <1>4
    <2> QED
      BY <1>4, <1>5, <2>1, <2>2 DEF AppliedOnCall
  <1> QED
    BY <1>3, <1>7, <1>8

(* The call ends: what was sent is sent again, but for what is given up.   *)
LEMMA EndStep ==
    ASSUME DInv, NEW u \in Users, u = current_user, EndCall
    PROVE  /\ Store!GiveUp(u) \/ Store!Interrupt(u) \/ UNCHANGED Store!storeVars
           /\ PendingAreBatches' /\ AppliedOnCall'
PROOF
  <1>1. /\ applied' = 0 /\ UNCHANGED <<server, mutation, versions>>
        /\ HandleCredentialChange \/ FailToOpen \/ IdleTimeout \/ FinishCall \/ Restart
    BY DEF EndCall
  <1>2. Hangup
    BY <1>1 DEF HandleCredentialChange, FailToOpen, IdleTimeout, FinishCall, GiveUpFirst,
                RetryLater, Restart
  <1>3. applied \in Nat
    BY DEF DInv, AppliedOnCall
  <1>4. /\ OnTheWay' = [OnTheWay EXCEPT ![u] = 0]
        /\ RefusedOf' = [RefusedOf EXCEPT ![u] = FALSE]
    BY <1>1, <1>2 DEF Hangup, OnTheWay, RefusedOf
  <1>5. AppliedOnCall'
    BY <1>1, <1>2 DEF Hangup, AppliedOnCall
  <1>6. CASE UNCHANGED mutations
    <2>1. PendingAreBatches' /\ UNCHANGED Waiting
      BY <1>1, <1>6, NothingNew
    <2>2. CASE applied > 0 \/ ended = "refused"
      <3>1. OnTheWay[u] > 0 \/ RefusedOf[u]
        BY <2>2, Seen
      <3>2. Store!Interrupt(u)
        BY <1>1, <1>4, <2>1, <3>1
        DEF Store!Interrupt, Store!SendAgain, Waiting, OnTheWay, RefusedOf
      <3> QED
        BY <1>5, <2>1, <3>2
    <2>3. CASE applied = 0 /\ ended # "refused"
      <3>1. UNCHANGED <<OnTheWay, RefusedOf>>
        BY <1>4, <2>3 DEF OnTheWay, RefusedOf
      <3>2. UNCHANGED Store!storeVars
        BY <1>1, <2>1, <3>1 DEF Store!storeVars, Waiting, OnTheWay, RefusedOf
      <3> QED
        BY <1>5, <2>1, <3>2
    <2> QED
      BY <1>3, <2>2, <2>3
  <1>7. CASE FinishCall /\ ~RetryLater
    <2>1. /\ write_pipeline # <<>> /\ ended = "refused"
          /\ mutations' = [mutations EXCEPT ![u] =
                              RemoveMutationBatch(mutations[u], Head(write_pipeline))]
      BY <1>7 DEF FinishCall, GiveUpFirst, IsPermanentWriteError
    <2>2. mutations' = [mutations EXCEPT ![u] = Tail(@)] /\ mutations[u] # <<>>
      BY <2>1, FilledAfterFirst DEF DInv
    <2>3. /\ PendingAreBatches' /\ Waiting[u] # <<>>
          /\ Waiting' = [Waiting EXCEPT ![u] = Tail(@)]
      BY <1>1, <2>2, FirstLeaves
    <2>4. RefusedOf[u]
      BY <2>1, Seen
    <2>5. Store!GiveUp(u)
      BY <1>1, <1>4, <2>3, <2>4 DEF Store!GiveUp, Waiting, OnTheWay, RefusedOf
    <2> QED
      BY <1>5, <2>3, <2>5
  <1> QED
    BY <1>1, <1>6, <1>7
    DEF HandleCredentialChange, FailToOpen, IdleTimeout, FinishCall, RetryLater, Restart,
        localVars

(* What is neither a write nor the server's answer to one.                 *)
LEMMA OtherSteps ==
    ASSUME DInv, ShakeHands \/ GoOn
    PROVE  UNCHANGED Store!storeVars /\ PendingAreBatches' /\ AppliedOnCall'
PROOF
  <1>1. /\ UNCHANGED <<server, mutation, applied, versions, mutations, current_user>>
        /\ (ended' = "refused") = (ended = "refused")
    <2>1. CASE ShakeHands
      BY <2>1 DEF ShakeHands, Serve, localVars
    <2>2. CASE GoOn
      BY <2>2 DEF GoOn, MakeWrite, ChangeCredentials, AnswerSomeToken, AnswerToken, OpenCall,
                  IgnoreToken, BackoffElapsed, ReadHandshake, FailWrite, Break, localVars,
                  callVars
    <2> QED
      BY <2>1, <2>2
  <1>2. PendingAreBatches' /\ UNCHANGED Waiting
    BY <1>1, NothingNew
  <1>3. UNCHANGED <<OnTheWay, RefusedOf>>
    BY <1>1 DEF OnTheWay, RefusedOf
  <1>4. UNCHANGED Store!storeVars
    BY <1>1, <1>2, <1>3 DEF Store!storeVars, Waiting, OnTheWay, RefusedOf
  <1>5. /\ Len(responses) \in Nat /\ responses \in Seq(Nat) /\ requests \in Seq(Nat)
        /\ handshake_complete \in BOOLEAN
    BY StreamStates, LenProperties DEF DInv
  <1>6. AppliedOnCall'
    <2>1. CASE ShakeHands
      <3>1. /\ ended = "no" /\ requests # <<>> /\ Head(requests) = Handshake
            /\ UNCHANGED <<handshake_complete, applied>>
        BY <2>1 DEF ShakeHands, Serve, streamVars
      <3>2. ~handshake_complete
        BY <3>1, <1>5, NextRequest DEF DInv
      <3> QED
        BY <3>1, <3>2 DEF DInv, AppliedOnCall
    <2>2. CASE ReadHandshake /\ UNCHANGED applied
      <3>1. /\ responses # <<>> /\ ~handshake_complete /\ responses' = Tail(responses)
            /\ UNCHANGED <<ended, applied>>
        BY <2>2 DEF ReadHandshake
      <3>2. state = "Open" /\ responses = <<Handshake>>
        BY <3>1, StreamStates DEF CallWhenOpen, DInv
      <3>3. Len(responses') = 0
        BY <3>1, <3>2, BeforeHandshake, EmptySeq DEF DInv
      <3> QED
        BY <3>1, <3>3 DEF DInv, AppliedOnCall
    <2>3. ASSUME NEW n \in 0 .. Len(responses), responses' = SubSeq(responses, 1, n),
                 ended' # "no", UNCHANGED <<handshake_complete, applied>>
          PROVE  AppliedOnCall'
      <3>1. Len(responses') = n
        BY <1>5, <2>3, LedByCut
      <3> QED
        BY <1>5, <2>3, <3>1 DEF DInv, AppliedOnCall
    <2>4. CASE FailWrite /\ UNCHANGED applied
      <3> DEFINE n == Least(1, Len(responses))
      <3>1. /\ responses' = SubSeq(responses, 1, n) /\ ended' # "no"
            /\ UNCHANGED <<handshake_complete, applied>>
        BY <2>4 DEF FailWrite, streamVars
      <3>2. n \in 0 .. Len(responses)
        BY <1>5 DEF Least
      <3> HIDE DEF n
      <3> QED
        BY <2>3, <3>1, <3>2
    <2>5. CASE Break /\ UNCHANGED applied
      <3>1. /\ \E n \in 0 .. Len(responses) : responses' = SubSeq(responses, 1, n)
            /\ ended' # "no" /\ UNCHANGED <<handshake_complete, applied>>
        BY <2>5 DEF Break, streamVars
      <3> QED
        BY <2>3, <3>1
    <2>6. CASE UNCHANGED <<handshake_complete, responses, ended, applied>>
      BY <2>6 DEF DInv, AppliedOnCall
    <2> QED
      BY <1>1, <2>1, <2>2, <2>4, <2>5, <2>6
      DEF GoOn, MakeWrite, ChangeCredentials, AnswerSomeToken, AnswerToken, OpenCall,
          IgnoreToken, BackoffElapsed, streamVars, callVars
  <1> QED
    BY <1>2, <1>4, <1>6

AsClient ==
    \/ \E u \in Users : Store!Client(u)
    \/ \E w \in Store!Writes : WriteMutations /\ Store!Enqueue(Next1.user, w)
    \/ UNCHANGED Store!storeVars

LEMMA DeviceStep ==
    ASSUME DInv, Device
    PROVE  AsClient /\ PendingAreBatches' /\ AppliedOnCall'
PROOF
  <1>1. PICK u \in Users : u = current_user
    BY WaitingIs DEF DInv
  <1>2. ASSUME NEW w \in Store!Writes, Persist(w)
        PROVE  AsClient /\ PendingAreBatches' /\ AppliedOnCall'
    <2>1. WriteMutations /\ Store!Enqueue(Next1.user, w)
      BY <1>2, PersistStep DEF Persist
    <2> QED
      BY <1>2, <2>1, PersistStep DEF AsClient
  <1>3. CASE Apply \/ TurnDown \/ Learn
    <2>1. Store!Client(u)
      BY <1>1, <1>3, ServerAnswers, LearnStep
      DEF Store!Client, Store!Move, Store!ReadAnswer
    <2> QED
      BY <1>1, <1>3, <2>1, ServerAnswers, LearnStep DEF AsClient
  <1>4. CASE EndCall
    <2>1. Store!Client(u) \/ UNCHANGED Store!storeVars
      BY <1>1, <1>4, EndStep DEF Store!Client, Store!ReadAnswer
    <2> QED
      BY <1>1, <1>4, <2>1, EndStep DEF AsClient
  <1>5. CASE ShakeHands \/ GoOn
    BY <1>5, OtherSteps DEF AsClient
  <1> QED
    BY <1>2, <1>3, <1>4, <1>5 DEF Device

LEMMA DeliveryInductive ==
    ASSUME DInv, [DeliveryNext]_deliveryVars
    PROVE  DInv'
PROOF
  <1>1. [Next]_vars
    <2>1. CASE Device
      BY <2>1 DEF Device, Persist, Apply, TurnDown, ShakeHands, Learn, EndCall, GoOn, Next,
                  Progress, Task
    <2>2. ASSUME NEW d \in DocIDs, NEW doc \in Documents, WriteElsewhere(d, doc)
          PROVE  UNCHANGED vars
      BY <2>2 DEF WriteElsewhere
    <2>3. CASE UNCHANGED deliveryVars
      BY <2>3 DEF deliveryVars
    <2> QED
      BY <2>1, <2>2, <2>3 DEF DeliveryNext
  <1>2. IInv' /\ WritesOfMakers'
    BY <1>1, Inductive, MakersNext DEF DInv
  <1>3. PendingAreBatches' /\ AppliedOnCall'
    <2>1. CASE UNCHANGED <<vars, mutation, applied>>
      <3>1. UNCHANGED <<mutations, handshake_complete, responses, ended, mutation, applied>>
        BY <2>1 DEF vars, localVars, streamVars, callVars
      <3> QED
        BY <3>1 DEF DInv, PendingAreBatches, AppliedOnCall
    <2> QED
      BY <2>1, DeviceStep DEF DeliveryNext, WriteElsewhere, deliveryVars
  <1> QED
    BY <1>2, <1>3 DEF DInv

LEMMA DeliveryInitially ==
    ASSUME DeliveryInit
    PROVE  DInv /\ Store!StoreInit
PROOF
  <1>1. /\ Init /\ mutation = [b \in Batches |-> None] /\ applied = 0
        /\ server \in [DocIDs -> Books \cup {Unborn}]
        /\ versions = [d \in DocIDs |-> {server[d]} \cap Books]
    BY DEF DeliveryInit
  <1>2. IInv
    BY <1>1, Initially
  <1>3. /\ worker_queue = <<>> /\ mutations = [u \in Users |-> <<>>]
        /\ handshake_complete = FALSE /\ responses = <<>> /\ ended = "no"
    BY <1>1 DEF Init
  <1>4. WritesOfMakers
    BY <1>3, EmptySeq DEF WritesOfMakers
  <1>5. PendingAreBatches
    BY <1>1, <1>3, EmptySeq DEF PendingAreBatches
  <1>6. AppliedOnCall
    BY <1>1, <1>3 DEF AppliedOnCall
  <1>7. \A u \in Users : Waiting[u] = <<>>
    <2> SUFFICES ASSUME NEW u \in Users PROVE Waiting[u] = <<>>
      OBVIOUS
    <2>1. mutations[u] = <<>>
      BY <1>3
    <2>2. Waiting[u] = [i \in DOMAIN <<>> |-> mutation[<<>>[i]]]
      BY <2>1 DEF Waiting
    <2> QED
      BY <2>2
  <1>8. /\ Waiting = [u \in Users |-> <<>>]
        /\ OnTheWay = [u \in Users |-> 0] /\ RefusedOf = [u \in Users |-> FALSE]
    BY <1>1, <1>3, <1>7 DEF Waiting, OnTheWay, RefusedOf
  <1>9. Store!StoreInit
    BY <1>1, <1>8 DEF Store!StoreInit, Waiting, OnTheWay, RefusedOf
  <1> QED
    BY <1>2, <1>4, <1>5, <1>6, <1>9 DEF DInv

(* Whatever happens to a device - its users come and go, calls break, the  *)
(* app ends - its writes do to /Postings/ only what the clients of Store   *)
(* may do: what is proved of all devices from Store (Market) holds with    *)
(* WriteStream, RemoteStore and LocalStore at work on each, and every write*)
(* counts as its maker's, though the user may change before it is persisted*)
(* (FirestoreClient::WriteMutations to LocalStore::WriteLocally).          *)
THEOREM WritesKeepToStore == DeliverySpec => KeepsToStore
PROOF
  <1>1. DeliveryInit => DInv /\ Store!StoreInit
    BY DeliveryInitially
  <1>2. DInv /\ [DeliveryNext]_deliveryVars => DInv'
    BY DeliveryInductive
  <1>3. DInv => [Device => AsClient]_deliveryVars
    BY DeviceStep
  <1> QED
    BY <1>1, <1>2, <1>3, PTL DEF DeliverySpec, KeepsToStore, AsClient
===============================================================================
