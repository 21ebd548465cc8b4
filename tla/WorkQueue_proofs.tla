-------------------------- MODULE WorkQueue_proofs --------------------------
(***************************************************************************)
(* What each operation of the work queue does to its sets, for every set   *)
(* of keys: the facts the controllers' proofs cite.                        *)
(***************************************************************************)
EXTENDS WorkQueue, TLAPS

(* An empty queue hands out nothing and remembers nothing.                 *)
LEMMA EmptyQueueOK ==
  ASSUME NEW Keys
  PROVE  EmptyQueue \in QueueType(Keys) /\ QueueOK(EmptyQueue)
BY DEF EmptyQueue, QueueType, QueueOK

(* Add makes a key dirty and touches nothing else that lasts.              *)
LEMMA QAddOK ==
  ASSUME NEW Keys, NEW q \in QueueType(Keys), NEW k \in Keys
  PROVE  /\ QAdd(q, k) \in QueueType(Keys)
         /\ QAdd(q, k).dirty = q.dirty \cup {k}
         /\ QAdd(q, k).processing = q.processing
         /\ QAdd(q, k).delayed = q.delayed
         /\ QueueOK(q) => QueueOK(QAdd(q, k))
BY DEF QAdd, QueueType, QueueOK

(* Get moves a queued key to the worker: nobody else is processing it.     *)
LEMMA QGetOK ==
  ASSUME NEW Keys, NEW q \in QueueType(Keys), NEW k \in q.queue
  PROVE  /\ QGet(q, k) \in QueueType(Keys)
         /\ QGet(q, k).dirty = q.dirty \ {k}
         /\ QGet(q, k).processing = q.processing \cup {k}
         /\ QGet(q, k).delayed = q.delayed
         /\ k \in Keys
         /\ QueueOK(q) => QueueOK(QGet(q, k)) /\ k \notin q.processing
BY DEF QGet, QueueType, QueueOK

(* Done releases a key; if it was added meanwhile it stays dirty.          *)
LEMMA QDoneOK ==
  ASSUME NEW Keys, NEW q \in QueueType(Keys), NEW k \in Keys
  PROVE  /\ QDone(q, k) \in QueueType(Keys)
         /\ QDone(q, k).dirty = q.dirty
         /\ QDone(q, k).processing = q.processing \ {k}
         /\ QDone(q, k).delayed = q.delayed
         /\ QueueOK(q) => QueueOK(QDone(q, k))
BY DEF QDone, QueueType, QueueOK

(* AddRateLimited only delays.                                             *)
LEMMA QAddRateLimitedOK ==
  ASSUME NEW Keys, NEW q \in QueueType(Keys), NEW k \in Keys
  PROVE  /\ QAddRateLimited(q, k) \in QueueType(Keys)
         /\ QAddRateLimited(q, k).dirty = q.dirty
         /\ QAddRateLimited(q, k).processing = q.processing
         /\ QAddRateLimited(q, k).delayed = q.delayed \cup {k}
         /\ QueueOK(q) => QueueOK(QAddRateLimited(q, k))
BY DEF QAddRateLimited, QueueType, QueueOK

(* A delayed key is never dropped: when its back-off ends it is dirty.     *)
LEMMA QBackoffElapsedOK ==
  ASSUME NEW Keys, NEW q \in QueueType(Keys), NEW k \in Keys
  PROVE  /\ QBackoffElapsed(q, k) \in QueueType(Keys)
         /\ QBackoffElapsed(q, k).dirty = q.dirty \cup {k}
         /\ QBackoffElapsed(q, k).processing = q.processing
         /\ QBackoffElapsed(q, k).delayed = q.delayed \ {k}
         /\ QueueOK(q) => QueueOK(QBackoffElapsed(q, k))
<1> DEFINE r == [q EXCEPT !.delayed = @ \ {k}]
<1>1. r \in QueueType(Keys) /\ (QueueOK(q) => QueueOK(r))
  BY DEF QueueType, QueueOK
<1>2. r.dirty = q.dirty /\ r.processing = q.processing /\ r.delayed = q.delayed \ {k}
  BY DEF QueueType
<1> HIDE DEF r
<1>3. QAdd(r, k) = QBackoffElapsed(q, k)
  BY DEF QBackoffElapsed, r
<1> QED BY <1>1, <1>2, <1>3, QAddOK
=============================================================================
