----------------------------- MODULE WorkQueue -----------------------------
(***************************************************************************)
(* The rate-limiting work queue of client-go, as the controllers use it:   *)
(* every controller of this repository owns one (apply_desire, delete_     *)
(* desire, read_desire_manager, read_desire_kubernetes) and touches it     *)
(* only through Add, Get, Done, AddRateLimited and Forget.                 *)
(*                                                                         *)
(* A queue is a record of four sets of keys:                               *)
(*   queue      keys a worker can take now,                                *)
(*   dirty      keys that need processing,                                 *)
(*   processing keys some worker has taken and not released with Done,     *)
(*   delayed    keys waiting out the back-off of AddRateLimited.           *)
(* The order of the queue is abstracted: a set, with fairness per key in   *)
(* the specifications that need it (the real queue is first-in-first-out,  *)
(* so no key waits for ever). Forget only resets the back-off of a key,    *)
(* and the back-off's length is not modelled, so Forget is the identity.   *)
(***************************************************************************)
EXTENDS FiniteSets

EmptyQueue == [queue |-> {}, dirty |-> {}, processing |-> {}, delayed |-> {}]

QueueType(Keys) == [queue : SUBSET Keys, dirty : SUBSET Keys,
                    processing : SUBSET Keys, delayed : SUBSET Keys]

(* A dirty key is not added twice; a key being processed is only marked,   *)
(* and Done will queue it again.                                           *)
QAdd(q, k) ==
  IF k \in q.dirty THEN q
  ELSE [q EXCEPT !.dirty = @ \cup {k},
                 !.queue = IF k \in q.processing THEN @ ELSE @ \cup {k}]

QGet(q, k) == [q EXCEPT !.queue = @ \ {k},
                        !.dirty = @ \ {k},
                        !.processing = @ \cup {k}]

QDone(q, k) == [q EXCEPT !.processing = @ \ {k},
                         !.queue = IF k \in q.dirty THEN @ \cup {k} ELSE @]

QAddRateLimited(q, k) == [q EXCEPT !.delayed = @ \cup {k}]

(* The back-off of a delayed key has elapsed: the queue adds it itself.    *)
QBackoffElapsed(q, k) == QAdd([q EXCEPT !.delayed = @ \ {k}], k)

QForget(q, k) == q

(* The key is nowhere in the queue: no worker will look at it unless an    *)
(* event handler adds it.                                                  *)
QIdle(q, k) == k \notin q.dirty \cup q.processing \cup q.delayed

(* What makes the queue hand a key to one worker at a time.                *)
QueueOK(q) == q.queue = q.dirty \ q.processing
=============================================================================
