---------------------------- MODULE SpecInformer ----------------------------
(***************************************************************************)
(* The way of a spec document from Firestore to a worker: the informers    *)
(* (a list, then a snapshot listener, and a list again when the listener   *)
(* fails), the event handlers with their cool-down gate, the resync timer, *)
(* and the start of the workers once every informer has its first list.    *)
(* There is one informer per collection. The reflector, its queue, the     *)
(* store and the resync are client-go's; `pipe` is what lies between the   *)
(* listener or the list and the handlers of one document, in order.        *)
(*                                                                         *)
(* A document is its UpdateTime, the number of its commit, and whether it  *)
(* converts to a desire. Time is counted in ticks, from one of which to    *)
(* the next what is local has been done. A gate holds how much of a        *)
(* cool-down remains; it is negative once the cool-down has passed.        *)
(***************************************************************************)
EXTENDS Integers, Sequences

CONSTANTS
  Collections,    \* applydesires, deletedesires, readdesires
  CollectionOf,   \* the collection of each document
  DeleteHandled,  \* the collections whose controller handles deletions
  Docs,           \* document IDs
  NoDoc,          \* no document, no stamp
  ResyncPeriod,   \* ticks between two resyncs
  Cooldown,       \* ticks
  Capacity,       \* bound: events on their way per document
  MaxRev,         \* bound: commits
  MaxFailures     \* bound: failures of a listener and restarts of the process

ASSUME CollectionAssumption ==
  CollectionOf \in [Docs -> Collections] /\ DeleteHandled \subseteq Collections
ASSUME TimeAssumption == ResyncPeriod \in Nat \ {0} /\ Cooldown \in Nat \ {0}
ASSUME BoundAssumption ==
  Capacity \in Nat \ {0} /\ MaxRev \in Nat /\ MaxFailures \in Nat

Document == [rev : Nat \ {0}, ok : BOOLEAN]
ASSUME NoDocAssumption == NoDoc \notin Document \cup Int

(* A delta: the document as it is now, or NoDoc for a deletion. `initial`  *)
(* marks those of the first list, which HasSynced waits for.               *)
Event == [doc : Document \cup {NoDoc}, initial : BOOLEAN]

VARIABLES
  db, now,   \* the specs database, and commits so far
  phase,     \* what the reflector of each collection does: list or watch
  view,      \* what its listener has reported of each document
  timer,     \* ticks to the next resync of each collection
  pipe,      \* events of each document on their way to the handlers
  store,     \* the informer's store
  listed,    \* the collections that have been listed in this life
  gate,      \* cool-down left of each document, NoDoc if never stamped
  queue,     \* documents in a work queue
  age,       \* history: ticks since a document was put there
  started,   \* the workers run
  done,      \* what they last read
  failures

stream == <<phase, view, timer, listed>>
handled == <<store, gate, queue, age>>
workers == <<started, done>>
vars == <<db, now, stream, pipe, handled, workers, failures>>

Stopped == {d \in Docs : CollectionOf[d] \in DeleteHandled}
DocsOf(c) == {d \in Docs : CollectionOf[d] = c}
Converts(d) == db[d] # NoDoc /\ db[d].ok
Malformed(d) == db[d] # NoDoc /\ ~db[d].ok
NoDocs == [d \in Docs |-> NoDoc]
-----------------------------------------------------------------------------
Fresh ==
  /\ phase = [c \in Collections |-> "list"] /\ view = NoDocs
  /\ timer = [c \in Collections |-> ResyncPeriod] /\ listed = {}
  /\ pipe = [d \in Docs |-> << >>]
  /\ store = NoDocs /\ gate = NoDocs /\ queue = {} /\ age = [d \in Docs |-> 0]
  /\ started = FALSE /\ done = NoDocs

Init == db = NoDocs /\ now = 0 /\ Fresh /\ failures = 0

Commit(d) ==
  /\ now < MaxRev /\ now' = now + 1
  /\ \E ok \in BOOLEAN : db' = [db EXCEPT ![d] = [rev |-> now + 1, ok |-> ok]]
  /\ UNCHANGED <<stream, pipe, handled, workers, failures>>

Remove(d) ==
  /\ db[d] # NoDoc /\ db' = [db EXCEPT ![d] = NoDoc]
  /\ UNCHANGED <<now, stream, pipe, handled, workers, failures>>

-----------------------------------------------------------------------------
(* The reflector of a collection.                                          *)

(* The whole list fails if one document does not convert; it is retried.   *)
(* Replace queues every document listed, and a deletion for every other    *)
(* one that is known. The listener is opened afterwards: it has reported   *)
(* nothing yet. The resync timer belongs to the session.                   *)
Known(d) == store[d] # NoDoc \/ pipe[d] # << >>

List(c) ==
  /\ phase[c] = "list"
  /\ \A d \in DocsOf(c) : ~Malformed(d)
  /\ phase' = [phase EXCEPT ![c] = "watch"]
  /\ view' = [d \in Docs |-> IF d \in DocsOf(c) THEN NoDoc ELSE view[d]]
  /\ timer' = [timer EXCEPT ![c] = ResyncPeriod]
  /\ listed' = listed \cup {c}
  /\ pipe' = [d \in Docs |->
                IF d \in DocsOf(c) /\ (db[d] # NoDoc \/ Known(d))
                THEN Append(pipe[d], [doc |-> db[d], initial |-> c \notin listed])
                ELSE pipe[d]]
  /\ UNCHANGED <<db, now, handled, workers, failures>>

(* Next of the snapshot iterator: every document that differs from what    *)
(* the listener last reported. The first snapshot has them all. A change   *)
(* carries the document, a removal the last one reported; one that does    *)
(* not convert is skipped.                                                 *)
ChangeDoc(d) == IF db[d] = NoDoc THEN view[d] ELSE db[d]
Snapshot(c) ==
  LET changes == {d \in DocsOf(c) : db[d] # view[d]} IN
    /\ phase[c] = "watch" /\ changes # {}
    /\ \A d \in changes : Len(pipe[d]) < Capacity
    /\ view' = [d \in Docs |-> IF d \in changes THEN db[d] ELSE view[d]]
    /\ pipe' = [d \in Docs |->
                  IF d \in changes /\ ChangeDoc(d).ok
                  THEN Append(pipe[d], [doc |-> db[d], initial |-> FALSE])
                  ELSE pipe[d]]
    /\ UNCHANGED <<db, now, phase, timer, listed, handled, workers, failures>>

(* The listener fails: the watcher sends an Error event (410, Expired),    *)
(* after what it has sent before, and the reflector lists again.           *)
Break(c) ==
  /\ phase[c] = "watch"
  /\ failures < MaxFailures /\ failures' = failures + 1
  /\ phase' = [phase EXCEPT ![c] = "list"]
  /\ UNCHANGED <<db, now, view, timer, listed, pipe, handled, workers>>

-----------------------------------------------------------------------------
(* The handlers. Desires have no resourceVersion, so client-go takes every *)
(* update for a resync and passes it on only to handlers that resync; all  *)
(* of them do, at the informer's period.                                   *)

(* Mutant: a handler registered without a resync period.                   *)
NotifiedNever(S) == {}
Notified(S) == S

(* Mutant: what the document holds decides, and not its UpdateTime.        *)
ChangedByContent(old, new) == old.ok # new.ok
(* Mutant: every update has to pass the gate.                              *)
ChangedNever(old, new) == FALSE
Changed(old, new) == old.rev # new.rev

(* CanSync: now.After(next).                                               *)
CanSync(d) == gate[d] = NoDoc \/ gate[d] < 0

(* Mutant: the period counts twice.                                        *)
StampedTwice(asked) ==
  [d \in Docs |-> IF d \in asked /\ CanSync(d) THEN 2 * Cooldown ELSE gate[d]]
(* Mutant: a refusal stamps the key as well.                               *)
StampedAlways(asked) == [d \in Docs |-> IF d \in asked THEN Cooldown ELSE gate[d]]
Stamped(asked) == [d \in Docs |-> IF d \in asked /\ CanSync(d) THEN Cooldown ELSE gate[d]]

Renewed(S) == [d \in Docs |-> IF d \in S THEN 0 ELSE age[d]]
enqueueWithCooldown(asked) ==
  LET allowed == {d \in asked : CanSync(d)} IN
    queue' = queue \cup allowed /\ age' = Renewed(allowed) /\ gate' = Stamped(asked)

enqueue(S) == queue' = queue \cup S /\ age' = Renewed(S) /\ UNCHANGED gate

handleUpdate(d, old, new) ==
  \/ Changed(old, new) /\ enqueue(Notified({d}))
  \/ ~Changed(old, new) /\ enqueueWithCooldown(Notified({d}))

Pop(d) ==
  /\ pipe[d] # << >>
  /\ pipe' = [pipe EXCEPT ![d] = Tail(@)]
  /\ LET new == Head(pipe[d]).doc IN
       /\ store' = [store EXCEPT ![d] = new]
       /\ \/ new # NoDoc /\ store[d] = NoDoc /\ enqueue({d})
          \/ new # NoDoc /\ store[d] # NoDoc /\ handleUpdate(d, store[d], new)
          \/ new = NoDoc /\ enqueue(IF store[d] = NoDoc THEN {} ELSE {d} \cap Stopped)
  /\ UNCHANGED <<db, now, stream, workers, failures>>

(* The resync timer fires: every stored document with no event on its way  *)
(* is updated to itself.                                                   *)
Resync(c) ==
  /\ phase[c] = "watch" /\ timer[c] = 0
  /\ timer' = [timer EXCEPT ![c] = ResyncPeriod]
  /\ enqueueWithCooldown(Notified({d \in DocsOf(c) : store[d] # NoDoc /\ pipe[d] = << >>}))
  /\ UNCHANGED <<db, now, phase, view, listed, pipe, store, workers, failures>>

(* Time passes: not while an event waits, nor past a resync that is due.   *)
Oldest == Cooldown + ResyncPeriod + 1
Elapsed(t) == IF t = NoDoc \/ t < 0 THEN t ELSE t - 1
Tick ==
  /\ \A d \in Docs : pipe[d] = << >>
  /\ \A c \in Collections : phase[c] = "watch" => timer[c] > 0
  /\ timer' = [c \in Collections |-> IF phase[c] = "watch" THEN timer[c] - 1 ELSE timer[c]]
  /\ gate' = [d \in Docs |-> Elapsed(gate[d])]
  /\ age' = [d \in Docs |-> IF age[d] < Oldest THEN age[d] + 1 ELSE Oldest]
  /\ UNCHANGED <<db, now, phase, view, listed, pipe, store, queue, workers, failures>>

-----------------------------------------------------------------------------
(* WaitForCacheSync of all the informers, then the controllers.            *)
HasSynced(c) ==
  /\ c \in listed
  /\ \A d \in DocsOf(c) : \A i \in DOMAIN pipe[d] : ~pipe[d][i].initial

Start ==
  /\ ~started /\ \A c \in Collections : HasSynced(c)
  /\ started' = TRUE
  /\ UNCHANGED <<db, now, stream, pipe, handled, done, failures>>

(* A worker takes the document and fetches it; what it then does is in the *)
(* modules of the controllers. A fetch that fails, of a document that does *)
(* not convert for example, leaves it in the queue.                        *)
Reconcile(d) ==
  /\ started /\ d \in queue
  /\ ~Malformed(d)
  /\ queue' = queue \ {d}
  /\ done' = [done EXCEPT ![d] = db[d]]
  /\ UNCHANGED <<db, now, stream, pipe, store, gate, age, started, failures>>

(* The process stops, and one takes its place: only the database is left.  *)
Restart ==
  /\ failures < MaxFailures /\ failures' = failures + 1
  /\ phase' = [c \in Collections |-> "list"] /\ view' = NoDocs
  /\ timer' = [c \in Collections |-> ResyncPeriod] /\ listed' = {}
  /\ pipe' = [d \in Docs |-> << >>]
  /\ store' = NoDocs /\ gate' = NoDocs /\ queue' = {} /\ age' = [d \in Docs |-> 0]
  /\ started' = FALSE /\ done' = NoDocs
  /\ UNCHANGED <<db, now>>

-----------------------------------------------------------------------------
Next ==
  \/ \E d \in Docs : Commit(d) \/ Remove(d) \/ Pop(d) \/ Reconcile(d)
  \/ \E c \in Collections : List(c) \/ Snapshot(c) \/ Break(c) \/ Resync(c)
  \/ Tick \/ Start \/ Restart

Spec == Init /\ [][Next]_vars

(* Fairness: goroutines and timers run, the listener reports, a list that  *)
(* can succeed is tried until it does, and so is a fetch.                  *)
FairSpec ==
  /\ Spec /\ WF_vars(Tick) /\ WF_vars(Start)
  /\ \A d \in Docs : WF_vars(Pop(d)) /\ WF_vars(Reconcile(d))
  /\ \A c \in Collections : WF_vars(List(c)) /\ WF_vars(Snapshot(c)) /\ WF_vars(Resync(c))

-----------------------------------------------------------------------------
TypeOK ==
  /\ db \in [Docs -> Document \cup {NoDoc}] /\ now \in Nat
  /\ phase \in [Collections -> {"list", "watch"}]
  /\ view \in [Docs -> Document \cup {NoDoc}]
  /\ timer \in [Collections -> 0..ResyncPeriod]
  /\ pipe \in [Docs -> Seq(Event)]
  /\ store \in [Docs -> Document \cup {NoDoc}]
  /\ listed \subseteq Collections
  /\ gate \in [Docs -> -1..Cooldown \cup {NoDoc}]
  /\ queue \subseteq Docs /\ age \in [Docs -> 0..Oldest]
  /\ started \in BOOLEAN
  /\ done \in [Docs -> Document \cup {NoDoc}]
  /\ failures \in Nat

-----------------------------------------------------------------------------
(* The store as it will be once what is on its way has been handled, and   *)
(* the documents that are in a queue or will be.                           *)
Before(d, i) == IF i = 1 THEN store[d] ELSE pipe[d][i - 1].doc
Heading(d) == Before(d, Len(pipe[d]) + 1)
Arriving(d) ==
  \E i \in DOMAIN pipe[d] :
    pipe[d][i].doc # Before(d, i) /\ (pipe[d][i].doc # NoDoc \/ d \in Stopped)

Feed == INSTANCE SpecFeed WITH
          past <- [rev : 1..now, ok : BOOLEAN],
          seen <- [d \in Docs |-> Heading(d)],
          owed <- queue \cup {d \in Docs : Arriving(d)}

(* The informers and the handlers implement the feed: what is handed on is *)
(* never older than what was handed on before, and every revision that is  *)
(* seen is owed to a worker until one has read the document.               *)
Implements == Feed!Spec
NothingMissed == Feed!NothingMissed

(* README, "Database structure": the resync period still triggers handlers *)
(* through the cool-down. A document that the informer holds and watches   *)
(* is handed to a worker at least once per cool-down and resync period,    *)
(* however its updates, a broken stream and the timers interleave.         *)
RevisitedInTime ==
  \A d \in Docs :
    (phase[CollectionOf[d]] = "watch" /\ store[d] # NoDoc /\ pipe[d] = << >>) =>
       age[d] <= Cooldown + ResyncPeriod

(* README, "Database structure": spec changes trigger reconciliation. The  *)
(* last revision of a document that converts is reconciled, and so is a    *)
(* deletion that was lost between list and listener, as long as the store  *)
(* keeps the document: the resync brings it to a worker. Only a document   *)
(* that does not convert can hold this up, its own or another: it makes    *)
(* every list fail, and before the start it blocks all the controllers.    *)
HeldUp(d) ==
  /\ \E x \in Docs : Malformed(x)
  /\ ~started \/ phase[CollectionOf[d]] = "list"
Reconciled ==
  \A d \in Docs :
    <>[](Converts(d) \/ (db[d] = NoDoc /\ store[d] # NoDoc) =>
           done[d] = db[d] \/ HeldUp(d))
=============================================================================
