# Formal verification of kube-applier

TLA+ models of kube-applier, TLC configurations that check them on small
instances, and TLAPS proofs of their safety properties. Line references are to
the Go source of this repository.

## The system

kube-applier runs on a management cluster. A backend writes *desires* as
documents of a Firestore *specs* database; the agent makes the cluster agree
with them and reports in a *status* database, in documents of the same IDs.

| Component | State it keeps | Operations | What makes it correct |
|---|---|---|---|
| Specs informers (`internal/database/informers`) | a store per collection, lagging behind the database | list, snapshot stream, resync every 30 s | every document's last revision reaches the handlers |
| Cool-down gate (`internal/controllerutils/cooldown.go`) | next allowed time per key, in an LRU | `CanSync` | an unchanged document passes once per period, and always again |
| Work queue (client-go) | queued, dirty, processing, delayed keys | Add, Get, Done, AddRateLimited, Forget | one worker per key, no key lost |
| ApplyDesire controller (`pkg/controllers/apply_desire`) | queue; 4 workers | fetch spec, server-side apply, report | a success is true, no revision is forgotten or overtaken |
| DeleteDesire controller (`pkg/controllers/delete_desire`) | queue; 4 workers | get, delete, get, report | success only if the object was seen gone |
| ReadDesire manager (`pkg/controllers/read_desire_manager`) | queue; 1 worker; map of running instances | start, replace, stop an instance; report a refused target | the last key of a document has the right instance, and none once the document is gone |
| ReadDesire instance (`pkg/controllers/read_desire_kubernetes`) | informer of one object, ticker, queue, 1 worker | mirror the object into the status | the status ends up with the object's content |
| Status writer (`pkg/controllers/desirestatuswriter`) | none | read, mutate, create or replace with an `UpdateTime` precondition | no status is overwritten unread |
| Firestore CRUD and codec (`internal/database`) | none | Get, List, Create, Replace, Delete; JSON to map and back | preconditions; a round trip preserves content |
| Conditions, keys, document IDs | none | pure functions | reason and degraded flag follow the outcome |
| Test double (`internal/database/listertesting`) | an in-memory collection | the same as Firestore CRUD | answers like Firestore |
| Leader election and wiring (`pkg/app`) | lease, held by one replica | start everything with the lease, stop with it | two leaders whose calls overlap do no lasting harm |

They interact through the databases and the cluster (shared state, reached by
remote calls that fail, or take effect while their reply is lost), through the
informer's callbacks (which only touch a work queue), and through the manager's
map of instances. The hard behaviours are: two calls of a worker with anything
in between; an update that arrives while its key is being processed; retries of
what was already done; writes that outlive a stopped worker or a restart; races
of two writers of one status; objects that are changed, deleted and recreated by
others; progress that depends on a resync which the cool-down gate may hold
back; a list and a stream that see a collection at different times; and a lease
that changes hands while calls are under way. `PROJECT.json` lists them at their lines, with the properties that cover
them.

## Modules

| Module | Models | Notes |
|---|---|---|
| `WorkQueue` | client-go's rate-limiting queue | pure operators on a record of four sets |
| `ApplyDesire` | handlers, queue, workers, status writer, cluster, restart | the core |
| `DeleteDesire` | the same around an object with UID, finalizers and other users | |
| `ReadDesire` | the manager and its instances, with writes in flight as a set | |
| `SpecFeed` | what the controllers need between the specs database and their queues | abstract specification |
| `SpecInformer` | informers, snapshot streams, handlers, timed gate, resync timer, start of the workers | implements `SpecFeed` (`Implements`) |
| `FirestoreCRUD` | one collection: Get, Create, Replace, Delete, the kubeContent codec; and the same of `FakeCRUD` | pure operators |
| `Handover` | replicas and a lease, over `FirestoreCRUD` and the cluster | composes election, workers, databases |
| `MCApplyDesire`, `MCDeleteDesire`, `MCReadDesire`, `MCSpecInformer`, `MCHandover` | constants for TLC | |
| `WorkQueue_proofs`, `SpecFeed_proofs`, `SpecInformer_proofs`, `ApplyDesire_proofs`, `DeleteDesire_proofs`, `ReadDesire_proofs`, `Handover_proofs` | theorems | one module per modelled component |

### How the code becomes actions

* A step of a worker is one remote call with the local code after it, up to the
  next call. `pc` names the call the worker is about to make, `job` holds the
  locals of `processNext` and `SyncOnce`. Between two steps every other actor
  may move. `ReadDesire` merges the steps of an instance that touch nothing
  shared (taking the key, then fetching).
* Each remote call has a successful action, an action that fails without
  effect, and, where the call writes, one that takes effect but returns an
  error (`ApplyReplyLost`, `DeleteReplyLost`, the result `"err"` of
  `CreateStatus`, `ReplaceStatus`, `WriteStatus`, `WriteLands`).
* `UpdateTime` of a spec is `rev`, the number of its commit. `UpdateTime` of a
  status matters only as the precondition of `Replace`; who has read a status
  holds `fresh`, and any write by another clears it. That is what comparing two
  timestamps says, without a counter that grows for ever.
* The informer's store catches up in `Deliver` and may skip revisions, as a
  stream that is listed again does. `Resync` stands for the periodic resync and
  for a relist: an update whose revision has not moved.
* `cooling` is the set of keys whose cool-down has not elapsed;
  `CooldownElapses` may come at any time. `SpecInformer` has the gate with its
  clock: `gate` counts down, and a key passes when it is below zero, because
  `CanSync` asks for a time *after* the end of the period.
* In `SpecInformer` there is one informer per collection, and `pipe` holds what is
  between a list or a stream and the handlers of one document. A tick of the
  clock waits for what is local (`Tick`): 30 seconds against microseconds. The
  first snapshot of a stream reports every document again, so each document
  is handed over twice at the start and after each relist; it does not report
  one that was deleted between the list and the snapshot, which stays in the
  store as a ghost until the next relist. `started` is the wait for all three
  caches in `OnStartedLeading`.
* Desires carry no `resourceVersion`. client-go compares the versions of the old
  and the new object, takes every update for a resync, and notifies only the
  handlers that are due for one. That is all of them, because they are
  registered without a period of their own; `Notified` marks the place.
* In `FirestoreCRUD` content is `None` (nil), empty bytes, `null`, an array or an
  object, and a stored field is absent, null or an object. `Float64` is what
  decoding into `map[string]any` does to the numbers of an object.
* `Handover` has the worker of each replica in four steps (fetch, apply, read
  status, write status) that may fail, with the CRUD as the functions
  above. What a worker has sent when its process stops is in `calls`, and lands
  later or never. The lease fences nothing, so a candidate may take it at any
  time: `RenewDeadline` is noticed only when a renewal that takes up to 5 s (half
  of it, the timeout that client-go gives its requests) after a `RetryPeriod`
  has failed, and 10 + 2 + 5 s is more than the lease's 15 s; and
  `ReleaseOnCancel` frees it before the controllers' context is cancelled. An
  `UpdateTime` of the status database that nobody holds any more is used
  again: it is only compared for equality, and the state space stays finite.
* The queue is a set. Its order is left to strong fairness of `Get`.
* `Restart` loses everything but the databases and the cluster, and the calls that
  were under way: the lease is released before the workers' context is cancelled
  (`kube_applier.go:180`), and nothing waits for them. Those that would be
  accepted may land at any later time, or never, while the next process works:
  applies and status writes in `late` of `ApplyDesire` (`LateApply`, `LateWrite`),
  status writes in `late` of `DeleteDesire` (a late delete is one of the deletions
  that `OthersDelete` makes at any time), and the `writes` of `ReadDesire`. A late
  write is dropped once another write has made its `UpdateTime` stale, because then
  it can only fail, and nobody hears of it. A process whose workers take further
  *steps* beside those of the next leader is in `Handover` only.
* A worker that loses the race against such a write meets `FailedPrecondition`, and
  the status writer makes nil of it: `ReplaceConflicts`, `WriteConflicts` and
  `WriteRefused`. In `DeleteDesire`, where a document has one key, this is the
  only way to lose it (`Raced` in the proofs).
* History variables carry what the properties need and no action reads: `acked`,
  `absent`, `touched` (objects that another user or a late apply has changed since
  a worker last applied to them), `usurped` (documents whose status a late
  `Replace` wrote last) and `home` (the key whose instance answers for a
  ReadDesire: that of its last revision; none once it is deleted if no event will
  say so).
* Conditions are reduced to the reason and the degraded flag; messages and
  transition times are left out, except the deletion timestamp of
  WaitingForDeletion, because the clock's time in the message defeats the
  comparison that suppresses unchanged writes (`SameStatus`).
* A document's ID is a hash of its target, so `TargetOf` is a constant for
  apply and delete. ReadDesire's target is part of the spec, because the
  manager handles a change of it.
* Scope is the pair (`clusterID`, `nodePoolName`): part of the keys, not of the
  document's ID. `ApplyDesire` lets it change (run `apply_scopes`).

## Runs

| Run | Instance | Question | Result |
|---|---|---|---|
| `apply_safety` | 1 document, 2 workers, 2 revisions, contents good/other/malformed, 2 upsets (restarts or foreign changes) | are reports true, in order, and nothing forgotten, under all interleavings, failures and late calls? | holds, 4.9 M states |
| `apply_scopes` | 2 scopes, so 2 keys and 2 concurrent writers of one status; client errors; no upsets | does the precondition keep statuses from being overwritten unread? | holds, 3.1 M states |
| `apply_live` | 1 worker, 2 revisions, contents good/malformed, 1 upset, fairness | do events and retries alone converge; does the resync repair drift, and a status that a late call left? | holds, 0.2 M states |
| `apply_conflict` | as `apply_scopes` | is a lost race retried, as the README says? | violated |
| `delete_safety` | 2 revisions, 2 objects of one name, 1 restart | is success only reported for an object seen gone; is nothing forgotten and no report overtaken, by late writes either? | holds, 1.4 M states |
| `delete_live` | 1 revision, 2 objects, 1 restart, fairness | does the status follow a held object; is the object deleted for good? | holds, 0.1 M states |
| `read_safety` | 2 targets, 2 revisions, 1 change, 1 restart | does the key of a document have the right instance, or none; are late writes harmless to what they have not read? | holds, 1.2 M states |
| `read_live` | 1 target, 2 revisions, 1 change, fairness | does the status mirror the object in the end; is a refusal reported? | holds |
| `read_stale` | 1 target, fairness | is the last revision reported? | violated |
| `read_unlistable` | a target whose list fails, fairness | is a failing list reported? | violated |
| `intake` | 2 collections of 1 document, 2 revisions that convert or do not, 1 broken stream or restart, period and cool-down of 1 tick, fairness | is every revision handed to a worker, is every document revisited in time, and do the informers implement `SpecFeed`? | holds, 1.0 M states |
| `handover` | 2 replicas, 2 elections, 1 document, 2 revisions, content small/big/nil/empty, 1 failed call, fairness | do overlapping leaders and late calls spoil a status unread, or for good; does the test double agree with Firestore; does a rewrite keep what it read? | holds, 0.2 M states |

**Bounds.** `MaxRev` bounds the backend's commits: two give an update, or a
deletion and a rewrite, which are what a worker can miss while it is busy; a
third repeats the situation. Two workers are enough for a race on one document,
because the queue gives a key to one worker and two scopes give two keys. A
foreign change and a restart are each a single event to recover from; they share
the bound `MaxUpsets`, and `apply_safety` allows two, so that a late call meets a
foreign change, or the calls of a second process that has stopped.
`MaxUID = 2` recreates an object once, which separates the object a worker read
from the one it deletes. One document suffices: documents share only the
queue, which keeps keys apart (`WorkQueue_proofs`), and the theorems are for any
number of them. `intake` needs two collections, because a malformed document of
one blocks the start of the other's controller; a period and a cool-down of one
tick make the boundary of the gate (a resync at the very end of a cool-down)
happen, and `Capacity = 1` makes a stream wait for its consumer, as the channel of
100 events does in the end. One failure is a broken stream or a restart, each an
event to recover from. Two elections of two replicas give one handover with an
overlap, and a replica that takes over from its own former life. In liveness runs one worker serves the only key.
`CHECK_DEADLOCK FALSE` everywhere: with the bounds used up and nothing left to
do, the system rests.

**Fairness.** Goroutines run, timers fire, and watches deliver: weak fairness.
The queue is first-in-first-out, so a key is not passed over for ever: strong
fairness of `Get`. A call that is repeated for ever succeeds in the end: strong
fairness of the successful replies, which fails only for a database or API
server that is down for good. The periodic resync and the cool-down (timers)
are weakly fair; `Converges` of `ApplyDesire` does without them, except for a
status that a late `Replace` wrote last (`usurped`), and `DriftRepaired` assumes
them and has no exception: object and status come right. `DeletedForGood` assumes that finalizers complete.
`intake` needs weak fairness only: the stream reports, events are handled, the
clock and the resync timer run, and a list or a fetch is tried again until it
succeeds; a malformed document disables `List`, so nothing is promised until it is
repaired (`HeldUp`). In `handover` the elections and the failures are bounded, so
they end; a leader that has lost its lease notices, and a resync brings each
document again and again while other documents may come first: strong fairness
of `Fetch`. Nothing is assumed of the backend, of other users, of failures,
restarts or late calls: those may land or not.

## Where the code and the documentation disagree

* **Conflicts are dropped** (`apply_conflict`). The status writer returns nil on
  `FailedPrecondition`, expecting the informer to requeue, but the informer
  watches the other database. Within one process and without a change of scope a
  document has one writer at a time, so ApplyDesire and DeleteDesire meet the
  conflict where a document changes its scope (ApplyDesire; the run shows it) and
  where a `Replace` outlives its process, or its leader overlaps with the next
  one: the successor's `Replace` fails, its key is forgotten, and the status stays
  behind until a resync passes the gate. `IdleMeansReported` of both modules states
  this as its one exception, and that there is no other; `DriftRepaired` and
  `StatusCatchesUp` show that the resync ends it. In `ReadDesire` a stopped
  instance's write is enough, and `RefusalReported` holds only because of the
  resync.
* **A stale `ObservedDesireUpdateTime`** (`read_stale`).
* **A ReadDesire that cannot be listed says nothing** (`read_unlistable`).

Known without a run, because no run is spent on them:

* Two documents that name one object apply with the same field manager, so the
  second takes the first one's content away and both report success
  (`SuccessApplied` is proved for documents of distinct objects).
* WaitingForDeletion may name an object that was created after the delete, with
  the agent's clock as its deletion timestamp (`PostGet`).
* A ReadDesire instance compares one read of the status and mutates another. A
  stopped instance's write between the two leaves the old object's content under
  a success of the new revision, until the next tick (`Keep`, `InstanceReadStatus`).
* A ReadDesire instance that was started from a revision the informer never saw
  (deleted, written, deleted) is not stopped by any event, and one whose
  document changes its scope is not stopped under its old key. `IdleMeansWatched`
  leaves out these two, through `home`, and no other.
* README.md, "Golang type details", says that content is semantically identical
  after a round trip. An integer above 2^53 is not: it is rounded (`Float64`,
  and `Inexact` in `ReadDesire`). A ReadDesire that mirrors such an object finds
  a difference at every tick and writes its status again each time.
* `kube_applier.go:124` wants that a replica which is not the leader does not
  read Firestore. During an overlap it does, and it applies and reports too.
  What it leaves behind is put right (`Converges`); in between an older revision
  may be back in the cluster.
* `FakeCRUD.Delete` of a document that is not there is NotFound; Firestore's is no
  error. No controller deletes a status, so `FakeAgrees` leaves it out.
* The gate and the resync are out of step: a resync at the very end of a
  cool-down is refused, so an unchanged document is revisited within the
  cool-down plus one resync period and not within the cool-down
  (`RevisitedInTime`).

## Proofs

`tlapm` checks every theorem for all values of the constants, under the named
assumptions of the modules: every document has a target or a collection; periods
are positive; the values that stand for "nothing" (`NoDoc`, `NoTarget`, `None`)
are none of the values they stand beside; the codec maps objects to objects, and
rounding twice is rounding once; and there are finitely many replicas. Every
invariant and every `[][A]_v` property of the passing runs is a theorem. The
bounds (`MaxRev`, `MaxRestarts`, ...) are any natural numbers. Each controller's,
the informers' and the handover's invariant was checked by TLC on the instance of
the module's safety run before it was proved. No property is inductive alone, so
each module builds its invariant in layers.

`ApplyDesire_proofs`:

1. `TypeInv`: `TypeOK` and the shape of each worker's locals by `pc`.
2. `Books`: what a worker or a late write holds has been acknowledged: hence
   `SuccessIsAcknowledged` (`Acknowledged`), and with the meaning of `fresh`,
   `NoBlindOverwrite` (`NeverBlind`).
3. `Exclusive`: under the assumption `StableScopes` (a document's scope never
   changes) the queue gives a document to one worker; with `Revisions` (nobody
   holds a revision newer than the database's) this makes the `Ledger`. Then
   `InOrder`: a stored status is not newer than any late write that would replace
   it, and neither is newer than what a worker has fetched: hence
   `ObservedNeverRegresses` (`NeverRegresses`). A late write stays behind the next
   process because it is still acceptable only while nobody has written since it
   was sent.
4. `Remembered`: a document whose current revision is not reported is dirty,
   delayed, held by a worker that will report or retry, not yet delivered, or
   `Overruled`: a late `Replace` wrote last and no worker is about to write. The
   difficulty is the worker that has fetched when the late write lands: its
   `Replace` fails, and until then it counts as one that will report. Hence
   `IdleMeansReported` (`NothingForgotten`).
5. `Truthful`: under `OwnTargets` (no two documents name one object), and as long
   as the object is not `touched`, a worker that is to report success left its
   content in the object (`AppliedJobs`), and a late write that claims success for
   the current revision finds its content there (`AppliedLate`): hence
   `SuccessMeansApplied` (`SuccessApplied`). `touched` is exact: a worker's next
   apply takes the object out of it again.

`DeleteDesire_proofs`:

1. `Witnessed`: types; an object which is absent now was last absent at the
   current commit, and no revision is ahead of the commits (`Seen`); a worker
   with a verdict of success holds a revision not newer than the last absence of
   its object (`Known`), and so does a late write (`Carried`). Hence `SuccessMeansWasGone` (`DeletionWitnessed`), which
   alone says nothing of what a worker is about to report.
2. `Exclusive` and `Ordered`: one worker for each document; neither the informer's
   copy, nor the worker's, nor the status is ahead of the document; and a late
   write is between the status and what a worker has fetched. No
   assumption on scopes is needed, since the key of a document is its ID.
3. `Aged`: a verdict or a status that waits for a deletion names a UID that was
   given out and is not newer than the object's (`Dated`), and a verdict is not
   older than the status it replaces, nor than a late write's. `Raced`: a worker
   whose precondition fails has lost to a late write and to nobody else. With layer
   2 this is the `Ledger`, and `ReportsNeverRegress` follows (`NeverRegresses`).
4. `Remembered`: as above, where `Settled` stands for a report that says the
   object is gone or awaited, and `Overruled` for a late `Replace` that wrote last:
   hence `IdleMeansReported` (`NothingForgotten`).

`ReadDesire_proofs`:

1. `Typed`: `TypeOK`; the manager's locals by `pc`; `Sent`, that whoever waits for
   an answer has exactly one write on its way; and `FreshReads`, that a write whose
   precondition holds carries the status as it is. `TypeOK` needs `Sent`: an
   answer is attributed to its sender, so a second write, or one of an instance
   that is gone, would step an instance that does not exist. `FreshReads` needs
   it because a write clears the preconditions of all others. Hence
   `NoBlindOverwrite` (`NeverBlind`).
2. `Ordered`: a copy of the informer with the current revision is the document.
   `Homes`: the key that answers for a document is that of its last revision, and
   once it is deleted, the key under which the informer still has it.
3. `Remembered`: a document, deleted ones included, of which the informer has the
   last word is `Tended`: its `home` waits in the queue, or the manager has taken
   it and not looked yet, or the instance is what it should be (`InLine`): one that
   watches the target, or none. Hence `IdleMeansWatched` (`WatchedWhenIdle`). It is
   silent on instances under a former key of a document, which the code does not
   stop. The reports of the manager do not enter: it stops or starts an instance
   before it reports.

`SpecFeed_proofs` proves `NothingMissed` of the feed (`NothingLost`): with it goes
`Known`, that what the informer has seen was once in the database, because a commit
must not look like a revision seen before.

`SpecInformer_proofs`:

1. `OneVersion`: what the database, the store and the events on their way say of
   a document agrees wherever their commit numbers agree. The handlers compare
   only `UpdateTime`, so this is what makes an equal time mean an equal document.
2. `Cooling` and `Due`: a gate that is closed was closed by the delivery of its
   document, so the time since then and what is left of the cool-down add up to
   no more than the cool-down; and once it is open, the time since the delivery
   and what is left until the resync fit in a cool-down and a period. Hence
   `RevisitedInTime` (`Revisits`). A bound on the age alone is not inductive: it
   says nothing of the gate and the timer.
3. `Refinement`: initial states of the informers are initial states of `SpecFeed`,
   and every step is one of its steps or a stutter, by cases over the actions.
   What the feed has on its way is what `pipe` and `store` still have to say;
   the lemmas on it (what appending, delivering and skipping an event changes)
   are proved by positions, without recursion. `NothingMissed` is
   then not proved again: it is the feed's theorem, taken through the refinement.

`Handover_proofs`:

1. `Credible`: a stored status that reports success names a revision that the API
   server has acknowledged.
2. `Informed`: the same for whatever may still write: a worker and each of the
   `calls` that a stopped process left behind. And a status that was read is
   still the stored one if its `UpdateTime` is. Hence `SuccessIsAcknowledged`
   (`Acknowledged`) and `NoBlindOverwrite` (`NeverBlind`), for any number of replicas
   that believe to lead.
3. `AllClean`: the fields of a document are ones this codec writes. It makes what
   a worker has fetched of the right type.
4. The calls are finitely many, because there are finitely many replicas and each
   step adds at most one. This is what the choice of a commit time rests on: a
   number that nobody holds exists.
5. `FakeAgreement` and `RewriteIsFaithful` compare the answers of the CRUD and of
   the test double, and a document before and after it is replaced by what `Get`
   returned, for each operation.

`WorkQueue_proofs` states what each queue operation preserves; the controllers'
proofs cite it.

Model-checked only: liveness (`Converges`, `DriftRepaired`, `StatusCatchesUp`,
`DeletedForGood`, `MirrorsObject`, `RefusalReported`, `Reconciled`) and the
properties that are violated. Liveness under fairness speaks of `ENABLED`, which
the prover does not reason about.

## Not modelled, and the plan

Left to do, in this order, and all of it proof:

1. `ApplyDesire` without `StableScopes`: what survives a change of scope.
2. An abstract specification of a controller's reports (each written from a
   revision that was fetched after the last report), and that `ApplyDesire` and
   `DeleteDesire` implement it.
3. The codec and the CRUD of `FirestoreCRUD` on their own: which contents a round
   trip keeps, and that no write is accepted against a stale `UpdateTime`.

Not modelled, and why:

* Flags, HTTP endpoints, metrics, charts and pipelines keep no state of the
  protocol. A health or metrics server that fails to start leaves the agent
  running; its error is only reported when the process ends.
* The deep copies and the listers: copies of plain data, and views of the
  informer's store that no controller uses.
* The LRU of the gate: it holds a million keys, and forgetting one lets an
  unchanged document through early, which every module of a controller allows.
* The hash that makes a document's ID; the messages and transition times of the
  conditions; the order of the queue.
