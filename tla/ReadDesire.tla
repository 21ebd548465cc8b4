----------------------------- MODULE ReadDesire -----------------------------
(***************************************************************************)
(* ReadDesires: the manager (ReadDesireInformerManagingController), which  *)
(* keeps one ReadDesireKubernetesController running per key, and these     *)
(* instances, each of which watches one object and mirrors it into the     *)
(* status of its document.                                                 *)
(*                                                                         *)
(* The manager has one worker (threadsReadManager = 1) and an instance has *)
(* one. A remote call is a step with the local code that follows it. A     *)
(* write to the status database stays in `writes` from the moment it is    *)
(* sent: Run does not wait for the worker, so a stopped instance's write   *)
(* may still land, while everything else its worker does fails, because    *)
(* its context is cancelled. The documents, the work queue, the cool-down  *)
(* gate and `fresh` are those of ApplyDesire.                              *)
(***************************************************************************)
EXTENDS WorkQueue, Integers, Sequences

CONSTANTS
  Desires,      \* document IDs of ReadDesires
  Scopes,       \* values of (spec.clusterID, spec.nodePoolName)
  Targets,      \* Kubernetes objects
  NoTarget,     \* a target item without version, resource or name
  Unlistable,   \* the targets the API server does not list for the agent
  NoDoc,        \* no document, no object, no instance
  Inexact,      \* the versions of an object with an integer above 2^53
  MaxRev,       \* bound: commits to the specs database
  MaxChanges,   \* bound: changes to the objects
  MaxRestarts   \* bound: restarts of the process

ASSUME TargetAssumption == NoTarget \notin Targets /\ Unlistable \subseteq Targets
ASSUME InexactAssumption == Inexact \subseteq Nat
ASSUME BoundAssumption == MaxRev \in Nat /\ MaxChanges \in Nat /\ MaxRestarts \in Nat

ReadDesireKey == [scope : Scopes, name : Desires]
KeyOf(d, spec) == [scope |-> spec.scope, name |-> d]

SpecDoc == [rev : Nat \ {0}, scope : Scopes, target : Targets \cup {NoTarget}]
(* The JSON of an object: it holds the object's name. The status database  *)
(* rounds its numbers to float64 (FirestoreCRUD).                          *)
Content == [target : Targets, version : Nat \ {0}, rounded : BOOLEAN]
Version(t, n) == [target |-> t, version |-> n, rounded |-> FALSE]
Image(c) == IF c = NoDoc THEN NoDoc ELSE [c EXCEPT !.rounded = c.version \in Inexact]
StatusDoc == [observed : Nat, reason : {"NoErrors", "PreCheckFailed"},
              content : Content \cup {NoDoc}]
(* A runningInstance with its controller: the object's store, the queue    *)
(* for its one key, and the locals of SyncOnce.                            *)
Instance == [target : Targets, rev : Nat \ {0},
             synced : BOOLEAN, store : Content \cup {NoDoc},
             dirty : BOOLEAN, pc : {"idle", "read", "write"},
             seen : Content \cup {NoDoc}, keep : BOOLEAN]
(* A Create or Replace on its way: by whom, for which key, over which      *)
(* existing status.                                                        *)
PendingWrite == [by : {"manager", "instance", "stopped"}, key : ReadDesireKey,
                 new : StatusDoc, existing : StatusDoc \cup {NoDoc}, fresh : BOOLEAN]
Manager == [pc : {"idle", "fetch", "read", "write"},
            key : ReadDesireKey \cup {NoDoc}, desire : SpecDoc \cup {NoDoc}]
IdleManager == [pc |-> "idle", key |-> NoDoc, desire |-> NoDoc]

ASSUME NoDocAssumption == NoDoc \notin SpecDoc \cup Content \cup Instance \cup StatusDoc
                          \cup ReadDesireKey

VARIABLES
  specs, now, cache, q, cooling, status, \* as in ApplyDesire
  objects,   \* the API server's objects
  changes,   \* changes to them so far
  manager,   \* the manager's worker
  running,   \* the manager's map of running instances
  writes,    \* writes to the status database on their way
  restarts,
  home       \* history: the key whose instance answers for each document

db == <<specs, now, home>>
intake == <<cache, q, cooling>>
api == <<objects, changes>>
vars == <<db, intake, api, manager, running, writes, status, restarts>>
-----------------------------------------------------------------------------
Init ==
  /\ specs = [d \in Desires |-> NoDoc] /\ now = 0
  /\ cache = [d \in Desires |-> NoDoc] /\ q = EmptyQueue /\ cooling = {}
  /\ \E present \in SUBSET Targets :
       objects = [t \in Targets |-> IF t \in present THEN Version(t, 1) ELSE NoDoc]
  /\ changes = 0
  /\ manager = IdleManager
  /\ running = [k \in ReadDesireKey |-> NoDoc] /\ writes = {}
  /\ status = [d \in Desires |-> NoDoc]
  /\ restarts = 0
  /\ home = [d \in Desires |-> NoDoc]

WriteSpec(d) ==
  /\ now < MaxRev /\ now' = now + 1
  /\ \E s \in Scopes, t \in Targets \cup {NoTarget} :
       LET new == [rev |-> now + 1, scope |-> s, target |-> t] IN
         specs' = [specs EXCEPT ![d] = new] /\ home' = [home EXCEPT ![d] = KeyOf(d, new)]
  /\ UNCHANGED <<intake, api, manager, running, writes, status, restarts>>

(* An informer that has not seen the document, or has seen it with another *)
(* scope only, will not tell the manager that the document's key is gone.  *)
DeleteSpec(d) ==
  /\ specs[d] # NoDoc
  /\ specs' = [specs EXCEPT ![d] = NoDoc]
  /\ home' = [home EXCEPT ![d] =
                IF cache[d] # NoDoc /\ KeyOf(d, cache[d]) = @ THEN @ ELSE NoDoc]
  /\ UNCHANGED <<now, intake, api, manager, running, writes, status, restarts>>

ChangeObject(t) ==
  /\ changes < MaxChanges /\ changes' = changes + 1
  /\ \/ objects' = [objects EXCEPT ![t] = Version(t, changes + 2)]
     \/ objects[t] # NoDoc /\ objects' = [objects EXCEPT ![t] = NoDoc]
  /\ UNCHANGED <<db, intake, manager, running, writes, status, restarts>>

-----------------------------------------------------------------------------
(* The informer of the documents, and the manager's event handlers.        *)

(* Mutant: a gate that never opens again.                                  *)
CanSyncNever(k) == FALSE
CanSync(k) == k \notin cooling

enqueue(d, spec) == q' = QAdd(q, KeyOf(d, spec)) /\ UNCHANGED cooling

handleUpdate(d, old, new) ==
  LET k == KeyOf(d, new) IN
    \/ old.rev # new.rev /\ enqueue(d, new)
    \/ old.rev = new.rev /\ CanSync(k) /\ q' = QAdd(q, k) /\ cooling' = cooling \cup {k}
    \/ old.rev = new.rev /\ ~CanSync(k) /\ UNCHANGED <<q, cooling>>

handleDelete(d, old) == enqueue(d, old)

Deliver(d) ==
  /\ cache[d] # specs[d]
  /\ cache' = [cache EXCEPT ![d] = specs[d]]
  /\ \/ specs[d] = NoDoc /\ handleDelete(d, cache[d])
     \/ specs[d] # NoDoc /\ cache[d] = NoDoc /\ enqueue(d, specs[d])
     \/ specs[d] # NoDoc /\ cache[d] # NoDoc /\ handleUpdate(d, cache[d], specs[d])
  /\ UNCHANGED <<db, api, manager, running, writes, status, restarts>>

Resync(d) ==
  /\ cache[d] # NoDoc
  /\ handleUpdate(d, cache[d], cache[d])
  /\ UNCHANGED <<db, cache, api, manager, running, writes, status, restarts>>

CooldownElapses(k) ==
  /\ k \in cooling /\ cooling' = cooling \ {k}
  /\ UNCHANGED <<db, cache, q, api, manager, running, writes, status, restarts>>

RetryDue(k) ==
  /\ k \in q.delayed /\ q' = QBackoffElapsed(q, k)
  /\ UNCHANGED <<db, cache, cooling, api, manager, running, writes, status, restarts>>

-----------------------------------------------------------------------------
(* The manager's worker.                                                   *)

ManagerAt(label) == manager.pc = label
Finished(r) ==
  /\ q' = QDone(IF r = "err" THEN QAddRateLimited(q, manager.key)
                             ELSE QForget(q, manager.key), manager.key)
  /\ manager' = IdleManager

Get(k) ==
  /\ ManagerAt("idle") /\ k \in q.queue
  /\ q' = QGet(q, k)
  /\ manager' = [manager EXCEPT !.pc = "fetch", !.key = k]
  /\ UNCHANGED <<db, cache, cooling, api, running, writes, status, restarts>>

FetchSpecFails ==
  /\ ManagerAt("fetch")
  /\ Finished("err")
  /\ UNCHANGED <<db, cache, cooling, api, running, writes, status, restarts>>

(* Mutant: the instance is not told the revision.                          *)
NewInstanceUntold(desire) ==
  [target |-> desire.target, rev |-> 0, synced |-> FALSE, store |-> NoDoc,
   dirty |-> FALSE, pc |-> "idle", seen |-> NoDoc, keep |-> FALSE]
NewInstance(desire) ==
  [target |-> desire.target, rev |-> desire.rev, synced |-> FALSE, store |-> NoDoc,
   dirty |-> FALSE, pc |-> "idle", seen |-> NoDoc, keep |-> FALSE]

(* Stopping an instance abandons what its worker has sent.                 *)
PendingBy(by, k) == {wr \in writes : wr.by = by /\ wr.key = k}
Abandoned(wrs) == (writes \ wrs) \cup {[wr EXCEPT !.by = "stopped"] : wr \in wrs}
Run(k, instance) ==
  /\ running' = [running EXCEPT ![k] = instance]
  /\ writes' = Abandoned(PendingBy("instance", k))

(* Mutant: a running instance is never replaced.                           *)
AnyTarget(k) == running[k] # NoDoc
SameTarget(k) == running[k] # NoDoc /\ running[k].target = specs[k.name].target

(* The document is fetched, and the instance of the key brought into line  *)
(* with it. Not found is no error: the instance must be stopped.           *)
Fetched == specs[manager.key.name]

(* Mutant: the document is gone, and that is all.                          *)
LeaveDeleted ==
  /\ ManagerAt("fetch") /\ Fetched = NoDoc
  /\ Finished("nil")
  /\ UNCHANGED <<db, cache, cooling, api, running, writes, status, restarts>>
StopDeleted ==
  /\ ManagerAt("fetch") /\ Fetched = NoDoc
  /\ Run(manager.key, NoDoc)
  /\ Finished("nil")
  /\ UNCHANGED <<db, cache, cooling, api, status, restarts>>

KeepRunning ==
  /\ ManagerAt("fetch") /\ Fetched # NoDoc /\ SameTarget(manager.key)
  /\ Finished("nil")
  /\ UNCHANGED <<db, cache, cooling, api, running, writes, status, restarts>>

Start ==
  /\ ManagerAt("fetch") /\ Fetched # NoDoc /\ ~SameTarget(manager.key)
  /\ Fetched.target # NoTarget
  /\ Run(manager.key, NewInstance(Fetched))
  /\ Finished("nil")
  /\ UNCHANGED <<db, cache, cooling, api, status, restarts>>

(* Build refuses the target: the old instance is gone, and the manager     *)
(* reports.                                                                *)
RefuseTarget ==
  /\ ManagerAt("fetch") /\ Fetched # NoDoc /\ ~SameTarget(manager.key)
  /\ Fetched.target = NoTarget
  /\ Run(manager.key, NoDoc)
  /\ manager' = [manager EXCEPT !.pc = "read", !.desire = Fetched]
  /\ UNCHANGED <<db, intake, api, status, restarts>>

(* UpdateStatus: the fetch, the mutation of what was fetched, and the      *)
(* write, unless nothing changed.                                          *)
Send(by, k, new) ==
  writes' = writes \cup {[by |-> by, key |-> k, new |-> new,
                          existing |-> status[k.name], fresh |-> TRUE]}

Refusal ==
  LET d == manager.key.name IN
    [observed |-> manager.desire.rev, reason |-> "PreCheckFailed",
     content |-> IF status[d] = NoDoc THEN NoDoc ELSE status[d].content]

ManagerReadStatus ==
  /\ ManagerAt("read")
  /\ \/ /\ status[manager.key.name] = Refusal
        /\ Finished("nil") /\ UNCHANGED writes
     \/ /\ status[manager.key.name] # Refusal
        /\ Send("manager", manager.key, Refusal)
        /\ manager' = [manager EXCEPT !.pc = "write"] /\ UNCHANGED q
  /\ UNCHANGED <<db, cache, cooling, api, running, status, restarts>>

ManagerReadFails ==
  /\ ManagerAt("read")
  /\ Finished("err")
  /\ UNCHANGED <<db, cache, cooling, api, running, writes, status, restarts>>

-----------------------------------------------------------------------------
(* A running instance of key k: the informer of its object.                *)

Running(k) == running[k] # NoDoc
Update(k, instance) == running' = [running EXCEPT ![k] = instance]
InstanceStep == UNCHANGED <<db, intake, api, manager, status, restarts>>

(* Until the first list succeeds, Run waits, and nothing else happens.     *)
Sync(k) ==
  /\ Running(k) /\ ~running[k].synced /\ running[k].target \notin Unlistable
  /\ Update(k, [running[k] EXCEPT !.synced = TRUE, !.dirty = TRUE,
                                  !.store = objects[running[k].target]])
  /\ InstanceStep /\ UNCHANGED writes

Observe(k) ==
  /\ Running(k) /\ running[k].synced /\ running[k].store # objects[running[k].target]
  /\ Update(k, [running[k] EXCEPT !.store = objects[running[k].target], !.dirty = TRUE])
  /\ InstanceStep /\ UNCHANGED writes

(* The ticker, the informer's resync, or the end of a back-off: any of     *)
(* them may come at any time, so a failed sync needs no state of its own.  *)
Tick(k) ==
  /\ Running(k) /\ running[k].synced
  /\ Update(k, [running[k] EXCEPT !.dirty = TRUE])
  /\ InstanceStep /\ UNCHANGED writes

-----------------------------------------------------------------------------
(* The worker of an instance: processNext and SyncOnce.                    *)

At(k, label) == Running(k) /\ running[k].pc = label
ContentOf(d) == IF status[d] = NoDoc THEN NoDoc ELSE status[d].content
(* SyncOnce returns, and processNext goes on.                              *)
Returned(k) == [running[k] EXCEPT !.pc = "idle", !.seen = NoDoc, !.keep = FALSE]

(* Mutant: an object that is gone is taken for one that has not changed.   *)
KeepIfGone(seen, content) == seen = NoDoc \/ seen = content
Keep(seen, content) == seen = content

(* The key is taken, the status fetched, the object read from the store,   *)
(* and the two contents are compared.                                      *)
InstanceFetch(k) ==
  /\ At(k, "idle") /\ running[k].dirty
  /\ Update(k, [running[k] EXCEPT !.pc = "read", !.dirty = FALSE, !.seen = running[k].store,
                                  !.keep = Keep(running[k].store, ContentOf(k.name))])
  /\ InstanceStep /\ UNCHANGED writes

NewStatus(k) ==
  [observed |-> running[k].rev, reason |-> "NoErrors",
   content |-> IF running[k].keep THEN ContentOf(k.name) ELSE running[k].seen]

InstanceReadStatus(k) ==
  /\ At(k, "read")
  /\ \/ /\ status[k.name] = NewStatus(k)
        /\ Update(k, Returned(k)) /\ UNCHANGED writes
     \/ /\ status[k.name] # NewStatus(k)
        /\ Update(k, [running[k] EXCEPT !.pc = "write"])
        /\ Send("instance", k, NewStatus(k))
  /\ InstanceStep

InstanceFails(k) ==
  /\ (At(k, "idle") /\ running[k].dirty) \/ At(k, "read")
  /\ Update(k, [Returned(k) EXCEPT !.dirty = @ /\ At(k, "read")])
  /\ InstanceStep /\ UNCHANGED writes

-----------------------------------------------------------------------------
(* The status database, and what its answer r does to the writer.          *)

Answer(wr, r) ==
  \/ wr.by = "manager" /\ Finished(r) /\ UNCHANGED running
  \/ wr.by = "instance" /\ Update(wr.key, Returned(wr.key)) /\ UNCHANGED <<q, manager>>
  \/ wr.by = "stopped" /\ UNCHANGED <<q, manager, running>>

(* Mutant: Replace without the LastUpdateTime precondition.                *)
AcceptedBlindly(wr) == wr.existing = NoDoc <=> status[wr.key.name] = NoDoc
Accepted(wr) == IF wr.existing = NoDoc THEN status[wr.key.name] = NoDoc ELSE wr.fresh

Persisted(new) == [new EXCEPT !.content = Image(@)]

(* The write takes effect, and its answer may be lost. Whoever else has    *)
(* read this status holds an old UpdateTime.                               *)
WriteLands(wr) ==
  /\ Accepted(wr)
  /\ status' = [status EXCEPT ![wr.key.name] = Persisted(wr.new)]
  /\ writes' = {IF v.key.name = wr.key.name THEN [v EXCEPT !.fresh = FALSE] ELSE v : v \in writes \ {wr}}
  /\ \E r \in {"nil", "err"} : Answer(wr, r)
  /\ UNCHANGED <<db, cache, cooling, api, restarts>>

(* FailedPrecondition of Replace is nil to the caller; AlreadyExists of    *)
(* Create is an error.                                                     *)
WriteRefused(wr) ==
  /\ ~Accepted(wr)
  /\ writes' = writes \ {wr}
  /\ Answer(wr, IF wr.existing = NoDoc THEN "err" ELSE "nil")
  /\ UNCHANGED <<db, cache, cooling, api, status, restarts>>

WriteFails(wr) ==
  /\ writes' = writes \ {wr}
  /\ Answer(wr, "err")
  /\ UNCHANGED <<db, cache, cooling, api, status, restarts>>

(* The process stops (stopAll) and starts again.                           *)
Restart ==
  /\ restarts < MaxRestarts /\ restarts' = restarts + 1
  /\ cache' = [d \in Desires |-> NoDoc] /\ q' = EmptyQueue /\ cooling' = {}
  /\ manager' = IdleManager
  /\ running' = [k \in ReadDesireKey |-> NoDoc]
  /\ writes' = Abandoned(writes)
  /\ UNCHANGED <<db, api, status>>

-----------------------------------------------------------------------------
ManagerSync ==
  \/ FetchSpecFails \/ StopDeleted \/ KeepRunning \/ Start \/ RefuseTarget
  \/ ManagerReadStatus \/ ManagerReadFails

InstanceSync(k) == InstanceFetch(k) \/ InstanceReadStatus(k) \/ InstanceFails(k)

Next ==
  \/ \E d \in Desires : WriteSpec(d) \/ DeleteSpec(d) \/ Deliver(d) \/ Resync(d)
  \/ \E t \in Targets : ChangeObject(t)
  \/ \E k \in ReadDesireKey : CooldownElapses(k) \/ RetryDue(k) \/ Get(k)
  \/ ManagerSync
  \/ \E k \in ReadDesireKey : Sync(k) \/ Observe(k) \/ Tick(k) \/ InstanceSync(k)
  \/ \E wr \in writes : WriteLands(wr) \/ WriteRefused(wr) \/ WriteFails(wr)
  \/ Restart

Spec == Init /\ [][Next]_vars

-----------------------------------------------------------------------------
(* Fairness: goroutines, timers and watches run; a call repeated for ever  *)
(* succeeds in the end; a call that was sent is answered.                  *)
FairSpec ==
  /\ Spec
  /\ \A d \in Desires : WF_vars(Deliver(d)) /\ WF_vars(Resync(d))
  /\ \A k \in ReadDesireKey :
       /\ WF_vars(CooldownElapses(k))
       /\ WF_vars(RetryDue(k)) /\ SF_vars(Get(k))
       /\ WF_vars(Sync(k)) /\ WF_vars(Observe(k)) /\ WF_vars(Tick(k))
       /\ WF_vars(InstanceSync(k))
       /\ SF_vars(InstanceFetch(k)) /\ SF_vars(InstanceReadStatus(k))
       /\ \A by \in {"instance", "manager"} : SF_vars(\E wr \in PendingBy(by, k) : WriteLands(wr))
  /\ WF_vars(ManagerSync) /\ SF_vars(StopDeleted \/ KeepRunning \/ Start \/ RefuseTarget) /\ SF_vars(ManagerReadStatus)
  /\ WF_vars(\E wr \in writes : WriteLands(wr) \/ WriteRefused(wr) \/ WriteFails(wr))

-----------------------------------------------------------------------------
TypeOK ==
  /\ specs \in [Desires -> SpecDoc \cup {NoDoc}] /\ now \in Nat
  /\ cache \in [Desires -> SpecDoc \cup {NoDoc}]
  /\ q \in QueueType(ReadDesireKey) /\ cooling \subseteq ReadDesireKey
  /\ objects \in [Targets -> Content \cup {NoDoc}] /\ changes \in Nat
  /\ manager \in Manager
  /\ running \in [ReadDesireKey -> Instance \cup {NoDoc}]
  /\ writes \subseteq PendingWrite
  /\ status \in [Desires -> StatusDoc \cup {NoDoc}]
  /\ restarts \in Nat /\ home \in [Desires -> ReadDesireKey \cup {NoDoc}]

Readable(d) == specs[d] # NoDoc /\ specs[d].target # NoTarget
Watches(instance, t) == instance # NoDoc /\ instance.target = t

(* README, ReadDesireInformerManagingController: one watch per document,   *)
(* replaced when the target changes and stopped when the document goes.    *)
(* Once the informer has caught up and the manager is done with the key of *)
(* a document, that key's instance watches the object that the document    *)
(* names; there is none if it names no object, or if it has been deleted.  *)
(* Two instances the code leaves behind are out of the property: one under *)
(* the key of a scope that the document has left, and one for a document   *)
(* that was deleted before the informer had seen it under its last key     *)
(* (no event tells the manager that this key is gone, and home has none).  *)
IdleMeansWatched ==
  \A d \in Desires :
    (home[d] # NoDoc /\ cache[d] = specs[d] /\ QIdle(q, home[d])) =>
       IF Readable(d) THEN Watches(running[home[d]], specs[d].target)
       ELSE running[home[d]] = NoDoc

(* An instance replaces no status that it has not read.                    *)
NoBlindOverwrite ==
  [][\A d \in Desires : status'[d] # status[d] =>
       \E wr \in writes : wr.key.name = d /\ wr.existing = status[d] /\ Persisted(wr.new) = status'[d]]_vars

(* Whatever was stopped, lost or refused on the way, the status ends up    *)
(* with the content of the object, or with none if the object is gone, and *)
(* so it does if that content never equals what was stored of it, so that  *)
(* every pass writes it again.                                             *)
Mirrored(d) ==
  /\ status[d] # NoDoc /\ status[d].reason = "NoErrors"
  /\ status[d].content = Image(objects[specs[d].target])
MirrorsObject ==
  \A d \in Desires : <>[](Readable(d) => Mirrored(d))

(* A target item that Build refuses is reported in the end. The report may *)
(* lose a race with a stopped instance's last write, and the writer drops  *)
(* it silently: only the resync through the cool-down gate repeats it.     *)
RefusalReported ==
  \A d \in Desires :
    <>[](specs[d] # NoDoc /\ ~Readable(d) =>
           /\ status[d] # NoDoc /\ status[d].reason = "PreCheckFailed"
           /\ status[d].observed = specs[d].rev)

(* README, "Status reporting": the status ends up with the UpdateTime of   *)
(* the document's last revision.                                           *)
Converges ==
  \A d \in Desires :
    <>[](Readable(d) => status[d] # NoDoc /\ status[d].observed = specs[d].rev)

(* README, "Conditions": a list that fails is reported.                    *)
Reported == \A d \in Desires : <>[](Readable(d) => status[d] # NoDoc)
=============================================================================
