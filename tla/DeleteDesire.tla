---------------------------- MODULE DeleteDesire ----------------------------
(***************************************************************************)
(* The DeleteDesire controller of kube-applier: it deletes the object that *)
(* a DeleteDesire document names and reports WaitingForDeletion until the  *)
(* object has disappeared.                                                 *)
(*                                                                         *)
(* The actors, the steps and the abstractions are those of ApplyDesire. A  *)
(* document keeps its scope here, so its ID is its key and no two workers  *)
(* write one status (ApplyDesire is checked without that restriction): a   *)
(* Replace fails its precondition if a call that outlived its process has  *)
(* come first. Of those calls, `late` holds the writes; a late delete is   *)
(* one of the deletions of other users. What is new is the                 *)
(* object: it has a UID, it may be held by finalizers or a grace period    *)
(* after it was deleted, and other users create it again under its name.   *)
(***************************************************************************)
EXTENDS WorkQueue, Integers

CONSTANTS
  Desires,      \* document IDs of DeleteDesires, their keys too
  Targets,      \* names of Kubernetes objects
  TargetOf,     \* the object each document names
  NoDoc,        \* no document, no object
  ApiErrors,    \* the failures of a call without effect: client, server
  Workers,      \* goroutines running runWorker
  MaxRev,       \* bound: commits to the specs database
  MaxUID,       \* bound: objects created
  MaxRestarts   \* bound: restarts of the process

ASSUME TargetAssumption == TargetOf \in [Desires -> Targets]
ASSUME ErrorAssumption == ApiErrors \subseteq {"client", "server"}
ASSUME BoundAssumption == MaxRev \in Nat /\ MaxUID \in Nat /\ MaxRestarts \in Nat

(* wellFormed: spec.targetItem has its version, resource and name.         *)
SpecDoc == [rev : Nat \ {0}, wellFormed : BOOLEAN]
Object == [uid : Nat \ {0}, held : BOOLEAN, deleting : BOOLEAN]
(* What evaluate tells the mutation to report. stamp is the source of the  *)
(* deletion timestamp in the message: the object, or the agent's clock.    *)
Reasons == {"NoErrors", "WaitingForDeletion", "PreCheckFailed", "KubeAPIError"}
Verdict == [reason : Reasons, uid : Nat, stamp : {"none", "object", "clock"},
            degraded : BOOLEAN]
StatusDoc == [observed : Nat \ {0}, verdict : Verdict]

ASSUME NoDocAssumption == NoDoc \notin SpecDoc \cup Object \cup StatusDoc \cup Desires

VARIABLES
  specs, now, cache, q, cooling, status, pc, restarts, \* as in ApplyDesire
  objects,   \* the API server's objects
  uids,      \* UIDs given out so far
  job,       \* the locals of each worker's processNext and SyncOnce
  late,      \* status writes of stopped processes that may still land
  usurped,   \* history: documents whose status a late Replace wrote last
  absent     \* history: the commit at which each object was last absent

db == <<specs, now>>
intake == <<cache, q, cooling>>
api == <<objects, uids>>
worker == <<pc, job>>
aside == <<late, usurped, restarts>>
vars == <<db, intake, api, status, worker, late, usurped, restarts, absent>>

NoErrors == [reason |-> "NoErrors", uid |-> 0, stamp |-> "none", degraded |-> FALSE]
Job == [key : Desires \cup {NoDoc}, desire : SpecDoc \cup {NoDoc}, verdict : Verdict,
        exists : BOOLEAN, fresh : BOOLEAN, result : {"nil", "err"}]
IdleJob == [key |-> NoDoc, desire |-> NoDoc, verdict |-> NoErrors,
            exists |-> FALSE, fresh |-> FALSE, result |-> "nil"]
LateWrites == [doc : Desires, new : StatusDoc]

At(w, label) == pc[w] = label
Doc(w) == job[w].key
Target(w) == TargetOf[Doc(w)]
-----------------------------------------------------------------------------
Init ==
  /\ specs = [d \in Desires |-> NoDoc] /\ now = 0
  /\ cache = [d \in Desires |-> NoDoc] /\ q = EmptyQueue /\ cooling = {}
  /\ objects = [t \in Targets |-> NoDoc] /\ uids = 0
  /\ status = [d \in Desires |-> NoDoc]
  /\ pc = [w \in Workers |-> "idle"] /\ job = [w \in Workers |-> IdleJob]
  /\ late = {} /\ usurped = {} /\ restarts = 0
  /\ absent = [t \in Targets |-> 0]

-----------------------------------------------------------------------------
(* The backend.                                                            *)

WriteSpec(d) ==
  /\ now < MaxRev /\ now' = now + 1
  /\ \E ok \in BOOLEAN : specs' = [specs EXCEPT ![d] = [rev |-> now + 1, wellFormed |-> ok]]
  /\ UNCHANGED <<intake, api, status, worker, aside>>

DeleteSpec(d) ==
  /\ specs[d] # NoDoc
  /\ specs' = [specs EXCEPT ![d] = NoDoc]
  /\ UNCHANGED <<now, intake, api, status, worker, aside>>

-----------------------------------------------------------------------------
(* The cluster: other users create and delete the object (another document *)
(* that names it is one of them), finalizers complete.                     *)

(* A deletion removes an object that nothing holds, and gives one that is  *)
(* held a deletion timestamp.                                              *)
Deleted(obj) == IF obj.held THEN [obj EXCEPT !.deleting = TRUE] ELSE NoDoc

Create(t) ==
  /\ objects[t] = NoDoc /\ uids < MaxUID /\ uids' = uids + 1
  /\ \E h \in BOOLEAN :
       objects' = [objects EXCEPT ![t] = [uid |-> uids + 1, held |-> h, deleting |-> FALSE]]
  /\ UNCHANGED <<db, intake, status, worker, aside>>

OthersDelete(t) ==
  /\ objects[t] # NoDoc
  /\ objects' = [objects EXCEPT ![t] = Deleted(objects[t])]
  /\ UNCHANGED <<db, intake, uids, status, worker, aside>>

(* A deleted object goes once nothing holds it.                            *)
Release(t) ==
  /\ objects[t] # NoDoc /\ objects[t].held
  /\ objects' = [objects EXCEPT ![t] =
       IF objects[t].deleting THEN NoDoc ELSE [objects[t] EXCEPT !.held = FALSE]]
  /\ UNCHANGED <<db, intake, uids, status, worker, aside>>

-----------------------------------------------------------------------------
(* The informer and the event handlers.                                    *)

(* Mutant: a gate that never opens again.                                  *)
CanSyncNever(d) == FALSE

Changed(old, new) == old.rev # new.rev
CanSync(d) == d \notin cooling

enqueue(d) == q' = QAdd(q, d)
handleUpdate(d, old, new) ==
  \/ Changed(old, new) /\ enqueue(d) /\ UNCHANGED cooling
  \/ ~Changed(old, new) /\ CanSync(d) /\ enqueue(d) /\ cooling' = cooling \cup {d}
  \/ ~Changed(old, new) /\ ~CanSync(d) /\ UNCHANGED <<q, cooling>>

Deliver(d) ==
  /\ cache[d] # specs[d]
  /\ cache' = [cache EXCEPT ![d] = specs[d]]
  /\ \/ specs[d] = NoDoc /\ UNCHANGED <<q, cooling>>
     \/ specs[d] # NoDoc /\ cache[d] = NoDoc /\ enqueue(d) /\ UNCHANGED cooling
     \/ specs[d] # NoDoc /\ cache[d] # NoDoc /\ handleUpdate(d, cache[d], specs[d])
  /\ UNCHANGED <<db, api, status, worker, aside>>

Resync(d) ==
  /\ cache[d] # NoDoc
  /\ handleUpdate(d, cache[d], cache[d])
  /\ UNCHANGED <<db, cache, api, status, worker, aside>>

CooldownElapses(d) ==
  /\ d \in cooling
  /\ cooling' = cooling \ {d}
  /\ UNCHANGED <<db, cache, q, api, status, worker, aside>>

RetryDue(d) ==
  /\ d \in q.delayed
  /\ q' = QBackoffElapsed(q, d)
  /\ UNCHANGED <<db, cache, cooling, api, status, worker, aside>>

-----------------------------------------------------------------------------
(* A worker: processNext takes a key; SyncOnce reads the spec.             *)

(* Mutant: Done is not deferred but called at once.                        *)
TakeAndRelease(d) == QDone(QGet(q, d), d)
Take(d) == QGet(q, d)

Get(w, d) ==
  /\ At(w, "idle") /\ d \in q.queue
  /\ q' = Take(d)
  /\ pc' = [pc EXCEPT ![w] = "fetch"]
  /\ job' = [job EXCEPT ![w] = [IdleJob EXCEPT !.key = d]]
  /\ UNCHANGED <<db, cache, cooling, api, status, aside>>

Goto(w, label, j) == pc' = [pc EXCEPT ![w] = label] /\ job' = [job EXCEPT ![w] = j]
Return(w, r) == Goto(w, "finish", [IdleJob EXCEPT !.key = job[w].key, !.result = r])

FetchSpec(w) ==
  /\ At(w, "fetch") /\ specs[Doc(w)] # NoDoc
  /\ Goto(w, "evaluate", [job[w] EXCEPT !.desire = specs[Doc(w)]])
  /\ UNCHANGED <<db, intake, api, status, aside>>

SpecNotFound(w) ==
  /\ At(w, "fetch") /\ specs[Doc(w)] = NoDoc
  /\ Return(w, "nil")
  /\ UNCHANGED <<db, intake, api, status, aside>>

FetchSpecFails(w) ==
  /\ At(w, "fetch")
  /\ Return(w, "err")
  /\ UNCHANGED <<db, intake, api, status, aside>>

-----------------------------------------------------------------------------
(* evaluate: a get, a delete and another get of the target.                *)

WaitingFor(obj) == [reason |-> "WaitingForDeletion", uid |-> obj.uid, degraded |-> FALSE,
                    stamp |-> IF obj.deleting THEN "object" ELSE "clock"]
Failure(reason, e) == [reason |-> reason, uid |-> 0, stamp |-> "none", degraded |-> e = "server"]

Decide(w, v) == Goto(w, "read", [job[w] EXCEPT !.verdict = v])
Continue(w, label) == Goto(w, label, job[w])

(* Mutant: an object that exists is taken to be on its way out.            *)
AnyObject(obj) == TRUE
Terminating(obj) == obj.deleting

PreCheckFails(w) ==
  /\ At(w, "evaluate") /\ ~job[w].desire.wellFormed
  /\ Decide(w, Failure("PreCheckFailed", "client"))
  /\ UNCHANGED <<db, intake, api, status, aside>>

GetTarget(w) ==
  /\ At(w, "evaluate") /\ job[w].desire.wellFormed
  /\ LET obj == objects[Target(w)] IN
       \/ obj = NoDoc /\ Decide(w, NoErrors)
       \/ obj # NoDoc /\ Terminating(obj) /\ Decide(w, WaitingFor(obj))
       \/ obj # NoDoc /\ ~Terminating(obj) /\ Continue(w, "delete")
  /\ UNCHANGED <<db, intake, api, status, aside>>

(* Delete by name, whatever object has the name by now.                    *)
DeleteEffect(w) ==
  /\ objects[Target(w)] # NoDoc
  /\ objects' = [objects EXCEPT ![Target(w)] = Deleted(objects[Target(w)])]

(* Mutant: a delete that was accepted is taken for a deletion.             *)
DeletedAtOnce(w) == Decide(w, NoErrors)
AfterDelete(w) == Continue(w, "postGet")

DeleteTarget(w) ==
  /\ At(w, "delete") /\ DeleteEffect(w)
  /\ AfterDelete(w)
  /\ UNCHANGED <<db, intake, uids, status, aside>>

DeleteNotFound(w) ==
  /\ At(w, "delete") /\ objects[Target(w)] = NoDoc
  /\ Decide(w, NoErrors)
  /\ UNCHANGED <<db, intake, api, status, aside>>

(* The delete took effect and its reply was lost.                          *)
DeleteReplyLost(w) ==
  /\ At(w, "delete") /\ DeleteEffect(w)
  /\ Decide(w, Failure("KubeAPIError", "server"))
  /\ UNCHANGED <<db, intake, uids, status, aside>>

(* An object without deletion timestamp is reported with the clock's time. *)
PostGet(w) ==
  /\ At(w, "postGet")
  /\ LET obj == objects[Target(w)] IN
       Decide(w, IF obj = NoDoc THEN NoErrors ELSE WaitingFor(obj))
  /\ UNCHANGED <<db, intake, api, status, aside>>

(* One of the three calls fails without effect.                            *)
CallFails(w) ==
  /\ \/ At(w, "evaluate") /\ job[w].desire.wellFormed
     \/ At(w, "delete")
     \/ At(w, "postGet")
  /\ \E e \in ApiErrors : Decide(w, Failure("KubeAPIError", e))
  /\ UNCHANGED <<db, intake, api, status, aside>>

-----------------------------------------------------------------------------
(* UpdateStatus of the status writer, with the mutation SyncOnce gives it. *)

(* Mutant: only a call to the API server sets the observed revision.       *)
NewStatusIfCalled(j) ==
  [observed |-> IF j.verdict.reason = "PreCheckFailed" THEN 0 ELSE j.desire.rev,
   verdict |-> j.verdict]
NewStatus(j) == [observed |-> j.desire.rev, verdict |-> j.verdict]

SyncErr(v) == v.reason \in {"PreCheckFailed", "KubeAPIError"}
(* Mutant: SyncOnce returns the error of the status writer only.           *)
StatusErrOnly(v, r) == r
Join(v, r) == IF SyncErr(v) THEN "err" ELSE r

(* An equal status is not written. A message that holds the clock's time   *)
(* is never equal.                                                         *)
SameStatus(w) == status[Doc(w)] = NewStatus(job[w]) /\ job[w].verdict.stamp # "clock"

ReadStatus(w) ==
  /\ At(w, "read")
  /\ \/ SameStatus(w) /\ Return(w, Join(job[w].verdict, "nil"))
     \/ ~SameStatus(w) /\ Goto(w, "write", [job[w] EXCEPT !.exists = status[Doc(w)] # NoDoc,
                                                        !.fresh = TRUE])
  /\ UNCHANGED <<db, intake, api, status, aside>>

(* The precondition of Create or Replace.                                  *)
Accepted(w) == IF job[w].exists THEN job[w].fresh ELSE status[Doc(w)] = NoDoc

(* Create or Replace; the reply may be lost. A late write, if any, is now  *)
(* out of date and can only fail, unheard.                                 *)
Overtaken(d) == {c \in late : c.doc = d}

WriteStatus(w) ==
  /\ At(w, "write") /\ Accepted(w)
  /\ status' = [status EXCEPT ![Doc(w)] = NewStatus(job[w])]
  /\ late' = late \ Overtaken(Doc(w)) /\ usurped' = usurped \ {Doc(w)}
  /\ \E r \in {"nil", "err"} : Return(w, Join(job[w].verdict, r))
  /\ UNCHANGED <<db, intake, api, restarts>>

(* Mutant: an AlreadyExists of Create is taken for a conflict as well.     *)
LostRaceOrCreate(w) == ~Accepted(w)
LostRace(w) == job[w].exists /\ ~job[w].fresh

(* FailedPrecondition: the writer returns nil.                             *)
WriteConflicts(w) ==
  /\ At(w, "write") /\ LostRace(w)
  /\ Return(w, Join(job[w].verdict, "nil"))
  /\ UNCHANGED <<db, intake, api, status, aside>>

(* AlreadyExists of Create, or a call that failed without effect.          *)
StatusFails(w) ==
  /\ At(w, "read") \/ At(w, "write")
  /\ Return(w, "err")
  /\ UNCHANGED <<db, intake, api, status, aside>>

Finish(w) ==
  /\ At(w, "finish")
  /\ LET d == job[w].key IN
       q' = QDone(IF job[w].result = "err" THEN QAddRateLimited(q, d) ELSE QForget(q, d), d)
  /\ Goto(w, "idle", IdleJob)
  /\ UNCHANGED <<db, cache, cooling, api, status, aside>>

(* The process stops, or gives its lease away, and the next one starts.    *)
(* The writes that were on their way, and would be accepted, may yet land. *)
Restart ==
  /\ restarts < MaxRestarts /\ restarts' = restarts + 1
  /\ cache' = [d \in Desires |-> NoDoc] /\ q' = EmptyQueue /\ cooling' = {}
  /\ late' = late \cup {[doc |-> Doc(w), new |-> NewStatus(job[w])] :
                         w \in {v \in Workers : At(v, "write") /\ Accepted(v)}}
  /\ pc' = [w \in Workers |-> "idle"] /\ job' = [w \in Workers |-> IdleJob]
  /\ UNCHANGED <<db, api, status, usurped>>

LateWrite(c) ==
  /\ status' = [status EXCEPT ![c.doc] = c.new]
  /\ late' = late \ Overtaken(c.doc)
  /\ usurped' = IF status[c.doc] = NoDoc THEN usurped ELSE usurped \cup {c.doc}
  /\ job' = [w \in Workers |-> IF pc[w] = "write" /\ Doc(w) = c.doc
                             THEN [job[w] EXCEPT !.fresh = FALSE] ELSE job[w]]
  /\ UNCHANGED <<db, intake, api, pc, restarts>>

-----------------------------------------------------------------------------
evaluate(w) ==
  \/ PreCheckFails(w) \/ GetTarget(w)
  \/ DeleteTarget(w) \/ DeleteNotFound(w) \/ DeleteReplyLost(w)
  \/ PostGet(w) \/ CallFails(w)

SyncOnce(w) ==
  \/ FetchSpec(w) \/ SpecNotFound(w) \/ FetchSpecFails(w)
  \/ evaluate(w)
  \/ ReadStatus(w) \/ WriteStatus(w) \/ WriteConflicts(w) \/ StatusFails(w)

Step ==
  \/ \E d \in Desires : WriteSpec(d) \/ DeleteSpec(d) \/ Deliver(d) \/ Resync(d)
                          \/ CooldownElapses(d) \/ RetryDue(d)
  \/ \E t \in Targets : Create(t) \/ OthersDelete(t) \/ Release(t)
  \/ \E w \in Workers : (\E d \in Desires : Get(w, d)) \/ SyncOnce(w) \/ Finish(w)
  \/ Restart \/ \E c \in late : LateWrite(c)

Observe == absent' = [t \in Targets |-> IF objects'[t] = NoDoc THEN now' ELSE absent[t]]

Next == Step /\ Observe

Spec == Init /\ [][Next]_vars

-----------------------------------------------------------------------------
(* Fairness, as in ApplyDesire: timers, the watch and goroutines run; the  *)
(* queue serves every key; a call repeated for ever succeeds in the end.   *)
Calling(d, label) == {w \in Workers : At(w, label) /\ Doc(w) = d}
Reporting(d, label) == {w \in Calling(d, label) : ~SyncErr(job[w].verdict)}

CallFairness(d) ==
  /\ SF_vars((\E w \in Calling(d, "fetch") : FetchSpec(w)) /\ Observe)
  /\ SF_vars((\E w \in Calling(d, "evaluate") : GetTarget(w)) /\ Observe)
  /\ SF_vars((\E w \in Calling(d, "delete") : DeleteTarget(w) \/ DeleteNotFound(w)) /\ Observe)
  /\ SF_vars((\E w \in Calling(d, "postGet") : PostGet(w)) /\ Observe)
  /\ SF_vars((\E w \in Reporting(d, "read") : ReadStatus(w)) /\ Observe)
  /\ SF_vars((\E w \in Reporting(d, "write") : WriteStatus(w)) /\ Observe)

FairSpec ==
  /\ Spec
  /\ \A d \in Desires :
       /\ WF_vars(Deliver(d) /\ Observe) /\ WF_vars(RetryDue(d) /\ Observe)
       /\ WF_vars(Resync(d) /\ Observe) /\ WF_vars(CooldownElapses(d) /\ Observe)
       /\ SF_vars((\E w \in Workers : Get(w, d)) /\ Observe)
       /\ CallFairness(d)
  /\ \A w \in Workers : WF_vars((SyncOnce(w) \/ Finish(w)) /\ Observe)

(* What holds a deleted object lets go of it: nothing the agent can do.    *)
FinalizersComplete == \A t \in Targets : WF_vars(Release(t) /\ Observe)

-----------------------------------------------------------------------------
TypeOK ==
  /\ specs \in [Desires -> SpecDoc \cup {NoDoc}] /\ now \in Nat
  /\ cache \in [Desires -> SpecDoc \cup {NoDoc}]
  /\ q \in QueueType(Desires) /\ cooling \subseteq Desires
  /\ objects \in [Targets -> Object \cup {NoDoc}] /\ uids \in Nat
  /\ status \in [Desires -> StatusDoc \cup {NoDoc}]
  /\ pc \in [Workers -> {"idle", "fetch", "evaluate", "delete", "postGet",
                         "read", "write", "finish"}]
  /\ job \in [Workers -> Job]
  /\ late \subseteq LateWrites /\ usurped \subseteq Desires
  /\ restarts \in Nat /\ absent \in [Targets -> Nat]

Reason(d) == IF status[d] = NoDoc THEN "" ELSE status[d].verdict.reason
Successful(d) == Reason(d) = "NoErrors"
Waiting(d) == Reason(d) = "WaitingForDeletion"
ReportsCurrent(d) ==
  specs[d] # NoDoc /\ status[d] # NoDoc /\ status[d].observed = specs[d].rev

(* README, DeleteDesireController: success means that the object has been  *)
(* seen absent since the reported revision was written, never merely that  *)
(* a delete was accepted, whatever is created and released meanwhile.      *)
SuccessMeansWasGone ==
  \A d \in Desires : Successful(d) => absent[TargetOf[d]] >= status[d].observed

(* The queue never forgets a document: when nothing is left to do for its  *)
(* key, the current revision is reported, as deleted or as waiting. The    *)
(* one exception is a status that a late Replace of a stopped process has  *)
(* written last: it may have made a worker's Replace fail its precondition,*)
(* which is no error and not retried, or may have come when all was done.  *)
(* A late Create is no exception: AlreadyExists is an error.               *)
IdleMeansReported ==
  \A d \in Desires :
    (specs[d] # NoDoc /\ cache[d] = specs[d] /\ QIdle(q, d)) =>
       \/ ReportsCurrent(d) /\ (Successful(d) \/ Waiting(d))
       \/ d \in usurped

(* Reports of a document come in order: the revision never goes back, and  *)
(* while one revision is waiting, it never waits for an older object: the  *)
(* workers keep the order, and a write that outlives its process does not  *)
(* overtake the next one. (Processes whose workers take further steps side *)
(* by side might: see Handover.)                                           *)
ReportsNeverRegress ==
  [][\A d \in Desires : status[d] # NoDoc =>
       /\ status'[d] # NoDoc /\ status'[d].observed >= status[d].observed
       /\ (Waiting(d) /\ Reason(d)' = "WaitingForDeletion"
             /\ status'[d].observed = status[d].observed) =>
            status'[d].verdict.uid >= status[d].verdict.uid]_vars

(* The status speaks the truth of the object again and again, even if the  *)
(* object is held for ever: WaitingForDeletion is no error, so only the    *)
(* resync through the cool-down gate notices that the object has gone.     *)
Truthful(d) ==
  LET obj == objects[TargetOf[d]] IN
    IF obj = NoDoc THEN Successful(d)
    ELSE Waiting(d) /\ status[d].verdict.uid = obj.uid /\ obj.deleting
StatusCatchesUp ==
  \A d \in Desires :
    []<>(specs[d] # NoDoc /\ specs[d].wellFormed => ReportsCurrent(d) /\ Truthful(d))

(* Whatever is created under the name, it is deleted for good as long as   *)
(* the document is there, provided that finalizers complete.               *)
DeletedForGood ==
  FinalizersComplete =>
    \A d \in Desires :
      <>[](specs[d] # NoDoc /\ specs[d].wellFormed => objects[TargetOf[d]] = NoDoc)
=============================================================================
