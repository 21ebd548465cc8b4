---------------------------- MODULE ApplyDesire ----------------------------
(***************************************************************************)
(* The ApplyDesire controller of kube-applier: it server-side-applies the  *)
(* content of every ApplyDesire document to its target object and reports  *)
(* the outcome in the status database.                                     *)
(*                                                                         *)
(* Actors: the backend (writes and deletes documents of the specs          *)
(* database), the informer (lags behind that database, calls the event     *)
(* handlers), the workers of the controller (processNext and SyncOnce, one *)
(* remote call per step), the cluster's other users (drift), the process   *)
(* (restarts). A step of a worker is one remote call with the local code   *)
(* that follows it: everything else may move between two calls. Nothing    *)
(* waits for a worker when a process stops, so the call it was making may  *)
(* land at any later time, while the next process works: it is in `late`.  *)
(* Workers of two processes that take further steps side by side are       *)
(* modelled in Handover.                                                   *)
(*                                                                         *)
(* Abstractions. UpdateTime of a spec document is `rev`, the number of the *)
(* commit that wrote it. UpdateTime of a status document appears only in   *)
(* the precondition of Replace: a worker that read the document carries    *)
(* `fresh`, which a write by anyone else clears. The cool-down of a key is *)
(* a member of `cooling` (see CanSync). A target is the API object a       *)
(* document names; the document ID is a hash of it, so it is fixed.        *)
(***************************************************************************)
EXTENDS WorkQueue, Integers

CONSTANTS
  Desires,      \* document IDs of ApplyDesires
  Targets,      \* Kubernetes objects
  TargetOf,     \* the object each document names
  Scopes,       \* values of (spec.clusterID, spec.nodePoolName)
  Contents,     \* values of the rest of a spec
  Malformed,    \* the contents the pre-checks refuse
  Foreign,      \* what another user of the cluster writes to an object
  NoDoc,        \* no document, no object
  ApplyErrors,  \* the failures of an apply without effect: client, server
  Workers,      \* goroutines running runWorker
  MaxRev,       \* bound: commits to the specs database
  MaxUpsets     \* bound: restarts, and changes to the objects by other users

ASSUME TargetAssumption == TargetOf \in [Desires -> Targets]
ASSUME ContentAssumption == Malformed \subseteq Contents /\ Foreign \notin Contents
ASSUME ErrorAssumption == ApplyErrors \subseteq {"client", "server"}
ASSUME BoundAssumption == MaxRev \in Nat /\ MaxUpsets \in Nat

(* What a workqueue key holds: ClusterID and NodePoolName besides the name *)
(* of the document. Every fetch and write uses the name alone.             *)
ApplyDesireKey == [scope : Scopes, name : Desires]
KeyOf(d, spec) == [scope |-> spec.scope, name |-> d]

SpecDoc == [rev : Nat \ {0}, scope : Scopes, content : Contents]
Object == [content : Contents \cup {Foreign}, gen : Nat \ {0}]
Outcomes == {"ok", "precheck", "client", "server"}
Reasons == {"NoErrors", "PreCheckFailed", "KubeAPIError"}
StatusDoc == [observed : Nat \ {0}, gen : Nat, reason : Reasons, degraded : BOOLEAN]

(* The absent value is no document.                                        *)
ASSUME NoDocAssumption == NoDoc \notin SpecDoc \cup Object \cup StatusDoc \cup ApplyDesireKey

VARIABLES
  specs,     \* specs database: the document of each desire
  now,       \* commits to the specs database so far
  cache,     \* the informer's store
  q,         \* the controller's work queue
  cooling,   \* keys whose cool-down has not elapsed
  cluster,   \* the API server's objects
  status,    \* status database: the status of each desire
  pc,        \* where each worker is
  job,       \* the locals of each worker's processNext and SyncOnce
  late,      \* calls of stopped processes that may still land
  acked,     \* history: <<rev, generation>> the API server acknowledged
  touched,   \* history: objects changed by others since a worker's last apply
  usurped,   \* history: documents whose status a late Replace wrote last
  restarts,  \* restarts so far
  drifts     \* foreign changes so far

vars == <<specs, now, cache, q, cooling, cluster, status, pc, job, acked,
          late, touched, usurped, restarts, drifts>>
worker == <<pc, job>>
budgets == <<restarts, drifts>>
aside == <<late, touched, usurped, restarts, drifts>>

(* result is what SyncOnce returns: "conflict" is the nil of a Replace     *)
(* whose precondition failed, kept apart for the properties.               *)
Job == [key : ApplyDesireKey \cup {NoDoc}, desire : SpecDoc \cup {NoDoc},
        outcome : Outcomes, gen : Nat, existing : StatusDoc \cup {NoDoc},
        fresh : BOOLEAN, result : {"nil", "err", "conflict"}]
SentJob == {j \in Job : j.key # NoDoc /\ j.desire # NoDoc}
LateCall == [life : Nat \ {0}, pc : {"apply", "write"}, job : SentJob]
IdleJob == [key |-> NoDoc, desire |-> NoDoc, outcome |-> "ok", gen |-> 0,
            existing |-> NoDoc, fresh |-> FALSE, result |-> "nil"]

At(w, label) == pc[w] = label
Doc(w) == job[w].key.name
-----------------------------------------------------------------------------
Init ==
  /\ specs = [d \in Desires |-> NoDoc] /\ now = 0
  /\ cache = [d \in Desires |-> NoDoc]
  /\ q = EmptyQueue /\ cooling = {}
  /\ cluster = [t \in Targets |-> NoDoc]
  /\ status = [d \in Desires |-> NoDoc]
  /\ pc = [w \in Workers |-> "idle"] /\ job = [w \in Workers |-> IdleJob]
  /\ late = {} /\ acked = [d \in Desires |-> {}]
  /\ touched = {} /\ usurped = {}
  /\ restarts = 0 /\ drifts = 0

-----------------------------------------------------------------------------
(* The backend.                                                            *)

WriteSpec(d) ==
  /\ now < MaxRev
  /\ now' = now + 1
  /\ \E s \in Scopes, c \in Contents :
       specs' = [specs EXCEPT ![d] = [rev |-> now + 1, scope |-> s, content |-> c]]
  /\ UNCHANGED <<cache, q, cooling, cluster, status, worker, acked, aside>>

DeleteSpec(d) ==
  /\ specs[d] # NoDoc
  /\ specs' = [specs EXCEPT ![d] = NoDoc]
  /\ UNCHANGED <<now, cache, q, cooling, cluster, status, worker, acked, aside>>

-----------------------------------------------------------------------------
(* The informer and the event handlers.                                    *)

(* Mutant: content instead of UpdateTime decides whether a document moved. *)
ChangedByContent(old, new) == old.content # new.content
(* Mutant: a gate that never opens again.                                  *)
CanSyncNever(k) == FALSE

Changed(old, new) == old.rev # new.rev
CanSync(k) == k \notin cooling

handleAdd(d, new) == q' = QAdd(q, KeyOf(d, new)) /\ UNCHANGED cooling

(* enqueueWithCooldown: CanSync stamps the key when it lets it through.    *)
handleUpdate(d, old, new) ==
  \/ /\ Changed(old, new)
     /\ q' = QAdd(q, KeyOf(d, new)) /\ UNCHANGED cooling
  \/ /\ ~Changed(old, new) /\ CanSync(KeyOf(d, new))
     /\ q' = QAdd(q, KeyOf(d, new)) /\ cooling' = cooling \cup {KeyOf(d, new)}
  \/ /\ ~Changed(old, new) /\ ~CanSync(KeyOf(d, new))
     /\ UNCHANGED <<q, cooling>>

(* The store catches up with the database; successive writes may have been *)
(* coalesced. No handler is registered for deletions.                      *)
Deliver(d) ==
  /\ cache[d] # specs[d]
  /\ cache' = [cache EXCEPT ![d] = specs[d]]
  /\ \/ specs[d] = NoDoc /\ UNCHANGED <<q, cooling>>
     \/ specs[d] # NoDoc /\ cache[d] = NoDoc /\ handleAdd(d, specs[d])
     \/ specs[d] # NoDoc /\ cache[d] # NoDoc /\ handleUpdate(d, cache[d], specs[d])
  /\ UNCHANGED <<specs, now, cluster, status, worker, acked, aside>>

(* The periodic resync, or a relist after the watch stream broke.          *)
Resync(d) ==
  /\ cache[d] # NoDoc
  /\ handleUpdate(d, cache[d], cache[d])
  /\ UNCHANGED <<specs, now, cache, cluster, status, worker, acked, aside>>

CooldownElapses(k) ==
  /\ k \in cooling
  /\ cooling' = cooling \ {k}
  /\ UNCHANGED <<specs, now, cache, q, cluster, status, worker, acked, aside>>

RetryDue(k) ==
  /\ k \in q.delayed
  /\ q' = QBackoffElapsed(q, k)
  /\ UNCHANGED <<specs, now, cache, cooling, cluster, status, worker, acked, aside>>

-----------------------------------------------------------------------------
(* A worker: processNext takes a key; SyncOnce reads the spec.             *)

(* Mutant: Done is not deferred but called at once.                        *)
TakeAndRelease(k) == QDone(QGet(q, k), k)
Take(k) == QGet(q, k)

Get(w, k) ==
  /\ At(w, "idle") /\ k \in q.queue
  /\ q' = Take(k)
  /\ pc' = [pc EXCEPT ![w] = "fetch"]
  /\ job' = [job EXCEPT ![w] = [IdleJob EXCEPT !.key = k]]
  /\ UNCHANGED <<specs, now, cache, cooling, cluster, status, acked, aside>>

Goto(w, label, j) == pc' = [pc EXCEPT ![w] = label] /\ job' = [job EXCEPT ![w] = j]
(* SyncOnce returns r: its locals are gone.                                *)
Returned(j, r) == [IdleJob EXCEPT !.key = j.key, !.result = r]
Return(w, r) == Goto(w, "finish", Returned(job[w], r))

FetchSpec(w) ==
  /\ At(w, "fetch") /\ specs[Doc(w)] # NoDoc
  /\ Goto(w, "apply", [job[w] EXCEPT !.desire = specs[Doc(w)]])
  /\ UNCHANGED <<specs, now, cache, q, cooling, cluster, status, acked, aside>>

SpecNotFound(w) ==
  /\ At(w, "fetch") /\ specs[Doc(w)] = NoDoc
  /\ Return(w, "nil")
  /\ UNCHANGED <<specs, now, cache, q, cooling, cluster, status, acked, aside>>

FetchSpecFails(w) ==
  /\ At(w, "fetch")
  /\ Return(w, "err")
  /\ UNCHANGED <<specs, now, cache, q, cooling, cluster, status, acked, aside>>

-----------------------------------------------------------------------------
(* applyDesired.                                                           *)

(* Forced server-side apply of content c by the one field manager: the     *)
(* object holds c, and its generation moves only if c changes it.          *)
Applied(obj, c) ==
  [content |-> c,
   gen |-> IF obj = NoDoc THEN 1 ELSE IF obj.content = c THEN obj.gen ELSE obj.gen + 1]

(* Mutant: -1 for "no generation".                                         *)
FailedGenNegative == -1
FailedGen == 0

AtApply(w) == At(w, "apply") /\ job[w].desire.content \notin Malformed
Failed(w, outcome) == Goto(w, "read", [job[w] EXCEPT !.outcome = outcome, !.gen = FailedGen])
ApplyEffect(w) ==
  cluster' = [cluster EXCEPT ![TargetOf[Doc(w)]] = Applied(@, job[w].desire.content)]

PreCheckFails(w) ==
  /\ At(w, "apply") /\ job[w].desire.content \in Malformed
  /\ Failed(w, "precheck")
  /\ UNCHANGED <<specs, now, cache, q, cooling, cluster, status, acked, aside>>

ApplySucceeds(w) ==
  /\ AtApply(w) /\ ApplyEffect(w)
  /\ LET gen == Applied(cluster[TargetOf[Doc(w)]], job[w].desire.content).gen IN
       /\ Goto(w, "read", [job[w] EXCEPT !.outcome = "ok", !.gen = gen])
       /\ acked' = [acked EXCEPT ![Doc(w)] = @ \cup {<<job[w].desire.rev, gen>>}]
  /\ touched' = touched \ {TargetOf[Doc(w)]}
  /\ UNCHANGED <<specs, now, cache, q, cooling, status, late, usurped, budgets>>

(* The API server refuses the object (a 4xx status), or cannot be reached. *)
ApplyFails(w) ==
  /\ AtApply(w)
  /\ \E outcome \in ApplyErrors : Failed(w, outcome)
  /\ UNCHANGED <<specs, now, cache, q, cooling, cluster, status, acked, aside>>

(* The apply took effect and its reply was lost: an error to the caller.   *)
ApplyReplyLost(w) ==
  /\ AtApply(w) /\ ApplyEffect(w)
  /\ Failed(w, "server")
  /\ touched' = touched \ {TargetOf[Doc(w)]}
  /\ UNCHANGED <<specs, now, cache, q, cooling, status, acked, late, usurped, budgets>>

-----------------------------------------------------------------------------
(* UpdateStatus of the status writer, with the mutation SyncOnce gives it. *)

Reason(outcome) ==
  CASE outcome = "ok" -> "NoErrors"
    [] outcome = "precheck" -> "PreCheckFailed"
    [] OTHER -> "KubeAPIError"

(* Mutant: the revision is taken from the informer's store at report time. *)
NewStatusFromCache(j) ==
  [observed |-> IF cache[j.key.name] = NoDoc THEN j.desire.rev ELSE cache[j.key.name].rev,
   gen |-> j.gen, reason |-> Reason(j.outcome), degraded |-> j.outcome = "server"]
NewStatus(j) ==
  [observed |-> j.desire.rev, gen |-> j.gen,
   reason |-> Reason(j.outcome), degraded |-> j.outcome = "server"]

(* Mutant: SyncOnce drops the error of the status writer.                  *)
JoinApplyOnly(outcome, r) == IF outcome = "ok" THEN "nil" ELSE "err"
(* errors.Join of the apply's error and the status writer's.               *)
Join(outcome, r) == IF outcome = "ok" THEN r ELSE "err"

(* Mutant: Update without the LastUpdateTime precondition.                 *)
UnconditionalReplace(w) == job[w].existing # NoDoc
ReplaceAllowed(w) == job[w].existing # NoDoc /\ job[w].fresh

(* The fetch and the comparison. An unchanged status is not written.       *)
ReadStatus(w) ==
  /\ At(w, "read")
  /\ \/ /\ status[Doc(w)] = NewStatus(job[w])
        /\ Return(w, Join(job[w].outcome, "nil"))
     \/ /\ status[Doc(w)] # NewStatus(job[w])
        /\ Goto(w, "write", [job[w] EXCEPT !.existing = status[Doc(w)], !.fresh = TRUE])
  /\ UNCHANGED <<specs, now, cache, q, cooling, cluster, status, acked, aside>>

ReadStatusFails(w) ==
  /\ At(w, "read")
  /\ Return(w, Join(job[w].outcome, "err"))
  /\ UNCHANGED <<specs, now, cache, q, cooling, cluster, status, acked, aside>>

Creates(w) == job[w].existing = NoDoc /\ status[Doc(w)] = NoDoc

(* A write makes the UpdateTime that everyone else on the document holds   *)
(* out of date: a late call that carries it can only fail, unheard.        *)
Overtaken(d) == {c \in late : c.pc = "write" /\ c.job.key.name = d}

(* Worker w writes and returns r.                                          *)
Write(w, r) ==
  /\ status' = [status EXCEPT ![Doc(w)] = NewStatus(job[w])]
  /\ late' = late \ Overtaken(Doc(w)) /\ usurped' = usurped \ {Doc(w)}
  /\ pc' = [pc EXCEPT ![w] = "finish"]
  /\ job' = [v \in Workers |->
               IF v = w THEN Returned(job[w], Join(job[w].outcome, r))
               ELSE IF pc[v] = "write" /\ Doc(v) = Doc(w)
                    THEN [job[v] EXCEPT !.fresh = FALSE]
                    ELSE job[v]]

(* The result is "err" where the write took effect and its reply was lost. *)
CreateStatus(w) ==
  /\ At(w, "write") /\ Creates(w)
  /\ \E r \in {"nil", "err"} : Write(w, r)
  /\ UNCHANGED <<specs, now, cache, q, cooling, cluster, acked, touched, budgets>>

ReplaceStatus(w) ==
  /\ At(w, "write") /\ ReplaceAllowed(w)
  /\ \E r \in {"nil", "err"} : Write(w, r)
  /\ UNCHANGED <<specs, now, cache, q, cooling, cluster, acked, touched, budgets>>

(* FailedPrecondition: the writer returns nil.                             *)
ReplaceConflicts(w) ==
  /\ At(w, "write") /\ job[w].existing # NoDoc /\ ~job[w].fresh
  /\ Return(w, Join(job[w].outcome, "conflict"))
  /\ UNCHANGED <<specs, now, cache, q, cooling, cluster, status, acked, aside>>

(* AlreadyExists of Create, or a call that failed without effect.          *)
WriteFails(w) ==
  /\ At(w, "write")
  /\ Return(w, Join(job[w].outcome, "err"))
  /\ UNCHANGED <<specs, now, cache, q, cooling, cluster, status, acked, aside>>

(* The rest of processNext: AddRateLimited or Forget, and the deferred     *)
(* Done.                                                                   *)
Finish(w) ==
  /\ At(w, "finish")
  /\ LET k == job[w].key IN
       q' = QDone(IF job[w].result = "err" THEN QAddRateLimited(q, k) ELSE QForget(q, k), k)
  /\ Goto(w, "idle", IdleJob)
  /\ UNCHANGED <<specs, now, cache, cooling, cluster, status, acked, aside>>

-----------------------------------------------------------------------------
(* Another user changes, creates or deletes an object.                     *)
Drift(t) ==
  /\ restarts + drifts < MaxUpsets /\ drifts' = drifts + 1
  /\ \/ cluster' = [cluster EXCEPT ![t] = Applied(@, Foreign)]
     \/ cluster[t] # NoDoc /\ cluster' = [cluster EXCEPT ![t] = NoDoc]
  /\ touched' = touched \cup {t}
  /\ UNCHANGED <<specs, now, cache, q, cooling, status, worker, acked, late, usurped, restarts>>

(* The process stops, or gives its lease away, and the next one starts:    *)
(* only the databases and the cluster survive, and the calls that were on  *)
(* their way and would be accepted. The new informer adds every document   *)
(* it lists.                                                               *)
Sent(w) ==
  \/ AtApply(w)
  \/ At(w, "write") /\ (Creates(w) \/ ReplaceAllowed(w))

Restart ==
  /\ restarts + drifts < MaxUpsets /\ restarts' = restarts + 1
  /\ cache' = [d \in Desires |-> NoDoc]
  /\ q' = EmptyQueue /\ cooling' = {}
  /\ late' = late \cup {[life |-> restarts + 1, pc |-> pc[w], job |-> job[w]] :
                         w \in {v \in Workers : Sent(v)}}
  /\ pc' = [w \in Workers |-> "idle"] /\ job' = [w \in Workers |-> IdleJob]
  /\ UNCHANGED <<specs, now, cluster, status, acked, touched, usurped, drifts>>

(* A late call lands.                                                      *)
LateApply(c) ==
  LET d == c.job.key.name IN
    /\ c.pc = "apply"
    /\ cluster' = [cluster EXCEPT ![TargetOf[d]] = Applied(@, c.job.desire.content)]
    /\ late' = late \ {c} /\ touched' = touched \cup {TargetOf[d]}
    /\ UNCHANGED <<specs, now, cache, q, cooling, status, worker, acked, usurped, budgets>>

LateWrite(c) ==
  LET d == c.job.key.name IN
    /\ c.pc = "write"
    /\ status' = [status EXCEPT ![d] = NewStatus(c.job)]
    /\ late' = late \ Overtaken(d)
    /\ usurped' = IF status[d] = NoDoc THEN usurped ELSE usurped \cup {d}
    /\ job' = [v \in Workers |-> IF pc[v] = "write" /\ Doc(v) = d
                               THEN [job[v] EXCEPT !.fresh = FALSE] ELSE job[v]]
    /\ UNCHANGED <<specs, now, cache, q, cooling, cluster, pc, acked, touched, budgets>>

-----------------------------------------------------------------------------
SyncOnce(w) ==
  \/ FetchSpec(w) \/ SpecNotFound(w) \/ FetchSpecFails(w)
  \/ PreCheckFails(w) \/ ApplySucceeds(w) \/ ApplyFails(w) \/ ApplyReplyLost(w)
  \/ ReadStatus(w) \/ ReadStatusFails(w)
  \/ CreateStatus(w) \/ ReplaceStatus(w) \/ ReplaceConflicts(w) \/ WriteFails(w)

Next ==
  \/ \E d \in Desires : WriteSpec(d) \/ DeleteSpec(d) \/ Deliver(d) \/ Resync(d)
  \/ \E k \in ApplyDesireKey : CooldownElapses(k) \/ RetryDue(k)
  \/ \E w \in Workers : (\E k \in ApplyDesireKey : Get(w, k)) \/ SyncOnce(w) \/ Finish(w)
  \/ \E t \in Targets : Drift(t)
  \/ Restart \/ \E c \in late : LateApply(c) \/ LateWrite(c)

Spec == Init /\ [][Next]_vars

-----------------------------------------------------------------------------
(* Fairness. Goroutines are scheduled, timers fire and the watch delivers: *)
(* weak fairness. The queue is first-in-first-out, so a key is taken       *)
(* whenever a worker is free over and over: strong fairness. A remote call *)
(* retried for ever succeeds in the end: strong fairness of the successful *)
(* replies, for each document. Nothing is assumed of late calls.           *)
Calling(d, label) == {w \in Workers : At(w, label) /\ Doc(w) = d}

RemoteFairness(d) ==
  /\ SF_vars(\E w \in Calling(d, "fetch") : FetchSpec(w))
  /\ SF_vars(\E w \in Calling(d, "apply") : ApplySucceeds(w))
  /\ SF_vars(\E w \in Calling(d, "read") : ReadStatus(w))
  /\ SF_vars(\E w \in Calling(d, "write") : CreateStatus(w) \/ ReplaceStatus(w))

EventFairness ==
  /\ \A d \in Desires : WF_vars(Deliver(d)) /\ RemoteFairness(d)
  /\ \A k \in ApplyDesireKey :
       WF_vars(RetryDue(k)) /\ SF_vars(\E w \in Workers : Get(w, k))
  /\ \A w \in Workers : WF_vars(SyncOnce(w) \/ Finish(w))

ResyncFairness ==
  /\ \A d \in Desires : WF_vars(Resync(d))
  /\ \A k \in ApplyDesireKey : WF_vars(CooldownElapses(k))

(* Without ResyncFairness: events and retries alone must do. The property  *)
(* that needs the periodic resync assumes it.                              *)
FairSpec == Spec /\ EventFairness

-----------------------------------------------------------------------------
TypeOK ==
  /\ specs \in [Desires -> SpecDoc \cup {NoDoc}]
  /\ now \in Nat
  /\ cache \in [Desires -> SpecDoc \cup {NoDoc}]
  /\ q \in QueueType(ApplyDesireKey)
  /\ cooling \subseteq ApplyDesireKey
  /\ cluster \in [Targets -> Object \cup {NoDoc}]
  /\ status \in [Desires -> StatusDoc \cup {NoDoc}]
  /\ pc \in [Workers -> {"idle", "fetch", "apply", "read", "write", "finish"}]
  /\ job \in [Workers -> Job]
  /\ acked \in [Desires -> SUBSET ((Nat \ {0}) \X (Nat \ {0}))]
  /\ late \subseteq LateCall
  /\ touched \subseteq Targets /\ usurped \subseteq Desires
  /\ restarts \in Nat /\ drifts \in Nat

Successful(d) == status[d] # NoDoc /\ status[d].reason = "NoErrors"
ReportsCurrent(d) ==
  specs[d] # NoDoc /\ status[d] # NoDoc /\ status[d].observed = specs[d].rev
Key(d) == KeyOf(d, specs[d])

(* README, "Status reporting": a successful status pairs the revision with *)
(* the generation the API server gave the object for that very revision,   *)
(* however the spec, the object and the status moved while SyncOnce ran.   *)
SuccessIsAcknowledged ==
  \A d \in Desires :
    Successful(d) => <<status[d].observed, status[d].gen>> \in acked[d]

(* A successful status at the current revision means that the object holds *)
(* the current content, unless another user or an apply that outlived its  *)
(* process has changed the object since a worker last applied to it: no    *)
(* other apply of an older revision lands after the one that was reported. *)
SuccessMeansApplied ==
  \A d \in Desires :
    (Successful(d) /\ ReportsCurrent(d) /\ TargetOf[d] \notin touched) =>
       /\ cluster[TargetOf[d]] # NoDoc
       /\ cluster[TargetOf[d]].content = specs[d].content

(* The queue never forgets a document: once the informer has caught up and *)
(* neither the queue nor a worker holds the key, the status reports the    *)
(* current revision as applied. So no update that arrives while a worker   *)
(* is busy is lost, and whatever failed is still queued for a retry. The   *)
(* one exception is a status that a late Replace of a stopped process has  *)
(* written last: it may have made a worker's Replace fail its precondition,*)
(* which is no error and not retried, or may have come when all was done.  *)
(* A late Create is no exception: AlreadyExists is an error.               *)
IdleMeansReported ==
  \A d \in Desires :
    (specs[d] # NoDoc /\ cache[d] = specs[d] /\ QIdle(q, Key(d))) =>
       (Successful(d) /\ ReportsCurrent(d)) \/ d \in usurped

(* The status of a document never disappears and never reports an older    *)
(* revision than before: workers do not overtake each other, and a call    *)
(* that outlives its process does not overtake the next one. (Processes    *)
(* whose workers take further steps side by side might: see Handover.)     *)
ObservedNeverRegresses ==
  [][\A d \in Desires :
       status[d] # NoDoc =>
          status'[d] # NoDoc /\ status'[d].observed >= status[d].observed]_vars

(* Replace's precondition: a status is only ever replaced by a worker, or  *)
(* a late call of one, that has read that very status, whoever else writes *)
(* the document meanwhile.                                                 *)
Over(p, j, d) == p = "write" /\ j.key.name = d /\ j.existing = status[d]
NoBlindOverwrite ==
  [][\A d \in Desires :
       status'[d] # status[d] =>
          \/ \E w \in Workers : Over(pc[w], job[w], d)
          \/ \E c \in late : Over(c.pc, c.job, d)]_vars

(* README, "Database structure": when a write fails its precondition, the  *)
(* controller retries with a fresh read, so the key goes back to the queue.*)
RetriedAfterConflict ==
  [][\A w \in Workers :
       (At(w, "finish") /\ job[w].result = "conflict" /\ restarts' = restarts) =>
          (pc'[w] = "finish" \/ job[w].key \in q'.delayed)]_vars

(* Every document is in the end reported at its last revision, malformed   *)
(* or not, whatever failed on the way and however often the process was    *)
(* restarted: events and retries do it alone, unless a late Replace has    *)
(* written the status last.                                                *)
Converges ==
  \A d \in Desires : <>[](specs[d] # NoDoc => ReportsCurrent(d) \/ d \in usurped)

(* Whatever other users and late calls do to the object and the status,    *)
(* the object ends up with the content of the document and the status with *)
(* its revision: without an event, only the resync brings them back.       *)
DriftRepaired ==
  ResyncFairness => \A d \in Desires :
    <>[](specs[d] # NoDoc =>
           /\ ReportsCurrent(d)
           /\ specs[d].content \notin Malformed =>
                /\ cluster[TargetOf[d]] # NoDoc
                /\ cluster[TargetOf[d]].content = specs[d].content)
=============================================================================
