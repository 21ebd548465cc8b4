------------------------------ MODULE Handover ------------------------------
(***************************************************************************)
(* Several processes of kube-applier and one leader lease: what the        *)
(* ApplyDesires of a cluster go through when the leadership moves. Every   *)
(* replica runs the same controller (ApplyDesire has it in detail) against *)
(* the same two databases (FirestoreCRUD) and the same API server.         *)
(*                                                                         *)
(* The lease is client-go's. It fences nothing: a leader notices late that *)
(* its renewals have failed (RenewDeadline, RetryPeriod and the time of a  *)
(* call together exceed LeaseDuration), it gives the lease away before its *)
(* context is cancelled (ReleaseOnCancel), and what it has sent by then is *)
(* still on its way when its successor works. So nothing is assumed of the *)
(* lease but that a candidate takes it when it is free or has expired, and *)
(* it may expire at any time.                                              *)
(*                                                                         *)
(* The feed (SpecFeed) is reduced to what a resync guarantees: a worker    *)
(* may take any document whenever it is idle. A step of a worker is one    *)
(* remote call with the local code that follows it.                        *)
(***************************************************************************)
EXTENDS FirestoreCRUD, Integers, FiniteSets

CONSTANTS
  Docs,         \* document IDs of ApplyDesires, one object each
  Replicas,     \* processes
  Extensions,   \* the kubeContents the backend writes
  MaxRev,       \* bound: commits to the specs database
  MaxElections, \* bound: times the lease is taken
  MaxFailures   \* bound: remote calls that fail

ASSUME DocsAssumption == None \notin Docs \cup Replicas /\ "" \notin Docs
ASSUME ExtensionAssumption == Extensions \subseteq RawExtension \ {"[]"}
ASSUME ReplicaAssumption == IsFiniteSet(Replicas)
ASSUME BoundAssumption == MaxRev \in Nat /\ MaxElections \in Nat /\ MaxFailures \in Nat

Reasons == {"NoErrors", "PreCheckFailed", "KubeAPIError"}
Report == [observed : Nat \ {0}, reason : Reasons]
Document ==
  [spec : {"spec", "zero"}, status : Report \cup {None},
   specContent : Stored, statusContent : Stored,
   updateTime : Nat \ {0}, createTime : Nat \ {0}]
Desire ==
  [id : Docs, spec : {"spec", "zero"}, status : Report \cup {None},
   specContent : RawExtension, statusContent : RawExtension,
   updateTime : Nat, createTime : Nat]
ASSUME NoneAssumption == None \notin Report \cup Document \cup Desire

(* What SyncOnce knows, and the call it is about to make.                  *)
Work ==
  [pc : {"idle", "apply", "read", "write"}, desire : Desire \cup {None},
   reason : Reasons, existing : Desire \cup {None}]

VARIABLES
  specs, now,  \* the collection of the specs database, and its commits
  status,      \* the collection of the status database
  cluster,     \* the object each document names
  lease,       \* who holds the lease
  elections,   \* times it was taken
  role,        \* of each replica
  work,        \* the worker of each replica
  calls,       \* calls of workers that are gone, still on their way
  acked,       \* history: the revisions whose apply was acknowledged
  failures

leading == <<lease, elections, role>>
agent == <<status, cluster, work, calls, acked, failures>>
vars == <<specs, now, leading, agent>>

IdleWork == [pc |-> "idle", desire |-> None, reason |-> "NoErrors", existing |-> None]
-----------------------------------------------------------------------------
Init ==
  /\ specs = [d \in Docs |-> None] /\ now = 0
  /\ status = specs /\ cluster = specs
  /\ lease = None /\ elections = 0
  /\ role = [r \in Replicas |-> "candidate"]
  /\ work = [r \in Replicas |-> IdleWork] /\ calls = {}
  /\ acked = [d \in Docs |-> {}] /\ failures = 0

(* The backend goes through the same CRUD; a replacement is written over   *)
(* what it has just read.                                                  *)
Submit(answer) ==
  /\ now < MaxRev /\ now' = now + 1
  /\ answer.err = "nil" /\ specs' = answer.docs
  /\ UNCHANGED <<leading, agent>>

NewDesire(d, ext) ==
  [id |-> d, spec |-> "spec", status |-> None, specContent |-> ext,
   statusContent |-> None, updateTime |-> 0, createTime |-> 0]

CreateSpec(d, ext) == Submit(Create(specs, NewDesire(d, ext), now + 1))

ReplaceSpec(d, ext) ==
  /\ specs[d] # None
  /\ Submit(Replace(specs, [Get(specs, d).out EXCEPT !.specContent = ext], now + 1))

DeleteSpec(d) ==
  /\ specs[d] # None /\ specs' = Delete(specs, d).docs
  /\ UNCHANGED <<now, leading, agent>>

-----------------------------------------------------------------------------
(* Leadership.                                                             *)

(* A replica takes a lease that is free, or that its holder has not        *)
(* renewed in time, and starts the informers and the controllers.          *)
Elect(r) ==
  /\ role[r] = "candidate"
  /\ elections < MaxElections /\ elections' = elections + 1
  /\ lease' = r /\ role' = [role EXCEPT ![r] = "leader"]
  /\ UNCHANGED <<specs, now, agent>>

MayFail == elections < MaxElections
FreeLease(r) == IF lease = r THEN None ELSE lease

(* The renewal has failed for too long: release comes first, and only then *)
(* the context of the controllers is cancelled.                            *)
GiveUp(r) ==
  /\ role[r] = "leader" /\ (lease # r \/ MayFail)
  /\ lease' = FreeLease(r) /\ role' = [role EXCEPT ![r] = "releasing"]
  /\ UNCHANGED <<specs, now, elections, agent>>

(* What a worker has sent before it is stopped.                            *)
Sent(r) == IF work[r].pc \in {"apply", "write"} THEN {work[r]} ELSE {}

(* The process ends, after GiveUp, on a SIGTERM, which cancels before it   *)
(* releases, or by a crash, which releases nothing. It starts again.       *)
Exit(r) ==
  /\ role[r] = "releasing" \/ (role[r] = "leader" /\ MayFail)
  /\ work' = [work EXCEPT ![r] = IdleWork] /\ calls' = calls \cup Sent(r)
  /\ role' = [role EXCEPT ![r] = "candidate"]
  /\ lease' \in {lease, FreeLease(r)}
  /\ UNCHANGED <<specs, now, elections, status, cluster, acked, failures>>

-----------------------------------------------------------------------------
(* SyncOnce of the ApplyDesire controller in replica r.                    *)

At(r, label) == role[r] # "candidate" /\ work[r].pc = label
Goto(r, w) == work' = [work EXCEPT ![r] = w]
Rest == UNCHANGED <<specs, now, leading>>

Successful(d) == status[d] # None /\ status[d].status.reason = "NoErrors"

(* Mutant: a revision that is reported as applied is not applied again.    *)
FetchedOnce(desire) ==
  IF Successful(desire.id) /\ status[desire.id].status.observed = desire.updateTime
  THEN IdleWork
  ELSE [IdleWork EXCEPT !.pc = IF desire.specContent = None THEN "read" ELSE "apply",
                        !.desire = desire,
                        !.reason = IF desire.specContent = None THEN "PreCheckFailed" ELSE @]
(* The pre-check refuses a kubeContent that is nil.                        *)
Fetched(desire) ==
  IF desire.specContent = None
  THEN [IdleWork EXCEPT !.pc = "read", !.desire = desire, !.reason = "PreCheckFailed"]
  ELSE [IdleWork EXCEPT !.pc = "apply", !.desire = desire]

Fetch(r, d) ==
  /\ At(r, "idle") /\ Get(specs, d).err = "nil"
  /\ Goto(r, Fetched(Get(specs, d).out))
  /\ Rest /\ UNCHANGED <<status, cluster, calls, acked, failures>>

Applied(w) == cluster' = [cluster EXCEPT ![w.desire.id] = w.desire.specContent]

ApplySucceeds(r) ==
  /\ At(r, "apply") /\ Applied(work[r])
  /\ Goto(r, [work[r] EXCEPT !.pc = "read"])
  /\ acked' = [acked EXCEPT ![work[r].desire.id] = @ \cup {work[r].desire.updateTime}]
  /\ Rest /\ UNCHANGED <<status, calls, failures>>

(* Without effect, or only the reply is lost.                              *)
ApplyFails(r) ==
  /\ At(r, "apply") /\ failures < MaxFailures /\ failures' = failures + 1
  /\ Applied(work[r]) \/ UNCHANGED cluster
  /\ Goto(r, [work[r] EXCEPT !.pc = "read", !.reason = "KubeAPIError"])
  /\ Rest /\ UNCHANGED <<status, calls, acked>>

(* Mutant: the revision is that of the document as it is now.              *)
ReportOfNow(w) ==
  [observed |-> IF specs[w.desire.id] = None THEN w.desire.updateTime
                ELSE specs[w.desire.id].updateTime, reason |-> w.reason]
ReportOf(w) == [observed |-> w.desire.updateTime, reason |-> w.reason]

(* UpdateStatus: a document that is not there is created from the zero     *)
(* desire, and one that would not change is not written.                   *)
Mutated(w) ==
  LET from == IF w.existing = None
              THEN [NewDesire(w.desire.id, None) EXCEPT !.spec = "zero"]
              ELSE w.existing
  IN  [from EXCEPT !.status = ReportOf(w)]

ReadStatus(r) ==
  /\ At(r, "read")
  /\ LET w == [work[r] EXCEPT !.pc = "write",
                              !.existing = Get(status, work[r].desire.id).out] IN
       Goto(r, IF Mutated(w) = w.existing THEN IdleWork ELSE w)
  /\ Rest /\ UNCHANGED <<status, cluster, calls, acked, failures>>

(* UpdateTimes of the status database are only ever compared for equality, *)
(* so a commit may use again one that nobody holds.                        *)
Held(d) ==
  {v.existing.updateTime :
     v \in {w \in calls \cup {work[r] : r \in Replicas} : w.existing # None}}
  \cup (IF status[d] = None THEN {} ELSE {status[d].updateTime})
CommitTime(d) == CHOOSE t \in 1..(Cardinality(Held(d)) + 1) : t \notin Held(d)

(* Mutant: Replace sends no precondition.                                  *)
AnswerBlindly(w) ==
  LET d == w.desire.id IN
    IF status[d] = None THEN Create(status, Mutated(w), CommitTime(d))
    ELSE Replace(status, [Mutated(w) EXCEPT !.updateTime = status[d].updateTime], CommitTime(d))
AnswerTo(w) ==
  IF w.existing = None THEN Create(status, Mutated(w), CommitTime(w.desire.id))
  ELSE Replace(status, Mutated(w), CommitTime(w.desire.id))

(* Whatever the answer (FailedPrecondition is nil to the caller), the      *)
(* worker is done with this pass.                                          *)
WriteStatus(r) ==
  /\ At(r, "write")
  /\ status' = AnswerTo(work[r]).docs
  /\ Goto(r, IdleWork)
  /\ Rest /\ UNCHANGED <<cluster, calls, acked, failures>>

(* The read or the write of the status fails without effect.               *)
StatusFails(r) ==
  /\ At(r, "read") \/ At(r, "write")
  /\ failures < MaxFailures /\ failures' = failures + 1
  /\ Goto(r, IdleWork)
  /\ Rest /\ UNCHANGED <<status, cluster, calls, acked>>

-----------------------------------------------------------------------------
(* What a stopped worker has sent arrives after all, or never.             *)
CallLands(w) ==
  /\ calls' = calls \ {w}
  /\ \/ w.pc = "apply" /\ Applied(w) /\ UNCHANGED status
     \/ w.pc = "write" /\ status' = AnswerTo(w).docs /\ UNCHANGED cluster
  /\ Rest /\ UNCHANGED <<work, acked, failures>>

CallLost(w) ==
  /\ calls' = calls \ {w}
  /\ Rest /\ UNCHANGED <<status, cluster, work, acked, failures>>

-----------------------------------------------------------------------------
SyncOnce(r) ==
  \/ ApplySucceeds(r) \/ ApplyFails(r)
  \/ ReadStatus(r) \/ WriteStatus(r) \/ StatusFails(r)

Next ==
  \/ \E d \in Docs : DeleteSpec(d) \/ \E ext \in Extensions : CreateSpec(d, ext) \/ ReplaceSpec(d, ext)
  \/ \E r \in Replicas : Elect(r) \/ GiveUp(r) \/ Exit(r)
  \/ \E r \in Replicas : SyncOnce(r) \/ \E d \in Docs : Fetch(r, d)
  \/ \E w \in calls : CallLands(w) \/ CallLost(w)

Spec == Init /\ [][Next]_vars

(* Fairness: a lease that can be taken is taken, a leader that has lost it *)
(* notices, the workers run, the resync brings every document, and a call  *)
(* does not stay on its way for ever. The bounds make the elections and    *)
(* the failures end.                                                       *)
FairSpec ==
  /\ Spec
  /\ WF_vars(\E r \in Replicas : Elect(r))
  /\ \A r \in Replicas :
       /\ WF_vars(GiveUp(r) /\ lease # r) /\ WF_vars(Exit(r) /\ role[r] = "releasing")
       /\ WF_vars(SyncOnce(r))
       /\ \A d \in Docs : SF_vars(Fetch(r, d))
  /\ WF_vars(\E w \in calls : CallLands(w) \/ CallLost(w))

-----------------------------------------------------------------------------
TypeOK ==
  /\ specs \in [Docs -> Document \cup {None}] /\ now \in Nat
  /\ status \in [Docs -> Document \cup {None}]
  /\ cluster \in [Docs -> Objects \cup {None}]
  /\ lease \in Replicas \cup {None} /\ elections \in Nat /\ failures \in Nat
  /\ role \in [Replicas -> {"candidate", "leader", "releasing"}]
  /\ work \in [Replicas -> Work] /\ calls \subseteq Work
  /\ \A w \in calls \cup {work[r] : r \in Replicas} : (w.desire = None) = (w.pc = "idle")
  /\ acked \in [Docs -> SUBSET (Nat \ {0})]

(* README, "Status reporting", for the processes together: a status that   *)
(* reports success names a revision that the API server has acknowledged   *)
(* to one of them.                                                         *)
SuccessIsAcknowledged ==
  \A d \in Docs : Successful(d) => status[d].status.observed \in acked[d]

(* The LastUpdateTime precondition across processes: whoever replaces a    *)
(* status, a leader, one that does not know that it is none any more, or a *)
(* call left behind by one, replaces the very status it has read.          *)
Writers == {w \in calls \cup {work[r] : r \in Replicas} : w.pc = "write"}
NoBlindOverwrite ==
  [][\A d \in Docs : status'[d] # status[d] =>
       \E w \in Writers : w.desire.id = d /\ w.existing = Get(status, d).out]_vars

(* Once the elections are over, the object and the status end up as the    *)
(* last revision of the document wants them, in the image of the codec:    *)
(* what a former leader had on its way cannot undo the work of its         *)
(* successor for good.                                                     *)
Settled(d) ==
  LET doc == specs[d] IN
    /\ status[d] # None
    /\ status[d].status.observed = doc.updateTime
    /\ IF doc.specContent \in Objects
       THEN Successful(d) /\ cluster[d] = doc.specContent
       ELSE status[d].status.reason = "PreCheckFailed"
Converges == \A d \in Docs : <>[](specs[d] # None => Settled(d))

-----------------------------------------------------------------------------
(* types.go, ResourceCRUD, and the README, "Testing": the test double      *)
(* answers like Firestore. Whatever a caller may send while a collection   *)
(* is in a state that is reached, the error and the documents read         *)
(* afterwards are the same, for content that the codec does not change.    *)
(* They differ in the deletion of what is not there, which is left out.    *)
Exact(ext) == IF ext \in Objects THEN Float64[ext] = ext ELSE ext = None
Offer(docs, d, ext, t) ==
  [NewDesire(d, ext) EXCEPT !.updateTime = t,
                            !.createTime = IF docs[d] = None THEN 0 ELSE docs[d].createTime]
Offered(docs, d) ==
  {Offer(docs, d, ext, t) : ext \in {e \in RawExtension : Exact(e)}, t \in 0..now}
FakeOf(docs) == [d \in DOMAIN docs |-> Get(docs, d).out]
Same(answer, fake) ==
  answer.err = fake.err /\ answer.out = fake.out /\ FakeOf(answer.docs) = fake.docs
FakeAgrees ==
  \A d \in Docs :
    /\ Same(Get(specs, d), FakeGet(FakeOf(specs), d))
    /\ \A obj \in Offered(specs, d) :
         /\ Same(Create(specs, obj, now + 1), FakeCreate(FakeOf(specs), obj, now + 1))
         /\ Same(Replace(specs, obj, now + 1), FakeReplace(FakeOf(specs), obj, now + 1))
    /\ specs[d] # None => Same(Delete(specs, d), FakeDelete(FakeOf(specs), d))

(* README, "Golang type details": Replace is a full overwrite, and content *)
(* survives the round trip. Who writes back what it has read changes       *)
(* nothing for the readers but UpdateTime, whatever was stored.            *)
RewriteKeeps ==
  \A d \in Docs :
    LET read == Get(specs, d).out IN
      specs[d] # None =>
        Get(Replace(specs, read, now + 1).docs, d).out = [read EXCEPT !.updateTime = now + 1]
=============================================================================
