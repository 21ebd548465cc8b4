------------------------- MODULE ApplyDesire_proofs -------------------------
(***************************************************************************)
(* Theorems of ApplyDesire, for every set of documents, objects, contents  *)
(* and workers, with any number of revisions, failures and restarts, and   *)
(* of calls that outlive their process.                                    *)
(***************************************************************************)
EXTENDS ApplyDesire, WorkQueue_proofs

Labels == {"idle", "fetch", "apply", "read", "write", "finish"}

-----------------------------------------------------------------------------
(* Type correctness.                                                       *)

LEMMA KeyOfType ==
  ASSUME NEW d \in Desires, NEW s \in SpecDoc
  PROVE  KeyOf(d, s) \in ApplyDesireKey /\ KeyOf(d, s).name = d
BY DEF KeyOf, ApplyDesireKey, SpecDoc

LEMMA IdleJobType == IdleJob \in Job
BY DEF IdleJob, Job, Outcomes

LEMMA AppliedType ==
  ASSUME NEW obj \in Object \cup {NoDoc}, NEW c \in Contents \cup {Foreign}
  PROVE  Applied(obj, c) \in Object
BY NoDocAssumption DEF Applied, Object

LEMMA NewStatusType ==
  ASSUME NEW j \in Job, j.desire \in SpecDoc
  PROVE  NewStatus(j) \in StatusDoc
BY DEF NewStatus, Job, SpecDoc, StatusDoc, Reason, Reasons, Outcomes

LEMMA JoinType ==
  ASSUME NEW outcome \in Outcomes, NEW r \in {"nil", "err", "conflict"}
  PROVE  Join(outcome, r) \in {"nil", "err", "conflict"}
BY DEF Join

LEMMA ReturnedType ==
  ASSUME NEW j \in Job, NEW r \in {"nil", "err", "conflict"}
  PROVE  /\ Returned(j, r) \in Job
         /\ Returned(j, r).key = j.key
         /\ Returned(j, r).result = r
BY IdleJobType DEF Returned, Job, IdleJob

(* A worker beyond its fetch holds a key and the spec it fetched.          *)
Shape ==
  \A w \in Workers :
    /\ pc[w] # "idle" => job[w].key \in ApplyDesireKey
    /\ pc[w] \in {"apply", "read", "write"} => job[w].desire \in SpecDoc

TypeInv == TypeOK /\ Shape

(* A late call carries what its worker had.                                *)
LateDoc(c) == c.job.key.name
LEMMA LateType ==
  ASSUME TypeInv, NEW c \in late
  PROVE  /\ c \in LateCall /\ c.job \in Job /\ c.job.desire \in SpecDoc
         /\ LateDoc(c) \in Desires
BY DEF TypeInv, TypeOK, LateCall, SentJob, Job, ApplyDesireKey, LateDoc

LEMMA DocType ==
  ASSUME TypeInv, NEW w \in Workers, pc[w] # "idle"
  PROVE  Doc(w) \in Desires
BY DEF TypeInv, Shape, Doc, ApplyDesireKey

(* Where a worker goes and what it carries, and that nobody else moves.    *)
LEMMA GotoType ==
  ASSUME TypeInv, NEW w \in Workers, NEW label \in Labels, NEW j \in Job,
         label # "idle" => j.key \in ApplyDesireKey,
         label \in {"apply", "read", "write"} => j.desire \in SpecDoc,
         Goto(w, label, j)
  PROVE  /\ pc' \in [Workers -> Labels]
         /\ job' \in [Workers -> Job]
         /\ Shape'
         /\ pc'[w] = label /\ job'[w] = j
         /\ \A v \in Workers \ {w} : pc'[v] = pc[v] /\ job'[v] = job[v]
BY DEF Goto, TypeInv, TypeOK, Shape, Labels

LEMMA ReturnType ==
  ASSUME TypeInv, NEW w \in Workers, pc[w] # "idle",
         NEW r \in {"nil", "err", "conflict"}, Return(w, r)
  PROVE  /\ pc' \in [Workers -> Labels]
         /\ job' \in [Workers -> Job]
         /\ Shape'
         /\ pc'[w] = "finish" /\ job'[w].key = job[w].key /\ job'[w].result = r
         /\ \A v \in Workers \ {w} : pc'[v] = pc[v] /\ job'[v] = job[v]
<1>1. job[w] \in Job /\ job[w].key \in ApplyDesireKey
  BY DEF TypeInv, TypeOK, Shape
<1>2. Returned(job[w], r) \in Job /\ Returned(job[w], r).key \in ApplyDesireKey
  BY <1>1, ReturnedType
<1>3. Goto(w, "finish", Returned(job[w], r))
  BY DEF Return
<1> QED BY <1>1, <1>2, <1>3, GotoType, ReturnedType DEF Labels

(* Write moves worker w, and elsewhere changes nothing but `fresh`.        *)
LEMMA WriteType ==
  ASSUME TypeInv, NEW w \in Workers, pc[w] = "write",
         NEW r \in {"nil", "err"}, Write(w, r)
  PROVE  /\ status' \in [Desires -> StatusDoc \cup {NoDoc}]
         /\ pc' \in [Workers -> Labels]
         /\ job' \in [Workers -> Job]
         /\ Shape'
         /\ pc'[w] = "finish" /\ job'[w].key = job[w].key
         /\ job'[w].result = Join(job[w].outcome, r)
         /\ \A v \in Workers \ {w} :
              /\ pc'[v] = pc[v]
              /\ job'[v].key = job[v].key /\ job'[v].desire = job[v].desire
              /\ job'[v].outcome = job[v].outcome /\ job'[v].gen = job[v].gen
              /\ job'[v].existing = job[v].existing /\ job'[v].result = job[v].result
              /\ job'[v].fresh => job[v].fresh
              /\ pc[v] = "write" /\ Doc(v) = Doc(w) => ~job'[v].fresh
              /\ Doc(v) # Doc(w) => job'[v] = job[v]
         /\ late' = late \ Overtaken(Doc(w)) /\ usurped' = usurped \ {Doc(w)}
<1>1. job[w] \in Job /\ job[w].key \in ApplyDesireKey /\ job[w].desire \in SpecDoc
  BY DEF TypeInv, TypeOK, Shape
<1>2. Doc(w) \in Desires
  BY DocType
<1>3. status' \in [Desires -> StatusDoc \cup {NoDoc}]
  BY <1>1, <1>2, NewStatusType DEF Write, TypeInv, TypeOK
<1>4. Join(job[w].outcome, r) \in {"nil", "err", "conflict"}
  BY <1>1, JoinType DEF Job
<1>5. /\ Returned(job[w], Join(job[w].outcome, r)) \in Job
      /\ Returned(job[w], Join(job[w].outcome, r)).key = job[w].key
      /\ Returned(job[w], Join(job[w].outcome, r)).result = Join(job[w].outcome, r)
  BY <1>1, <1>4, ReturnedType
<1>6. job'[w] = Returned(job[w], Join(job[w].outcome, r))
  BY DEF Write
<1>7. \A v \in Workers : job[v] \in Job /\ [job[v] EXCEPT !.fresh = FALSE] \in Job
  BY DEF TypeInv, TypeOK, Job
<1>8. \A v \in Workers \ {w} :
        /\ job'[v] = IF pc[v] = "write" /\ Doc(v) = Doc(w)
                     THEN [job[v] EXCEPT !.fresh = FALSE] ELSE job[v]
  BY DEF Write
<1>9. pc' = [pc EXCEPT ![w] = "finish"] /\ pc \in [Workers -> Labels]
  BY DEF Write, TypeInv, TypeOK, Labels
<1>10. job' \in [Workers -> Job]
  <2>1. \A v \in Workers : job'[v] \in Job
    BY <1>5, <1>6, <1>7, <1>8
  <2> QED BY <2>1 DEF Write
<1>11. \A v \in Workers \ {w} :
         /\ job'[v].key = job[v].key /\ job'[v].desire = job[v].desire
         /\ job'[v].outcome = job[v].outcome /\ job'[v].gen = job[v].gen
         /\ job'[v].existing = job[v].existing /\ job'[v].result = job[v].result
         /\ job'[v].fresh => job[v].fresh
         /\ pc[v] = "write" /\ Doc(v) = Doc(w) => ~job'[v].fresh
  BY <1>7, <1>8 DEF Job
<1>12. Shape'
  BY <1>1, <1>5, <1>6, <1>8, <1>9, <1>11 DEF TypeInv, Shape, Labels
<1>13. late' = late \ Overtaken(Doc(w)) /\ usurped' = usurped \ {Doc(w)}
  BY DEF Write
<1> QED BY <1>3, <1>5, <1>6, <1>8, <1>9, <1>10, <1>11, <1>12, <1>13 DEF Labels

(* A late write moves no worker, and changes nothing but `fresh` in them.  *)
LEMMA LateWriteType ==
  ASSUME TypeInv, NEW c \in late, LateWrite(c)
  PROVE  /\ c.pc = "write"
         /\ status' = [status EXCEPT ![LateDoc(c)] = NewStatus(c.job)]
         /\ NewStatus(c.job) \in StatusDoc /\ NewStatus(c.job) # NoDoc
         /\ NewStatus(c.job).observed = c.job.desire.rev
         /\ UNCHANGED <<specs, now, cache, q, cooling, cluster, pc, acked, touched, restarts, drifts>>
         /\ late' = late \ Overtaken(LateDoc(c))
         /\ usurped' = IF status[LateDoc(c)] = NoDoc THEN usurped
                        ELSE usurped \cup {LateDoc(c)}
         /\ job' \in [Workers -> Job] /\ Shape'
         /\ \A v \in Workers :
              /\ job'[v].key = job[v].key /\ job'[v].desire = job[v].desire
              /\ job'[v].outcome = job[v].outcome /\ job'[v].gen = job[v].gen
              /\ job'[v].existing = job[v].existing /\ job'[v].result = job[v].result
              /\ job'[v].fresh => job[v].fresh
              /\ pc[v] = "write" /\ Doc(v) = LateDoc(c) => ~job'[v].fresh
              /\ (pc[v] # "write" \/ Doc(v) # LateDoc(c)) => job'[v] = job[v]
<1>1. /\ c.pc = "write"
      /\ status' = [status EXCEPT ![LateDoc(c)] = NewStatus(c.job)]
      /\ UNCHANGED <<specs, now, cache, q, cooling, cluster, pc, acked, touched, restarts, drifts>>
      /\ late' = late \ Overtaken(LateDoc(c))
      /\ usurped' = IF status[LateDoc(c)] = NoDoc THEN usurped
                     ELSE usurped \cup {LateDoc(c)}
      /\ job' = [v \in Workers |-> IF pc[v] = "write" /\ Doc(v) = LateDoc(c)
                                   THEN [job[v] EXCEPT !.fresh = FALSE] ELSE job[v]]
  BY DEF LateWrite, LateDoc, budgets
<1>2. NewStatus(c.job) \in StatusDoc /\ NewStatus(c.job).observed = c.job.desire.rev
  BY LateType, NewStatusType DEF NewStatus
<1>3. NewStatus(c.job) # NoDoc
  BY <1>2, NoDocAssumption
<1>4. \A v \in Workers : job[v] \in Job /\ [job[v] EXCEPT !.fresh = FALSE] \in Job
  BY DEF TypeInv, TypeOK, Job
<1>5. job' \in [Workers -> Job]
  BY <1>1, <1>4
<1>6. \A v \in Workers :
        /\ job'[v].key = job[v].key /\ job'[v].desire = job[v].desire
        /\ job'[v].outcome = job[v].outcome /\ job'[v].gen = job[v].gen
        /\ job'[v].existing = job[v].existing /\ job'[v].result = job[v].result
        /\ job'[v].fresh => job[v].fresh
        /\ pc[v] = "write" /\ Doc(v) = LateDoc(c) => ~job'[v].fresh
        /\ (pc[v] # "write" \/ Doc(v) # LateDoc(c)) => job'[v] = job[v]
  BY <1>1, <1>4 DEF Job
<1>7. Shape'
  BY <1>1, <1>6 DEF TypeInv, Shape
<1> QED BY <1>1, <1>2, <1>3, <1>5, <1>6, <1>7

(* The calls that outlive their process.                                   *)
LEMMA RestartLate ==
  ASSUME TypeInv, Restart
  PROVE  /\ late' \subseteq LateCall
         /\ \A c \in late' : c \in late \/ \E w \in Workers :
              Sent(w) /\ c.pc = pc[w] /\ c.job = job[w]
<1> DEFINE CallOf(w) == [life |-> restarts + 1, pc |-> pc[w], job |-> job[w]]
<1>1. late' = late \cup {CallOf(w) : w \in {v \in Workers : Sent(v)}}
  BY DEF Restart
<1>2. ASSUME NEW w \in Workers, Sent(w)
      PROVE  CallOf(w) \in LateCall /\ CallOf(w).pc = pc[w] /\ CallOf(w).job = job[w]
  <2>1. pc[w] \in {"apply", "write"}
    BY <1>2 DEF Sent, AtApply, At
  <2>2. job[w] \in SentJob
    BY <2>1, NoDocAssumption DEF TypeInv, TypeOK, Shape, SentJob
  <2>3. restarts + 1 \in Nat \ {0}
    BY DEF TypeInv, TypeOK
  <2> QED BY <2>1, <2>2, <2>3 DEF LateCall
<1>3. late \subseteq LateCall
  BY DEF TypeInv, TypeOK
<1> HIDE DEF CallOf
<1> QED BY <1>1, <1>2, <1>3

(* Reading a key the workers have finished with, and putting it back.      *)
LEMMA FinishQueue ==
  ASSUME TypeInv, NEW w \in Workers, Finish(w)
  PROVE  LET k == job[w].key IN
         /\ k \in ApplyDesireKey
         /\ q' \in QueueType(ApplyDesireKey)
         /\ q'.dirty = q.dirty
         /\ q'.processing = q.processing \ {k}
         /\ q'.delayed = IF job[w].result = "err" THEN q.delayed \cup {k} ELSE q.delayed
         /\ QueueOK(q) => QueueOK(q')
<1> DEFINE k == job[w].key
           r == IF job[w].result = "err" THEN QAddRateLimited(q, k) ELSE QForget(q, k)
<1>1. k \in ApplyDesireKey /\ q \in QueueType(ApplyDesireKey)
  BY DEF Finish, At, TypeInv, TypeOK, Shape
<1>2. /\ r \in QueueType(ApplyDesireKey)
      /\ r.dirty = q.dirty /\ r.processing = q.processing
      /\ r.delayed = IF job[w].result = "err" THEN q.delayed \cup {k} ELSE q.delayed
      /\ QueueOK(q) => QueueOK(r)
  <2> HIDE DEF k
  <2>1. CASE job[w].result = "err"
    BY <1>1, <2>1, QAddRateLimitedOK
  <2>2. CASE job[w].result # "err"
    BY <1>1, <2>2 DEF QForget
  <2> QED BY <2>1, <2>2
<1>3. q' = QDone(r, k)
  BY DEF Finish
<1> HIDE DEF k, r
<1>4. QED BY <1>1, <1>2, <1>3, QDoneOK DEF k

(* The event handlers only add the key of a document to the queue.         *)
LEMMA HandlerQueue ==
  ASSUME TypeInv, NEW d \in Desires,
         Deliver(d) \/ Resync(d)
  PROVE  /\ q' \in QueueType(ApplyDesireKey)
         /\ cooling' \subseteq ApplyDesireKey
         /\ q.dirty \subseteq q'.dirty
         /\ q'.processing = q.processing /\ q'.delayed = q.delayed
         /\ QueueOK(q) => QueueOK(q')
<1>1. q \in QueueType(ApplyDesireKey) /\ cooling \subseteq ApplyDesireKey
      /\ specs[d] \in SpecDoc \cup {NoDoc} /\ cache[d] \in SpecDoc \cup {NoDoc}
  BY DEF TypeInv, TypeOK
<1>2. ASSUME NEW s \in SpecDoc, q' = QAdd(q, KeyOf(d, s)),
             cooling' \subseteq cooling \cup {KeyOf(d, s)}
      PROVE  /\ q' \in QueueType(ApplyDesireKey)
             /\ cooling' \subseteq ApplyDesireKey
             /\ q.dirty \subseteq q'.dirty
             /\ q'.processing = q.processing /\ q'.delayed = q.delayed
             /\ QueueOK(q) => QueueOK(q')
  <2>1. KeyOf(d, s) \in ApplyDesireKey
    BY KeyOfType
  <2> QED BY <1>1, <1>2, <2>1, QAddOK
<1>3. CASE UNCHANGED <<q, cooling>>
  BY <1>1, <1>3
<1>4. ASSUME NEW old, NEW s \in SpecDoc, handleUpdate(d, old, s) \/ handleAdd(d, s)
      PROVE  \/ UNCHANGED <<q, cooling>>
             \/ q' = QAdd(q, KeyOf(d, s)) /\ cooling' \subseteq cooling \cup {KeyOf(d, s)}
  BY <1>4 DEF handleUpdate, handleAdd
<1>5. CASE Deliver(d)
  BY <1>1, <1>2, <1>3, <1>4, <1>5 DEF Deliver
<1>6. CASE Resync(d)
  BY <1>1, <1>2, <1>3, <1>4, <1>6 DEF Resync
<1> QED BY <1>5, <1>6

LEMMA TypeInvInit == Init => TypeInv
BY IdleJobType, EmptyQueueOK DEF Init, TypeInv, TypeOK, Shape

(* One step, action by action.                                             *)
LEMMA TypeInvNext == TypeInv /\ [Next]_vars => TypeInv'
<1> SUFFICES ASSUME TypeInv, [Next]_vars PROVE TypeInv'
  OBVIOUS
<1> USE DEF At, worker, budgets, aside
<1>0. q \in QueueType(ApplyDesireKey) /\ \A w \in Workers : job[w] \in Job
  BY DEF TypeInv, TypeOK
<1>1. ASSUME NEW d \in Desires, WriteSpec(d) PROVE TypeInv'
  BY <1>1 DEF WriteSpec, TypeInv, TypeOK, Shape, SpecDoc
<1>2. ASSUME NEW d \in Desires, DeleteSpec(d) PROVE TypeInv'
  BY <1>2 DEF DeleteSpec, TypeInv, TypeOK, Shape
<1>3. ASSUME NEW d \in Desires, Deliver(d) PROVE TypeInv'
  BY <1>3, HandlerQueue DEF Deliver, TypeInv, TypeOK, Shape
<1>4. ASSUME NEW d \in Desires, Resync(d) PROVE TypeInv'
  BY <1>4, HandlerQueue DEF Resync, TypeInv, TypeOK, Shape
<1>5. ASSUME NEW k \in ApplyDesireKey, CooldownElapses(k) PROVE TypeInv'
  BY <1>5 DEF CooldownElapses, TypeInv, TypeOK, Shape
<1>6. ASSUME NEW k \in ApplyDesireKey, RetryDue(k) PROVE TypeInv'
  BY <1>0, <1>6, QBackoffElapsedOK DEF RetryDue, TypeInv, TypeOK, Shape
<1>7. ASSUME NEW w \in Workers, NEW k \in ApplyDesireKey, Get(w, k) PROVE TypeInv'
  <2>1. q' \in QueueType(ApplyDesireKey)
    BY <1>0, <1>7, QGetOK DEF Get, Take
  <2>2. [IdleJob EXCEPT !.key = k] \in Job /\ [IdleJob EXCEPT !.key = k].key = k
    BY IdleJobType DEF Job, IdleJob
  <2>3. Goto(w, "fetch", [IdleJob EXCEPT !.key = k])
    BY <1>7 DEF Get, Goto
  <2> QED BY <1>7, <2>1, <2>2, <2>3, GotoType DEF Get, TypeInv, TypeOK, Labels
<1>8. ASSUME NEW w \in Workers, SyncOnce(w) PROVE TypeInv'
  <2>0. /\ job[w] \in Job /\ pc[w] # "idle" /\ Doc(w) \in Desires
        /\ job[w].key \in ApplyDesireKey
    BY <1>0, <1>8, DocType DEF SyncOnce, FetchSpec, SpecNotFound, FetchSpecFails,
       PreCheckFails, ApplySucceeds, ApplyFails, ApplyReplyLost, AtApply, ReadStatus,
       ReadStatusFails, CreateStatus, ReplaceStatus, ReplaceConflicts, WriteFails,
       TypeInv, Shape
  <2>1. ASSUME NEW r \in {"nil", "err", "conflict"}, Return(w, r)
        PROVE  Shape' /\ pc' \in [Workers -> Labels] /\ job' \in [Workers -> Job]
    BY <2>0, <2>1, ReturnType
  <2>2. Join(job[w].outcome, "nil") \in {"nil", "err", "conflict"}
        /\ Join(job[w].outcome, "err") \in {"nil", "err", "conflict"}
        /\ Join(job[w].outcome, "conflict") \in {"nil", "err", "conflict"}
    BY DEF Join
  <2>3. CASE FetchSpec(w)
    <3>1. specs[Doc(w)] \in SpecDoc
      BY <2>0, <2>3 DEF FetchSpec, TypeInv, TypeOK
    <3> DEFINE j == [job[w] EXCEPT !.desire = specs[Doc(w)]]
    <3>2. j \in Job /\ j.key = job[w].key /\ j.desire \in SpecDoc
      BY <2>0, <3>1 DEF Job
    <3>3. Goto(w, "apply", j)
      BY <2>3 DEF FetchSpec
    <3> HIDE DEF j
    <3> QED BY <2>0, <2>3, <3>2, <3>3, GotoType DEF FetchSpec, TypeInv, TypeOK, Labels
  <2>4. CASE SpecNotFound(w) \/ FetchSpecFails(w)
    BY <2>1, <2>4 DEF SpecNotFound, FetchSpecFails, TypeInv, TypeOK, Labels
  <2>5. ASSUME pc[w] = "apply", NEW outcome \in Outcomes, NEW gen \in Nat,
               Goto(w, "read", [job[w] EXCEPT !.outcome = outcome, !.gen = gen])
        PROVE  Shape' /\ pc' \in [Workers -> Labels] /\ job' \in [Workers -> Job]
    <3> DEFINE j == [job[w] EXCEPT !.outcome = outcome, !.gen = gen]
    <3>1. j \in Job /\ j.key = job[w].key /\ j.desire = job[w].desire
      BY <2>0 DEF Job
    <3>2. job[w].desire \in SpecDoc
      BY <2>5 DEF TypeInv, Shape
    <3>3. Goto(w, "read", j)
      BY <2>5
    <3> HIDE DEF j
    <3> QED BY <2>0, <3>1, <3>2, <3>3, GotoType DEF Labels
  <2>6. ASSUME pc[w] = "apply"
        PROVE  LET a == Applied(cluster[TargetOf[Doc(w)]], job[w].desire.content) IN
               /\ a \in Object /\ a.gen \in Nat \ {0} /\ job[w].desire.rev \in Nat \ {0}
               /\ ApplyEffect(w) => cluster' \in [Targets -> Object \cup {NoDoc}]
    <3>1. /\ cluster[TargetOf[Doc(w)]] \in Object \cup {NoDoc}
          /\ job[w].desire \in SpecDoc
      BY <2>0, <2>6, TargetAssumption DEF TypeInv, TypeOK, Shape
    <3>2. Applied(cluster[TargetOf[Doc(w)]], job[w].desire.content) \in Object
      BY <3>1, AppliedType DEF SpecDoc
    <3> QED BY <2>0, <3>1, <3>2, TargetAssumption
            DEF ApplyEffect, Object, SpecDoc, TypeInv, TypeOK
  <2>7. CASE PreCheckFails(w) \/ ApplyFails(w)
    <3>1. pc[w] = "apply" /\ \E o \in Outcomes : Failed(w, o)
      BY <2>7, ErrorAssumption DEF PreCheckFails, ApplyFails, AtApply, Outcomes
    <3> QED BY <2>5, <2>7, <3>1
            DEF Failed, FailedGen, PreCheckFails, ApplyFails, TypeInv, TypeOK, Labels
  <2>8. CASE ApplySucceeds(w)
    <3> DEFINE a == Applied(cluster[TargetOf[Doc(w)]], job[w].desire.content)
    <3>1. /\ pc[w] = "apply" /\ ApplyEffect(w)
          /\ Goto(w, "read", [job[w] EXCEPT !.outcome = "ok", !.gen = a.gen])
          /\ acked' = [acked EXCEPT ![Doc(w)] = @ \cup {<<job[w].desire.rev, a.gen>>}]
          /\ touched' = touched \ {TargetOf[Doc(w)]}
          /\ UNCHANGED <<specs, now, cache, q, cooling, status, late, usurped, budgets>>
      BY <2>8 DEF ApplySucceeds, AtApply
    <3>2. /\ a.gen \in Nat \ {0} /\ job[w].desire.rev \in Nat \ {0}
          /\ cluster' \in [Targets -> Object \cup {NoDoc}]
      BY <2>6, <3>1
    <3> HIDE DEF a
    <3>3. acked' \in [Desires -> SUBSET ((Nat \ {0}) \X (Nat \ {0}))]
      BY <2>0, <3>1, <3>2 DEF TypeInv, TypeOK
    <3>4. Shape' /\ pc' \in [Workers -> Labels] /\ job' \in [Workers -> Job]
      BY <2>5, <3>1, <3>2 DEF Outcomes
    <3> QED BY <3>1, <3>2, <3>3, <3>4 DEF TypeInv, TypeOK, Labels
  <2>9. CASE ApplyReplyLost(w)
    BY <2>0, <2>5, <2>6, <2>9
       DEF ApplyReplyLost, AtApply, Failed, FailedGen, TypeInv, TypeOK, Labels, Outcomes
  <2>10. CASE ReadStatus(w)
    <3>1. CASE Return(w, Join(job[w].outcome, "nil"))
      BY <2>1, <2>2, <2>10, <3>1 DEF ReadStatus, TypeInv, TypeOK, Labels
    <3> DEFINE j == [job[w] EXCEPT !.existing = status[Doc(w)], !.fresh = TRUE]
    <3>2. CASE Goto(w, "write", j)
      <4>1. status[Doc(w)] \in StatusDoc \cup {NoDoc}
        BY <2>0 DEF TypeInv, TypeOK
      <4>2. j \in Job /\ j.key = job[w].key /\ j.desire = job[w].desire
        BY <2>0, <4>1 DEF Job
      <4>3. job[w].desire \in SpecDoc
        BY <2>10 DEF ReadStatus, TypeInv, Shape
      <4> HIDE DEF j
      <4> QED BY <2>0, <2>10, <3>2, <4>2, <4>3, GotoType
              DEF ReadStatus, TypeInv, TypeOK, Labels
    <3> QED BY <2>10, <3>1, <3>2 DEF ReadStatus
  <2>11. CASE ReadStatusFails(w) \/ ReplaceConflicts(w) \/ WriteFails(w)
    BY <2>1, <2>2, <2>11
       DEF ReadStatusFails, ReplaceConflicts, WriteFails, TypeInv, TypeOK, Labels
  <2>12. CASE CreateStatus(w) \/ ReplaceStatus(w)
    BY <2>12, WriteType DEF CreateStatus, ReplaceStatus, TypeInv, TypeOK, Labels
  <2> QED BY <1>8, <2>3, <2>4, <2>7, <2>8, <2>9, <2>10, <2>11, <2>12 DEF SyncOnce
<1>9. ASSUME NEW w \in Workers, Finish(w) PROVE TypeInv'
  BY <1>9, FinishQueue, GotoType, IdleJobType DEF Finish, TypeInv, TypeOK, Labels
<1>10. ASSUME NEW t \in Targets, Drift(t) PROVE TypeInv'
  <2>1. Applied(cluster[t], Foreign) \in Object
    BY AppliedType DEF TypeInv, TypeOK
  <2> QED BY <1>10, <2>1 DEF Drift, TypeInv, TypeOK, Shape
<1>11. CASE Restart
  <2>1. late' \subseteq LateCall
    BY <1>11, RestartLate
  <2> QED BY <1>11, <2>1, IdleJobType, EmptyQueueOK DEF Restart, TypeInv, TypeOK, Shape
<1>12. ASSUME NEW c \in late, LateApply(c) PROVE TypeInv'
  <2>1. TargetOf[LateDoc(c)] \in Targets
    BY LateType, TargetAssumption
  <2>2. Applied(cluster[TargetOf[LateDoc(c)]], c.job.desire.content) \in Object
    BY <2>1, LateType, AppliedType DEF TypeInv, TypeOK, SpecDoc
  <2> QED BY <1>12, <2>1, <2>2 DEF LateApply, LateDoc, TypeInv, TypeOK, Shape
<1>13. ASSUME NEW c \in late, LateWrite(c) PROVE TypeInv'
  BY <1>13, LateType, LateWriteType DEF TypeInv, TypeOK
<1>14. CASE UNCHANGED vars
  BY <1>14 DEF vars, TypeInv, TypeOK, Shape
<1> QED BY <1>1, <1>2, <1>3, <1>4, <1>5, <1>6, <1>7, <1>8, <1>9, <1>10, <1>11, <1>12, <1>13,
           <1>14 DEF Next

(* Every variable keeps its type.                                          *)
THEOREM TypeCorrect == Spec => []TypeOK
<1>1. TypeInv => TypeOK
  BY DEF TypeInv
<1> QED BY <1>1, TypeInvInit, TypeInvNext, PTL DEF Spec

-----------------------------------------------------------------------------
(* How a step looks from a worker.                                         *)

Calls(w) == (\E k \in ApplyDesireKey : Get(w, k)) \/ SyncOnce(w) \/ Finish(w)
Writing(w) == CreateStatus(w) \/ ReplaceStatus(w)

(* A step that leaves every worker and what they have reported alone.      *)
Apart == UNCHANGED <<pc, job, status, acked, usurped>> /\ late' \subseteq late

(* The other steps are those of one worker, a restart, and a late write.   *)
LEMMA StepKinds ==
  ASSUME [Next]_vars
  PROVE  \/ \E w \in Workers : Calls(w)
         \/ Restart
         \/ \E c \in late : LateWrite(c)
         \/ Apart
BY DEF Next, vars, Calls, WriteSpec, DeleteSpec, Deliver, Resync, CooldownElapses,
       RetryDue, Drift, LateApply, worker, aside, budgets, Apart

(* A worker's step other than a write moves that worker alone.             *)
LEMMA OthersStay ==
  ASSUME TypeInv, NEW w \in Workers, Calls(w), ~Writing(w)
  PROVE  /\ \A v \in Workers \ {w} : pc'[v] = pc[v] /\ job'[v] = job[v]
         /\ UNCHANGED <<status, late, usurped>>
BY DEF aside, Calls, Writing, SyncOnce, Get, Finish, Goto, Return, Failed, FetchSpec,
       SpecNotFound, FetchSpecFails, PreCheckFails, ApplySucceeds, ApplyFails,
       ApplyReplyLost, ReadStatus, ReadStatusFails, ReplaceConflicts, WriteFails,
       TypeInv, TypeOK

(* What a worker's step leaves in its own locals.                          *)
LEMMA OwnStep ==
  ASSUME TypeInv, NEW w \in Workers, Calls(w), ~Writing(w)
  PROVE  \/ /\ pc'[w] = "fetch" /\ pc[w] = "idle" /\ UNCHANGED acked
            /\ job'[w].key \in q.queue /\ q' = QGet(q, job'[w].key)
         \/ /\ pc'[w] = "apply" /\ pc[w] = "fetch" /\ UNCHANGED <<acked, q>>
            /\ job'[w].key = job[w].key
            /\ job'[w].desire = specs[Doc(w)] /\ specs[Doc(w)] # NoDoc
         \/ /\ pc'[w] = "read" /\ pc[w] = "apply" /\ UNCHANGED <<acked, q>>
            /\ job'[w].key = job[w].key /\ job'[w].desire = job[w].desire
            /\ job'[w].outcome # "ok"
         \/ /\ pc'[w] = "read" /\ pc[w] = "apply" /\ UNCHANGED q
            /\ job'[w].key = job[w].key /\ job'[w].desire = job[w].desire
            /\ job'[w].outcome = "ok"
            /\ ApplyEffect(w) /\ job[w].desire.content \notin Malformed
            /\ acked' = [acked EXCEPT ![Doc(w)] = @ \cup {<<job[w].desire.rev, job'[w].gen>>}]
         \/ /\ pc'[w] = "write" /\ pc[w] = "read" /\ UNCHANGED <<acked, q>>
            /\ job'[w].key = job[w].key /\ job'[w].desire = job[w].desire
            /\ job'[w].outcome = job[w].outcome /\ job'[w].gen = job[w].gen
            /\ job'[w].existing = status[Doc(w)] /\ job'[w].fresh
         \/ /\ pc'[w] = "finish" /\ pc[w] \in {"fetch", "read", "write"} /\ UNCHANGED <<acked, q>>
            /\ job'[w].key = job[w].key
            /\ \/ job'[w].result = "err"
               \/ pc[w] = "fetch" /\ specs[Doc(w)] = NoDoc
               \/ /\ pc[w] = "read" /\ status[Doc(w)] = NewStatus(job[w])
                  /\ job[w].outcome = "ok"
               \/ pc[w] = "write" /\ job[w].existing # NoDoc /\ ~job[w].fresh
         \/ Finish(w) /\ pc[w] = "finish" /\ pc'[w] = "idle" /\ UNCHANGED acked
<1>0. /\ pc \in [Workers -> Labels] /\ job \in [Workers -> Job] /\ job[w] \in Job
  BY DEF TypeInv, TypeOK, Labels
<1> USE DEF At
<1>1. ASSUME NEW label, NEW j, Goto(w, label, j) PROVE pc'[w] = label /\ job'[w] = j
  BY <1>0, <1>1 DEF Goto
<1>2. ASSUME NEW r \in {"nil", "err", "conflict"}, Return(w, r)
      PROVE  pc'[w] = "finish" /\ job'[w].key = job[w].key /\ job'[w].result = r
  BY <1>0, <1>1, <1>2, ReturnedType DEF Return
<1>3. ASSUME NEW k \in ApplyDesireKey, Get(w, k)
      PROVE  /\ pc'[w] = "fetch" /\ pc[w] = "idle" /\ UNCHANGED acked
             /\ job'[w].key \in q.queue /\ q' = QGet(q, job'[w].key)
  <2>1. [IdleJob EXCEPT !.key = k].key = k
    BY DEF IdleJob
  <2> QED BY <1>0, <1>3, <2>1 DEF Get, Take
<1>4. CASE FetchSpec(w)
  <2>1. /\ [job[w] EXCEPT !.desire = specs[Doc(w)]].key = job[w].key
        /\ [job[w] EXCEPT !.desire = specs[Doc(w)]].desire = specs[Doc(w)]
    BY <1>0 DEF Job
  <2> QED BY <1>1, <1>4, <2>1 DEF FetchSpec
<1>5. CASE SpecNotFound(w) \/ FetchSpecFails(w)
  BY <1>2, <1>5 DEF SpecNotFound, FetchSpecFails
<1>6. ASSUME NEW o, NEW g, Goto(w, "read", [job[w] EXCEPT !.outcome = o, !.gen = g])
      PROVE  /\ pc'[w] = "read" /\ job'[w].key = job[w].key
             /\ job'[w].desire = job[w].desire /\ job'[w].outcome = o /\ job'[w].gen = g
  <2> DEFINE j == [job[w] EXCEPT !.outcome = o, !.gen = g]
  <2>1. j.key = job[w].key /\ j.desire = job[w].desire /\ j.outcome = o /\ j.gen = g
    BY <1>0 DEF Job
  <2>2. Goto(w, "read", j)
    BY <1>6
  <2> HIDE DEF j
  <2> QED BY <1>1, <2>1, <2>2
<1>7. CASE PreCheckFails(w) \/ ApplyFails(w) \/ ApplyReplyLost(w)
  <2>1. pc[w] = "apply" /\ UNCHANGED <<acked, q>>
    BY <1>7 DEF PreCheckFails, ApplyFails, ApplyReplyLost, AtApply
  <2>2. PICK o \in {"precheck", "client", "server"} : Failed(w, o)
    BY <1>7, ErrorAssumption DEF PreCheckFails, ApplyFails, ApplyReplyLost
  <2>3. Goto(w, "read", [job[w] EXCEPT !.outcome = o, !.gen = FailedGen])
    BY <2>2 DEF Failed
  <2>4. /\ pc'[w] = "read" /\ job'[w].key = job[w].key
        /\ job'[w].desire = job[w].desire /\ job'[w].outcome = o
    BY <1>6, <2>3
  <2> QED BY <2>1, <2>4
<1>8. CASE ApplySucceeds(w)
  <2> DEFINE g == Applied(cluster[TargetOf[Doc(w)]], job[w].desire.content).gen
  <2>1. /\ pc[w] = "apply" /\ UNCHANGED q /\ ApplyEffect(w)
        /\ job[w].desire.content \notin Malformed
        /\ Goto(w, "read", [job[w] EXCEPT !.outcome = "ok", !.gen = g])
        /\ acked' = [acked EXCEPT ![Doc(w)] = @ \cup {<<job[w].desire.rev, g>>}]
    BY <1>8 DEF ApplySucceeds, AtApply
  <2> HIDE DEF g
  <2>2. /\ pc'[w] = "read" /\ job'[w].key = job[w].key
        /\ job'[w].desire = job[w].desire /\ job'[w].outcome = "ok" /\ job'[w].gen = g
    BY <1>6, <2>1
  <2> QED BY <2>1, <2>2
<1>9. CASE ReadStatus(w)
  <2>1. CASE status[Doc(w)] = NewStatus(job[w])
    BY <1>2, <1>9, <2>1 DEF ReadStatus, Join
  <2> DEFINE j == [job[w] EXCEPT !.existing = status[Doc(w)], !.fresh = TRUE]
  <2>2. /\ j.key = job[w].key /\ j.desire = job[w].desire /\ j.outcome = job[w].outcome
        /\ j.gen = job[w].gen /\ j.existing = status[Doc(w)] /\ j.fresh
    BY <1>0 DEF Job
  <2>3. CASE status[Doc(w)] # NewStatus(job[w])
    <3>1. Goto(w, "write", j) /\ pc[w] = "read" /\ UNCHANGED <<acked, q>>
      BY <1>9, <2>3 DEF ReadStatus
    <3> HIDE DEF j
    <3> QED BY <1>1, <2>2, <3>1
  <2> QED BY <2>1, <2>3
<1>10. CASE ReadStatusFails(w) \/ ReplaceConflicts(w) \/ WriteFails(w)
  BY <1>2, <1>10 DEF ReadStatusFails, ReplaceConflicts, WriteFails, Join
<1>11. CASE Finish(w)
  BY <1>1, <1>11 DEF Finish
<1> QED BY <1>3, <1>4, <1>5, <1>7, <1>8, <1>9, <1>10, <1>11 DEF Calls, Writing, SyncOnce

(* A write: who may do it, and what it leaves.                             *)
LEMMA WriteStep ==
  ASSUME TypeInv, NEW w \in Workers, Writing(w)
  PROVE  /\ pc[w] = "write" /\ Doc(w) \in Desires /\ UNCHANGED <<acked, q>>
         /\ Creates(w) \/ ReplaceAllowed(w)
         /\ status' = [status EXCEPT ![Doc(w)] = NewStatus(job[w])]
         /\ job[w].desire \in SpecDoc /\ NewStatus(job[w]) # NoDoc
         /\ NewStatus(job[w]).observed = job[w].desire.rev
         /\ \E r \in {"nil", "err"} : Write(w, r)
         /\ late' = late \ Overtaken(Doc(w)) /\ usurped' = usurped \ {Doc(w)}
<1>1. pc[w] = "write" /\ \E r \in {"nil", "err"} : Write(w, r)
  BY DEF Writing, CreateStatus, ReplaceStatus, At
<1>2. job[w] \in Job /\ job[w].desire \in SpecDoc /\ Doc(w) \in Desires
  BY <1>1, DocType DEF TypeInv, TypeOK, Shape
<1>3. NewStatus(job[w]) # NoDoc /\ NewStatus(job[w]).observed = job[w].desire.rev
  BY <1>2, NewStatusType, NoDocAssumption DEF NewStatus
<1> QED BY <1>1, <1>2, <1>3 DEF Writing, CreateStatus, ReplaceStatus, Write

-----------------------------------------------------------------------------
(* What is reported was acknowledged, and what is replaced was read.       *)

AckedJobs ==
  \A w \in Workers :
    (pc[w] \in {"read", "write"} /\ job[w].outcome = "ok") =>
      <<job[w].desire.rev, job[w].gen>> \in acked[Doc(w)]
FreshReads ==
  \A w \in Workers :
    (pc[w] = "write" /\ job[w].existing # NoDoc /\ job[w].fresh) =>
      job[w].existing = status[Doc(w)]
(* A late write carries what its worker has read and been told.            *)
LateBooks ==
  \A c \in late : c.pc = "write" =>
    /\ c.job.outcome = "ok" => <<c.job.desire.rev, c.job.gen>> \in acked[LateDoc(c)]
    /\ c.job.existing = status[LateDoc(c)]
Books == TypeInv /\ SuccessIsAcknowledged /\ AckedJobs /\ FreshReads /\ LateBooks

LEMMA BooksNext == Books /\ [Next]_vars => Books'
<1> SUFFICES ASSUME Books, [Next]_vars PROVE Books'
  OBVIOUS
<1> USE DEF Doc
<1>0. TypeInv /\ TypeInv'
  BY TypeInvNext DEF Books
<1>1. \A w \in Workers : pc[w] # "idle" => Doc(w) \in Desires
  BY <1>0, DocType
<1>2. acked \in [Desires -> SUBSET ((Nat \ {0}) \X (Nat \ {0}))]
      /\ status \in [Desires -> StatusDoc \cup {NoDoc}]
  BY <1>0 DEF TypeInv, TypeOK
<1>3. CASE Apart
  BY <1>0, <1>3 DEF Apart, Books, SuccessIsAcknowledged, Successful, AckedJobs, FreshReads, LateBooks
<1>4. CASE Restart
  <2>1. UNCHANGED <<status, acked>> /\ pc' = [w \in Workers |-> "idle"]
    BY <1>4 DEF Restart
  <2>2. SuccessIsAcknowledged' /\ AckedJobs' /\ FreshReads'
    BY <2>1 DEF Books, SuccessIsAcknowledged, Successful, AckedJobs, FreshReads
  <2>3. ASSUME NEW w \in Workers, Sent(w), pc[w] = "write"
        PROVE  /\ job[w].outcome = "ok" => <<job[w].desire.rev, job[w].gen>> \in acked[Doc(w)]
               /\ job[w].existing = status[Doc(w)]
    BY <2>3 DEF Sent, AtApply, At, Creates, ReplaceAllowed, Books, AckedJobs, FreshReads
  <2>4. LateBooks'
    <3> SUFFICES ASSUME NEW c \in late', c.pc = "write"
                 PROVE  /\ c.job.outcome = "ok" =>
                             <<c.job.desire.rev, c.job.gen>> \in acked[LateDoc(c)]
                        /\ c.job.existing = status[LateDoc(c)]
      BY <2>1 DEF LateBooks, LateDoc
    <3>1. CASE c \in late
      BY <3>1 DEF Books, LateBooks
    <3>2. CASE \E w \in Workers : Sent(w) /\ c.pc = pc[w] /\ c.job = job[w]
      BY <2>3, <3>2 DEF LateDoc
    <3> QED BY <1>0, <1>4, <3>1, <3>2, RestartLate
  <2> QED BY <1>0, <2>2, <2>4 DEF Books
<1>5. ASSUME NEW w \in Workers, Calls(w), ~Writing(w) PROVE Books'
  <2>1. /\ \A v \in Workers \ {w} : pc'[v] = pc[v] /\ job'[v] = job[v]
        /\ UNCHANGED <<status, late>>
    BY <1>0, <1>5, OthersStay
  <2>2. \A d \in Desires : acked[d] \subseteq acked'[d]
    BY <1>0, <1>1, <1>2, <1>5, OwnStep
  <2>3. SuccessIsAcknowledged'
    BY <2>1, <2>2 DEF Books, SuccessIsAcknowledged, Successful
  <2>4. (pc'[w] \in {"read", "write"} /\ job'[w].outcome = "ok") =>
          <<job'[w].desire.rev, job'[w].gen>> \in acked'[job'[w].key.name]
    BY <1>0, <1>1, <1>2, <1>5, OwnStep DEF Books, AckedJobs
  <2>5. AckedJobs'
    BY <1>1, <2>1, <2>2, <2>4 DEF Books, AckedJobs
  <2>6. pc'[w] = "write" => job'[w].existing = status[job'[w].key.name]
    BY <1>0, <1>5, OwnStep
  <2>7. FreshReads'
    BY <2>1, <2>6 DEF Books, FreshReads
  <2>8. LateBooks'
    BY <1>0, <2>1, <2>2, LateType DEF Books, LateBooks, LateDoc
  <2> QED BY <1>0, <2>3, <2>5, <2>7, <2>8 DEF Books
<1>6. ASSUME NEW w \in Workers, Writing(w) PROVE Books'
  <2>1. /\ pc[w] = "write" /\ UNCHANGED acked
        /\ status' = [status EXCEPT ![Doc(w)] = NewStatus(job[w])]
        /\ \E r \in {"nil", "err"} : Write(w, r)
        /\ late' = late \ Overtaken(Doc(w))
    BY <1>0, <1>6, WriteStep
  <2>2. /\ pc'[w] = "finish"
        /\ \A v \in Workers \ {w} :
              /\ pc'[v] = pc[v]
              /\ job'[v].key = job[v].key /\ job'[v].desire = job[v].desire
              /\ job'[v].outcome = job[v].outcome /\ job'[v].gen = job[v].gen
              /\ job'[v].existing = job[v].existing
              /\ job'[v].fresh => job[v].fresh
              /\ pc[v] = "write" /\ Doc(v) = Doc(w) => ~job'[v].fresh
    BY <1>0, <2>1, WriteType
  <2>3. SuccessIsAcknowledged'
    BY <1>1, <1>2, <2>1
       DEF Books, SuccessIsAcknowledged, AckedJobs, Successful, NewStatus, Reason
  <2>4. AckedJobs'
    BY <2>1, <2>2 DEF Books, AckedJobs
  <2>5. FreshReads'
    BY <1>1, <1>2, <2>1, <2>2 DEF Books, FreshReads
  <2>6. LateBooks'
    BY <1>0, <1>1, <1>2, <2>1, LateType DEF Books, LateBooks, LateDoc, Overtaken
  <2> QED BY <1>0, <2>3, <2>4, <2>5, <2>6 DEF Books
<1>7. ASSUME NEW c \in late, LateWrite(c) PROVE Books'
  <2>1. /\ c.pc = "write" /\ UNCHANGED <<pc, acked>> /\ LateDoc(c) \in Desires
        /\ status' = [status EXCEPT ![LateDoc(c)] = NewStatus(c.job)]
        /\ late' = late \ Overtaken(LateDoc(c))
        /\ \A v \in Workers :
              /\ job'[v].key = job[v].key /\ job'[v].desire = job[v].desire
              /\ job'[v].outcome = job[v].outcome /\ job'[v].gen = job[v].gen
              /\ job'[v].existing = job[v].existing
              /\ job'[v].fresh => job[v].fresh
              /\ pc[v] = "write" /\ Doc(v) = LateDoc(c) => ~job'[v].fresh
    BY <1>0, <1>7, LateType, LateWriteType
  <2>2. SuccessIsAcknowledged'
    BY <1>2, <2>1 DEF Books, SuccessIsAcknowledged, LateBooks, Successful, NewStatus, Reason
  <2>3. AckedJobs'
    BY <2>1 DEF Books, AckedJobs
  <2>4. FreshReads'
    BY <1>1, <1>2, <2>1 DEF Books, FreshReads
  <2>5. LateBooks'
    BY <1>0, <1>2, <2>1, LateType DEF Books, LateBooks, LateDoc, Overtaken
  <2> QED BY <1>0, <2>2, <2>3, <2>4, <2>5 DEF Books
<1> QED BY <1>3, <1>4, <1>5, <1>6, <1>7, StepKinds DEF Calls

LEMMA BooksInit == Init => Books
BY TypeInvInit
   DEF Init, Books, SuccessIsAcknowledged, Successful, AckedJobs, FreshReads, LateBooks

LEMMA BooksInvariant == Spec => []Books
BY BooksInit, BooksNext, PTL DEF Spec

(* A successful status pairs a revision with the generation the API server *)
(* returned for that revision, whatever the interleaving.                  *)
THEOREM Acknowledged == Spec => []SuccessIsAcknowledged
<1>1. Books => SuccessIsAcknowledged
  BY DEF Books
<1> QED BY <1>1, BooksInvariant, PTL

(* A status is replaced only by a worker, or a late call, that read it.    *)
THEOREM NeverBlind == Spec => NoBlindOverwrite
<1>1. Books /\ [Next]_vars =>
        [\A d \in Desires :
           status'[d] # status[d] =>
             \/ \E w \in Workers : Over(pc[w], job[w], d)
             \/ \E c \in late : Over(c.pc, c.job, d)]_vars
  <2> SUFFICES ASSUME Books, [Next]_vars, NEW d \in Desires, status'[d] # status[d]
               PROVE  \/ \E w \in Workers : Over(pc[w], job[w], d)
                      \/ \E c \in late : Over(c.pc, c.job, d)
    OBVIOUS
  <2>0. TypeInv /\ status \in [Desires -> StatusDoc \cup {NoDoc}]
    BY DEF Books, TypeInv, TypeOK
  <2>1. (\E w \in Workers : Writing(w)) \/ (\E c \in late : LateWrite(c))
    BY <2>0, StepKinds, OthersStay DEF Restart, Apart
  <2>2. ASSUME NEW w \in Workers, Writing(w) PROVE Over(pc[w], job[w], d)
    <3>1. /\ pc[w] = "write" /\ Doc(w) \in Desires
          /\ Creates(w) \/ ReplaceAllowed(w)
          /\ status' = [status EXCEPT ![Doc(w)] = NewStatus(job[w])]
      BY <2>0, <2>2, WriteStep
    <3>2. Doc(w) = d
      BY <2>0, <3>1
    <3> QED BY <3>1, <3>2 DEF Creates, ReplaceAllowed, Books, FreshReads, Over, Doc
  <2>3. ASSUME NEW c \in late, LateWrite(c) PROVE Over(c.pc, c.job, d)
    <3>1. /\ c.pc = "write" /\ LateDoc(c) \in Desires
          /\ status' = [status EXCEPT ![LateDoc(c)] = NewStatus(c.job)]
      BY <2>0, <2>3, LateType, LateWriteType
    <3>2. LateDoc(c) = d
      BY <2>0, <3>1
    <3> QED BY <3>1, <3>2 DEF Books, LateBooks, LateDoc, Over
  <2> QED BY <2>1, <2>2, <2>3
<1> QED BY <1>1, BooksInvariant, PTL DEF Spec, NoBlindOverwrite

-----------------------------------------------------------------------------
(* One worker for each key: what the queue is for.                         *)

Exclusive ==
  /\ QueueOK(q)
  /\ \A w \in Workers : pc[w] # "idle" => job[w].key \in q.processing
  /\ \A v, w \in Workers :
       (pc[v] # "idle" /\ pc[w] # "idle" /\ job[v].key = job[w].key) => v = w

(* What a step that is not a worker's does to the queue.                   *)
LEMMA QueueStep ==
  ASSUME TypeInv, [Next]_vars, ~(\E w \in Workers : Calls(w)), ~Restart
  PROVE  /\ q' \in QueueType(ApplyDesireKey)
         /\ q'.processing = q.processing
         /\ q.dirty \subseteq q'.dirty
         /\ q.delayed \subseteq q'.delayed \cup q'.dirty
         /\ QueueOK(q) => QueueOK(q')
<1>0. q \in QueueType(ApplyDesireKey)
  BY DEF TypeInv, TypeOK
<1>1. CASE q' = q
  BY <1>0, <1>1
<1>2. CASE \E d \in Desires : Deliver(d) \/ Resync(d)
  BY <1>2, HandlerQueue
<1>3. CASE \E k \in ApplyDesireKey : RetryDue(k)
  BY <1>0, <1>3, QBackoffElapsedOK DEF RetryDue
<1> QED
  BY <1>1, <1>2, <1>3
     DEF Next, vars, Calls, WriteSpec, DeleteSpec, CooldownElapses, Drift, LateApply, LateWrite

LEMMA ExclusiveNext == TypeInv /\ Exclusive /\ [Next]_vars => Exclusive'
<1> SUFFICES ASSUME TypeInv, Exclusive, [Next]_vars PROVE Exclusive'
  OBVIOUS
<1>0. q \in QueueType(ApplyDesireKey) /\ pc \in [Workers -> Labels]
  BY DEF TypeInv, TypeOK, Labels
<1>1. CASE ~(\E w \in Workers : Calls(w)) /\ ~Restart
  <2>1. UNCHANGED pc /\ \A w \in Workers : job'[w].key = job[w].key
    BY <1>1, StepKinds, LateWriteType DEF Apart
  <2> QED BY <1>1, <2>1, QueueStep DEF Exclusive
<1>2. CASE Restart
  BY <1>2, EmptyQueueOK DEF Restart, Exclusive
<1>3. ASSUME NEW w \in Workers, Writing(w) PROVE Exclusive'
  <2>1. pc[w] = "write" /\ q' = q /\ \E r \in {"nil", "err"} : Write(w, r)
    BY <1>3, WriteStep
  <2>2. \A v \in Workers : job'[v].key = job[v].key /\ (pc'[v] = "idle" <=> pc[v] = "idle")
    BY <2>1, WriteType
  <2> QED BY <2>1, <2>2 DEF Exclusive
<1>4. ASSUME NEW w \in Workers, Calls(w), ~Writing(w) PROVE Exclusive'
  <2>1. \A v \in Workers \ {w} : pc'[v] = pc[v] /\ job'[v] = job[v]
    BY <1>4, OthersStay
  <2>2. CASE pc[w] = "idle"
    <3>1. job'[w].key \in q.queue /\ q' = QGet(q, job'[w].key)
      BY <1>4, <2>2, OwnStep
    <3>2. /\ QueueOK(q') /\ job'[w].key \notin q.processing
          /\ q'.processing = q.processing \cup {job'[w].key}
      BY <1>0, <3>1, QGetOK DEF Exclusive
    <3> QED BY <2>1, <2>2, <3>2 DEF Exclusive
  <2>3. CASE Finish(w)
    <3>1. pc[w] = "finish" /\ pc'[w] = "idle"
      BY <2>3, <1>0 DEF Finish, Goto, At
    <3>2. QueueOK(q') /\ q'.processing = q.processing \ {job[w].key}
      BY <2>3, FinishQueue DEF Exclusive
    <3>3. \A v \in Workers \ {w} : pc[v] # "idle" => job[v].key # job[w].key
      BY <3>1 DEF Exclusive
    <3> QED BY <2>1, <3>1, <3>2, <3>3 DEF Exclusive
  <2>4. CASE pc[w] # "idle" /\ ~Finish(w)
    <3>1. q' = q /\ job'[w].key = job[w].key
      BY <1>4, <2>4, OwnStep
    <3> QED BY <2>1, <2>4, <3>1 DEF Exclusive
  <2> QED BY <2>2, <2>3, <2>4
<1> QED BY <1>1, <1>2, <1>3, <1>4

(* A document's revisions only grow: the commits, and everything that was  *)
(* read from them.                                                         *)
Fetched(w) == pc[w] \in {"apply", "read", "write"}
Revisions ==
  /\ \A d \in Desires :
       /\ specs[d] # NoDoc => specs[d].rev <= now
       /\ cache[d] # NoDoc => cache[d].rev <= now
       /\ status[d] # NoDoc => status[d].observed <= now
       /\ (specs[d] # NoDoc /\ status[d] # NoDoc) => status[d].observed <= specs[d].rev
       /\ (specs[d] # NoDoc /\ cache[d] # NoDoc /\ cache[d].rev = specs[d].rev) =>
            cache[d] = specs[d]
  /\ \A w \in Workers : Fetched(w) =>
       /\ job[w].desire.rev <= now
       /\ specs[Doc(w)] # NoDoc => job[w].desire.rev <= specs[Doc(w)].rev
       /\ (specs[Doc(w)] # NoDoc /\ job[w].desire.rev = specs[Doc(w)].rev) =>
            job[w].desire = specs[Doc(w)]
  /\ \A c \in late :
       /\ c.job.desire.rev <= now
       /\ specs[LateDoc(c)] # NoDoc => c.job.desire.rev <= specs[LateDoc(c)].rev
       /\ (specs[LateDoc(c)] # NoDoc /\ c.job.desire.rev = specs[LateDoc(c)].rev) =>
            c.job.desire = specs[LateDoc(c)]

LEMMA RevisionsNext == TypeInv /\ Revisions /\ [Next]_vars => Revisions'
<1> SUFFICES ASSUME TypeInv, Revisions, [Next]_vars PROVE Revisions'
  OBVIOUS
<1> USE DEF Doc
<1>0. /\ specs \in [Desires -> SpecDoc \cup {NoDoc}] /\ cache \in [Desires -> SpecDoc \cup {NoDoc}]
      /\ status \in [Desires -> StatusDoc \cup {NoDoc}] /\ now \in Nat
      /\ \A w \in Workers : pc[w] # "idle" => Doc(w) \in Desires
      /\ \A w \in Workers : Fetched(w) => job[w].desire \in SpecDoc /\ job[w].desire.rev \in Nat
      /\ \A s \in SpecDoc : s.rev \in Nat
      /\ \A s \in StatusDoc : s.observed \in Nat
      /\ \A c \in late : LateDoc(c) \in Desires /\ c.job.desire.rev \in Nat
  BY DocType, LateType DEF TypeInv, TypeOK, Shape, Fetched, SpecDoc, StatusDoc
<1>1. ASSUME NEW d \in Desires, WriteSpec(d) PROVE Revisions'
  <2>1. PICK s \in Scopes, c \in Contents :
          specs' = [specs EXCEPT ![d] = [rev |-> now + 1, scope |-> s, content |-> c]]
    BY <1>1 DEF WriteSpec
  <2>2. [rev |-> now + 1, scope |-> s, content |-> c].rev = now + 1
    OBVIOUS
  <2>3. now' = now + 1 /\ UNCHANGED <<cache, status, pc, job, late>>
    BY <1>1 DEF WriteSpec, worker, aside
  <2> QED BY <1>0, <2>1, <2>2, <2>3 DEF Revisions, Fetched
<1>2. ASSUME NEW d \in Desires, DeleteSpec(d) PROVE Revisions'
  BY <1>0, <1>2 DEF DeleteSpec, worker, aside, Revisions, Fetched
<1>3. ASSUME NEW d \in Desires, Deliver(d) PROVE Revisions'
  BY <1>0, <1>3 DEF Deliver, worker, aside, Revisions, Fetched
<1>4. CASE Restart
  <2>1. /\ UNCHANGED <<specs, now, status>> /\ cache' = [d \in Desires |-> NoDoc]
        /\ pc' = [w \in Workers |-> "idle"]
    BY <1>4 DEF Restart
  <2>2. ASSUME NEW c \in late'
        PROVE  /\ c.job.desire.rev <= now
               /\ specs[LateDoc(c)] # NoDoc => c.job.desire.rev <= specs[LateDoc(c)].rev
               /\ (specs[LateDoc(c)] # NoDoc /\ c.job.desire.rev = specs[LateDoc(c)].rev) =>
                    c.job.desire = specs[LateDoc(c)]
    <3>1. CASE c \in late
      BY <3>1 DEF Revisions
    <3>2. CASE \E w \in Workers : Sent(w) /\ c.pc = pc[w] /\ c.job = job[w]
      BY <3>2 DEF Revisions, Sent, AtApply, At, Fetched, LateDoc
    <3> QED BY <1>4, <3>1, <3>2, RestartLate
  <2> QED BY <1>0, <2>1, <2>2 DEF Revisions, Fetched, LateDoc
<1>5. CASE UNCHANGED <<specs, now, cache, status, pc, job>> /\ late' \subseteq late
  BY <1>5 DEF Revisions, Fetched
<1>6. ASSUME NEW w \in Workers, Calls(w) PROVE UNCHANGED <<specs, now, cache>>
  BY <1>6 DEF Calls, SyncOnce, Get, Finish, FetchSpec,
     SpecNotFound, FetchSpecFails, PreCheckFails, ApplySucceeds, ApplyFails,
     ApplyReplyLost, ReadStatus, ReadStatusFails, ReplaceConflicts, WriteFails,
     CreateStatus, ReplaceStatus
<1>7. ASSUME NEW w \in Workers, Writing(w) PROVE Revisions'
  <2>1. /\ pc[w] = "write" /\ Doc(w) \in Desires
        /\ status' = [status EXCEPT ![Doc(w)] = NewStatus(job[w])]
        /\ NewStatus(job[w]).observed = job[w].desire.rev
        /\ (\E r \in {"nil", "err"} : Write(w, r)) /\ late' \subseteq late
    BY <1>7, WriteStep
  <2>2. /\ pc'[w] = "finish"
        /\ \A v \in Workers \ {w} :
             pc'[v] = pc[v] /\ job'[v].key = job[v].key /\ job'[v].desire = job[v].desire
    BY <2>1, WriteType
  <2>3. UNCHANGED <<specs, now, cache>>
    BY <1>6, <1>7 DEF Calls, Writing, SyncOnce
  <2> QED BY <1>0, <2>1, <2>2, <2>3 DEF Revisions, Fetched
<1>8. ASSUME NEW w \in Workers, Calls(w), ~Writing(w) PROVE Revisions'
  <2>1. /\ \A v \in Workers \ {w} : pc'[v] = pc[v] /\ job'[v] = job[v]
        /\ UNCHANGED <<status, late>>
    BY <1>8, OthersStay
  <2>2. UNCHANGED <<specs, now, cache>>
    BY <1>6, <1>8
  <2>3. pc'[w] \in {"apply", "read", "write"} =>
          /\ pc[w] # "idle" /\ job'[w].key = job[w].key
          /\ \/ Fetched(w) /\ job'[w].desire = job[w].desire
             \/ job'[w].desire = specs[Doc(w)] /\ specs[Doc(w)] # NoDoc
    BY <1>8, OwnStep DEF Fetched
  <2> QED BY <1>0, <2>1, <2>2, <2>3 DEF Revisions, Fetched
<1>9. ASSUME NEW c \in late, LateWrite(c) PROVE Revisions'
  <2>1. /\ status' = [status EXCEPT ![LateDoc(c)] = NewStatus(c.job)]
        /\ NewStatus(c.job).observed = c.job.desire.rev
        /\ late' \subseteq late /\ UNCHANGED <<specs, now, cache, pc>>
        /\ \A v \in Workers : job'[v].key = job[v].key /\ job'[v].desire = job[v].desire
    BY <1>9, LateWriteType
  <2> QED BY <1>0, <2>1 DEF Revisions, Fetched
<1>10. CASE /\ ~(\E d \in Desires : WriteSpec(d) \/ DeleteSpec(d) \/ Deliver(d)) /\ ~Restart
            /\ ~(\E w \in Workers : Calls(w)) /\ ~(\E c \in late : LateWrite(c))
  BY <1>5, <1>10
     DEF Next, vars, Calls, Resync, CooldownElapses, RetryDue, Drift, LateApply, worker, aside,
         budgets
<1> QED BY <1>1, <1>2, <1>3, <1>4, <1>7, <1>8, <1>9, <1>10

Ledger == TypeInv /\ Exclusive /\ Revisions

LEMMA LedgerInvariant == Spec => []Ledger
<1>1. Init => Ledger
  BY TypeInvInit, EmptyQueueOK DEF Init, Ledger, Exclusive, Revisions, Fetched
<1>2. Ledger /\ [Next]_vars => Ledger'
  BY TypeInvNext, ExclusiveNext, RevisionsNext DEF Ledger
<1> QED BY <1>1, <1>2, PTL DEF Spec

-----------------------------------------------------------------------------
(* A document whose scope never changes has one key, so one worker.        *)

StableScopes == \A s, t \in Scopes : s = t

(* The worker on a document has the last word on its status: nothing newer *)
(* has been reported or is on its way, and nobody but a late call has      *)
(* written it since the worker read it.                                    *)
LateWrites(d) == {c \in late : c.pc = "write" /\ LateDoc(c) = d}
InOrder ==
  /\ \A w \in Workers :
       /\ (Fetched(w) /\ status[Doc(w)] # NoDoc) => status[Doc(w)].observed <= job[w].desire.rev
       /\ Fetched(w) => \A c \in LateWrites(Doc(w)) : c.job.desire.rev <= job[w].desire.rev
       /\ (pc[w] = "write" /\ job[w].existing # NoDoc /\ ~job[w].fresh) => Doc(w) \in usurped
       /\ pc[w] = "write" => \/ job[w].existing = NoDoc
                             \/ status[Doc(w)] # NoDoc
  /\ \A d \in Desires : \A c \in LateWrites(d) :
       status[d] # NoDoc => status[d].observed <= c.job.desire.rev

LEMMA OnePerDoc ==
  ASSUME StableScopes, TypeInv, Exclusive, NEW v \in Workers, NEW w \in Workers,
         pc[v] # "idle", pc[w] # "idle", Doc(v) = Doc(w)
  PROVE  v = w
<1>1. job[v].key \in ApplyDesireKey /\ job[w].key \in ApplyDesireKey
  BY DEF TypeInv, Shape
<1>2. job[v].key = job[w].key
  BY <1>1 DEF ApplyDesireKey, StableScopes, Doc
<1> QED BY <1>2 DEF Exclusive

LEMMA InOrderNext ==
  ASSUME StableScopes
  PROVE  Ledger /\ InOrder /\ [Next]_vars => InOrder'
<1> SUFFICES ASSUME Ledger, InOrder, [Next]_vars PROVE InOrder'
  OBVIOUS
<1> USE DEF Doc
<1>0. TypeInv /\ Exclusive /\ Revisions
  BY DEF Ledger
<1>00. /\ \A w \in Workers : pc[w] # "idle" => Doc(w) \in Desires
       /\ \A c \in late : LateDoc(c) \in Desires /\ c.job.desire.rev \in Nat
       /\ \A w \in Workers : Fetched(w) => job[w].desire.rev \in Nat
       /\ \A d \in Desires : status[d] # NoDoc => status[d].observed \in Nat
       /\ \A d \in Desires : specs[d] # NoDoc => specs[d].rev \in Nat
       /\ status \in [Desires -> StatusDoc \cup {NoDoc}]
  BY <1>0, DocType, LateType DEF TypeInv, TypeOK, Shape, Fetched, SpecDoc, StatusDoc
<1>1. CASE Apart
  BY <1>1 DEF Apart, InOrder, LateWrites, Fetched
<1>2. CASE Restart
  <2>1. UNCHANGED status /\ pc' = [w \in Workers |-> "idle"]
    BY <1>2 DEF Restart
  <2>2. ASSUME NEW d \in Desires, NEW c \in late', c.pc = "write", LateDoc(c) = d,
               status[d] # NoDoc
        PROVE  status[d].observed <= c.job.desire.rev
    <3>1. CASE c \in late
      BY <2>2, <3>1 DEF InOrder, LateWrites
    <3>2. CASE \E w \in Workers : Sent(w) /\ c.pc = pc[w] /\ c.job = job[w]
      BY <2>2, <3>2 DEF InOrder, Fetched, LateDoc
    <3> QED BY <1>0, <1>2, <3>1, <3>2, RestartLate
  <2> QED BY <2>1, <2>2 DEF InOrder, LateWrites, LateDoc, Fetched
<1>3. ASSUME NEW w \in Workers, Writing(w) PROVE InOrder'
  <2>1. /\ pc[w] = "write" /\ Doc(w) \in Desires
        /\ status' = [status EXCEPT ![Doc(w)] = NewStatus(job[w])]
        /\ (\E r \in {"nil", "err"} : Write(w, r))
        /\ late' = late \ Overtaken(Doc(w)) /\ usurped' = usurped \ {Doc(w)}
    BY <1>0, <1>3, WriteStep
  <2>2. \A v \in Workers \ {w} : pc[v] # "idle" => Doc(v) # Doc(w)
    BY <1>0, <2>1, OnePerDoc
  <2>3. /\ pc'[w] = "finish"
        /\ \A v \in Workers \ {w} : pc'[v] = pc[v] /\ (pc[v] # "idle" => job'[v] = job[v])
    BY <1>0, <2>1, <2>2, WriteType
  <2>4. \A v \in Workers \ {w} : pc[v] # "idle" => status'[Doc(v)] = status[Doc(v)]
    BY <1>0, <2>1, <2>2, DocType DEF TypeInv, TypeOK
  <2>5. \A c \in late' : c \in late /\ (c.pc = "write" => LateDoc(c) # Doc(w))
    BY <2>1 DEF Overtaken, LateDoc
  <2>6. ASSUME NEW d \in Desires, NEW c \in late', c.pc = "write", LateDoc(c) = d,
               status'[d] # NoDoc
        PROVE  status'[d].observed <= c.job.desire.rev
    BY <1>00, <2>1, <2>5, <2>6 DEF InOrder, LateWrites
  <2>7. ASSUME NEW v \in Workers, pc'[v] \in {"apply", "read", "write"}
        PROVE  /\ status'[job'[v].key.name] # NoDoc =>
                    status'[job'[v].key.name].observed <= job'[v].desire.rev
               /\ \A c \in late' : (c.pc = "write" /\ LateDoc(c) = job'[v].key.name) =>
                    c.job.desire.rev <= job'[v].desire.rev
               /\ (pc'[v] = "write" /\ job'[v].existing # NoDoc /\ ~job'[v].fresh) =>
                    job'[v].key.name \in usurped'
               /\ pc'[v] = "write" => \/ job'[v].existing = NoDoc
                                      \/ status'[job'[v].key.name] # NoDoc
    <3>1. v # w /\ pc'[v] = pc[v] /\ job'[v] = job[v] /\ Fetched(v) /\ Doc(v) # Doc(w)
          /\ status'[Doc(v)] = status[Doc(v)]
      BY <2>2, <2>3, <2>4, <2>7 DEF Fetched
    <3> QED BY <2>1, <2>5, <3>1 DEF InOrder, LateWrites
  <2> QED BY <2>6, <2>7 DEF InOrder, Fetched, LateWrites, LateDoc
<1>4. ASSUME NEW w \in Workers, Calls(w), ~Writing(w) PROVE InOrder'
  <2>1. /\ \A v \in Workers \ {w} : pc'[v] = pc[v] /\ job'[v] = job[v]
        /\ UNCHANGED <<status, late, usurped>>
    BY <1>0, <1>4, OthersStay
  <2>2. pc'[w] = "write" =>
          job'[w].key = job[w].key /\ job'[w].fresh /\ job'[w].existing = status[Doc(w)]
    BY <1>0, <1>4, OwnStep
  <2>3. ASSUME pc'[w] \in {"apply", "read", "write"}
        PROVE  /\ status[job'[w].key.name] # NoDoc =>
                    status[job'[w].key.name].observed <= job'[w].desire.rev
               /\ \A c \in late : (c.pc = "write" /\ LateDoc(c) = job'[w].key.name) =>
                    c.job.desire.rev <= job'[w].desire.rev
    <3>1. /\ pc[w] # "idle" /\ job'[w].key = job[w].key
          /\ \/ Fetched(w) /\ job'[w].desire = job[w].desire
             \/ job'[w].desire = specs[Doc(w)] /\ specs[Doc(w)] # NoDoc
      BY <1>0, <1>4, <2>3, OwnStep DEF Fetched
    <3>2. Doc(w) \in Desires
      BY <1>0, <3>1, DocType
    <3>3. CASE Fetched(w) /\ job'[w].desire = job[w].desire
      BY <3>1, <3>2, <3>3 DEF InOrder, LateWrites
    <3>4. CASE job'[w].desire = specs[Doc(w)] /\ specs[Doc(w)] # NoDoc
      BY <1>0, <3>1, <3>2, <3>4 DEF Revisions
    <3> QED BY <3>1, <3>3, <3>4
  <2> QED BY <2>1, <2>2, <2>3 DEF InOrder, Fetched, LateWrites, LateDoc
<1>5. ASSUME NEW c \in late, LateWrite(c) PROVE InOrder'
  <2> DEFINE d == LateDoc(c)
  <2>1. /\ c.pc = "write" /\ UNCHANGED <<pc, specs>> /\ d \in Desires
        /\ status' = [status EXCEPT ![d] = NewStatus(c.job)]
        /\ NewStatus(c.job) # NoDoc /\ NewStatus(c.job).observed = c.job.desire.rev
        /\ late' = late \ Overtaken(d)
        /\ usurped' = IF status[d] = NoDoc THEN usurped ELSE usurped \cup {d}
        /\ \A v \in Workers :
              /\ job'[v].key = job[v].key /\ job'[v].desire = job[v].desire
              /\ job'[v].existing = job[v].existing
              /\ (pc[v] # "write" \/ Doc(v) # d) => job'[v] = job[v]
    BY <1>0, <1>5, LateType, LateWriteType
  <2>2. \A e \in late' : e \in late /\ (e.pc = "write" => LateDoc(e) # d)
    BY <2>1 DEF Overtaken, LateDoc
  <2> HIDE DEF d
  <2>3. ASSUME NEW x \in Desires, NEW e \in late', e.pc = "write", LateDoc(e) = x,
               status'[x] # NoDoc
        PROVE  status'[x].observed <= e.job.desire.rev
    BY <1>00, <2>1, <2>2, <2>3 DEF InOrder, LateWrites
  <2>4. ASSUME NEW v \in Workers, pc[v] \in {"apply", "read", "write"}
        PROVE  /\ status'[Doc(v)] # NoDoc => status'[Doc(v)].observed <= job[v].desire.rev
               /\ \A e \in late' : (e.pc = "write" /\ LateDoc(e) = Doc(v)) =>
                    e.job.desire.rev <= job[v].desire.rev
               /\ (pc[v] = "write" /\ job[v].existing # NoDoc /\ ~job'[v].fresh) =>
                    Doc(v) \in usurped'
               /\ pc[v] = "write" => \/ job[v].existing = NoDoc
                                     \/ status'[Doc(v)] # NoDoc
    <3>1. Fetched(v) /\ Doc(v) \in Desires
      BY <1>00, <2>4 DEF Fetched
    <3>2. CASE Doc(v) = d
      <4>1. c.job.desire.rev <= job[v].desire.rev
        BY <2>1, <3>1, <3>2 DEF InOrder, LateWrites, d
      <4>2. status'[Doc(v)] = NewStatus(c.job)
        BY <1>00, <2>1, <3>2
      <4>3. (pc[v] = "write" /\ job[v].existing # NoDoc) => Doc(v) \in usurped'
        BY <2>1, <3>1, <3>2 DEF InOrder
      <4> QED BY <2>1, <2>2, <3>1, <3>2, <4>1, <4>2, <4>3
    <3>3. CASE Doc(v) # d
      <4>1. status'[Doc(v)] = status[Doc(v)] /\ job'[v] = job[v] /\ usurped \subseteq usurped'
        BY <1>00, <2>1, <3>1, <3>3
      <4> QED BY <2>2, <3>1, <4>1 DEF InOrder, LateWrites
    <3> QED BY <3>2, <3>3
  <2> QED BY <2>1, <2>3, <2>4 DEF InOrder, Fetched, LateWrites, LateDoc
<1> QED BY <1>1, <1>2, <1>3, <1>4, <1>5, StepKinds

LEMMA InOrderInvariant ==
  ASSUME StableScopes
  PROVE  Spec => [](Ledger /\ InOrder)
<1>1. Init => InOrder
  BY DEF Init, InOrder, Fetched
<1>2. Ledger /\ InOrder /\ [Next]_vars => InOrder'
  BY InOrderNext
<1> QED BY <1>1, <1>2, LedgerInvariant, PTL DEF Spec

(* While the scope of a document does not change, workers and calls that   *)
(* outlive their process do not overtake each other: the reported revision *)
(* never goes back.                                                        *)
THEOREM NeverRegresses ==
  ASSUME StableScopes
  PROVE  Spec => ObservedNeverRegresses
<1>1. Ledger /\ InOrder /\ [Next]_vars =>
        [\A d \in Desires :
           status[d] # NoDoc =>
             status'[d] # NoDoc /\ status'[d].observed >= status[d].observed]_vars
  <2> SUFFICES ASSUME Ledger, InOrder, [Next]_vars, NEW d \in Desires, status[d] # NoDoc
               PROVE  status'[d] # NoDoc /\ status'[d].observed >= status[d].observed
    OBVIOUS
  <2>0. TypeInv /\ status \in [Desires -> StatusDoc \cup {NoDoc}]
        /\ status[d].observed \in Nat
    BY DEF Ledger, TypeInv, TypeOK, StatusDoc
  <2>1. CASE UNCHANGED status
    BY <2>0, <2>1
  <2>2. ASSUME NEW w \in Workers, Writing(w)
        PROVE  status'[d] # NoDoc /\ status'[d].observed >= status[d].observed
    <3>1. /\ pc[w] = "write" /\ Doc(w) \in Desires
          /\ status' = [status EXCEPT ![Doc(w)] = NewStatus(job[w])]
          /\ NewStatus(job[w]) # NoDoc
          /\ NewStatus(job[w]).observed = job[w].desire.rev
          /\ job[w].desire \in SpecDoc
      BY <2>0, <2>2, WriteStep
    <3>2. job[w].desire.rev \in Nat
      BY <3>1 DEF SpecDoc
    <3> QED BY <2>0, <3>1, <3>2 DEF InOrder, Fetched
  <2>3. ASSUME NEW c \in late, LateWrite(c)
        PROVE  status'[d] # NoDoc /\ status'[d].observed >= status[d].observed
    <3>1. /\ c.pc = "write" /\ LateDoc(c) \in Desires
          /\ status' = [status EXCEPT ![LateDoc(c)] = NewStatus(c.job)]
          /\ NewStatus(c.job) # NoDoc
          /\ NewStatus(c.job).observed = c.job.desire.rev
          /\ c.job.desire.rev \in Nat
      BY <2>0, <2>3, LateType, LateWriteType DEF SpecDoc
    <3> QED BY <2>0, <3>1 DEF InOrder, LateWrites
  <2> QED BY <2>0, <2>1, <2>2, <2>3, StepKinds, OthersStay DEF Restart, Apart
<1> QED BY <1>1, InOrderInvariant, PTL DEF Spec, ObservedNeverRegresses

-----------------------------------------------------------------------------
(* Nothing is forgotten: a document the informer knows is still queued, in *)
(* the hands of a worker that will report it or fail, or reported, unless  *)
(* a late Replace has come after all that.                                 *)

WillReport(w, d) ==
  /\ pc[w] # "idle" /\ job[w].key = Key(d)
  /\ \/ pc[w] = "fetch"
     \/ Fetched(w) /\ job[w].desire.rev = specs[d].rev
     \/ pc[w] = "finish" /\ job[w].result = "err"

(* A late Replace has the last word: no worker is about to write.          *)
Overruled(d) ==
  d \in usurped /\ \A w \in Workers : (pc[w] # "idle" /\ Doc(w) = d) => pc[w] = "finish"

Handled(d) ==
  \/ Key(d) \in q.dirty \cup q.delayed
  \/ \E w \in Workers : WillReport(w, d)
  \/ Successful(d) /\ ReportsCurrent(d)
  \/ Overruled(d)

Remembered ==
  \A d \in Desires : (specs[d] # NoDoc /\ cache[d] = specs[d]) => Handled(d)

(* The worker on a document that is reported at its current revision has   *)
(* fetched that revision, or is about to.                                  *)
LEMMA CurrentWorker ==
  ASSUME StableScopes, Ledger, InOrder, NEW d \in Desires, NEW w \in Workers,
         specs[d] # NoDoc, pc[w] \notin {"idle", "finish"}, Doc(w) = d,
         status[d] # NoDoc, status[d].observed = specs[d].rev
  PROVE  WillReport(w, d)
<1>0. TypeInv /\ Revisions
  BY DEF Ledger
<1>1. job[w].key \in ApplyDesireKey /\ specs[d] \in SpecDoc
  BY <1>0 DEF TypeInv, TypeOK, Shape
<1>2. job[w].key = Key(d)
  BY <1>1 DEF StableScopes, ApplyDesireKey, Key, KeyOf, Doc, SpecDoc
<1>3. CASE pc[w] = "fetch"
  BY <1>2, <1>3 DEF WillReport
<1>4. CASE Fetched(w)
  <2>1. job[w].desire.rev \in Nat /\ specs[d].rev \in Nat
    BY <1>0, <1>1, <1>4 DEF TypeInv, Shape, SpecDoc, Fetched
  <2>2. status[d].observed <= job[w].desire.rev
    BY <1>4 DEF InOrder
  <2>3. job[w].desire.rev <= specs[d].rev
    BY <1>0, <1>4 DEF Revisions
  <2> QED BY <1>2, <1>4, <2>1, <2>2, <2>3 DEF WillReport
<1>5. pc[w] \in Labels
  BY <1>0 DEF TypeInv, TypeOK, Labels
<1> QED BY <1>3, <1>4, <1>5 DEF Fetched, Labels

LEMMA RememberedNext ==
  ASSUME StableScopes
  PROVE  Ledger /\ InOrder /\ Remembered /\ [Next]_vars => Remembered'
<1> SUFFICES ASSUME Ledger, InOrder, Remembered, [Next]_vars,
                    NEW d \in Desires, specs'[d] # NoDoc, cache'[d] = specs'[d]
             PROVE  Handled(d)'
  BY DEF Remembered
<1>0. /\ TypeInv /\ Exclusive /\ Revisions
      /\ specs \in [Desires -> SpecDoc \cup {NoDoc}] /\ cache \in [Desires -> SpecDoc \cup {NoDoc}]
      /\ status \in [Desires -> StatusDoc \cup {NoDoc}] /\ now \in Nat
      /\ \A s \in SpecDoc : s.rev \in Nat
      /\ q \in QueueType(ApplyDesireKey)
  BY DEF Ledger, TypeInv, TypeOK, SpecDoc
<1>1. CASE \E e \in Desires : WriteSpec(e)
  <2>1. PICK e \in Desires : WriteSpec(e)
    BY <1>1
  <2>2. PICK s \in Scopes, c \in Contents :
          specs' = [specs EXCEPT ![e] = [rev |-> now + 1, scope |-> s, content |-> c]]
    BY <2>1 DEF WriteSpec
  <2>3. e # d
    <3> SUFFICES ASSUME e = d PROVE FALSE
      OBVIOUS
    <3>1. cache[d] # NoDoc /\ cache[d].rev = now + 1
      BY <1>0, <2>1, <2>2 DEF WriteSpec
    <3> QED BY <1>0, <3>1 DEF Revisions
  <2>4. specs'[d] = specs[d] /\ UNCHANGED <<cache, q, status, pc, job, usurped>>
    BY <1>0, <2>1, <2>2, <2>3 DEF WriteSpec, worker, aside
  <2> QED BY <2>4 DEF Remembered, Handled, WillReport, Key, Successful, ReportsCurrent, Fetched, Overruled, Doc
<1>2. CASE \E e \in Desires : DeleteSpec(e)
  <2>1. specs'[d] = specs[d] /\ UNCHANGED <<cache, q, status, pc, job, usurped>>
    BY <1>0, <1>2 DEF DeleteSpec, worker, aside
  <2> QED BY <2>1 DEF Remembered, Handled, WillReport, Key, Successful, ReportsCurrent, Fetched, Overruled, Doc
<1>3. CASE \E e \in Desires : Deliver(e)
  <2>1. PICK e \in Desires : Deliver(e)
    BY <1>3
  <2>2. CASE e = d
    <3>1. specs[d] \in SpecDoc /\ specs[d] # NoDoc /\ cache[d] # specs[d] /\ UNCHANGED specs
      BY <1>0, <2>1, <2>2 DEF Deliver
    <3>2. \/ handleAdd(d, specs[d])
          \/ cache[d] # NoDoc /\ handleUpdate(d, cache[d], specs[d])
      BY <2>1, <2>2, <3>1 DEF Deliver
    <3>3. cache[d] # NoDoc => Changed(cache[d], specs[d])
      BY <3>1, <1>0 DEF Revisions, Changed
    <3>4. q' = QAdd(q, Key(d))
      BY <3>2, <3>3 DEF handleAdd, handleUpdate, Key
    <3>5. Key(d) \in ApplyDesireKey
      BY <3>1, KeyOfType DEF Key
    <3>6. Key(d)' = Key(d) /\ Key(d) \in q'.dirty
      BY <1>0, <3>1, <3>4, <3>5, QAddOK DEF Key
    <3> QED BY <3>6 DEF Handled
  <2>3. CASE e # d
    <3>1. cache'[d] = cache[d] /\ UNCHANGED <<specs, status, pc, job, usurped>>
      BY <1>0, <2>1, <2>3 DEF Deliver, worker, aside
    <3>2. q.dirty \subseteq q'.dirty /\ q'.delayed = q.delayed
      BY <1>0, <2>1, HandlerQueue
    <3> QED BY <3>1, <3>2
            DEF Remembered, Handled, WillReport, Key, Successful, ReportsCurrent, Fetched, Overruled, Doc
  <2> QED BY <2>2, <2>3
<1>4. CASE Restart
  BY <1>0, <1>4 DEF Restart
<1>5. CASE /\ ~(\E w \in Workers : Calls(w)) /\ ~Restart
           /\ UNCHANGED <<specs, cache, status, pc, job, usurped>>
  <2>1. q.dirty \subseteq q'.dirty /\ q.delayed \subseteq q'.delayed \cup q'.dirty
    BY <1>0, <1>5, QueueStep
  <2> QED BY <1>5, <2>1
          DEF Remembered, Handled, WillReport, Key, Successful, ReportsCurrent, Fetched, Overruled, Doc
<1>6. ASSUME NEW w \in Workers, Calls(w) PROVE UNCHANGED <<specs, now, cache>>
  BY <1>6 DEF Calls, SyncOnce, Get, Finish, FetchSpec,
     SpecNotFound, FetchSpecFails, PreCheckFails, ApplySucceeds, ApplyFails,
     ApplyReplyLost, ReadStatus, ReadStatusFails, ReplaceConflicts, WriteFails,
     CreateStatus, ReplaceStatus
<1>7. ASSUME NEW w \in Workers, Writing(w) PROVE Handled(d)'
  <2>1. /\ pc[w] = "write" /\ Doc(w) \in Desires /\ q' = q
        /\ status' = [status EXCEPT ![Doc(w)] = NewStatus(job[w])]
        /\ NewStatus(job[w]) # NoDoc /\ NewStatus(job[w]).observed = job[w].desire.rev
        /\ usurped' = usurped \ {Doc(w)}
    BY <1>0, <1>7, WriteStep
  <2>2. PICK r \in {"nil", "err"} : Write(w, r)
    BY <1>0, <1>7, WriteStep
  <2>3. /\ pc'[w] = "finish" /\ job'[w].key = job[w].key
        /\ job'[w].result = Join(job[w].outcome, r)
        /\ \A v \in Workers \ {w} :
             pc'[v] = pc[v] /\ job'[v].key = job[v].key /\ job'[v].desire = job[v].desire
             /\ job'[v].result = job[v].result
    BY <1>0, <2>1, <2>2, WriteType
  <2>4. UNCHANGED <<specs, now, cache>> /\ Key(d)' = Key(d)
    BY <1>6, <1>7 DEF Calls, Writing, SyncOnce, Key
  <2>5. Handled(d)
    BY <2>4 DEF Remembered
  <2>6. CASE Key(d) \in q.dirty \cup q.delayed
    BY <2>1, <2>4, <2>6 DEF Handled
  <2>7. ASSUME NEW v \in Workers, WillReport(v, d), v # w PROVE Handled(d)'
    <3>1. WillReport(v, d)'
      BY <2>3, <2>4, <2>7 DEF WillReport, Fetched
    <3> QED BY <3>1 DEF Handled
  <2>8. CASE WillReport(w, d)
    <3>1. Doc(w) = d /\ job[w].desire.rev = specs[d].rev
      BY <2>1, <2>8 DEF WillReport, Key, KeyOf, Doc
    <3>2. CASE job[w].outcome = "ok"
      <4>1. NewStatus(job[w]).reason = "NoErrors"
        BY <3>2 DEF NewStatus, Reason
      <4> QED BY <1>0, <2>1, <2>4, <3>1, <4>1 DEF Handled, Successful, ReportsCurrent
    <3>3. CASE job[w].outcome # "ok"
      <4>1. WillReport(w, d)'
        BY <2>3, <2>4, <2>8, <3>3 DEF WillReport, Join
      <4> QED BY <4>1 DEF Handled
    <3> QED BY <3>2, <3>3
  <2>9. CASE Successful(d) /\ ReportsCurrent(d)
    <3>1. CASE Doc(w) # d
      BY <1>0, <2>1, <2>4, <2>9, <3>1 DEF Handled, Successful, ReportsCurrent
    <3>2. CASE Doc(w) = d
      <4>1. WillReport(w, d)
        BY <2>1, <2>4, <2>9, <3>2, CurrentWorker DEF ReportsCurrent
      <4> QED BY <2>8, <4>1
    <3> QED BY <3>1, <3>2
  <2>10. CASE Overruled(d)
    <3>1. Doc(w) # d
      BY <2>1, <2>10 DEF Overruled
    <3>2. Overruled(d)'
      BY <2>1, <2>3, <2>10, <3>1 DEF Overruled, Doc
    <3> QED BY <3>2 DEF Handled
  <2> QED BY <2>5, <2>6, <2>7, <2>8, <2>9, <2>10 DEF Handled
<1>8. ASSUME NEW w \in Workers, Calls(w), ~Writing(w) PROVE Handled(d)'
  <2>1. /\ \A v \in Workers \ {w} : pc'[v] = pc[v] /\ job'[v] = job[v]
        /\ UNCHANGED <<status, specs, now, cache, usurped>> /\ Key(d)' = Key(d)
    BY <1>0, <1>6, <1>8, OthersStay DEF Key
  <2>2. Handled(d)
    BY <2>1 DEF Remembered
  <2>3. CASE Successful(d) /\ ReportsCurrent(d)
    BY <2>1, <2>3 DEF Handled, Successful, ReportsCurrent
  <2>4. ASSUME NEW v \in Workers, WillReport(v, d), v # w PROVE Handled(d)'
    <3>1. WillReport(v, d)'
      BY <2>1, <2>4 DEF WillReport, Fetched
    <3> QED BY <3>1 DEF Handled
  <2>5. CASE WillReport(w, d) /\ ~Finish(w)
    <3>1. Doc(w) = d
      BY <2>5 DEF WillReport, Key, KeyOf, Doc
    <3>2. \/ WillReport(w, d)'
          \/ Successful(d) /\ ReportsCurrent(d)
          \/ Overruled(d)'
      <4>1. pc[w] # "idle" /\ specs[d] # NoDoc
        BY <2>1, <2>5 DEF WillReport
      <4>2. CASE pc'[w] \in {"apply", "read", "write"}
        BY <1>0, <1>8, <2>1, <2>5, <3>1, <4>1, <4>2, OwnStep DEF WillReport, Fetched
      <4>3. CASE pc'[w] = "finish"
        <5>1. CASE job'[w].result = "err"
          BY <1>0, <1>8, <2>1, <2>5, <4>3, <5>1, OwnStep DEF WillReport
        <5>2. CASE pc[w] = "read" /\ status[d] = NewStatus(job[w]) /\ job[w].outcome = "ok"
          <6>1. job[w] \in Job /\ job[w].desire \in SpecDoc
            BY <1>0, <5>2 DEF TypeInv, TypeOK, Shape
          <6>2. status[d] # NoDoc
            BY <5>2, <6>1, NewStatusType, NoDocAssumption
          <6> QED BY <2>5, <4>1, <5>2, <6>2
                  DEF WillReport, Fetched, Successful, ReportsCurrent, NewStatus, Reason
        <5>3. CASE pc[w] = "write" /\ job[w].existing # NoDoc /\ ~job[w].fresh
          <6>1. d \in usurped'
            BY <2>1, <3>1, <5>3 DEF InOrder
          <6>2. ASSUME NEW v \in Workers, pc'[v] # "idle", job'[v].key.name = d
                PROVE  pc'[v] = "finish"
            <7>1. CASE v = w
              BY <4>3, <7>1
            <7>2. CASE v # w
              <8>1. pc[v] # "idle" /\ Doc(v) = d
                BY <2>1, <6>2, <7>2 DEF Doc
              <8> QED BY <1>0, <3>1, <4>1, <7>2, <8>1, OnePerDoc
            <7> QED BY <7>1, <7>2
          <6> QED BY <6>1, <6>2 DEF Overruled, Doc
        <5> QED BY <1>0, <1>8, <2>5, <3>1, <4>1, <4>3, <5>1, <5>2, <5>3, OwnStep
      <4> QED BY <1>0, <1>8, <2>5, <4>1, <4>2, <4>3, OwnStep
    <3> QED BY <2>3, <3>2 DEF Handled
  <2>8. CASE Overruled(d)
    <3>1. CASE pc[w] = "idle"
      <4>1. pc'[w] = "fetch" /\ job'[w].key \in q.queue /\ q' = QGet(q, job'[w].key)
        BY <1>0, <1>8, <3>1, OwnStep
      <4>2. CASE job'[w].key.name = d
        <5>1. job'[w].key \in ApplyDesireKey /\ specs[d] \in SpecDoc
          BY <1>0, <2>1, <4>1 DEF QueueType
        <5>2. job'[w].key = Key(d)
          BY <4>2, <5>1 DEF StableScopes, ApplyDesireKey, Key, KeyOf, SpecDoc
        <5>3. WillReport(w, d)'
          BY <2>1, <4>1, <5>2 DEF WillReport
        <5> QED BY <5>3 DEF Handled
      <4>3. CASE job'[w].key.name # d
        <5>1. Overruled(d)'
          BY <2>1, <2>8, <4>3 DEF Overruled, Doc
        <5> QED BY <5>1 DEF Handled
      <4> QED BY <4>2, <4>3
    <3>2. CASE pc[w] # "idle"
      <4>1. pc'[w] = "idle" \/ (pc'[w] = "finish" /\ pc[w] # "finish") \/ pc[w] \in {"fetch", "apply", "read"}
        BY <1>0, <1>8, <3>2, OwnStep
      <4>2. pc'[w] # "idle" => job'[w].key = job[w].key
        BY <1>0, <1>8, <3>2, OwnStep
      <4>3. (pc'[w] # "idle" /\ job'[w].key.name = d) => pc'[w] = "finish"
        BY <2>8, <3>2, <4>1, <4>2 DEF Overruled, Doc
      <4>4. Overruled(d)'
        BY <2>1, <2>8, <4>3 DEF Overruled, Doc
      <4> QED BY <4>4 DEF Handled
    <3> QED BY <3>1, <3>2
  <2>6. CASE WillReport(w, d) /\ Finish(w)
    <3>1. job[w].result = "err" /\ job[w].key = Key(d)
      BY <2>6 DEF WillReport, Finish, At, Fetched
    <3>2. Key(d) \in q'.delayed
      BY <1>0, <2>6, <3>1, FinishQueue
    <3> QED BY <2>1, <3>2 DEF Handled
  <2>7. CASE Key(d) \in q.dirty \cup q.delayed
    <3>1. CASE pc[w] = "idle"
      <4>1. /\ pc'[w] = "fetch" /\ job'[w].key \in q.queue /\ q' = QGet(q, job'[w].key)
        BY <1>0, <1>8, <3>1, OwnStep
      <4>2. q'.dirty = q.dirty \ {job'[w].key} /\ q'.delayed = q.delayed
        BY <1>0, <4>1, QGetOK
      <4>3. CASE job'[w].key = Key(d)
        <5>1. WillReport(w, d)'
          BY <2>1, <4>1, <4>3 DEF WillReport
        <5> QED BY <5>1 DEF Handled
      <4>4. CASE job'[w].key # Key(d)
        BY <2>1, <2>7, <4>2, <4>4 DEF Handled
      <4> QED BY <4>3, <4>4
    <3>2. CASE Finish(w)
      <4>1. q'.dirty = q.dirty /\ q.delayed \subseteq q'.delayed
        BY <1>0, <3>2, FinishQueue
      <4> QED BY <2>1, <2>7, <4>1 DEF Handled
    <3>3. CASE pc[w] # "idle" /\ ~Finish(w)
      <4>1. q' = q
        BY <1>0, <1>8, <3>3, OwnStep
      <4> QED BY <2>1, <2>7, <4>1 DEF Handled
    <3> QED BY <3>1, <3>2, <3>3
  <2> QED BY <2>2, <2>3, <2>4, <2>5, <2>6, <2>7, <2>8 DEF Handled
<1>9. ASSUME NEW c \in late, LateWrite(c) PROVE Handled(d)'
  <2>1. /\ UNCHANGED <<specs, cache, q, pc>> /\ LateDoc(c) \in Desires
        /\ status' = [status EXCEPT ![LateDoc(c)] = NewStatus(c.job)]
        /\ usurped' = IF status[LateDoc(c)] = NoDoc THEN usurped
                       ELSE usurped \cup {LateDoc(c)}
        /\ \A v \in Workers :
              /\ job'[v].key = job[v].key /\ job'[v].desire = job[v].desire
              /\ job'[v].result = job[v].result
    BY <1>0, <1>9, LateType, LateWriteType
  <2>2. Handled(d) /\ Key(d)' = Key(d) /\ specs[d] # NoDoc
    BY <2>1 DEF Remembered, Key
  <2>3. CASE Key(d) \in q.dirty \cup q.delayed
    BY <2>1, <2>2, <2>3 DEF Handled
  <2>4. ASSUME NEW v \in Workers, WillReport(v, d) PROVE Handled(d)'
    <3>1. WillReport(v, d)'
      BY <2>1, <2>2, <2>4 DEF WillReport, Fetched
    <3> QED BY <3>1 DEF Handled
  <2>5. CASE Overruled(d)
    <3>1. Overruled(d)'
      BY <2>1, <2>5 DEF Overruled, Doc
    <3> QED BY <3>1 DEF Handled
  <2>6. CASE Successful(d) /\ ReportsCurrent(d)
    <3>1. CASE LateDoc(c) # d
      BY <1>0, <2>1, <2>6, <3>1 DEF Handled, Successful, ReportsCurrent
    <3>2. CASE LateDoc(c) = d /\ \E w \in Workers : pc[w] \notin {"idle", "finish"} /\ Doc(w) = d
      <4>1. PICK w \in Workers : pc[w] \notin {"idle", "finish"} /\ Doc(w) = d
        BY <3>2
      <4>2. WillReport(w, d)
        BY <2>2, <2>6, <4>1, CurrentWorker DEF ReportsCurrent
      <4> QED BY <2>4, <4>2
    <3>3. CASE LateDoc(c) = d /\ ~\E w \in Workers : pc[w] \notin {"idle", "finish"} /\ Doc(w) = d
      <4>1. d \in usurped'
        BY <2>1, <2>6, <3>3 DEF Successful
      <4>2. Overruled(d)'
        BY <2>1, <3>3, <4>1 DEF Overruled, Doc
      <4> QED BY <4>2 DEF Handled
    <3> QED BY <3>1, <3>2, <3>3
  <2> QED BY <2>2, <2>3, <2>4, <2>5, <2>6 DEF Handled
<1>10. CASE /\ ~(\E e \in Desires : WriteSpec(e) \/ DeleteSpec(e) \/ Deliver(e)) /\ ~Restart
            /\ ~(\E w \in Workers : Calls(w)) /\ ~(\E c \in late : LateWrite(c))
  BY <1>5, <1>10
     DEF Next, vars, Calls, Resync, CooldownElapses, RetryDue, Drift, LateApply, worker, aside,
         budgets
<1> QED BY <1>1, <1>2, <1>3, <1>4, <1>7, <1>8, <1>9, <1>10

(* Once the queue and the workers have let go of a document the informer   *)
(* knows, its status reports the current revision as applied, whatever     *)
(* failed or was restarted, or a late Replace of a stopped process has     *)
(* written it last: that is the one way to lose an update or a failure.    *)
THEOREM NothingForgotten ==
  ASSUME StableScopes
  PROVE  Spec => []IdleMeansReported
<1>1. Init => Remembered
  BY DEF Init, Remembered
<1>2. Ledger /\ InOrder /\ Remembered /\ [Next]_vars => Remembered'
  BY RememberedNext
<1>3. Ledger /\ Remembered => IdleMeansReported
  <2> SUFFICES ASSUME Ledger, Remembered, NEW d \in Desires,
                      specs[d] # NoDoc, cache[d] = specs[d], QIdle(q, Key(d))
               PROVE  (Successful(d) /\ ReportsCurrent(d)) \/ d \in usurped
    BY DEF IdleMeansReported
  <2>1. Handled(d)
    BY DEF Remembered
  <2> QED BY <2>1 DEF Handled, Overruled, WillReport, QIdle, Ledger, Exclusive
<1> QED BY <1>1, <1>2, <1>3, InOrderInvariant, PTL DEF Spec

-----------------------------------------------------------------------------
(* Success means applied, when each document has an object of its own, and *)
(* nobody else has changed the object since a worker last applied to it.   *)

OwnTargets == \A d, e \in Desires : TargetOf[d] = TargetOf[e] => d = e

Holds(d, c) == cluster[TargetOf[d]] # NoDoc /\ cluster[TargetOf[d]].content = c
(* The object after the step.                                              *)
Held(d, c) == cluster'[TargetOf[d]] # NoDoc /\ cluster'[TargetOf[d]].content = c
AppliedJobs ==
  \A w \in Workers :
    (TargetOf[Doc(w)] \notin touched /\ pc[w] \in {"read", "write"} /\ job[w].outcome = "ok") =>
      Holds(Doc(w), job[w].desire.content)
(* The success that a late call would report at the current revision.      *)
Claims(c, d) ==
  /\ c.pc = "write" /\ LateDoc(c) = d /\ c.job.outcome = "ok"
  /\ specs[d] # NoDoc /\ c.job.desire.rev = specs[d].rev
AppliedLate ==
  \A d \in Desires :
    (TargetOf[d] \notin touched /\ \E c \in late : Claims(c, d)) => Holds(d, specs[d].content)
Truthful == AppliedJobs /\ AppliedLate /\ SuccessMeansApplied

(* The steps that neither change a document nor touch the documents.       *)
LEMMA SpecsStay ==
  ASSUME [Next]_vars
  PROVE  UNCHANGED specs \/ (Apart /\ UNCHANGED <<cluster, touched>>)
BY DEF Next, vars, WriteSpec, DeleteSpec, Deliver, Resync, CooldownElapses, RetryDue,
       Drift, Restart, LateApply, LateWrite, SyncOnce, Get, Finish, FetchSpec,
       SpecNotFound, FetchSpecFails, PreCheckFails, ApplySucceeds, ApplyFails,
       ApplyReplyLost, ReadStatus, ReadStatusFails, ReplaceConflicts, WriteFails,
       CreateStatus, ReplaceStatus, worker, aside, budgets, Apart

(* A revision that is already known is not written again.                  *)
LEMMA SpecKept ==
  ASSUME Ledger, [Next]_vars, NEW d \in Desires, specs'[d] # NoDoc,
         NEW r \in Nat, r <= now, specs'[d].rev = r
  PROVE  specs'[d] = specs[d]
<1>0. /\ specs \in [Desires -> SpecDoc \cup {NoDoc}] /\ now \in Nat
  BY DEF Ledger, TypeInv, TypeOK
<1>1. \/ specs'[d] = specs[d]
      \/ specs'[d] = NoDoc
      \/ \E s \in Scopes, k \in Contents :
           specs'[d] = [rev |-> now + 1, scope |-> s, content |-> k]
  BY <1>0 DEF Next, vars, WriteSpec, DeleteSpec, Deliver, Resync, CooldownElapses,
     RetryDue, Drift, Restart, LateApply, LateWrite, SyncOnce, Get, Finish, FetchSpec,
     SpecNotFound, FetchSpecFails, PreCheckFails, ApplySucceeds, ApplyFails,
     ApplyReplyLost, ReadStatus, ReadStatusFails, ReplaceConflicts, WriteFails,
     CreateStatus, ReplaceStatus
<1>2. specs'[d].rev # now + 1
  BY <1>0
<1>3. \A s, k : [rev |-> now + 1, scope |-> s, content |-> k].rev = now + 1
  OBVIOUS
<1> QED BY <1>1, <1>2, <1>3

(* Who may change an object.                                               *)
Touches(t) ==
  /\ touched' = touched \cup {t} /\ late' \subseteq late
  /\ \A u \in Targets \ {t} : cluster'[u] = cluster[u]
  /\ UNCHANGED <<specs, status, pc, job>>
Applies(w) ==
  /\ Calls(w) /\ ~Writing(w) /\ pc[w] = "apply" /\ ApplyEffect(w)
  /\ touched' = touched \ {TargetOf[Doc(w)]}
  /\ UNCHANGED specs

LEMMA ClusterStep ==
  ASSUME TypeInv, [Next]_vars
  PROVE  \/ UNCHANGED <<cluster, touched>>
         \/ \E t \in Targets : Touches(t)
         \/ \E w \in Workers : Applies(w)
<1>0. cluster \in [Targets -> Object \cup {NoDoc}]
  BY DEF TypeInv, TypeOK
<1>1. CASE \E t \in Targets : Drift(t)
  BY <1>0, <1>1 DEF Drift, Touches, worker
<1>2. CASE \E c \in late : LateApply(c)
  <2>1. PICK c \in late : LateApply(c)
    BY <1>2
  <2>2. TargetOf[LateDoc(c)] \in Targets
    BY LateType, TargetAssumption
  <2>3. Touches(TargetOf[LateDoc(c)])
    BY <1>0, <2>1 DEF LateApply, LateDoc, Touches, worker
  <2> QED BY <2>2, <2>3
<1>3. CASE \E w \in Workers : ApplySucceeds(w) \/ ApplyReplyLost(w)
  <2>1. PICK w \in Workers : ApplySucceeds(w) \/ ApplyReplyLost(w)
    BY <1>3
  <2>2. Calls(w) /\ pc[w] = "apply"
    BY <2>1 DEF Calls, SyncOnce, ApplySucceeds, ApplyReplyLost, AtApply, At
  <2>3. ~Writing(w)
    BY <2>2 DEF Writing, CreateStatus, ReplaceStatus, At
  <2> QED BY <2>1, <2>2, <2>3 DEF ApplySucceeds, ApplyReplyLost, Applies
<1>4. CASE /\ ~(\E t \in Targets : Drift(t)) /\ ~(\E c \in late : LateApply(c))
           /\ ~(\E w \in Workers : ApplySucceeds(w) \/ ApplyReplyLost(w))
  BY <1>4 DEF Next, vars, SyncOnce, Get, Finish, FetchSpec, SpecNotFound, FetchSpecFails,
     PreCheckFails, ApplyFails, ReadStatus, ReadStatusFails, ReplaceConflicts, WriteFails,
     CreateStatus, ReplaceStatus, Restart, LateWrite, WriteSpec, DeleteSpec, Deliver, Resync,
     CooldownElapses, RetryDue, aside
<1> QED BY <1>1, <1>2, <1>3, <1>4

(* A worker that applies makes the object true of the revision it holds,   *)
(* which is the newest that anyone reports.                                *)
LEMMA AppliesNext ==
  ASSUME StableScopes, OwnTargets, Ledger, InOrder, Truthful, NEW w \in Workers, Applies(w)
  PROVE  Truthful'
<1> DEFINE t == TargetOf[Doc(w)]
           c == job[w].desire.content
<1>0. /\ TypeInv /\ Exclusive /\ Revisions
      /\ cluster \in [Targets -> Object \cup {NoDoc}]
      /\ \A v \in Workers : pc[v] # "idle" => Doc(v) \in Desires
      /\ \A e \in late : e.job.desire.rev \in Nat /\ LateDoc(e) \in Desires
  BY DocType, LateType DEF Ledger, TypeInv, TypeOK, SpecDoc
<1>1. /\ Calls(w) /\ ~Writing(w) /\ pc[w] = "apply" /\ ApplyEffect(w) /\ UNCHANGED specs
      /\ touched' = touched \ {t}
  BY DEF Applies
<1>2. Doc(w) \in Desires /\ t \in Targets /\ job[w].desire \in SpecDoc
      /\ job[w].desire.rev \in Nat /\ Fetched(w)
  BY <1>0, <1>1, TargetAssumption DEF TypeInv, Shape, SpecDoc, Fetched
<1>3. Applied(cluster[t], c) \in Object /\ Applied(cluster[t], c).content = c
  BY <1>0, <1>2, AppliedType DEF Applied, SpecDoc
<1>4. Held(Doc(w), c)
  BY <1>0, <1>1, <1>2, <1>3, NoDocAssumption DEF ApplyEffect, Held
<1>5. \A d \in Desires : d # Doc(w) =>
        /\ cluster'[TargetOf[d]] = cluster[TargetOf[d]]
        /\ TargetOf[d] \notin touched' => TargetOf[d] \notin touched
  BY <1>0, <1>1, <1>2, TargetAssumption DEF ApplyEffect, OwnTargets
<1>6. pc'[w] = "read" /\ job'[w].key = job[w].key /\ job'[w].desire = job[w].desire
  BY <1>0, <1>1, OwnStep
<1>7. /\ \A v \in Workers \ {w} : pc'[v] = pc[v] /\ job'[v] = job[v]
      /\ UNCHANGED <<status, late>>
  BY <1>0, <1>1, OthersStay
<1>8. AppliedJobs'
  <2> SUFFICES ASSUME NEW v \in Workers, pc'[v] \in {"read", "write"},
                      job'[v].outcome = "ok", TargetOf[job'[v].key.name] \notin touched'
               PROVE  Held(job'[v].key.name, job'[v].desire.content)
    BY DEF AppliedJobs, Holds, Held, Doc
  <2>1. CASE v = w
    BY <1>4, <1>6, <2>1 DEF Doc
  <2>2. CASE v # w
    <3>1. pc[v] # "idle" /\ Doc(v) # Doc(w) /\ Doc(v) \in Desires
      BY <1>0, <1>1, <1>7, <2>2, OnePerDoc
    <3>2. Holds(Doc(v), job[v].desire.content)
      BY <1>5, <1>7, <2>2, <3>1 DEF Truthful, AppliedJobs, Doc
    <3> QED BY <1>5, <1>7, <2>2, <3>1, <3>2 DEF Holds, Held, Doc
  <2> QED BY <2>1, <2>2
<1>9. ASSUME specs[Doc(w)] # NoDoc, specs[Doc(w)].rev <= job[w].desire.rev
      PROVE  Held(Doc(w), specs[Doc(w)].content)
  <2>1. specs[Doc(w)].rev \in Nat
    BY <1>0, <1>2, <1>9 DEF TypeInv, TypeOK, SpecDoc
  <2>2. job[w].desire = specs[Doc(w)]
    BY <1>0, <1>2, <1>9, <2>1 DEF Revisions
  <2> QED BY <1>4, <2>2
<1>10. ASSUME NEW d \in Desires, TargetOf[d] \notin touched', NEW e \in late, Claims(e, d)
       PROVE  Held(d, specs[d].content)
  <2>1. CASE d = Doc(w)
    <3>1. e.job.desire.rev <= job[w].desire.rev
      BY <1>2, <1>10, <2>1 DEF InOrder, LateWrites, Claims
    <3> QED BY <1>9, <1>10, <2>1, <3>1 DEF Claims
  <2>2. CASE d # Doc(w)
    BY <1>5, <1>10, <2>2 DEF Truthful, AppliedLate, Holds, Held
  <2> QED BY <2>1, <2>2
<1>11. AppliedLate'
  BY <1>1, <1>7, <1>10 DEF AppliedLate, Claims, Holds, Held
<1>12. ASSUME NEW d \in Desires, TargetOf[d] \notin touched', Successful(d), ReportsCurrent(d)
       PROVE  Held(d, specs[d].content)
  <2>1. CASE d = Doc(w)
    BY <1>2, <1>9, <1>12, <2>1 DEF InOrder, ReportsCurrent
  <2>2. CASE d # Doc(w)
    BY <1>5, <1>12, <2>2 DEF Truthful, SuccessMeansApplied, Held
  <2> QED BY <2>1, <2>2
<1>13. SuccessMeansApplied'
  BY <1>1, <1>7, <1>12 DEF SuccessMeansApplied, Successful, ReportsCurrent, Held
<1> QED BY <1>8, <1>11, <1>13 DEF Truthful

(* Whoever else changes an object leaves the claims about it open.         *)
LEMMA TouchesNext ==
  ASSUME Ledger, Truthful, NEW t \in Targets, Touches(t)
  PROVE  Truthful'
<1>0. /\ \A w \in Workers : pc[w] # "idle" => Doc(w) \in Desires
      /\ \A d \in Desires : TargetOf[d] \in Targets
  BY DocType, TargetAssumption DEF Ledger
<1>1. /\ late' \subseteq late /\ UNCHANGED <<specs, status, pc, job>>
      /\ \A d \in Desires : TargetOf[d] \notin touched' =>
           TargetOf[d] \notin touched /\ cluster'[TargetOf[d]] = cluster[TargetOf[d]]
  BY <1>0 DEF Touches
<1>2. AppliedJobs'
  BY <1>0, <1>1 DEF Truthful, AppliedJobs, Holds, Doc
<1>3. AppliedLate'
  BY <1>1 DEF Truthful, AppliedLate, Claims, Holds
<1>4. SuccessMeansApplied'
  BY <1>1 DEF Truthful, SuccessMeansApplied, Successful, ReportsCurrent
<1> QED BY <1>2, <1>3, <1>4 DEF Truthful

(* The other steps leave the objects alone.                                *)
LEMMA OthersTruthful ==
  ASSUME StableScopes, Ledger, InOrder, Truthful, [Next]_vars, UNCHANGED <<cluster, touched>>,
         ~(\E w \in Workers : Applies(w))
  PROVE  Truthful'
<1>0. /\ TypeInv /\ Revisions /\ now \in Nat
      /\ specs \in [Desires -> SpecDoc \cup {NoDoc}]
      /\ status \in [Desires -> StatusDoc \cup {NoDoc}]
      /\ \A w \in Workers : pc[w] # "idle" => Doc(w) \in Desires
      /\ \A e \in late : e.job.desire.rev \in Nat /\ LateDoc(e) \in Desires
  BY DocType, LateType DEF Ledger, TypeInv, TypeOK, SpecDoc
<1>1. CASE Apart
  <2>1. AppliedJobs'
    BY <1>1 DEF Apart, Truthful, AppliedJobs, Holds, Doc
  <2>2. ASSUME NEW d \in Desires, TargetOf[d] \notin touched, NEW e \in late', Claims(e, d)'
        PROVE  Claims(e, d) /\ specs'[d] = specs[d]
    <3>1. e \in late /\ specs'[d] # NoDoc /\ specs'[d].rev = e.job.desire.rev
      BY <1>1, <2>2 DEF Apart, Claims
    <3>2. e.job.desire.rev \in Nat /\ e.job.desire.rev <= now
      BY <1>0, <3>1 DEF Revisions
    <3>3. specs'[d] = specs[d]
      BY <3>1, <3>2, SpecKept
    <3> QED BY <2>2, <3>3 DEF Claims, LateDoc
  <2>3. AppliedLate'
    <3> SUFFICES ASSUME NEW d \in Desires, TargetOf[d] \notin touched', NEW e \in late', Claims(e, d)'
                 PROVE  cluster'[TargetOf[d]] # NoDoc
                        /\ cluster'[TargetOf[d]].content = specs'[d].content
      BY DEF AppliedLate, Holds
    <3>1. e \in late /\ Claims(e, d) /\ specs'[d] = specs[d]
      BY <1>1, <2>2 DEF Apart
    <3> QED BY <3>1 DEF Truthful, AppliedLate, Holds
  <2>4. ASSUME NEW d \in Desires, Successful(d), ReportsCurrent(d)'
        PROVE  specs'[d] = specs[d] /\ ReportsCurrent(d)
    <3>1. status[d] # NoDoc /\ status[d].observed \in Nat /\ status[d].observed <= now
      BY <1>0, <2>4 DEF Successful, Revisions, StatusDoc
    <3>2. specs'[d] # NoDoc /\ specs'[d].rev = status[d].observed
      BY <1>1, <2>4 DEF ReportsCurrent, Apart
    <3>3. specs'[d] = specs[d]
      BY <3>1, <3>2, SpecKept
    <3> QED BY <3>1, <3>2, <3>3 DEF ReportsCurrent
  <2>5. SuccessMeansApplied'
    BY <1>1, <2>4 DEF Apart, Truthful, SuccessMeansApplied, Successful
  <2> QED BY <2>1, <2>3, <2>5 DEF Truthful
<1>2. CASE Restart
  <2>1. UNCHANGED <<specs, status>> /\ pc' = [w \in Workers |-> "idle"]
    BY <1>2 DEF Restart
  <2>2. ASSUME NEW d \in Desires, TargetOf[d] \notin touched, NEW e \in late', Claims(e, d)
        PROVE  Holds(d, specs[d].content)
    <3>1. CASE e \in late
      BY <2>2, <3>1 DEF Truthful, AppliedLate
    <3>2. CASE \E w \in Workers : Sent(w) /\ e.pc = pc[w] /\ e.job = job[w]
      <4>1. PICK w \in Workers : Sent(w) /\ e.pc = pc[w] /\ e.job = job[w]
        BY <3>2
      <4>2. pc[w] = "write" /\ Doc(w) = d /\ job[w].outcome = "ok" /\ Fetched(w)
            /\ specs[d] # NoDoc /\ job[w].desire.rev = specs[d].rev
        BY <2>2, <4>1 DEF Claims, LateDoc, Doc, Fetched
      <4>3. job[w].desire = specs[d]
        BY <1>0, <4>2 DEF Revisions
      <4> QED BY <2>2, <4>2, <4>3 DEF Truthful, AppliedJobs
    <3> QED BY <1>0, <1>2, <3>1, <3>2, RestartLate
  <2>3. AppliedLate'
    BY <2>1, <2>2 DEF AppliedLate, Claims, Holds
  <2> QED BY <2>1, <2>3 DEF Truthful, AppliedJobs, SuccessMeansApplied, Successful, ReportsCurrent
<1>3. UNCHANGED specs \/ Apart
  BY SpecsStay
<1>4. ASSUME NEW w \in Workers, Writing(w), UNCHANGED specs PROVE Truthful'
  <2>1. /\ pc[w] = "write" /\ Doc(w) \in Desires
        /\ status' = [status EXCEPT ![Doc(w)] = NewStatus(job[w])]
        /\ NewStatus(job[w]).observed = job[w].desire.rev
        /\ (\E r \in {"nil", "err"} : Write(w, r)) /\ late' \subseteq late
    BY <1>0, <1>4, WriteStep
  <2>2. /\ pc'[w] = "finish"
        /\ \A v \in Workers \ {w} :
             pc'[v] = pc[v] /\ job'[v].key = job[v].key /\ job'[v].desire = job[v].desire
             /\ job'[v].outcome = job[v].outcome
    BY <1>0, <2>1, WriteType
  <2>3. AppliedJobs'
    BY <2>2 DEF Truthful, AppliedJobs, Holds, Doc
  <2>4. AppliedLate'
    BY <1>4, <2>1 DEF Truthful, AppliedLate, Claims, Holds
  <2>5. ASSUME NEW d \in Desires, TargetOf[d] \notin touched, Successful(d)', ReportsCurrent(d)'
        PROVE  Holds(d, specs[d].content)
    <3>1. CASE d = Doc(w)
      <4>1. job[w].outcome = "ok" /\ job[w].desire.rev = specs[d].rev /\ specs[d] # NoDoc
        BY <1>0, <1>4, <2>1, <2>5, <3>1
           DEF Successful, ReportsCurrent, NewStatus, Reason
      <4>2. job[w].desire = specs[d]
        BY <1>0, <2>1, <3>1, <4>1 DEF Revisions, Fetched
      <4> QED BY <2>1, <2>5, <3>1, <4>1, <4>2 DEF Truthful, AppliedJobs
    <3>2. CASE d # Doc(w)
      BY <1>0, <1>4, <2>1, <2>5, <3>2
         DEF Truthful, SuccessMeansApplied, Successful, ReportsCurrent, Holds
    <3> QED BY <3>1, <3>2
  <2>6. SuccessMeansApplied'
    BY <1>4, <2>5 DEF SuccessMeansApplied, Holds
  <2> QED BY <2>3, <2>4, <2>6 DEF Truthful
<1>5. ASSUME NEW w \in Workers, Calls(w), ~Writing(w), UNCHANGED specs PROVE Truthful'
  <2>1. /\ \A v \in Workers \ {w} : pc'[v] = pc[v] /\ job'[v] = job[v]
        /\ UNCHANGED <<status, late>>
    BY <1>0, <1>5, OthersStay
  <2>2. ASSUME pc[w] = "apply" PROVE job'[w].outcome # "ok" \/ pc'[w] # "read"
    <3>1. CASE ApplySucceeds(w)
      <4>1. Applies(w)
        BY <1>5, <2>2, <3>1 DEF ApplySucceeds, Applies
      <4> QED BY <4>1
    <3>2. CASE ~ApplySucceeds(w)
      <4>1. \E o \in {"precheck", "client", "server"} : Failed(w, o)
        BY <1>5, <2>2, <3>2, ErrorAssumption
           DEF Calls, SyncOnce, Get, Finish, FetchSpec, SpecNotFound, FetchSpecFails,
               PreCheckFails, ApplyFails, ApplyReplyLost, ReadStatus, ReadStatusFails,
               CreateStatus, ReplaceStatus, ReplaceConflicts, WriteFails, At
      <4>2. job[w] \in Job /\ job \in [Workers -> Job]
        BY <1>0 DEF TypeInv, TypeOK
      <4> QED BY <4>1, <4>2 DEF Failed, Goto, Job
    <3> QED BY <3>1, <3>2
  <2>3. (pc'[w] \in {"read", "write"} /\ job'[w].outcome = "ok") =>
          /\ pc[w] \in {"read", "write"} /\ job'[w].key = job[w].key
          /\ job'[w].desire = job[w].desire /\ job'[w].outcome = job[w].outcome
    BY <1>0, <1>5, <2>2, OwnStep
  <2>4. AppliedJobs'
    BY <2>1, <2>3 DEF Truthful, AppliedJobs, Holds, Doc
  <2> QED BY <1>5, <2>1, <2>4 DEF Truthful, AppliedLate, Claims, Holds, SuccessMeansApplied,
             Successful, ReportsCurrent
<1>6. ASSUME NEW c \in late, LateWrite(c), UNCHANGED specs PROVE Truthful'
  <2>1. /\ c.pc = "write" /\ UNCHANGED pc /\ late' \subseteq late /\ LateDoc(c) \in Desires
        /\ status' = [status EXCEPT ![LateDoc(c)] = NewStatus(c.job)]
        /\ NewStatus(c.job).observed = c.job.desire.rev
        /\ \A v \in Workers :
             /\ job'[v].key = job[v].key /\ job'[v].desire = job[v].desire
             /\ job'[v].outcome = job[v].outcome
    BY <1>0, <1>6, LateWriteType
  <2>2. AppliedJobs'
    BY <2>1 DEF Truthful, AppliedJobs, Holds, Doc
  <2>3. AppliedLate'
    BY <1>6, <2>1 DEF Truthful, AppliedLate, Claims, Holds
  <2>4. ASSUME NEW d \in Desires, TargetOf[d] \notin touched, Successful(d)', ReportsCurrent(d)'
        PROVE  Holds(d, specs[d].content)
    <3>1. CASE d = LateDoc(c)
      <4>1. c.job.outcome = "ok" /\ c.job.desire.rev = specs[d].rev /\ specs[d] # NoDoc
        BY <1>0, <1>6, <2>1, <2>4, <3>1
           DEF Successful, ReportsCurrent, NewStatus, Reason
      <4>2. Claims(c, d)
        BY <2>1, <3>1, <4>1 DEF Claims
      <4> QED BY <2>4, <4>2 DEF Truthful, AppliedLate
    <3>2. CASE d # LateDoc(c)
      BY <1>0, <1>6, <2>1, <2>4, <3>2
         DEF Truthful, SuccessMeansApplied, Successful, ReportsCurrent, Holds
    <3> QED BY <3>1, <3>2
  <2>5. SuccessMeansApplied'
    BY <1>6, <2>4 DEF SuccessMeansApplied, Holds
  <2> QED BY <2>2, <2>3, <2>5 DEF Truthful
<1> QED BY <1>1, <1>2, <1>3, <1>4, <1>5, <1>6, StepKinds

(* A successful status at the current revision is true of the object, if   *)
(* nobody else, and no apply of a stopped process, has changed the object  *)
(* since a worker last applied to it.                                      *)
THEOREM SuccessApplied ==
  ASSUME StableScopes, OwnTargets
  PROVE  Spec => []SuccessMeansApplied
<1>1. Init => Truthful
  BY DEF Init, Truthful, AppliedJobs, AppliedLate, SuccessMeansApplied, Successful
<1>2. Ledger /\ InOrder /\ Truthful /\ [Next]_vars => Truthful'
  <2> SUFFICES ASSUME Ledger, InOrder, Truthful, [Next]_vars PROVE Truthful'
    OBVIOUS
  <2>1. TypeInv
    BY DEF Ledger
  <2>2. CASE \E w \in Workers : Applies(w)
    BY <2>2, AppliesNext
  <2>3. CASE \E t \in Targets : Touches(t)
    BY <2>3, TouchesNext
  <2>4. CASE UNCHANGED <<cluster, touched>> /\ ~(\E w \in Workers : Applies(w))
    BY <2>4, OthersTruthful
  <2> QED BY <2>1, <2>2, <2>3, <2>4, ClusterStep
<1>3. Truthful => SuccessMeansApplied
  BY DEF Truthful
<1> QED BY <1>1, <1>2, <1>3, InOrderInvariant, PTL DEF Spec
=============================================================================
