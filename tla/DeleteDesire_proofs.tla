------------------------ MODULE DeleteDesire_proofs ------------------------
(***************************************************************************)
(* Theorems of DeleteDesire, for every set of documents, objects and       *)
(* workers, with any number of revisions, re-creations, failures and       *)
(* restarts, and status writes that land after their process has gone.     *)
(***************************************************************************)
EXTENDS DeleteDesire, WorkQueue_proofs

Labels == {"idle", "fetch", "evaluate", "delete", "postGet", "read", "write", "finish"}
(* Where a worker holds the spec it fetched.                               *)
Holding == {"evaluate", "delete", "postGet", "read", "write"}

-----------------------------------------------------------------------------
(* The types of what the actions compute.                                  *)

LEMMA NoErrorsType == NoErrors \in Verdict /\ NoErrors.reason = "NoErrors"
BY DEF NoErrors, Verdict, Reasons

LEMMA IdleJobType == IdleJob \in Job
BY NoErrorsType DEF IdleJob, Job

LEMMA WaitingForType ==
  ASSUME NEW obj \in Object
  PROVE  WaitingFor(obj) \in Verdict /\ WaitingFor(obj).reason # "NoErrors"
BY DEF WaitingFor, Object, Verdict, Reasons

LEMMA FailureType ==
  ASSUME NEW reason \in {"PreCheckFailed", "KubeAPIError"}, NEW e
  PROVE  Failure(reason, e) \in Verdict /\ Failure(reason, e).reason # "NoErrors"
BY DEF Failure, Verdict, Reasons

LEMMA DeletedType ==
  ASSUME NEW obj \in Object
  PROVE  Deleted(obj) \in Object \cup {NoDoc}
BY DEF Deleted, Object

LEMMA NewStatusType ==
  ASSUME NEW j \in Job, j.desire \in SpecDoc
  PROVE  /\ NewStatus(j) \in StatusDoc
         /\ NewStatus(j).observed = j.desire.rev /\ NewStatus(j).verdict = j.verdict
BY DEF NewStatus, Job, SpecDoc, StatusDoc

LEMMA JoinType ==
  ASSUME NEW v, NEW r \in {"nil", "err"}
  PROVE  Join(v, r) \in {"nil", "err"}
BY DEF Join

LEMMA LateType ==
  ASSUME TypeOK, NEW c \in late
  PROVE  /\ c \in LateWrites /\ c.doc \in Desires /\ TargetOf[c.doc] \in Targets
         /\ c.new \in StatusDoc /\ c.new # NoDoc
         /\ c.new.observed \in Nat /\ c.new.verdict.uid \in Nat
BY NoDocAssumption, TargetAssumption DEF TypeOK, LateWrites, StatusDoc, Verdict

(* A late write moves no worker, and changes nothing but `fresh` in them.  *)
LEMMA LateMove ==
  ASSUME TypeOK, NEW c \in late, LateWrite(c)
  PROVE  /\ status' = [status EXCEPT ![c.doc] = c.new]
         /\ UNCHANGED <<specs, now, cache, q, cooling, objects, uids, pc, restarts>>
         /\ late' = late \ Overtaken(c.doc)
         /\ usurped' = IF status[c.doc] = NoDoc THEN usurped ELSE usurped \cup {c.doc}
         /\ job' \in [Workers -> Job]
         /\ \A v \in Workers :
              /\ job'[v].key = job[v].key /\ job'[v].desire = job[v].desire
              /\ job'[v].verdict = job[v].verdict /\ job'[v].exists = job[v].exists
              /\ job'[v].result = job[v].result
              /\ (pc[v] # "write" \/ Doc(v) # c.doc) => job'[v] = job[v]
<1>1. /\ status' = [status EXCEPT ![c.doc] = c.new]
      /\ UNCHANGED <<specs, now, cache, q, cooling, objects, uids, pc, restarts>>
      /\ late' = late \ Overtaken(c.doc)
      /\ usurped' = IF status[c.doc] = NoDoc THEN usurped ELSE usurped \cup {c.doc}
      /\ job' = [v \in Workers |-> IF pc[v] = "write" /\ Doc(v) = c.doc
                                   THEN [job[v] EXCEPT !.fresh = FALSE] ELSE job[v]]
  BY DEF LateWrite, db, intake, api
<1>2. \A v \in Workers : job[v] \in Job /\ [job[v] EXCEPT !.fresh = FALSE] \in Job
  BY DEF TypeOK, Job
<1>3. \A v \in Workers :
        /\ job'[v].key = job[v].key /\ job'[v].desire = job[v].desire
        /\ job'[v].verdict = job[v].verdict /\ job'[v].exists = job[v].exists
        /\ job'[v].result = job[v].result
        /\ (pc[v] # "write" \/ Doc(v) # c.doc) => job'[v] = job[v]
  BY <1>1, <1>2 DEF Job
<1>4. job' \in [Workers -> Job]
  BY <1>1, <1>2
<1> QED BY <1>1, <1>3, <1>4

-----------------------------------------------------------------------------
(* The inductive invariant.                                                *)

(* What a worker knows: revisions are not ahead of the database's commits, *)
(* and a verdict of success was reached at or after the revision it is     *)
(* about to be reported for.                                               *)
Known(w) ==
  /\ pc[w] # "idle" => job[w].key \in Desires
  /\ pc[w] \in Holding => job[w].desire \in SpecDoc /\ job[w].desire.rev <= now
  /\ (pc[w] \in {"read", "write"} /\ job[w].verdict.reason = "NoErrors") =>
       absent[Target(w)] >= job[w].desire.rev

(* What the databases and the cluster have seen.                           *)
Seen ==
  /\ \A t \in Targets : absent[t] <= now /\ (objects[t] = NoDoc => absent[t] = now)
  /\ \A d \in Desires : specs[d] # NoDoc => specs[d].rev <= now

(* So does a write that has outlived its worker.                           *)
Carried(c) ==
  /\ c.new.observed <= now
  /\ c.new.verdict.reason = "NoErrors" => absent[TargetOf[c.doc]] >= c.new.observed

Witnessed ==
  /\ TypeOK /\ Seen /\ SuccessMeansWasGone
  /\ (\A w \in Workers : Known(w)) /\ (\A c \in late : Carried(c))

LEMMA WitnessedInit == Init => Witnessed
<1> SUFFICES ASSUME Init PROVE Witnessed
  OBVIOUS
<1>1. TypeOK
  BY IdleJobType, EmptyQueueOK DEF Init, TypeOK
<1>2. Seen
  BY DEF Init, Seen
<1>3. \A w \in Workers : Known(w)
  BY DEF Init, Known, Holding
<1>4. SuccessMeansWasGone
  BY DEF Init, SuccessMeansWasGone, Successful, Reason
<1> QED BY <1>1, <1>2, <1>3, <1>4 DEF Init, Witnessed

(* The history variable only grows, and records every absence.             *)
LEMMA Observed ==
  ASSUME Witnessed, Observe, now' \in Nat, now' >= now
  PROVE  /\ absent' \in [Targets -> Nat]
         /\ \A t \in Targets : /\ absent'[t] >= absent[t] /\ absent'[t] <= now'
                               /\ objects'[t] = NoDoc => absent'[t] = now'
<1>1. absent \in [Targets -> Nat] /\ now \in Nat /\ \A t \in Targets : absent[t] <= now
  BY DEF Witnessed, TypeOK, Seen
<1>2. absent' = [t \in Targets |-> IF objects'[t] = NoDoc THEN now' ELSE absent[t]]
  BY DEF Observe
<1> QED BY <1>1, <1>2

(* What the workers know and what was reported survives every step that    *)
(* leaves workers and statuses alone.                                      *)
LEMMA OutsideStep ==
  ASSUME Witnessed, Observe, now' \in Nat, now' >= now,
         UNCHANGED <<pc, job, status>>
  PROVE  (\A w \in Workers : Known(w)') /\ SuccessMeansWasGone'
<1>1. /\ \A t \in Targets : absent'[t] \in Nat /\ absent[t] \in Nat /\ absent'[t] >= absent[t]
      /\ now \in Nat
  BY Observed DEF Witnessed, TypeOK
<1>2. ASSUME NEW w \in Workers PROVE Known(w)'
  <2>1. Known(w) /\ (pc[w] \in Holding => job[w].desire.rev \in Nat)
    BY DEF Witnessed, Known, SpecDoc
  <2>2. pc[w] \in {"read", "write"} => Target(w) \in Targets /\ pc[w] \in Holding
    BY <2>1, TargetAssumption DEF Known, Target, Doc, Holding
  <2> QED BY <1>1, <2>1, <2>2 DEF Known, Target, Doc
<1>3. SuccessMeansWasGone'
  <2> SUFFICES ASSUME NEW d \in Desires, Successful(d)
               PROVE  absent'[TargetOf[d]] >= status[d].observed
    BY DEF SuccessMeansWasGone, Successful, Reason
  <2>1. absent[TargetOf[d]] >= status[d].observed
    BY DEF Witnessed, SuccessMeansWasGone
  <2>2. TargetOf[d] \in Targets /\ status[d] \in StatusDoc
    BY TargetAssumption DEF Witnessed, TypeOK, Successful, Reason
  <2>3. status[d].observed \in Nat
    BY <2>2 DEF StatusDoc
  <2> QED BY <1>1, <2>1, <2>2, <2>3
<1> QED BY <1>2, <1>3

(* A worker moves to a label with new locals.                              *)
LEMMA GotoStep ==
  ASSUME Witnessed, Observe, UNCHANGED <<specs, now>>,
         NEW w \in Workers, NEW label \in Labels, NEW j \in Job, Goto(w, label, j),
         label # "idle" => j.key \in Desires,
         label \in Holding => j.desire \in SpecDoc /\ j.desire.rev <= now,
         (label \in {"read", "write"} /\ j.verdict.reason = "NoErrors") =>
           absent[TargetOf[j.key]] >= j.desire.rev
  PROVE  /\ pc' \in [Workers -> Labels] /\ job' \in [Workers -> Job]
         /\ \A v \in Workers : Known(v)'
<1>1. /\ pc \in [Workers -> Labels] /\ job \in [Workers -> Job]
      /\ now \in Nat /\ now' = now
      /\ \A v \in Workers : Known(v)
  BY DEF Witnessed, TypeOK, Labels
<1>2. pc' = [pc EXCEPT ![w] = label] /\ job' = [job EXCEPT ![w] = j]
  BY DEF Goto
<1>3. \A t \in Targets : absent'[t] \in Nat /\ absent[t] \in Nat /\ absent'[t] >= absent[t]
  BY <1>1, Observed DEF Witnessed, TypeOK
<1>4. pc' \in [Workers -> Labels] /\ job' \in [Workers -> Job]
  BY <1>1, <1>2
<1>5. pc'[w] = label /\ job'[w] = j
  BY <1>1, <1>2
<1>6. \A v \in Workers \ {w} : pc'[v] = pc[v] /\ job'[v] = job[v]
  BY <1>1, <1>2
<1>7. Known(w)'
  <2>1. label \in {"read", "write"} =>
          TargetOf[j.key] \in Targets /\ j.desire \in SpecDoc
    BY TargetAssumption DEF Holding
  <2> QED BY <1>1, <1>3, <1>5, <2>1 DEF Known, Target, Doc, SpecDoc
<1>8. ASSUME NEW v \in Workers \ {w} PROVE Known(v)'
  <2>1. Known(v) /\ pc'[v] = pc[v] /\ job'[v] = job[v]
    BY <1>1, <1>6
  <2>2. pc[v] \in {"read", "write"} => TargetOf[job[v].key] \in Targets /\ job[v].desire \in SpecDoc
    BY <2>1, TargetAssumption DEF Known, Holding
  <2> QED BY <1>1, <1>3, <2>1, <2>2 DEF Known, Target, Doc, SpecDoc
<1> QED BY <1>4, <1>7, <1>8

(* It returns from SyncOnce.                                               *)
LEMMA ReturnStep ==
  ASSUME Witnessed, Observe, UNCHANGED <<specs, now>>,
         NEW w \in Workers, pc[w] # "idle", NEW r \in {"nil", "err"}, Return(w, r)
  PROVE  /\ pc' \in [Workers -> Labels] /\ job' \in [Workers -> Job]
         /\ \A v \in Workers : Known(v)'
<1> DEFINE j == [IdleJob EXCEPT !.key = job[w].key, !.result = r]
<1>1. job[w].key \in Desires
  BY DEF Witnessed, Known
<1>2. j \in Job /\ j.key = job[w].key
  BY <1>1, IdleJobType DEF Job, IdleJob
<1>3. Goto(w, "finish", j)
  BY DEF Return
<1> HIDE DEF j
<1> QED BY <1>1, <1>2, <1>3, GotoStep DEF Labels, Holding

(* It goes on with its key and spec, with a new verdict, `exists`, `fresh`.*)
LEMMA ContinueStep ==
  ASSUME Witnessed, Observe, UNCHANGED <<specs, now>>,
         NEW w \in Workers, pc[w] \in Holding, NEW label \in Holding,
         NEW v \in Verdict, NEW e \in BOOLEAN, NEW f \in BOOLEAN,
         Goto(w, label, [job[w] EXCEPT !.verdict = v, !.exists = e, !.fresh = f]),
         (label \in {"read", "write"} /\ v.reason = "NoErrors") =>
           absent[Target(w)] >= job[w].desire.rev
  PROVE  /\ pc' \in [Workers -> Labels] /\ job' \in [Workers -> Job]
         /\ \A u \in Workers : Known(u)'
<1> DEFINE j == [job[w] EXCEPT !.verdict = v, !.exists = e, !.fresh = f]
<1>1. /\ job[w] \in Job /\ job[w].key \in Desires
      /\ job[w].desire \in SpecDoc /\ job[w].desire.rev <= now
  BY DEF Witnessed, TypeOK, Known, Holding
<1>2. j \in Job /\ j.key = job[w].key /\ j.desire = job[w].desire /\ j.verdict = v
  BY <1>1 DEF Job
<1>3. Goto(w, label, j)
  OBVIOUS
<1>4. label \in Labels
  BY DEF Holding, Labels
<1> HIDE DEF j
<1> QED BY <1>1, <1>2, <1>3, <1>4, GotoStep DEF Target, Doc

-----------------------------------------------------------------------------
(* The steps.                                                              *)

(* The worker's calls: what SyncOnce leaves to type is only the status and *)
(* the objects.                                                            *)
Preserved ==
  /\ pc' \in [Workers -> Labels] /\ job' \in [Workers -> Job]
  /\ (\A w \in Workers : Known(w)')

(* Its verdict is success only if it has just seen the object absent.      *)
LEMMA DecideStep ==
  ASSUME Witnessed, Observe, UNCHANGED <<specs, now>>,
         NEW w \in Workers, pc[w] \in {"evaluate", "delete", "postGet"},
         NEW v \in Verdict, Decide(w, v),
         v.reason = "NoErrors" => objects[Target(w)] = NoDoc
  PROVE  Preserved
<1>1. /\ job[w] \in Job /\ job[w].exists \in BOOLEAN /\ job[w].fresh \in BOOLEAN
      /\ pc[w] \in Holding
      /\ job[w].key \in Desires /\ job[w].desire \in SpecDoc /\ job[w].desire.rev <= now
  BY DEF Witnessed, TypeOK, Job, Known, Holding
<1>2. [job[w] EXCEPT !.verdict = v, !.exists = job[w].exists, !.fresh = job[w].fresh]
        = [job[w] EXCEPT !.verdict = v]
  BY <1>1 DEF Job
<1>3. Goto(w, "read", [job[w] EXCEPT !.verdict = v, !.exists = job[w].exists,
                                     !.fresh = job[w].fresh])
  BY <1>2 DEF Decide
<1>4. Target(w) \in Targets
  BY <1>1, TargetAssumption DEF Target, Doc
<1>5. v.reason = "NoErrors" => absent[Target(w)] >= job[w].desire.rev
  BY <1>1, <1>4 DEF Witnessed, Seen, TypeOK, SpecDoc
<1> QED BY <1>1, <1>3, <1>5, ContinueStep DEF Holding, Preserved

LEMMA FetchStep ==
  ASSUME Witnessed, Observe, NEW w \in Workers,
         FetchSpec(w) \/ SpecNotFound(w) \/ FetchSpecFails(w)
  PROVE  Preserved
<1>1. CASE FetchSpec(w)
  <2> DEFINE j == [job[w] EXCEPT !.desire = specs[Doc(w)]]
  <2>1. /\ pc[w] = "fetch" /\ specs[Doc(w)] # NoDoc /\ UNCHANGED <<specs, now>>
        /\ Goto(w, "evaluate", j)
    BY <1>1 DEF FetchSpec, At, db
  <2>2. job[w] \in Job /\ job[w].key \in Desires
    BY <2>1 DEF Witnessed, TypeOK, Known
  <2>3. specs[Doc(w)] \in SpecDoc /\ specs[Doc(w)].rev <= now
    BY <2>1, <2>2 DEF Witnessed, TypeOK, Seen, Doc
  <2>4. j \in Job /\ j.key = job[w].key /\ j.desire = specs[Doc(w)]
    BY <2>2, <2>3 DEF Job
  <2> HIDE DEF j
  <2> QED BY <2>1, <2>2, <2>3, <2>4, GotoStep DEF Labels, Preserved
<1>2. CASE SpecNotFound(w) \/ FetchSpecFails(w)
  BY <1>2, ReturnStep DEF SpecNotFound, FetchSpecFails, At, db, Preserved
<1> QED BY <1>1, <1>2

LEMMA EvaluateStep ==
  ASSUME Witnessed, Observe, NEW w \in Workers, evaluate(w)
  PROVE  Preserved /\ objects' \in [Targets -> Object \cup {NoDoc}]
<1>1. /\ pc[w] \in {"evaluate", "delete", "postGet"} /\ UNCHANGED <<specs, now>>
  BY DEF evaluate, PreCheckFails, GetTarget, DeleteTarget, DeleteNotFound,
         DeleteReplyLost, PostGet, CallFails, At, db
<1>2. /\ objects \in [Targets -> Object \cup {NoDoc}]
      /\ job[w] \in Job /\ pc[w] \in Holding /\ job[w].key \in Desires
  BY <1>1 DEF Witnessed, TypeOK, Known, Holding
<1>3. Target(w) \in Targets
  BY <1>2, TargetAssumption DEF Target, Doc
<1>4. objects' \in [Targets -> Object \cup {NoDoc}]
  <2>1. CASE UNCHANGED objects
    BY <1>2, <2>1
  <2>2. CASE DeleteEffect(w)
    <3>1. Deleted(objects[Target(w)]) \in Object \cup {NoDoc}
      BY <1>2, <1>3, <2>2, DeletedType DEF DeleteEffect
    <3> QED BY <1>2, <1>3, <2>2, <3>1 DEF DeleteEffect
  <2> QED BY <2>1, <2>2
          DEF evaluate, PreCheckFails, GetTarget, DeleteTarget, DeleteNotFound,
              DeleteReplyLost, PostGet, CallFails, api
<1>5. ASSUME NEW label \in {"delete", "postGet"}, Continue(w, label) PROVE Preserved
  <2>1. /\ job[w].verdict \in Verdict /\ job[w].exists \in BOOLEAN
        /\ job[w].fresh \in BOOLEAN
    BY <1>2 DEF Job
  <2>2. [job[w] EXCEPT !.verdict = job[w].verdict, !.exists = job[w].exists,
                       !.fresh = job[w].fresh] = job[w]
    BY <1>2 DEF Job
  <2>3. Goto(w, label, [job[w] EXCEPT !.verdict = job[w].verdict, !.exists = job[w].exists,
                                      !.fresh = job[w].fresh])
    BY <1>5, <2>2 DEF Continue
  <2> QED BY <1>1, <1>2, <2>1, <2>3, ContinueStep DEF Holding, Preserved
<1>6. ASSUME NEW reason \in {"PreCheckFailed", "KubeAPIError"}, NEW e,
             Decide(w, Failure(reason, e))
      PROVE  Preserved
  BY <1>1, <1>6, FailureType, DecideStep
<1>7. ASSUME objects[Target(w)] = NoDoc, Decide(w, NoErrors) PROVE Preserved
  BY <1>1, <1>7, NoErrorsType, DecideStep
<1>8. ASSUME objects[Target(w)] # NoDoc, Decide(w, WaitingFor(objects[Target(w)]))
      PROVE  Preserved
  <2>1. objects[Target(w)] \in Object
    BY <1>2, <1>3, <1>8
  <2> QED BY <1>1, <1>8, <2>1, WaitingForType, DecideStep
<1>9. CASE PreCheckFails(w) \/ DeleteReplyLost(w) \/ CallFails(w)
  BY <1>4, <1>6, <1>9 DEF PreCheckFails, DeleteReplyLost, CallFails
<1>10. CASE GetTarget(w)
  BY <1>4, <1>5, <1>7, <1>8, <1>10 DEF GetTarget
<1>11. CASE DeleteTarget(w) \/ DeleteNotFound(w)
  BY <1>4, <1>5, <1>7, <1>11 DEF DeleteTarget, AfterDelete, DeleteNotFound
<1>12. CASE PostGet(w)
  BY <1>4, <1>7, <1>8, <1>12 DEF PostGet
<1> QED BY <1>4, <1>9, <1>10, <1>11, <1>12 DEF evaluate

LEMMA ReportStep ==
  ASSUME Witnessed, Observe, NEW w \in Workers,
         ReadStatus(w) \/ WriteStatus(w) \/ WriteConflicts(w) \/ StatusFails(w)
  PROVE  Preserved
<1>1. /\ pc[w] \in {"read", "write"} /\ UNCHANGED <<specs, now>>
  BY DEF ReadStatus, WriteStatus, WriteConflicts, StatusFails, At, db
<1>2. /\ job[w] \in Job /\ pc[w] \in Holding /\ Known(w)
  BY <1>1 DEF Witnessed, TypeOK, Holding
<1>3. ASSUME NEW r \in {"nil", "err"}, Return(w, r) PROVE Preserved
  BY <1>1, <1>3, ReturnStep DEF Preserved
<1>4. ASSUME NEW r \in {"nil", "err"}, Return(w, Join(job[w].verdict, r)) PROVE Preserved
  BY <1>3, <1>4, JoinType
<1>5. CASE ReadStatus(w)
  <2>1. CASE Return(w, Join(job[w].verdict, "nil"))
    BY <1>4, <2>1
  <2> DEFINE e == (status[Doc(w)] # NoDoc)
  <2>2. CASE Goto(w, "write", [job[w] EXCEPT !.exists = e, !.fresh = TRUE])
    <3>1. e \in BOOLEAN /\ job[w].verdict \in Verdict
      BY <1>2 DEF Job
    <3>2. [job[w] EXCEPT !.verdict = job[w].verdict, !.exists = e, !.fresh = TRUE]
            = [job[w] EXCEPT !.exists = e, !.fresh = TRUE]
      BY <1>2 DEF Job
    <3>3. Goto(w, "write", [job[w] EXCEPT !.verdict = job[w].verdict, !.exists = e,
                                          !.fresh = TRUE])
      BY <2>2, <3>2
    <3>4. job[w].verdict.reason = "NoErrors" => absent[Target(w)] >= job[w].desire.rev
      BY <1>1, <1>2 DEF Known
    <3> HIDE DEF e
    <3> QED BY <1>1, <1>2, <3>1, <3>3, <3>4, ContinueStep DEF Holding, Preserved
  <2> QED BY <1>5, <2>1, <2>2 DEF ReadStatus
<1>6. CASE WriteStatus(w) \/ WriteConflicts(w)
  BY <1>4, <1>6 DEF WriteStatus, WriteConflicts
<1>7. CASE StatusFails(w)
  BY <1>3, <1>7 DEF StatusFails
<1> QED BY <1>5, <1>6, <1>7

(* Success is reported only from a verdict of success.                     *)
LEMMA WriteStep ==
  ASSUME Witnessed, Observe, NEW w \in Workers, WriteStatus(w)
  PROVE  status' \in [Desires -> StatusDoc \cup {NoDoc}] /\ SuccessMeansWasGone'
<1> DEFINE d == Doc(w)
           s == NewStatus(job[w])
<1>1. /\ pc[w] = "write" /\ UNCHANGED now /\ status' = [status EXCEPT ![d] = s]
  BY DEF WriteStatus, At, db
<1>2. /\ job[w] \in Job /\ Known(w) /\ d \in Desires
      /\ job[w].desire \in SpecDoc
      /\ status \in [Desires -> StatusDoc \cup {NoDoc}] /\ now \in Nat
  BY <1>1 DEF Witnessed, TypeOK, Known, Holding, Doc
<1>3. s \in StatusDoc /\ s.observed = job[w].desire.rev /\ s.verdict = job[w].verdict
  BY <1>2, NewStatusType
<1> HIDE DEF s, d
<1>4. status' \in [Desires -> StatusDoc \cup {NoDoc}]
  BY <1>1, <1>2, <1>3
<1>5. /\ absent \in [Targets -> Nat] /\ absent' \in [Targets -> Nat]
      /\ \A t \in Targets : absent'[t] >= absent[t]
  BY <1>1, <1>2, Observed DEF Witnessed, TypeOK
<1>6. ASSUME NEW e \in Desires, status'[e] # NoDoc, status'[e].verdict.reason = "NoErrors"
      PROVE  absent'[TargetOf[e]] >= status'[e].observed
  <2>1. TargetOf[e] \in Targets
    BY TargetAssumption
  <2>2. CASE e = d
    <3>1. status'[e] = s
      BY <1>1, <1>2, <2>2
    <3>2. absent[TargetOf[e]] >= s.observed
      BY <1>1, <1>2, <1>3, <1>6, <2>2, <3>1 DEF Known, Target, Doc, d
    <3>3. s.observed \in Nat
      BY <1>3 DEF StatusDoc
    <3> QED BY <1>5, <2>1, <3>1, <3>2, <3>3
  <2>3. CASE e # d
    <3>1. status'[e] = status[e]
      BY <1>1, <1>2, <2>3
    <3>2. absent[TargetOf[e]] >= status[e].observed
      BY <1>6, <3>1 DEF Witnessed, SuccessMeansWasGone, Successful, Reason
    <3>3. status[e].observed \in Nat
      BY <1>2, <1>6, <3>1 DEF StatusDoc
    <3> QED BY <1>5, <2>1, <3>1, <3>2, <3>3
  <2> QED BY <2>2, <2>3
<1>7. SuccessMeansWasGone'
  BY <1>6 DEF SuccessMeansWasGone, Successful, Reason
<1> QED BY <1>4, <1>7

(* A late write reports what its worker knew.                              *)
LEMMA LateWriteStep ==
  ASSUME Witnessed, Observe, NEW c \in late, LateWrite(c)
  PROVE  /\ Preserved /\ status' \in [Desires -> StatusDoc \cup {NoDoc}]
         /\ SuccessMeansWasGone'
<1>1. /\ TypeOK /\ pc \in [Workers -> Labels] /\ now \in Nat
      /\ status \in [Desires -> StatusDoc \cup {NoDoc}]
      /\ \A v \in Workers : Known(v)
      /\ Carried(c)
  BY DEF Witnessed, TypeOK, Labels
<1>2. /\ c.doc \in Desires /\ c.new \in StatusDoc /\ c.new.observed \in Nat
  BY <1>1, LateType
<1>3. /\ status' = [status EXCEPT ![c.doc] = c.new] /\ pc' = pc /\ now' = now
      /\ job' \in [Workers -> Job]
      /\ \A v \in Workers :
           /\ job'[v].key = job[v].key /\ job'[v].desire = job[v].desire
           /\ job'[v].verdict = job[v].verdict
  BY <1>1, LateMove
<1>4. status' \in [Desires -> StatusDoc \cup {NoDoc}]
  BY <1>1, <1>2, <1>3
<1>5. /\ absent \in [Targets -> Nat] /\ absent' \in [Targets -> Nat]
      /\ \A t \in Targets : absent'[t] >= absent[t]
  BY <1>1, <1>3, Observed DEF TypeOK
<1>6. ASSUME NEW v \in Workers PROVE Known(v)'
  <2>1. /\ Known(v)
        /\ pc[v] \in {"read", "write"} =>
             TargetOf[job[v].key] \in Targets /\ job[v].desire.rev \in Nat
    BY <1>1, TargetAssumption DEF Known, Holding, SpecDoc
  <2> QED BY <1>3, <1>5, <2>1 DEF Known, Target, Doc
<1>7. ASSUME NEW e \in Desires, status'[e] # NoDoc, status'[e].verdict.reason = "NoErrors"
      PROVE  absent'[TargetOf[e]] >= status'[e].observed
  <2>1. TargetOf[e] \in Targets
    BY TargetAssumption
  <2>2. CASE e = c.doc
    <3>1. status'[e] = c.new
      BY <1>1, <1>2, <1>3, <2>2
    <3> QED BY <1>1, <1>2, <1>5, <1>7, <2>1, <2>2, <3>1 DEF Carried
  <2>3. CASE e # c.doc
    <3>1. status'[e] = status[e]
      BY <1>1, <1>2, <1>3, <2>3
    <3>2. absent[TargetOf[e]] >= status[e].observed
      BY <1>7, <3>1 DEF Witnessed, SuccessMeansWasGone, Successful, Reason
    <3>3. status[e].observed \in Nat
      BY <1>1, <1>7, <3>1 DEF StatusDoc
    <3> QED BY <1>5, <2>1, <3>1, <3>2, <3>3
  <2> QED BY <2>2, <2>3
<1>8. SuccessMeansWasGone'
  BY <1>7 DEF SuccessMeansWasGone, Successful, Reason
<1> QED BY <1>1, <1>3, <1>4, <1>6, <1>8 DEF Preserved

(* A write that outlives its worker carries what the worker knew.          *)
LEMMA RestartLate ==
  ASSUME TypeOK, Restart, NEW c \in late'
  PROVE  \/ c \in late
         \/ \E w \in Workers : /\ pc[w] = "write" /\ Accepted(w)
                              /\ c.doc = Doc(w) /\ c.new = NewStatus(job[w])
                              /\ c = [doc |-> Doc(w), new |-> NewStatus(job[w])]
BY DEF Restart, At

(* change.                                                                 *)
LEMMA HandlerType ==
  ASSUME TypeOK, NEW d \in Desires, Deliver(d) \/ Resync(d)
  PROVE  /\ cache' \in [Desires -> SpecDoc \cup {NoDoc}]
         /\ q' \in QueueType(Desires) /\ cooling' \subseteq Desires
<1>1. /\ q \in QueueType(Desires) /\ cooling \subseteq Desires
      /\ QAdd(q, d) \in QueueType(Desires)
      /\ cache \in [Desires -> SpecDoc \cup {NoDoc}] /\ specs[d] \in SpecDoc \cup {NoDoc}
  BY QAddOK DEF TypeOK
<1> QED BY <1>1 DEF Deliver, Resync, handleUpdate, enqueue

(* One step keeps the type of all that is not a worker's or a status.      *)
Kept ==
  /\ specs' \in [Desires -> SpecDoc \cup {NoDoc}]
  /\ now' \in Nat /\ now' >= now /\ uids' \in Nat /\ restarts' \in Nat
  /\ cache' \in [Desires -> SpecDoc \cup {NoDoc}]
  /\ q' \in QueueType(Desires) /\ cooling' \subseteq Desires
  /\ objects' \in [Targets -> Object \cup {NoDoc}]
  /\ \A d \in Desires : specs'[d] # NoDoc => specs'[d].rev <= now'
  /\ usurped' \subseteq Desires

LEMMA KeptNext ==
  ASSUME Witnessed, Observe, Step
  PROVE  Kept
<1> USE DEF db, intake, api, worker, aside
<1>0. /\ TypeOK /\ now \in Nat /\ uids \in Nat /\ restarts \in Nat
      /\ usurped \subseteq Desires
      /\ q \in QueueType(Desires) /\ cooling \subseteq Desires
      /\ specs \in [Desires -> SpecDoc \cup {NoDoc}]
      /\ cache \in [Desires -> SpecDoc \cup {NoDoc}]
      /\ objects \in [Targets -> Object \cup {NoDoc}]
      /\ \A d \in Desires : specs[d] # NoDoc => specs[d].rev <= now
  BY DEF Witnessed, TypeOK, Seen
<1>1. ASSUME NEW d \in Desires, WriteSpec(d) PROVE Kept
  <2>1. PICK ok \in BOOLEAN : specs' = [specs EXCEPT ![d] = [rev |-> now + 1, wellFormed |-> ok]]
    BY <1>1 DEF WriteSpec
  <2>2. [rev |-> now + 1, wellFormed |-> ok] \in SpecDoc
    BY <1>0 DEF SpecDoc
  <2>3. now' = now + 1 /\ UNCHANGED <<intake, api, aside>>
    BY <1>1 DEF WriteSpec
  <2>4. specs' \in [Desires -> SpecDoc \cup {NoDoc}]
    BY <1>0, <2>1, <2>2
  <2>5. ASSUME NEW e \in Desires, specs'[e] # NoDoc PROVE specs'[e].rev <= now'
    <3>1. CASE e = d
      BY <1>0, <2>1, <2>3, <3>1
    <3>2. CASE e # d
      <4>1. specs'[e] = specs[e] /\ specs[e] \in SpecDoc
        BY <1>0, <2>1, <2>5, <3>2
      <4> QED BY <1>0, <2>3, <2>5, <4>1 DEF SpecDoc
    <3> QED BY <3>1, <3>2
  <2> QED BY <1>0, <2>3, <2>4, <2>5 DEF Kept
<1>2. ASSUME NEW d \in Desires, DeleteSpec(d) PROVE Kept
  BY <1>0, <1>2 DEF DeleteSpec, Kept
<1>3. ASSUME NEW d \in Desires, Deliver(d) \/ Resync(d) PROVE Kept
  BY <1>0, <1>3, HandlerType DEF Deliver, Resync, Kept
<1>4. ASSUME NEW d \in Desires, CooldownElapses(d) \/ RetryDue(d) PROVE Kept
  BY <1>0, <1>4, QBackoffElapsedOK DEF CooldownElapses, RetryDue, Kept
<1>5. ASSUME NEW t \in Targets, Create(t) \/ OthersDelete(t) \/ Release(t) PROVE Kept
  <2>1. objects' \in [Targets -> Object \cup {NoDoc}] /\ uids' \in Nat
    <3>1. CASE Create(t)
      <4>1. \A h \in BOOLEAN : [uid |-> uids + 1, held |-> h, deleting |-> FALSE] \in Object
        BY <1>0 DEF Object
      <4> QED BY <1>0, <3>1, <4>1 DEF Create
    <3>2. CASE OthersDelete(t)
      <4>1. Deleted(objects[t]) \in Object \cup {NoDoc}
        BY <1>0, <3>2, DeletedType DEF OthersDelete
      <4> QED BY <1>0, <3>2, <4>1 DEF OthersDelete
    <3>3. CASE Release(t)
      <4>1. [objects[t] EXCEPT !.held = FALSE] \in Object
        BY <1>0, <3>3 DEF Release, Object
      <4> QED BY <1>0, <3>3, <4>1 DEF Release
    <3> QED BY <1>5, <3>1, <3>2, <3>3
  <2> QED BY <1>0, <1>5, <2>1 DEF Create, OthersDelete, Release, Kept
<1>6. ASSUME NEW w \in Workers, NEW d \in Desires, Get(w, d) PROVE Kept
  BY <1>0, <1>6, QGetOK DEF Get, Take, Kept
<1>7. ASSUME NEW w \in Workers, SyncOnce(w) PROVE Kept
  <2>1. CASE evaluate(w)
    BY <1>0, <2>1, EvaluateStep
       DEF evaluate, PreCheckFails, GetTarget, DeleteTarget, DeleteNotFound,
           DeleteReplyLost, PostGet, CallFails, Kept
  <2>2. CASE ~evaluate(w)
    BY <1>0, <1>7, <2>2
       DEF SyncOnce, FetchSpec, SpecNotFound, FetchSpecFails, ReadStatus, WriteStatus,
           WriteConflicts, StatusFails, Kept
  <2> QED BY <2>1, <2>2
<1>8. ASSUME NEW w \in Workers, Finish(w) PROVE Kept
  <2> DEFINE d == job[w].key
             r == IF job[w].result = "err" THEN QAddRateLimited(q, d) ELSE QForget(q, d)
  <2>1. d \in Desires
    BY <1>8 DEF Finish, At, Witnessed, Known
  <2>2. r \in QueueType(Desires)
    BY <1>0, <2>1, QAddRateLimitedOK DEF QForget
  <2>3. q' = QDone(r, d)
    BY <1>8 DEF Finish
  <2> HIDE DEF d, r
  <2>4. q' \in QueueType(Desires)
    BY <2>1, <2>2, <2>3, QDoneOK
  <2> QED BY <1>0, <1>8, <2>4 DEF Finish, Kept
<1>9. CASE Restart
  BY <1>0, <1>9, EmptyQueueOK DEF Restart, Kept
<1>10. ASSUME NEW c \in late, LateWrite(c) PROVE Kept
  <2>1. c.doc \in Desires
    BY <1>0, LateType
  <2>2. /\ UNCHANGED <<specs, now, cache, q, cooling, objects, uids, restarts>>
        /\ usurped' \subseteq usurped \cup {c.doc}
    BY <1>0, <1>10, LateMove
  <2> QED BY <1>0, <2>1, <2>2 DEF Kept
<1> QED BY <1>1, <1>2, <1>3, <1>4, <1>5, <1>6, <1>7, <1>8, <1>9, <1>10 DEF Step

(* No step but a restart leaves writes behind.                             *)
LEMMA LateShrinks ==
  ASSUME Step, ~Restart
  PROVE  late' \subseteq late
<1> USE DEF aside
<1>1. CASE \E c \in late : LateWrite(c)
  BY <1>1 DEF LateWrite
<1>2. CASE \E w \in Workers : SyncOnce(w)
  BY <1>2 DEF SyncOnce, FetchSpec, SpecNotFound, FetchSpecFails, evaluate, PreCheckFails,
     GetTarget, DeleteTarget, DeleteNotFound, DeleteReplyLost, PostGet, CallFails,
     ReadStatus, WriteStatus, WriteConflicts, StatusFails
<1> QED
  BY <1>1, <1>2 DEF Step, WriteSpec, DeleteSpec, Deliver, Resync, CooldownElapses, RetryDue,
     Create, OthersDelete, Release, Get, Finish

LEMMA LateNext ==
  ASSUME Witnessed, Observe, Step, Kept
  PROVE  late' \subseteq LateWrites /\ (\A c \in late : Carried(c))'
<1>1. /\ TypeOK /\ late \subseteq LateWrites /\ now \in Nat
      /\ now' \in Nat /\ now' >= now /\ \A c \in late : Carried(c)
      /\ \A t \in Targets : /\ absent[t] \in Nat /\ absent'[t] \in Nat
                            /\ absent'[t] >= absent[t]
  BY Observed DEF Witnessed, TypeOK, Kept
<1>2. ASSUME NEW c \in late
      PROVE  /\ c.new.observed <= now'
             /\ c.new.verdict.reason = "NoErrors" => absent'[TargetOf[c.doc]] >= c.new.observed
  <2>1. TargetOf[c.doc] \in Targets /\ c.new.observed \in Nat /\ Carried(c)
    BY <1>1, LateType
  <2> QED BY <1>1, <2>1 DEF Carried
<1>3. ASSUME NEW w \in Workers, pc[w] = "write"
      PROVE  /\ [doc |-> Doc(w), new |-> NewStatus(job[w])] \in LateWrites
             /\ NewStatus(job[w]).observed <= now'
             /\ NewStatus(job[w]).verdict.reason = "NoErrors" =>
                  absent'[Target(w)] >= NewStatus(job[w]).observed
  <2>1. /\ job[w] \in Job /\ job[w].desire \in SpecDoc /\ job[w].desire.rev <= now
        /\ Doc(w) \in Desires /\ Target(w) \in Targets
        /\ job[w].verdict.reason = "NoErrors" => absent[Target(w)] >= job[w].desire.rev
    BY <1>3, TargetAssumption DEF Witnessed, TypeOK, Known, Holding, Doc, Target
  <2>2. /\ NewStatus(job[w]) \in StatusDoc
        /\ NewStatus(job[w]).observed = job[w].desire.rev
        /\ NewStatus(job[w]).verdict = job[w].verdict /\ job[w].desire.rev \in Nat
    BY <2>1, NewStatusType DEF SpecDoc
  <2> QED BY <1>1, <2>1, <2>2 DEF LateWrites
<1>4. ASSUME NEW c \in late'
      PROVE  /\ c \in LateWrites /\ c.new.observed <= now'
             /\ c.new.verdict.reason = "NoErrors" => absent'[TargetOf[c.doc]] >= c.new.observed
  <2>1. CASE c \in late
    BY <1>1, <1>2, <2>1
  <2>2. CASE c \notin late
    <3>1. Restart
      BY <2>2, LateShrinks
    <3>2. PICK w \in Workers : /\ pc[w] = "write"
                               /\ c.doc = Doc(w) /\ c.new = NewStatus(job[w])
                               /\ c = [doc |-> Doc(w), new |-> NewStatus(job[w])]
      BY <1>1, <2>2, <3>1, RestartLate
    <3> QED BY <1>3, <3>2 DEF Target
  <2> QED BY <2>1, <2>2
<1> QED BY <1>4 DEF Carried

LEMMA WitnessedNext == Witnessed /\ [Next]_vars => Witnessed'
<1> SUFFICES ASSUME Witnessed, [Next]_vars PROVE Witnessed'
  OBVIOUS
<1> USE DEF db, intake, api, worker, aside
<1>1. ASSUME UNCHANGED vars PROVE Witnessed'
  BY <1>1 DEF vars, Witnessed, TypeOK, Seen, Known, Carried, SuccessMeansWasGone, Successful,
              Reason, Target, Doc
<1>2. ASSUME Step, Observe PROVE Witnessed'
  <2>1. /\ Kept /\ usurped' \subseteq Desires
        /\ late' \subseteq LateWrites /\ (\A c \in late : Carried(c))'
    BY <1>2, KeptNext, LateNext DEF Kept
  <2>2. /\ absent' \in [Targets -> Nat]
        /\ \A t \in Targets : absent'[t] <= now' /\ (objects'[t] = NoDoc => absent'[t] = now')
    BY <1>2, <2>1, Observed DEF Kept
  <2>3. Seen'
    BY <2>1, <2>2 DEF Seen, Kept
  <2>4. /\ pc \in [Workers -> Labels] /\ job \in [Workers -> Job]
        /\ status \in [Desires -> StatusDoc \cup {NoDoc}]
    BY DEF Witnessed, TypeOK, Labels
  <2>5. CASE UNCHANGED <<pc, job, status>>
    <3>1. (\A w \in Workers : Known(w)') /\ SuccessMeansWasGone'
      BY <1>2, <2>1, <2>5, OutsideStep DEF Kept
    <3> QED BY <2>1, <2>2, <2>3, <2>4, <2>5, <3>1 DEF Witnessed, TypeOK, Kept, Labels
  <2>6. ASSUME Preserved, status' \in [Desires -> StatusDoc \cup {NoDoc}],
               SuccessMeansWasGone'
        PROVE  Witnessed'
    BY <2>1, <2>2, <2>3, <2>6 DEF Witnessed, TypeOK, Kept, Preserved, Labels
  <2>7. ASSUME UNCHANGED status PROVE SuccessMeansWasGone'
    <3> SUFFICES ASSUME NEW d \in Desires, Successful(d)
                 PROVE  absent'[TargetOf[d]] >= status[d].observed
      BY <2>7 DEF SuccessMeansWasGone, Successful, Reason
    <3>1. absent[TargetOf[d]] >= status[d].observed
      BY DEF Witnessed, SuccessMeansWasGone
    <3>2. TargetOf[d] \in Targets /\ status[d] \in StatusDoc
      BY <2>4, TargetAssumption DEF Successful, Reason
    <3>3. absent'[TargetOf[d]] >= absent[TargetOf[d]]
      BY <1>2, <2>1, <3>2, Observed DEF Kept
    <3>4. status[d].observed \in Nat /\ absent[TargetOf[d]] \in Nat /\ absent'[TargetOf[d]] \in Nat
      BY <2>2, <3>2 DEF StatusDoc, Witnessed, TypeOK
    <3> QED BY <3>1, <3>3, <3>4
  <2>8. ASSUME NEW w \in Workers, SyncOnce(w) PROVE Witnessed'
    <3>1. Preserved
      BY <1>2, <2>8, FetchStep, EvaluateStep, ReportStep DEF SyncOnce
    <3>2. CASE WriteStatus(w)
      BY <1>2, <2>6, <3>1, <3>2, WriteStep
    <3>3. CASE ~WriteStatus(w)
      <4>1. UNCHANGED status
        BY <2>8, <3>3 DEF SyncOnce, FetchSpec, SpecNotFound, FetchSpecFails, evaluate,
           PreCheckFails, GetTarget, DeleteTarget, DeleteNotFound, DeleteReplyLost, PostGet,
           CallFails, ReadStatus, WriteConflicts, StatusFails
      <4> QED BY <2>4, <2>6, <2>7, <3>1, <4>1
    <3> QED BY <3>2, <3>3
  <2>9. ASSUME NEW w \in Workers, NEW d \in Desires, Get(w, d) PROVE Witnessed'
    <3>1. [IdleJob EXCEPT !.key = d] \in Job /\ [IdleJob EXCEPT !.key = d].key = d
      BY IdleJobType DEF Job, IdleJob
    <3>2. Goto(w, "fetch", [IdleJob EXCEPT !.key = d]) /\ UNCHANGED <<specs, now, status>>
      BY <2>9 DEF Get, Goto
    <3>3. Preserved
      BY <1>2, <3>1, <3>2, GotoStep DEF Labels, Holding, Preserved
    <3> QED BY <2>4, <2>6, <2>7, <3>2, <3>3
  <2>10. ASSUME NEW w \in Workers, Finish(w) PROVE Witnessed'
    <3>1. Goto(w, "idle", IdleJob) /\ UNCHANGED <<specs, now, status>>
      BY <2>10 DEF Finish
    <3>2. Preserved
      BY <1>2, <3>1, IdleJobType, GotoStep DEF Labels, Holding, Preserved
    <3> QED BY <2>4, <2>6, <2>7, <3>1, <3>2
  <2>11. CASE Restart
    <3>1. /\ pc' = [w \in Workers |-> "idle"] /\ job' = [w \in Workers |-> IdleJob]
          /\ UNCHANGED status
      BY <2>11 DEF Restart
    <3>2. Preserved
      BY <3>1, IdleJobType DEF Preserved, Known, Labels, Holding
    <3> QED BY <2>4, <2>6, <2>7, <3>1, <3>2
  <2>12. ASSUME NEW c \in late, LateWrite(c) PROVE Witnessed'
    BY <1>2, <2>6, <2>12, LateWriteStep
  <2> QED
    BY <1>2, <2>5, <2>8, <2>9, <2>10, <2>11, <2>12
       DEF Step, WriteSpec, DeleteSpec, Deliver, Resync, CooldownElapses, RetryDue,
           Create, OthersDelete, Release
<1> QED BY <1>1, <1>2 DEF Next

LEMMA WitnessedInvariant == Spec => []Witnessed
BY WitnessedInit, WitnessedNext, PTL DEF Spec

-----------------------------------------------------------------------------
(* Every variable keeps its type.                                          *)
THEOREM TypeCorrect == Spec => []TypeOK
<1>1. Witnessed => TypeOK
  BY DEF Witnessed
<1> QED BY <1>1, WitnessedInvariant, PTL

(* A document reports a deletion only if its object was absent at a moment *)
(* after the reported revision was written, whatever anybody creates,      *)
(* deletes and releases between the agent's calls.                         *)
THEOREM DeletionWitnessed == Spec => []SuccessMeansWasGone
<1>1. Witnessed => SuccessMeansWasGone
  BY DEF Witnessed
<1> QED BY <1>1, WitnessedInvariant, PTL

-----------------------------------------------------------------------------
(* How a step looks from a worker.                                         *)

Calls(w) == (\E d \in Desires : Get(w, d)) \/ SyncOnce(w) \/ Finish(w)
Fetched(w) == pc[w] \in Holding

(* A step is a step of one worker, a restart, a late write, or leaves      *)
(* every worker, every late write and what was reported alone.             *)
LEMMA StepKinds ==
  ASSUME [Next]_vars
  PROVE  \/ \E w \in Workers : Calls(w)
         \/ Restart
         \/ \E c \in late : LateWrite(c)
         \/ UNCHANGED <<pc, job, status, late, usurped>>
BY DEF Next, Step, vars, Calls, WriteSpec, DeleteSpec, Deliver, Resync, CooldownElapses,
       RetryDue, Create, OthersDelete, Release, worker, aside

(* A worker's step moves that worker alone, and the databases stay.        *)
LEMMA OthersStay ==
  ASSUME Witnessed, NEW w \in Workers, Calls(w)
  PROVE  /\ \A v \in Workers \ {w} : pc'[v] = pc[v] /\ job'[v] = job[v]
         /\ UNCHANGED <<specs, now, cache>>
<1>1. pc \in [Workers -> Labels] /\ job \in [Workers -> Job]
  BY DEF Witnessed, TypeOK, Labels
<1>2. \E label, j : Goto(w, label, j)
  BY DEF Calls, SyncOnce, evaluate, Get, Finish, Goto, Return, Decide, Continue, FetchSpec,
         SpecNotFound, FetchSpecFails, PreCheckFails, GetTarget, DeleteTarget, AfterDelete,
         DeleteNotFound, DeleteReplyLost, PostGet, CallFails, ReadStatus, WriteStatus,
         WriteConflicts, StatusFails
<1>3. UNCHANGED <<specs, now, cache>>
  BY DEF Calls, SyncOnce, evaluate, Get, Finish, FetchSpec,
         SpecNotFound, FetchSpecFails, PreCheckFails, GetTarget, DeleteTarget,
         DeleteNotFound, DeleteReplyLost, PostGet, CallFails, ReadStatus, WriteStatus,
         WriteConflicts, StatusFails, db, intake
<1> QED BY <1>1, <1>2, <1>3 DEF Goto

(* Where a worker goes, with which locals.                                 *)
LEMMA Moved ==
  ASSUME Witnessed, NEW w \in Workers, NEW label, NEW j, Goto(w, label, j)
  PROVE  pc'[w] = label /\ job'[w] = j
BY DEF Goto, Witnessed, TypeOK

(* A worker took a key, or read the spec of its document.                  *)
Takes(w) ==
  /\ pc[w] = "idle" /\ pc'[w] = "fetch"
  /\ job'[w].key \in q.queue /\ q' = QGet(q, job'[w].key) /\ UNCHANGED <<status, api, late, usurped>>
Fetches(w) ==
  /\ pc[w] = "fetch" /\ pc'[w] = "evaluate" /\ UNCHANGED <<q, status, api, late, usurped>>
  /\ job'[w].key = job[w].key
  /\ specs[Doc(w)] # NoDoc /\ job'[w].desire = specs[Doc(w)]
(* It went on with its calls, reached a verdict, or is about to write.     *)
GoesOn(w) ==
  /\ Fetched(w) /\ pc'[w] \in {"delete", "postGet"} /\ UNCHANGED <<q, status, late, usurped>>
  /\ job'[w].key = job[w].key /\ job'[w].desire = job[w].desire
Decides(w) ==
  /\ Fetched(w) /\ pc'[w] = "read" /\ UNCHANGED <<q, status, late, usurped>>
  /\ job'[w].key = job[w].key /\ job'[w].desire = job[w].desire
  /\ job'[w].verdict.reason = "WaitingForDeletion" =>
       /\ UNCHANGED api /\ objects[Target(w)] \in Object
       /\ job'[w].verdict.uid = objects[Target(w)].uid
Reads(w) ==
  /\ pc[w] = "read" /\ pc'[w] = "write" /\ UNCHANGED <<q, status, api, late, usurped>>
  /\ job'[w].key = job[w].key /\ job'[w].desire = job[w].desire
  /\ job'[w].verdict = job[w].verdict
  /\ job'[w].exists = (status[Doc(w)] # NoDoc) /\ job'[w].fresh
(* It left SyncOnce: with an error, or because there is nothing to report, *)
(* or nothing new, or after the write, or since a late write came first.   *)
Reported(w) == status[Doc(w)] = NewStatus(job[w]) /\ ~SyncErr(job[w].verdict)
Leaves(w) ==
  /\ pc[w] \in {"fetch", "read"} /\ pc'[w] = "finish" /\ UNCHANGED <<q, status, api, late, usurped>>
  /\ job'[w].key = job[w].key
  /\ \/ job'[w].result = "err"
     \/ pc[w] = "fetch" /\ specs[Doc(w)] = NoDoc
     \/ pc[w] = "read" /\ Reported(w)
GivesUp(w) ==
  /\ pc[w] = "write" /\ pc'[w] = "finish" /\ UNCHANGED <<q, status, api, late, usurped>>
  /\ job'[w].key = job[w].key
  /\ \/ job'[w].result = "err"
     \/ LostRace(w) /\ ~SyncErr(job[w].verdict)
Writes(w) ==
  /\ pc[w] = "write" /\ pc'[w] = "finish" /\ UNCHANGED <<q, api>>
  /\ job'[w].key = job[w].key
  /\ status' = [status EXCEPT ![Doc(w)] = NewStatus(job[w])]
  /\ late' = late \ Overtaken(Doc(w)) /\ usurped' = usurped \ {Doc(w)}
  /\ job'[w].result = "err" \/ ~SyncErr(job[w].verdict)
Releases(w) ==
  /\ Finish(w) /\ pc[w] = "finish" /\ pc'[w] = "idle" /\ UNCHANGED <<status, api, late, usurped>>

LEMMA OwnStep ==
  ASSUME Witnessed, NEW w \in Workers, Calls(w)
  PROVE  \/ Takes(w) \/ Fetches(w) \/ GoesOn(w) \/ Decides(w) \/ Reads(w)
         \/ Leaves(w) \/ GivesUp(w) \/ Writes(w) \/ Releases(w)
<1> USE DEF At, intake, aside
<1>0. /\ job[w] \in Job
      /\ objects \in [Targets -> Object \cup {NoDoc}]
      /\ Fetched(w) => Target(w) \in Targets
  BY TargetAssumption DEF Witnessed, TypeOK, Known, Fetched, Holding, Target, Doc
<1>1. ASSUME NEW r \in {"nil", "err"}, Return(w, r)
      PROVE  pc'[w] = "finish" /\ job'[w].key = job[w].key /\ job'[w].result = r
  <2> DEFINE j == [IdleJob EXCEPT !.key = job[w].key, !.result = r]
  <2>1. j.key = job[w].key /\ j.result = r
    BY DEF IdleJob
  <2>2. Goto(w, "finish", j)
    BY <1>1 DEF Return
  <2> HIDE DEF j
  <2> QED BY <2>1, <2>2, Moved
<1>2. ASSUME NEW v, Decide(w, v)
      PROVE  /\ pc'[w] = "read" /\ job'[w].key = job[w].key
             /\ job'[w].desire = job[w].desire /\ job'[w].verdict = v
  <2> DEFINE j == [job[w] EXCEPT !.verdict = v]
  <2>1. j.key = job[w].key /\ j.desire = job[w].desire /\ j.verdict = v
    BY <1>0 DEF Job
  <2>2. Goto(w, "read", j)
    BY <1>2 DEF Decide
  <2> HIDE DEF j
  <2> QED BY <2>1, <2>2, Moved
<1>3. ASSUME NEW label, Continue(w, label)
      PROVE  pc'[w] = label /\ job'[w] = job[w]
  BY <1>3, Moved DEF Continue
<1>4. ASSUME NEW d \in Desires, Get(w, d) PROVE Takes(w)
  <2>1. [IdleJob EXCEPT !.key = d].key = d
    BY DEF IdleJob
  <2>2. Goto(w, "fetch", [IdleJob EXCEPT !.key = d])
    BY <1>4 DEF Get, Goto
  <2>3. pc'[w] = "fetch" /\ job'[w].key = d
    BY <2>1, <2>2, Moved
  <2> QED BY <1>4, <2>3 DEF Get, Take, Takes
<1>5. CASE FetchSpec(w)
  <2> DEFINE j == [job[w] EXCEPT !.desire = specs[Doc(w)]]
  <2>1. j.key = job[w].key /\ j.desire = specs[Doc(w)]
    BY <1>0 DEF Job
  <2>2. Goto(w, "evaluate", j)
    BY <1>5 DEF FetchSpec
  <2> HIDE DEF j
  <2>3. pc'[w] = "evaluate" /\ job'[w] = j
    BY <2>2, Moved
  <2> QED BY <1>5, <2>1, <2>3 DEF FetchSpec, Fetches
<1>6. CASE SpecNotFound(w) \/ FetchSpecFails(w)
  BY <1>1, <1>6 DEF SpecNotFound, FetchSpecFails, Leaves
<1>7. CASE evaluate(w)
  <2>1. /\ pc[w] \in {"evaluate", "delete", "postGet"} /\ Fetched(w)
        /\ UNCHANGED <<q, status, late, usurped>>
    BY <1>7 DEF evaluate, PreCheckFails, GetTarget, DeleteTarget, DeleteNotFound,
                DeleteReplyLost, PostGet, CallFails, Fetched, Holding
  <2>2. ASSUME NEW label \in {"delete", "postGet"}, Continue(w, label) PROVE GoesOn(w)
    BY <1>3, <2>1, <2>2 DEF GoesOn
  <2>3. ASSUME NEW v, Decide(w, v), v.reason # "WaitingForDeletion" PROVE Decides(w)
    BY <1>2, <2>1, <2>3 DEF Decides
  <2>4. ASSUME NEW reason \in {"PreCheckFailed", "KubeAPIError"}, NEW e,
               Decide(w, Failure(reason, e))
        PROVE  Decides(w)
    BY <2>3, <2>4 DEF Failure
  <2>5. ASSUME Decide(w, NoErrors) PROVE Decides(w)
    BY <2>3, <2>5 DEF NoErrors
  <2>6. ASSUME UNCHANGED api, objects[Target(w)] # NoDoc,
               Decide(w, WaitingFor(objects[Target(w)]))
        PROVE  Decides(w)
    BY <1>0, <1>2, <2>1, <2>6 DEF Decides, WaitingFor
  <2> QED
    BY <1>7, <2>2, <2>4, <2>5, <2>6
       DEF evaluate, PreCheckFails, GetTarget, DeleteTarget, AfterDelete, DeleteNotFound,
           DeleteReplyLost, PostGet, CallFails
<1>8. CASE ReadStatus(w)
  <2>1. CASE SameStatus(w) /\ Return(w, Join(job[w].verdict, "nil"))
    <3>1. pc'[w] = "finish" /\ job'[w].key = job[w].key
          /\ job'[w].result = Join(job[w].verdict, "nil")
      BY <1>1, <2>1, JoinType
    <3> QED BY <1>8, <2>1, <3>1 DEF ReadStatus, SameStatus, Leaves, Reported, Join
  <2> DEFINE j == [job[w] EXCEPT !.exists = status[Doc(w)] # NoDoc, !.fresh = TRUE]
  <2>2. CASE Goto(w, "write", j)
    <3>1. /\ j.key = job[w].key /\ j.desire = job[w].desire /\ j.verdict = job[w].verdict
          /\ j.exists = (status[Doc(w)] # NoDoc) /\ j.fresh
      BY <1>0 DEF Job
    <3> HIDE DEF j
    <3>2. pc'[w] = "write" /\ job'[w] = j
      BY <2>2, Moved
    <3> QED BY <1>8, <3>1, <3>2 DEF ReadStatus, Reads
  <2> QED BY <1>8, <2>1, <2>2 DEF ReadStatus
<1>9. CASE WriteStatus(w)
  <2>1. PICK r \in {"nil", "err"} : Return(w, Join(job[w].verdict, r))
    BY <1>9 DEF WriteStatus
  <2>2. pc'[w] = "finish" /\ job'[w].key = job[w].key
        /\ job'[w].result = Join(job[w].verdict, r)
    BY <1>1, <2>1, JoinType
  <2> QED BY <1>9, <2>2 DEF WriteStatus, Writes, Join
<1>10. CASE StatusFails(w)
  BY <1>1, <1>10 DEF StatusFails, Leaves, GivesUp
<1>11. CASE Finish(w)
  <2>1. pc'[w] = "idle"
    BY <1>11, Moved DEF Finish
  <2> QED BY <1>11, <2>1 DEF Finish, Releases
<1>12. CASE WriteConflicts(w)
  <2>1. /\ pc'[w] = "finish" /\ job'[w].key = job[w].key
        /\ job'[w].result = Join(job[w].verdict, "nil")
    BY <1>1, <1>12, JoinType DEF WriteConflicts
  <2> QED BY <1>12, <2>1 DEF WriteConflicts, GivesUp, Join
<1> QED BY <1>4, <1>5, <1>6, <1>7, <1>8, <1>9, <1>10, <1>11, <1>12 DEF Calls, SyncOnce

(* Finish releases the key, and delays it after an error.                  *)
LEMMA FinishQueue ==
  ASSUME Witnessed, NEW w \in Workers, Finish(w)
  PROVE  /\ q'.dirty = q.dirty
         /\ q'.processing = q.processing \ {Doc(w)}
         /\ q.delayed \subseteq q'.delayed
         /\ job[w].result = "err" => Doc(w) \in q'.delayed
         /\ QueueOK(q) => QueueOK(q')
<1> DEFINE d == job[w].key
           r == IF job[w].result = "err" THEN QAddRateLimited(q, d) ELSE QForget(q, d)
<1>1. q \in QueueType(Desires) /\ d \in Desires
  BY DEF Witnessed, TypeOK, Known, Finish, At
<1>2. /\ r \in QueueType(Desires) /\ r.dirty = q.dirty /\ r.processing = q.processing
      /\ q.delayed \subseteq r.delayed
      /\ job[w].result = "err" => d \in r.delayed
      /\ QueueOK(q) => QueueOK(r)
  BY <1>1, QAddRateLimitedOK DEF QForget
<1>3. q' = QDone(r, d)
  BY DEF Finish
<1> HIDE DEF r
<1> QED BY <1>1, <1>2, <1>3, QDoneOK DEF Doc

-----------------------------------------------------------------------------
(* One worker for each document, and everything in the order of its        *)
(* document's revisions.                                                   *)

Exclusive ==
  /\ QueueOK(q)
  /\ \A w \in Workers : pc[w] # "idle" => Doc(w) \in q.processing
  /\ \A v, w \in Workers :
       (pc[v] # "idle" /\ pc[w] # "idle" /\ Doc(v) = Doc(w)) => v = w

(* What a step that is not a worker's does to the queue.                   *)
LEMMA QueueStep ==
  ASSUME Witnessed, [Next]_vars, ~(\E w \in Workers : Calls(w)), ~Restart
  PROVE  /\ q'.processing = q.processing
         /\ q.dirty \subseteq q'.dirty
         /\ q.delayed \subseteq q'.delayed \cup q'.dirty
         /\ QueueOK(q) => QueueOK(q')
<1>0. q \in QueueType(Desires)
  BY DEF Witnessed, TypeOK
<1>1. CASE q' = q
  BY <1>0, <1>1
<1>2. CASE \E d \in Desires : Deliver(d) \/ Resync(d)
  <2>1. PICK d \in Desires : q' = q \/ q' = QAdd(q, d)
    BY <1>2 DEF Deliver, Resync, handleUpdate, enqueue
  <2> QED BY <1>0, <1>1, <2>1, QAddOK
<1>3. CASE \E d \in Desires : RetryDue(d)
  BY <1>0, <1>3, QBackoffElapsedOK DEF RetryDue
<1> QED
  BY <1>1, <1>2, <1>3
     DEF Next, Step, vars, intake, Calls, WriteSpec, DeleteSpec, CooldownElapses,
         Create, OthersDelete, Release, LateWrite

LEMMA ExclusiveNext == Witnessed /\ Exclusive /\ [Next]_vars => Exclusive'
<1> SUFFICES ASSUME Witnessed, Exclusive, [Next]_vars PROVE Exclusive'
  OBVIOUS
<1> USE DEF Doc
<1>0. q \in QueueType(Desires)
  BY DEF Witnessed, TypeOK
<1>1. CASE ~(\E w \in Workers : Calls(w)) /\ ~Restart
  <2>1. pc' = pc /\ \A w \in Workers : job'[w].key = job[w].key
    BY <1>1, StepKinds, LateMove DEF Witnessed
  <2> QED BY <1>1, <2>1, QueueStep DEF Exclusive
<1>2. CASE Restart
  BY <1>2, EmptyQueueOK DEF Restart, Exclusive
<1>3. ASSUME NEW w \in Workers, Calls(w) PROVE Exclusive'
  <2>1. \A v \in Workers \ {w} : pc'[v] = pc[v] /\ job'[v] = job[v]
    BY <1>3, OthersStay
  <2>2. CASE Takes(w)
    <3>1. /\ QueueOK(q') /\ job'[w].key \notin q.processing
          /\ q'.processing = q.processing \cup {job'[w].key}
      BY <1>0, <2>2, QGetOK DEF Exclusive, Takes
    <3> QED BY <2>1, <2>2, <3>1 DEF Exclusive, Takes
  <2>3. CASE Releases(w)
    <3>1. QueueOK(q') /\ q'.processing = q.processing \ {job[w].key}
      BY <2>3, FinishQueue DEF Exclusive, Releases
    <3>2. \A v \in Workers \ {w} : pc[v] # "idle" => job[v].key # job[w].key
      BY <2>3 DEF Exclusive, Releases
    <3> QED BY <2>1, <2>3, <3>1, <3>2 DEF Exclusive, Releases
  <2>4. CASE pc[w] # "idle" /\ pc'[w] # "idle" /\ q' = q /\ job'[w].key = job[w].key
    BY <2>1, <2>4 DEF Exclusive
  <2> QED
    BY <1>3, <2>2, <2>3, <2>4, OwnStep
       DEF Fetches, GoesOn, Decides, Reads, Leaves, GivesUp, Writes, Fetched, Holding
<1> QED BY <1>1, <1>2, <1>3

(* The informer's copy and the status are not ahead of the spec, nor is    *)
(* the status ahead of the revision the worker on the document has read. A *)
(* late write is between the two.                                          *)
Ordered ==
  /\ \A d \in Desires :
       /\ cache[d] # NoDoc => cache[d].rev <= now
       /\ (specs[d] # NoDoc /\ cache[d] # NoDoc /\ cache[d].rev = specs[d].rev) =>
            cache[d] = specs[d]
       /\ status[d] # NoDoc => status[d].observed <= now
       /\ (specs[d] # NoDoc /\ status[d] # NoDoc) => status[d].observed <= specs[d].rev
  /\ \A w \in Workers : Fetched(w) =>
       /\ specs[Doc(w)] # NoDoc => job[w].desire.rev <= specs[Doc(w)].rev
       /\ status[Doc(w)] # NoDoc => status[Doc(w)].observed <= job[w].desire.rev
  /\ \A c \in late :
       /\ specs[c.doc] # NoDoc => c.new.observed <= specs[c.doc].rev
       /\ status[c.doc] # NoDoc => status[c.doc].observed <= c.new.observed
       /\ \A w \in Workers :
            Fetched(w) /\ Doc(w) = c.doc => c.new.observed <= job[w].desire.rev

LEMMA OrderedNext == Witnessed /\ Exclusive /\ Ordered /\ [Next]_vars => Ordered'
<1> SUFFICES ASSUME Witnessed, Exclusive, Ordered, [Next]_vars PROVE Ordered'
  OBVIOUS
<1> USE DEF Doc, aside
<1>0. /\ specs \in [Desires -> SpecDoc \cup {NoDoc}] /\ cache \in [Desires -> SpecDoc \cup {NoDoc}]
      /\ status \in [Desires -> StatusDoc \cup {NoDoc}] /\ now \in Nat
      /\ \A d \in Desires : specs[d] # NoDoc => specs[d].rev <= now
      /\ \A w \in Workers : pc[w] # "idle" => Doc(w) \in Desires
      /\ \A w \in Workers : Fetched(w) =>
           /\ pc[w] # "idle"
           /\ job[w].desire \in SpecDoc /\ job[w].desire.rev \in Nat /\ job[w].desire.rev <= now
      /\ \A s \in SpecDoc : s.rev \in Nat
      /\ \A s \in StatusDoc : s.observed \in Nat
      /\ \A c \in late : /\ c.doc \in Desires /\ c.new \in StatusDoc /\ c.new # NoDoc
                         /\ c.new.observed \in Nat /\ c.new.observed <= now
  BY LateType DEF Witnessed, Carried, TypeOK, Seen, Known, Fetched, Holding, SpecDoc, StatusDoc
<1>1. ASSUME NEW d \in Desires, WriteSpec(d) PROVE Ordered'
  <2>1. PICK ok \in BOOLEAN : specs' = [specs EXCEPT ![d] = [rev |-> now + 1, wellFormed |-> ok]]
    BY <1>1 DEF WriteSpec
  <2>2. [rev |-> now + 1, wellFormed |-> ok].rev = now + 1
    OBVIOUS
  <2>3. now' = now + 1 /\ UNCHANGED <<cache, status, pc, job, late>>
    BY <1>1 DEF WriteSpec, worker, intake
  <2> QED BY <1>0, <2>1, <2>2, <2>3 DEF Ordered, Fetched
<1>2. ASSUME NEW d \in Desires, DeleteSpec(d) PROVE Ordered'
  BY <1>0, <1>2 DEF DeleteSpec, worker, intake, Ordered, Fetched
<1>3. ASSUME NEW d \in Desires, Deliver(d) PROVE Ordered'
  BY <1>0, <1>3 DEF Deliver, worker, db, Ordered, Fetched
<1>4. CASE Restart
  <2>1. /\ UNCHANGED <<specs, now, status>>
        /\ \A d \in Desires : cache'[d] = NoDoc
        /\ \A w \in Workers : pc'[w] = "idle"
    BY <1>4 DEF Restart, db
  <2>2. ASSUME NEW c \in late'
        PROVE  /\ specs[c.doc] # NoDoc => c.new.observed <= specs[c.doc].rev
               /\ status[c.doc] # NoDoc => status[c.doc].observed <= c.new.observed
    <3>1. CASE c \in late
      BY <3>1 DEF Ordered
    <3>2. CASE c \notin late
      <4>1. PICK w \in Workers : pc[w] = "write" /\ c.doc = Doc(w) /\ c.new = NewStatus(job[w])
        BY <1>4, <3>2, RestartLate DEF Witnessed
      <4>2. Fetched(w) /\ c.new.observed = job[w].desire.rev
        BY <4>1 DEF Fetched, Holding, NewStatus
      <4> QED BY <4>1, <4>2 DEF Ordered
    <3> QED BY <3>1, <3>2
  <2> QED BY <1>0, <2>1, <2>2 DEF Ordered, Fetched, Holding
<1>5. CASE UNCHANGED <<specs, now, cache, status, pc, job, late>>
  BY <1>5 DEF Ordered, Fetched
<1>6. ASSUME NEW w \in Workers, Calls(w) PROVE Ordered'
  <2>1. /\ \A v \in Workers \ {w} : pc'[v] = pc[v] /\ job'[v] = job[v]
        /\ UNCHANGED <<specs, now, cache>>
    BY <1>6, OthersStay
  <2>2. CASE Writes(w)
    <3>1. /\ NewStatus(job[w]).observed = job[w].desire.rev
          /\ Fetched(w) /\ Doc(w) \in Desires
          /\ status' = [status EXCEPT ![Doc(w)] = NewStatus(job[w])]
          /\ late' = late \ Overtaken(Doc(w))
      BY <1>0, <2>2 DEF Writes, NewStatus, Fetched, Holding
    <3>2. pc'[w] = "finish"
      BY <2>2 DEF Writes
    <3>3. \A v \in Workers \ {w} : pc[v] # "idle" => status'[Doc(v)] = status[Doc(v)]
      BY <1>0, <3>1, <2>2 DEF Exclusive, Writes
    <3>4. \A v \in Workers : Fetched(v)' => v # w /\ Fetched(v)
      BY <2>1, <3>2 DEF Fetched, Holding
    <3>5. \A d \in Desires : d # Doc(w) => status'[d] = status[d]
      BY <1>0, <3>1
    <3>6. status'[Doc(w)].observed = job[w].desire.rev
      BY <1>0, <3>1
    <3>7. \A d \in Desires :
            /\ status'[d] # NoDoc => status'[d].observed <= now
            /\ (specs[d] # NoDoc /\ status'[d] # NoDoc) => status'[d].observed <= specs[d].rev
      BY <1>0, <3>1, <3>5, <3>6 DEF Ordered
    <3>8. \A v \in Workers : Fetched(v)' =>
            /\ specs[job'[v].key] # NoDoc => job'[v].desire.rev <= specs[job'[v].key].rev
            /\ status'[job'[v].key] # NoDoc => status'[job'[v].key].observed <= job'[v].desire.rev
      BY <1>0, <2>1, <3>3, <3>4 DEF Ordered
    <3>9. \A c \in late' : c \in late /\ c.doc # Doc(w) /\ status'[c.doc] = status[c.doc]
      BY <1>0, <3>1, <3>5 DEF Overtaken
    <3>10. \A c \in late' :
            /\ specs[c.doc] # NoDoc => c.new.observed <= specs[c.doc].rev
            /\ status'[c.doc] # NoDoc => status'[c.doc].observed <= c.new.observed
            /\ \A v \in Workers :
                 Fetched(v)' /\ job'[v].key = c.doc => c.new.observed <= job'[v].desire.rev
      BY <2>1, <3>4, <3>9 DEF Ordered
    <3> QED BY <2>1, <3>7, <3>8, <3>10 DEF Ordered
  <2>3. CASE UNCHANGED <<status, late>>
    <3>1. Fetched(w)' =>
            /\ pc[w] # "idle" /\ job'[w].key = job[w].key
            /\ \/ Fetched(w) /\ job'[w].desire = job[w].desire
               \/ job'[w].desire = specs[Doc(w)] /\ specs[Doc(w)] # NoDoc
      BY <1>6, OwnStep
         DEF Takes, Fetches, GoesOn, Decides, Reads, Leaves, GivesUp, Writes, Releases,
             Fetched, Holding
    <3> QED BY <1>0, <2>1, <2>3, <3>1 DEF Ordered, Fetched
  <2> QED
    BY <1>6, <2>2, <2>3, OwnStep
       DEF Takes, Fetches, GoesOn, Decides, Reads, Leaves, GivesUp, Releases
<1>7. ASSUME NEW c \in late, LateWrite(c) PROVE Ordered'
  <2>1. /\ status' = [status EXCEPT ![c.doc] = c.new]
        /\ UNCHANGED <<specs, now, cache, pc>> /\ late' = late \ Overtaken(c.doc)
        /\ \A v \in Workers : job'[v].key = job[v].key /\ job'[v].desire = job[v].desire
    BY <1>7, LateMove DEF Witnessed
  <2>2. /\ status'[c.doc] = c.new
        /\ \A d \in Desires : d # c.doc => status'[d] = status[d]
    BY <1>0, <2>1
  <2>3. \A b \in late' : b \in late /\ status'[b.doc] = status[b.doc]
    BY <1>0, <2>1, <2>2 DEF Overtaken
  <2>4. \A d \in Desires :
          /\ status'[d] # NoDoc => status'[d].observed <= now
          /\ (specs[d] # NoDoc /\ status'[d] # NoDoc) => status'[d].observed <= specs[d].rev
    BY <1>0, <2>2 DEF Ordered
  <2>5. \A w \in Workers : Fetched(w) =>
          /\ specs[Doc(w)] # NoDoc => job[w].desire.rev <= specs[Doc(w)].rev
          /\ status'[Doc(w)] # NoDoc => status'[Doc(w)].observed <= job[w].desire.rev
    BY <1>0, <2>2 DEF Ordered
  <2> QED BY <1>0, <2>1, <2>3, <2>4, <2>5 DEF Ordered, Fetched
<1> QED
  BY <1>1, <1>2, <1>3, <1>4, <1>5, <1>6, <1>7
     DEF Next, Step, vars, Calls, Resync, CooldownElapses, RetryDue, Create, OthersDelete,
         Release, worker, db, intake

-----------------------------------------------------------------------------
(* The UIDs a document reports grow.                                       *)

(* A step removes an object, keeps its UID, or gives a new one.            *)
LEMMA ObjectStep ==
  ASSUME Witnessed, [Next]_vars
  PROVE  /\ uids \in Nat /\ uids' \in Nat /\ uids' >= uids
         /\ \A t \in Targets : objects'[t] # NoDoc =>
              \/ objects[t] # NoDoc /\ objects'[t].uid = objects[t].uid
              \/ objects'[t].uid = uids + 1 /\ uids' = uids + 1
<1>0. /\ uids \in Nat /\ objects \in [Targets -> Object \cup {NoDoc}]
      /\ \A w \in Workers : pc[w] # "idle" => Target(w) \in Targets
  BY TargetAssumption DEF Witnessed, TypeOK, Known, Target, Doc
<1>1. \A obj \in Object : Deleted(obj) # NoDoc => Deleted(obj).uid = obj.uid
  BY DEF Deleted, Object
<1>2. CASE UNCHANGED <<objects, uids>>
  BY <1>0, <1>2
<1>3. ASSUME NEW t \in Targets, objects[t] # NoDoc, UNCHANGED uids,
             objects' = [objects EXCEPT ![t] = Deleted(objects[t])]
      PROVE  /\ uids' = uids
             /\ \A s \in Targets : objects'[s] # NoDoc =>
                  objects[s] # NoDoc /\ objects'[s].uid = objects[s].uid
  BY <1>0, <1>1, <1>3
<1>4. ASSUME NEW t \in Targets, Create(t)
      PROVE  /\ uids' = uids + 1
             /\ \A s \in Targets : objects'[s] # NoDoc =>
                  \/ objects[s] # NoDoc /\ objects'[s].uid = objects[s].uid
                  \/ objects'[s].uid = uids + 1
  <2>1. PICK h \in BOOLEAN :
          objects' = [objects EXCEPT ![t] = [uid |-> uids + 1, held |-> h, deleting |-> FALSE]]
    BY <1>4 DEF Create
  <2>2. [uid |-> uids + 1, held |-> h, deleting |-> FALSE].uid = uids + 1
    OBVIOUS
  <2>3. uids' = uids + 1
    BY <1>4 DEF Create
  <2> QED BY <1>0, <2>1, <2>2, <2>3
<1>5. ASSUME NEW t \in Targets, Release(t)
      PROVE  /\ uids' = uids
             /\ \A s \in Targets : objects'[s] # NoDoc =>
                  objects[s] # NoDoc /\ objects'[s].uid = objects[s].uid
  <2>1. objects[t] \in Object /\ objects[t] # NoDoc
    BY <1>0, <1>5 DEF Release
  <2>2. [objects[t] EXCEPT !.held = FALSE].uid = objects[t].uid
    BY <2>1 DEF Object
  <2> QED BY <1>0, <1>5, <2>1, <2>2 DEF Release
<1>6. ASSUME NEW w \in Workers, DeleteTarget(w) \/ DeleteReplyLost(w)
      PROVE  /\ uids' = uids
             /\ \A s \in Targets : objects'[s] # NoDoc =>
                  objects[s] # NoDoc /\ objects'[s].uid = objects[s].uid
  <2>1. Target(w) \in Targets
    BY <1>0, <1>6 DEF DeleteTarget, DeleteReplyLost, At
  <2> QED BY <1>3, <1>6, <2>1 DEF DeleteTarget, DeleteReplyLost, DeleteEffect
<1>7. CASE UNCHANGED vars
  BY <1>2, <1>7 DEF vars, api
<1>8. CASE \E t \in Targets : OthersDelete(t)
  <2>1. PICK t \in Targets : OthersDelete(t)
    BY <1>8
  <2>2. /\ objects[t] # NoDoc /\ UNCHANGED uids
        /\ objects' = [objects EXCEPT ![t] = Deleted(objects[t])]
    BY <2>1 DEF OthersDelete
  <2>3. /\ uids' = uids
        /\ \A s \in Targets : objects'[s] # NoDoc =>
             objects[s] # NoDoc /\ objects'[s].uid = objects[s].uid
    BY <1>3, <2>2
  <2> QED BY <1>0, <2>3
<1>9. CASE \E t \in Targets : Create(t) \/ Release(t)
  BY <1>0, <1>4, <1>5, <1>9
<1>10. CASE \E w \in Workers : DeleteTarget(w) \/ DeleteReplyLost(w)
  BY <1>0, <1>6, <1>10
<1>11. ASSUME NEW w \in Workers, Calls(w), ~DeleteTarget(w), ~DeleteReplyLost(w)
       PROVE  UNCHANGED <<objects, uids>>
  BY <1>11
     DEF Calls, SyncOnce, evaluate, Get, Finish, FetchSpec,
         SpecNotFound, FetchSpecFails, PreCheckFails, GetTarget,
         DeleteNotFound, PostGet, CallFails, ReadStatus, WriteStatus, WriteConflicts,
         StatusFails, api
<1>12. CASE \E w \in Workers : Calls(w)
  BY <1>2, <1>10, <1>11, <1>12
<1>13. CASE \/ Restart \/ \E c \in late : LateWrite(c)
            \/ \E d \in Desires : \/ WriteSpec(d) \/ DeleteSpec(d) \/ Deliver(d) \/ Resync(d)
                                  \/ CooldownElapses(d) \/ RetryDue(d)
  <2>1. UNCHANGED <<objects, uids>>
    BY <1>13 DEF WriteSpec, DeleteSpec, Deliver, Resync, CooldownElapses, RetryDue, Restart,
                 LateWrite, api
  <2> QED BY <1>2, <2>1
<1> QED BY <1>7, <1>8, <1>9, <1>12, <1>13 DEF Next, Step, Calls

(* A status that waits for an object.                                     *)
Waits(s) == s # NoDoc /\ s.verdict.reason = "WaitingForDeletion"
(* A UID was given out, and is not that of an object created after the one *)
(* the name has now.                                                       *)
Dated(u, t) == u <= uids /\ (objects[t] # NoDoc => u <= objects[t].uid)
Aged ==
  /\ \A t \in Targets : objects[t] # NoDoc => objects[t].uid <= uids
  /\ \A d \in Desires : Waits(status[d]) => Dated(status[d].verdict.uid, TargetOf[d])
  /\ \A w \in Workers :
       (pc[w] \in {"read", "write"} /\ job[w].verdict.reason = "WaitingForDeletion") =>
         /\ Dated(job[w].verdict.uid, Target(w))
         /\ Waits(status[Doc(w)]) => status[Doc(w)].verdict.uid <= job[w].verdict.uid
  /\ \A c \in late : Waits(c.new) =>
       /\ Dated(c.new.verdict.uid, TargetOf[c.doc])
       /\ Waits(status[c.doc]) => status[c.doc].verdict.uid <= c.new.verdict.uid
       /\ \A w \in Workers :
            (/\ pc[w] \in {"read", "write"} /\ Doc(w) = c.doc
             /\ job[w].verdict.reason = "WaitingForDeletion") =>
               c.new.verdict.uid <= job[w].verdict.uid

(* A date stays a date, whatever happens to the objects.                   *)
LEMMA DatedStep ==
  ASSUME Witnessed, [Next]_vars, NEW t \in Targets, NEW u \in Nat, Dated(u, t)
  PROVE  u <= uids' /\ (objects'[t] # NoDoc => u <= objects'[t].uid)
<1>1. /\ uids \in Nat /\ uids' \in Nat /\ uids' >= uids
      /\ objects'[t] # NoDoc =>
           \/ objects[t] # NoDoc /\ objects'[t].uid = objects[t].uid
           \/ objects'[t].uid = uids + 1 /\ uids' = uids + 1
  BY ObjectStep
<1> QED BY <1>1 DEF Dated

LEMMA AgedNext == Witnessed /\ Exclusive /\ Aged /\ [Next]_vars => Aged'
<1> SUFFICES ASSUME Witnessed, Exclusive, Aged, [Next]_vars PROVE Aged'
  OBVIOUS
<1> USE DEF Doc, aside
<1>0. /\ objects \in [Targets -> Object \cup {NoDoc}] /\ uids \in Nat
      /\ status \in [Desires -> StatusDoc \cup {NoDoc}]
      /\ \A w \in Workers : job[w] \in Job /\ job[w].verdict.uid \in Nat
      /\ \A w \in Workers : pc[w] # "idle" => Doc(w) \in Desires /\ Target(w) \in Targets
      /\ \A d \in Desires : TargetOf[d] \in Targets
      /\ \A d \in Desires : Waits(status[d]) =>
           status[d] # NoDoc /\ status[d] \in StatusDoc /\ status[d].verdict.uid \in Nat
      /\ \A obj \in Object : obj.uid \in Nat
      /\ \A c \in late : /\ c.doc \in Desires /\ TargetOf[c.doc] \in Targets /\ c.new # NoDoc
                         /\ c.new.verdict.uid \in Nat
  BY TargetAssumption, LateType DEF Witnessed, TypeOK, Known, Target, Job, Verdict, Waits,
     StatusDoc, Object
<1>1. \A t \in Targets : objects'[t] # NoDoc => objects'[t].uid <= uids'
  <2> SUFFICES ASSUME NEW t \in Targets, objects'[t] # NoDoc PROVE objects'[t].uid <= uids'
    OBVIOUS
  <2>1. /\ uids' \in Nat /\ uids' >= uids
        /\ \/ objects[t] # NoDoc /\ objects'[t].uid = objects[t].uid
           \/ objects'[t].uid = uids + 1 /\ uids' = uids + 1
    BY ObjectStep
  <2>2. objects[t] # NoDoc => objects[t].uid \in Nat /\ objects[t].uid <= uids
    BY <1>0 DEF Aged
  <2> QED BY <1>0, <2>1, <2>2
<1>2. \A d \in Desires : Waits(status[d]) =>
        /\ status[d].verdict.uid <= uids'
        /\ objects'[TargetOf[d]] # NoDoc => status[d].verdict.uid <= objects'[TargetOf[d]].uid
  BY <1>0, DatedStep DEF Aged
<1>3. \A w \in Workers :
        (pc[w] \in {"read", "write"} /\ job[w].verdict.reason = "WaitingForDeletion") =>
          /\ job[w].verdict.uid <= uids'
          /\ objects'[Target(w)] # NoDoc => job[w].verdict.uid <= objects'[Target(w)].uid
  BY <1>0, DatedStep DEF Aged
<1>4. \A c \in late : Waits(c.new) =>
        /\ c.new.verdict.uid <= uids'
        /\ objects'[TargetOf[c.doc]] # NoDoc => c.new.verdict.uid <= objects'[TargetOf[c.doc]].uid
  BY <1>0, DatedStep DEF Aged
<1>5. CASE UNCHANGED <<pc, job, status, late>>
  BY <1>1, <1>2, <1>3, <1>5, <1>4 DEF Aged, Dated, Waits, Target
<1>6. CASE Restart
  <2>1. status' = status /\ \A w \in Workers : pc'[w] = "idle"
    BY <1>6 DEF Restart
  <2>2. ASSUME NEW c \in late', Waits(c.new)
        PROVE  /\ c.new.verdict.uid <= uids'
               /\ objects'[TargetOf[c.doc]] # NoDoc =>
                    c.new.verdict.uid <= objects'[TargetOf[c.doc]].uid
               /\ Waits(status[c.doc]) => status[c.doc].verdict.uid <= c.new.verdict.uid
    <3>1. CASE c \in late
      BY <1>4, <2>2, <3>1 DEF Aged
    <3>2. CASE c \notin late
      <4>1. PICK w \in Workers : pc[w] = "write" /\ c.doc = Doc(w) /\ c.new = NewStatus(job[w])
        BY <1>6, <3>2, RestartLate DEF Witnessed
      <4>2. c.new.verdict = job[w].verdict /\ job[w].verdict.reason = "WaitingForDeletion"
        BY <2>2, <4>1 DEF NewStatus, Waits
      <4> QED BY <1>3, <4>1, <4>2 DEF Aged, Target
    <3> QED BY <3>1, <3>2
  <2>3. \A d \in Desires : Waits(status'[d]) <=> Waits(status[d])
    BY <2>1
  <2>4. \A c \in late' : Waits(status'[c.doc]) <=> Waits(status[c.doc])
    BY <2>1
  <2> QED BY <1>1, <1>2, <2>1, <2>2, <2>3, <2>4 DEF Aged, Dated
<1>7. ASSUME NEW w \in Workers, Calls(w) PROVE Aged'
  <2>1. /\ \A v \in Workers \ {w} : pc'[v] = pc[v] /\ job'[v] = job[v]
    BY <1>7, OthersStay
  <2>2. ASSUME UNCHANGED status,
               (pc'[w] \in {"read", "write"} /\ job'[w].verdict.reason = "WaitingForDeletion") =>
                 /\ job'[w].key = job[w].key /\ pc[w] # "idle"
                 /\ job'[w].verdict.uid <= uids'
                 /\ objects'[Target(w)] # NoDoc => job'[w].verdict.uid <= objects'[Target(w)].uid
                 /\ Waits(status[Doc(w)]) => status[Doc(w)].verdict.uid <= job'[w].verdict.uid
                 /\ \A c \in late : Waits(c.new) /\ Doc(w) = c.doc =>
                      c.new.verdict.uid <= job'[w].verdict.uid,
               UNCHANGED late
        PROVE  Aged'
    <3>1. \A d \in Desires : Waits(status'[d]) =>
            /\ status'[d].verdict.uid <= uids'
            /\ objects'[TargetOf[d]] # NoDoc => status'[d].verdict.uid <= objects'[TargetOf[d]].uid
      BY <1>2, <2>2 DEF Waits
    <3>2. ASSUME NEW v \in Workers, pc'[v] \in {"read", "write"},
                 job'[v].verdict.reason = "WaitingForDeletion"
          PROVE  /\ job'[v].verdict.uid <= uids'
                 /\ objects'[TargetOf[job'[v].key]] # NoDoc =>
                      job'[v].verdict.uid <= objects'[TargetOf[job'[v].key]].uid
                 /\ Waits(status'[job'[v].key]) =>
                      status'[job'[v].key].verdict.uid <= job'[v].verdict.uid
      <4>1. CASE v = w
        BY <2>2, <3>2, <4>1 DEF Waits, Target
      <4>2. CASE v # w
        BY <1>3, <2>1, <2>2, <3>2, <4>2 DEF Aged, Waits, Target
      <4> QED BY <4>1, <4>2
    <3>3. ASSUME NEW c \in late, Waits(c.new)
          PROVE  /\ c.new.verdict.uid <= uids'
                 /\ objects'[TargetOf[c.doc]] # NoDoc =>
                      c.new.verdict.uid <= objects'[TargetOf[c.doc]].uid
                 /\ Waits(status'[c.doc]) => status'[c.doc].verdict.uid <= c.new.verdict.uid
                 /\ \A v \in Workers :
                      (/\ pc'[v] \in {"read", "write"} /\ job'[v].key = c.doc
                       /\ job'[v].verdict.reason = "WaitingForDeletion") =>
                         c.new.verdict.uid <= job'[v].verdict.uid
      <4>1. Waits(status'[c.doc]) => status'[c.doc].verdict.uid <= c.new.verdict.uid
        BY <2>2, <3>3 DEF Aged, Waits
      <4>2. ASSUME NEW v \in Workers, pc'[v] \in {"read", "write"}, job'[v].key = c.doc,
                   job'[v].verdict.reason = "WaitingForDeletion"
            PROVE  c.new.verdict.uid <= job'[v].verdict.uid
        <5>1. CASE v = w
          BY <2>2, <3>3, <4>2, <5>1
        <5>2. CASE v # w
          BY <2>1, <3>3, <4>2, <5>2 DEF Aged
        <5> QED BY <5>1, <5>2
      <4> QED BY <1>4, <3>3, <4>1, <4>2
    <3> QED BY <1>1, <2>2, <3>1, <3>2, <3>3 DEF Aged, Dated, Target
  <2>3. CASE Decides(w)
    <3> SUFFICES ASSUME job'[w].verdict.reason = "WaitingForDeletion"
                 PROVE  /\ job'[w].key = job[w].key /\ pc[w] # "idle"
                        /\ job'[w].verdict.uid <= uids'
                        /\ objects'[Target(w)] # NoDoc =>
                             job'[w].verdict.uid <= objects'[Target(w)].uid
                        /\ Waits(status[Doc(w)]) =>
                             status[Doc(w)].verdict.uid <= job'[w].verdict.uid
                        /\ \A c \in late : Waits(c.new) /\ Doc(w) = c.doc =>
                             c.new.verdict.uid <= job'[w].verdict.uid
      BY <2>2, <2>3 DEF Decides
    <3>1. /\ objects' = objects /\ uids' = uids /\ objects[Target(w)] \in Object
          /\ job'[w].verdict.uid = objects[Target(w)].uid
          /\ job'[w].key = job[w].key /\ pc[w] # "idle"
      BY <2>3 DEF Decides, api, Fetched, Holding
    <3>2. objects[Target(w)] # NoDoc
      BY <3>1, NoDocAssumption
    <3>3. objects[Target(w)].uid \in Nat /\ objects[Target(w)].uid <= uids
      BY <1>0, <3>1, <3>2 DEF Aged
    <3>4. Waits(status[Doc(w)]) => status[Doc(w)].verdict.uid <= objects[Target(w)].uid
      BY <1>0, <3>1, <3>2 DEF Aged, Dated, Target
    <3>5. \A c \in late : Waits(c.new) /\ Doc(w) = c.doc =>
            c.new.verdict.uid <= objects[Target(w)].uid
      BY <3>2 DEF Aged, Dated, Target
    <3> QED BY <1>0, <3>1, <3>3, <3>4, <3>5
  <2>4. CASE Reads(w)
    BY <1>3, <2>2, <2>4 DEF Reads, Aged
  <2>5. CASE Writes(w)
    <3>1. /\ pc[w] = "write" /\ Doc(w) \in Desires /\ pc'[w] = "finish"
          /\ status' = [status EXCEPT ![Doc(w)] = NewStatus(job[w])]
          /\ NewStatus(job[w]).verdict = job[w].verdict
          /\ late' = late \ Overtaken(Doc(w))
      BY <1>0, <2>5 DEF Writes, NewStatus
    <3>2. \A d \in Desires : d # Doc(w) =>
            status'[d] = status[d] /\ (Waits(status'[d]) <=> Waits(status[d]))
      BY <1>0, <3>1 DEF Waits
    <3>3. Waits(status'[Doc(w)]) =>
            /\ status'[Doc(w)].verdict = job[w].verdict
            /\ job[w].verdict.reason = "WaitingForDeletion"
      BY <1>0, <3>1 DEF Waits
    <3>4. \A d \in Desires : Waits(status'[d]) =>
            /\ status'[d].verdict.uid <= uids'
            /\ objects'[TargetOf[d]] # NoDoc => status'[d].verdict.uid <= objects'[TargetOf[d]].uid
      BY <1>2, <1>3, <3>1, <3>2, <3>3 DEF Target
    <3>5. \A v \in Workers \ {w} : pc[v] # "idle" => Doc(v) # Doc(w) /\ Doc(v) \in Desires
      BY <1>0, <3>1 DEF Exclusive
    <3>6. ASSUME NEW v \in Workers, pc'[v] \in {"read", "write"},
                 job'[v].verdict.reason = "WaitingForDeletion"
          PROVE  /\ job'[v].verdict.uid <= uids'
                 /\ objects'[TargetOf[job'[v].key]] # NoDoc =>
                      job'[v].verdict.uid <= objects'[TargetOf[job'[v].key]].uid
                 /\ Waits(status'[job'[v].key]) =>
                      status'[job'[v].key].verdict.uid <= job'[v].verdict.uid
      <4>1. v # w /\ pc'[v] = pc[v] /\ job'[v] = job[v] /\ pc[v] # "idle"
        BY <2>1, <3>1, <3>6
      <4> QED BY <1>3, <3>2, <3>5, <3>6, <4>1 DEF Aged, Target
    <3>7. ASSUME NEW c \in late', Waits(c.new)
          PROVE  /\ c.new.verdict.uid <= uids'
                 /\ objects'[TargetOf[c.doc]] # NoDoc =>
                      c.new.verdict.uid <= objects'[TargetOf[c.doc]].uid
                 /\ Waits(status'[c.doc]) => status'[c.doc].verdict.uid <= c.new.verdict.uid
                 /\ \A v \in Workers :
                      (/\ pc'[v] \in {"read", "write"} /\ job'[v].key = c.doc
                       /\ job'[v].verdict.reason = "WaitingForDeletion") =>
                         c.new.verdict.uid <= job'[v].verdict.uid
      <4>1. c \in late /\ c.doc # Doc(w) /\ c.doc \in Desires
        BY <1>0, <3>1, <3>7 DEF Overtaken
      <4>2. Waits(status'[c.doc]) => status'[c.doc].verdict.uid <= c.new.verdict.uid
        BY <3>2, <3>7, <4>1 DEF Aged
      <4>3. \A v \in Workers : pc'[v] \in {"read", "write"} =>
              v # w /\ pc'[v] = pc[v] /\ job'[v] = job[v]
        BY <2>1, <3>1
      <4> QED BY <1>4, <3>7, <4>1, <4>2, <4>3 DEF Aged
    <3> QED BY <1>1, <3>4, <3>6, <3>7 DEF Aged, Dated, Target
  <2> QED
    BY <1>7, <2>2, <2>3, <2>4, <2>5, OwnStep
       DEF Takes, Fetches, GoesOn, Leaves, GivesUp, Releases
<1>8. ASSUME NEW b \in late, LateWrite(b) PROVE Aged'
  <2>1. /\ status' = [status EXCEPT ![b.doc] = b.new] /\ UNCHANGED pc
        /\ late' = late \ Overtaken(b.doc)
        /\ \A v \in Workers : job'[v].key = job[v].key /\ job'[v].verdict = job[v].verdict
    BY <1>8, LateMove DEF Witnessed
  <2>2. /\ status'[b.doc] = b.new
        /\ \A d \in Desires : d # b.doc =>
             status'[d] = status[d] /\ (Waits(status'[d]) <=> Waits(status[d]))
    BY <1>0, <2>1
  <2>3. ASSUME NEW d \in Desires, Waits(status'[d])
        PROVE  /\ status'[d].verdict.uid <= uids'
               /\ objects'[TargetOf[d]] # NoDoc => status'[d].verdict.uid <= objects'[TargetOf[d]].uid
    <3>1. CASE d = b.doc
      BY <1>4, <2>2, <2>3, <3>1
    <3>2. CASE d # b.doc
      BY <1>2, <2>2, <2>3, <3>2
    <3> QED BY <3>1, <3>2
  <2>4. ASSUME NEW v \in Workers, pc'[v] \in {"read", "write"},
               job'[v].verdict.reason = "WaitingForDeletion"
        PROVE  /\ job'[v].verdict.uid <= uids'
               /\ objects'[TargetOf[job'[v].key]] # NoDoc =>
                    job'[v].verdict.uid <= objects'[TargetOf[job'[v].key]].uid
               /\ Waits(status'[job'[v].key]) =>
                    status'[job'[v].key].verdict.uid <= job'[v].verdict.uid
    <3>1. /\ pc[v] \in {"read", "write"} /\ job[v].verdict.reason = "WaitingForDeletion"
          /\ job'[v].key = Doc(v) /\ job'[v].verdict = job[v].verdict
          /\ Doc(v) \in Desires
      BY <1>0, <2>1, <2>4
    <3>2. Waits(status'[Doc(v)]) => status'[Doc(v)].verdict.uid <= job[v].verdict.uid
      <4>1. CASE Doc(v) = b.doc
        BY <2>2, <3>1, <4>1 DEF Aged
      <4>2. CASE Doc(v) # b.doc
        BY <2>2, <3>1, <4>2 DEF Aged
      <4> QED BY <4>1, <4>2
    <3> QED BY <1>3, <3>1, <3>2 DEF Target
  <2>5. ASSUME NEW c \in late', Waits(c.new)
        PROVE  /\ c.new.verdict.uid <= uids'
               /\ objects'[TargetOf[c.doc]] # NoDoc =>
                    c.new.verdict.uid <= objects'[TargetOf[c.doc]].uid
               /\ Waits(status'[c.doc]) => status'[c.doc].verdict.uid <= c.new.verdict.uid
               /\ \A v \in Workers :
                    (/\ pc'[v] \in {"read", "write"} /\ job'[v].key = c.doc
                     /\ job'[v].verdict.reason = "WaitingForDeletion") =>
                       c.new.verdict.uid <= job'[v].verdict.uid
    <3>1. c \in late /\ c.doc # b.doc /\ c.doc \in Desires
      BY <1>0, <2>1, <2>5 DEF Overtaken
    <3>2. Waits(status'[c.doc]) => status'[c.doc].verdict.uid <= c.new.verdict.uid
      BY <2>2, <2>5, <3>1 DEF Aged
    <3> QED BY <1>4, <2>1, <2>5, <3>1, <3>2 DEF Aged
  <2> QED BY <1>1, <2>3, <2>4, <2>5 DEF Aged, Dated, Target
<1> QED BY <1>5, <1>6, <1>7, <1>8, StepKinds

-----------------------------------------------------------------------------
(* A worker that replaces a status and has lost the race lost it to a late *)
(* write: no other worker has the document.                                *)
Raced ==
  \A w \in Workers : (pc[w] = "write" /\ job[w].exists) =>
    /\ status[Doc(w)] # NoDoc
    /\ LostRace(w) => Doc(w) \in usurped

LEMMA RacedNext == Witnessed /\ Exclusive /\ Raced /\ [Next]_vars => Raced'
<1> SUFFICES ASSUME Witnessed, Exclusive, Raced, [Next]_vars,
                    NEW v \in Workers, pc'[v] = "write", job'[v].exists
             PROVE  /\ status'[job'[v].key] # NoDoc
                    /\ job'[v].exists /\ ~job'[v].fresh => job'[v].key \in usurped'
  BY DEF Raced, LostRace, Doc
<1> USE DEF Doc
<1>0. /\ TypeOK /\ status \in [Desires -> StatusDoc \cup {NoDoc}]
      /\ \A w \in Workers : pc[w] # "idle" => Doc(w) \in Desires
  BY DEF Witnessed, TypeOK, Known
<1>1. ASSUME pc[v] = "write", job[v].exists
      PROVE  /\ status[Doc(v)] # NoDoc /\ Doc(v) \in Desires
             /\ ~job[v].fresh => Doc(v) \in usurped
  BY <1>0, <1>1 DEF Raced, LostRace
<1>2. CASE UNCHANGED <<pc, job, status, late, usurped>>
  BY <1>1, <1>2
<1>3. CASE Restart
  BY <1>3 DEF Restart
<1>4. ASSUME NEW c \in late, LateWrite(c)
      PROVE  /\ status'[job'[v].key] # NoDoc
             /\ job'[v].exists /\ ~job'[v].fresh => job'[v].key \in usurped'
  <2>1. /\ status' = [status EXCEPT ![c.doc] = c.new] /\ pc' = pc
        /\ usurped' = IF status[c.doc] = NoDoc THEN usurped ELSE usurped \cup {c.doc}
        /\ job'[v].key = job[v].key /\ job'[v].exists = job[v].exists
        /\ Doc(v) # c.doc => job'[v] = job[v]
        /\ c.doc \in Desires /\ c.new # NoDoc
    BY <1>0, <1>4, LateMove, LateType
  <2>2. pc[v] = "write" /\ job[v].exists
    BY <2>1
  <2>3. status[Doc(v)] # NoDoc /\ Doc(v) \in Desires
    BY <1>1, <2>2
  <2>4. CASE Doc(v) = c.doc
    BY <1>0, <2>1, <2>3, <2>4
  <2>5. CASE Doc(v) # c.doc
    BY <1>0, <1>1, <2>1, <2>2, <2>3, <2>5
  <2> QED BY <2>4, <2>5
<1>5. ASSUME NEW w \in Workers, Calls(w)
      PROVE  /\ status'[job'[v].key] # NoDoc
             /\ job'[v].exists /\ ~job'[v].fresh => job'[v].key \in usurped'
  <2>1. CASE v = w
    BY <1>5, <2>1, OwnStep
       DEF Takes, Fetches, GoesOn, Decides, Reads, Leaves, GivesUp, Writes, Releases
  <2>2. CASE v # w
    <3>1. pc'[v] = pc[v] /\ job'[v] = job[v] /\ pc[v] = "write" /\ job[v].exists
      BY <1>5, <2>2, OthersStay
    <3>2. status[Doc(v)] # NoDoc /\ Doc(v) \in Desires
      BY <1>1, <3>1
    <3>3. CASE Writes(w)
      <4>1. Doc(v) # Doc(w)
        BY <2>2, <3>1, <3>3 DEF Writes, Exclusive
      <4>2. status'[Doc(v)] = status[Doc(v)] /\ (Doc(v) \in usurped' <=> Doc(v) \in usurped)
        BY <1>0, <3>2, <3>3, <4>1 DEF Writes
      <4> QED BY <1>1, <3>1, <3>2, <4>2
    <3>4. CASE UNCHANGED <<status, usurped>>
      BY <1>1, <3>1, <3>2, <3>4
    <3> QED BY <1>5, <3>3, <3>4, OwnStep
            DEF Takes, Fetches, GoesOn, Decides, Reads, Leaves, GivesUp, Releases
  <2> QED BY <2>1, <2>2
<1> QED BY <1>2, <1>3, <1>4, <1>5, StepKinds

Ledger == Witnessed /\ Exclusive /\ Ordered /\ Aged /\ Raced

LEMMA LedgerInvariant == Spec => []Ledger
<1>1. Init => Exclusive /\ Ordered /\ Aged /\ Raced
  BY EmptyQueueOK DEF Init, Exclusive, Ordered, Aged, Raced, Fetched, Holding, Waits
<1>2. Witnessed /\ Exclusive /\ Ordered /\ Aged /\ Raced /\ [Next]_vars =>
        Exclusive' /\ Ordered' /\ Aged' /\ Raced'
  BY ExclusiveNext, OrderedNext, AgedNext, RacedNext
<1> QED BY <1>1, <1>2, WitnessedInit, WitnessedNext, PTL DEF Spec, Ledger

(* Reports of a document come in order: neither the revision it reports    *)
(* goes back nor, while it reports one revision, the object it waits for.  *)
THEOREM NeverRegresses == Spec => ReportsNeverRegress
<1>1. Ledger /\ [Next]_vars =>
        [\A d \in Desires : status[d] # NoDoc =>
           /\ status'[d] # NoDoc /\ status'[d].observed >= status[d].observed
           /\ (Waiting(d) /\ Reason(d)' = "WaitingForDeletion"
                 /\ status'[d].observed = status[d].observed) =>
                status'[d].verdict.uid >= status[d].verdict.uid]_vars
  <2> SUFFICES ASSUME Ledger, [Next]_vars, NEW d \in Desires, status[d] # NoDoc
               PROVE  /\ status'[d] # NoDoc /\ status'[d].observed >= status[d].observed
                      /\ (Waiting(d) /\ Reason(d)' = "WaitingForDeletion") =>
                           status'[d].verdict.uid >= status[d].verdict.uid
    OBVIOUS
  <2>0. /\ Witnessed /\ Exclusive /\ Ordered /\ Aged
        /\ status \in [Desires -> StatusDoc \cup {NoDoc}]
        /\ status[d].observed \in Nat /\ status[d].verdict.uid \in Nat
    BY DEF Ledger, Witnessed, TypeOK, StatusDoc, Verdict
  <2>1. CASE status'[d] = status[d]
    BY <2>0, <2>1
  <2>2. ASSUME NEW w \in Workers, Writes(w), Doc(w) = d
        PROVE  /\ status'[d] # NoDoc /\ status'[d].observed >= status[d].observed
               /\ (Waiting(d) /\ Reason(d)' = "WaitingForDeletion") =>
                    status'[d].verdict.uid >= status[d].verdict.uid
    <3>1. /\ pc[w] = "write" /\ Fetched(w) /\ job[w] \in Job /\ job[w].desire \in SpecDoc
      BY <2>0, <2>2 DEF Writes, Fetched, Holding, Witnessed, TypeOK, Known
    <3>2. /\ NewStatus(job[w]) \in StatusDoc
          /\ NewStatus(job[w]).observed = job[w].desire.rev
          /\ NewStatus(job[w]).verdict = job[w].verdict
      BY <3>1, NewStatusType
    <3>3. status'[d] = NewStatus(job[w]) /\ status'[d] # NoDoc
      BY <2>0, <2>2, <3>2, NoDocAssumption DEF Writes
    <3>4. status[d].observed <= job[w].desire.rev /\ job[w].desire.rev \in Nat
      BY <2>0, <2>2, <3>1 DEF Ordered, SpecDoc
    <3>5. (Waiting(d) /\ job[w].verdict.reason = "WaitingForDeletion") =>
            status[d].verdict.uid <= job[w].verdict.uid /\ job[w].verdict.uid \in Nat
      BY <2>0, <2>2, <3>1 DEF Aged, Waits, Waiting, Reason, Job, Verdict
    <3>6. Reason(d)' = job[w].verdict.reason
      BY <3>2, <3>3 DEF Reason
    <3> QED BY <2>0, <3>2, <3>3, <3>4, <3>5, <3>6
  <2>3. status'[d] # status[d] =>
          \/ \E w \in Workers : Writes(w) /\ Doc(w) = d
          \/ \E c \in late : LateWrite(c) /\ c.doc = d
    <3> SUFFICES ASSUME status'[d] # status[d],
                        ~(\E c \in late : LateWrite(c) /\ c.doc = d)
                 PROVE  \E w \in Workers : Writes(w) /\ Doc(w) = d
      OBVIOUS
    <3>0. ~(\E c \in late : LateWrite(c))
      BY <2>0, LateMove, LateType DEF Witnessed
    <3>1. PICK w \in Workers : Calls(w)
      BY <3>0, StepKinds DEF Restart
    <3>2. Writes(w)
      BY <2>0, <3>1, OwnStep
         DEF Takes, Fetches, GoesOn, Decides, Reads, Leaves, GivesUp, Releases
    <3>3. Doc(w) = d
      BY <2>0, <3>2 DEF Writes
    <3> QED BY <3>2, <3>3
  <2>4. ASSUME NEW c \in late, LateWrite(c), c.doc = d
        PROVE  /\ status'[d] # NoDoc /\ status'[d].observed >= status[d].observed
               /\ (Waiting(d) /\ Reason(d)' = "WaitingForDeletion") =>
                    status'[d].verdict.uid >= status[d].verdict.uid
    <3>1. c.new # NoDoc /\ c.new.observed \in Nat /\ c.new.verdict.uid \in Nat
      BY <2>0, LateType DEF Witnessed
    <3>2. status'[d] = c.new
      BY <2>0, <2>4, LateMove DEF Witnessed
    <3>3. status[d].observed <= c.new.observed
      BY <2>0, <2>4 DEF Ordered
    <3>4. (Waiting(d) /\ c.new.verdict.reason = "WaitingForDeletion") =>
            status[d].verdict.uid <= c.new.verdict.uid
      BY <2>0, <2>4, <3>1 DEF Aged, Waits, Waiting, Reason
    <3>5. Reason(d)' = c.new.verdict.reason
      BY <3>1, <3>2 DEF Reason
    <3> QED BY <2>0, <3>1, <3>2, <3>3, <3>4, <3>5
  <2> QED BY <2>1, <2>2, <2>3, <2>4
<1> QED BY <1>1, LedgerInvariant, PTL DEF Spec, ReportsNeverRegress

-----------------------------------------------------------------------------
(* Nothing is forgotten: a document the informer knows is still queued, in *)
(* the hands of a worker that will report it or fail, or reported; or a    *)
(* late Replace came in between.                                           *)

WillReport(w, d) ==
  /\ pc[w] # "idle" /\ Doc(w) = d
  /\ \/ pc[w] = "fetch"
     \/ Fetched(w) /\ job[w].desire.rev = specs[d].rev
     \/ pc[w] = "finish" /\ job[w].result = "err"

Settled(d) == ReportsCurrent(d) /\ ~SyncErr(status[d].verdict)

Overruled(d) ==
  d \in usurped /\ \A w \in Workers : (pc[w] # "idle" /\ Doc(w) = d) => pc[w] = "finish"

Handled(d) ==
  \/ d \in q.dirty \cup q.delayed
  \/ \E w \in Workers : WillReport(w, d)
  \/ Settled(d)
  \/ Overruled(d)

Remembered ==
  \A d \in Desires : (specs[d] # NoDoc /\ cache[d] = specs[d]) => Handled(d)

(* The step of the worker on a document that leaves the work to it.        *)
LEMMA WillReportStep ==
  ASSUME Ledger, NEW w \in Workers, Calls(w), NEW d \in Desires, specs[d] # NoDoc,
         WillReport(w, d)
  PROVE  WillReport(w, d)' \/ Settled(d)' \/ d \in q'.delayed \/ Overruled(d)'
<1> USE DEF Doc
<1>0. /\ Witnessed /\ Exclusive /\ Raced /\ UNCHANGED <<specs, now, cache>>
      /\ pc[w] # "idle" /\ job[w].key = d
  BY OthersStay DEF WillReport, Ledger
<1>1. CASE Fetches(w)
  BY <1>0, <1>1 DEF Fetches, WillReport, Fetched, Holding
<1>2. CASE GoesOn(w) \/ Decides(w) \/ Reads(w)
  BY <1>0, <1>2 DEF GoesOn, Decides, Reads, WillReport, Fetched, Holding
<1>3. CASE Leaves(w)
  <2>1. CASE job'[w].result = "err"
    BY <1>0, <1>3, <2>1 DEF Leaves, WillReport
  <2>2. CASE pc[w] = "read" /\ Reported(w)
    <3>1. job[w].desire.rev = specs[d].rev /\ job[w].desire \in SpecDoc /\ job[w] \in Job
      BY <1>0, <2>2 DEF WillReport, Witnessed, Known, Holding, TypeOK
    <3>2. status[d] \in StatusDoc /\ status[d].observed = specs[d].rev
          /\ status[d].verdict = job[w].verdict
      BY <1>0, <2>2, <3>1, NewStatusType DEF Reported
    <3>3. status[d] # NoDoc /\ status' = status
      BY <1>3, <3>2, NoDocAssumption DEF Leaves
    <3> QED BY <1>0, <2>2, <3>2, <3>3 DEF Settled, ReportsCurrent, Reported
  <2> QED BY <1>0, <1>3, <2>1, <2>2 DEF Leaves
<1>4. CASE GivesUp(w)
  <2>1. CASE job'[w].result = "err"
    BY <1>0, <1>4, <2>1 DEF GivesUp, WillReport
  <2>2. CASE LostRace(w)
    <3>1. d \in usurped' /\ pc'[w] = "finish"
      BY <1>0, <1>4, <2>2 DEF GivesUp, Raced, LostRace
    <3>2. \A v \in Workers \ {w} : pc'[v] # "idle" => job'[v].key # d
      BY <1>0, OthersStay DEF Exclusive
    <3> QED BY <3>1, <3>2 DEF Overruled
  <2> QED BY <1>4, <2>1, <2>2 DEF GivesUp
<1>5. CASE Writes(w)
  <2>1. CASE job'[w].result = "err"
    BY <1>0, <1>5, <2>1 DEF Writes, WillReport
  <2>2. CASE ~SyncErr(job[w].verdict)
    <3>1. /\ job[w].desire.rev = specs[d].rev /\ job[w].desire \in SpecDoc /\ job[w] \in Job
          /\ status \in [Desires -> StatusDoc \cup {NoDoc}]
      BY <1>0, <1>5 DEF Writes, WillReport, Witnessed, Known, Holding, TypeOK
    <3>2. /\ NewStatus(job[w]) \in StatusDoc /\ NewStatus(job[w]).observed = specs[d].rev
          /\ NewStatus(job[w]).verdict = job[w].verdict
      BY <3>1, NewStatusType
    <3>3. status'[d] = NewStatus(job[w]) /\ status'[d] # NoDoc
      BY <1>0, <1>5, <3>1, <3>2, NoDocAssumption DEF Writes
    <3> QED BY <1>0, <2>2, <3>2, <3>3 DEF Settled, ReportsCurrent
  <2> QED BY <1>5, <2>1, <2>2 DEF Writes
<1>6. CASE Releases(w)
  <2>1. Finish(w) /\ job[w].result = "err"
    BY <1>6 DEF Releases, WillReport, Fetched, Holding
  <2> QED BY <1>0, <2>1, FinishQueue
<1> QED BY <1>0, <1>1, <1>2, <1>3, <1>4, <1>5, <1>6, OwnStep DEF Takes

LEMMA RememberedNext == Ledger /\ Remembered /\ [Next]_vars => Remembered'
<1> SUFFICES ASSUME Ledger, Remembered, [Next]_vars,
                    NEW d \in Desires, specs'[d] # NoDoc, cache'[d] = specs'[d]
             PROVE  Handled(d)'
  BY DEF Remembered
<1> USE DEF Doc, aside
<1>0. /\ Witnessed /\ Exclusive /\ Ordered /\ Raced
      /\ specs \in [Desires -> SpecDoc \cup {NoDoc}] /\ cache \in [Desires -> SpecDoc \cup {NoDoc}]
      /\ status \in [Desires -> StatusDoc \cup {NoDoc}] /\ now \in Nat
      /\ \A s \in SpecDoc : s.rev \in Nat
      /\ q \in QueueType(Desires)
  BY DEF Ledger, Witnessed, TypeOK, SpecDoc
<1>1. CASE \E e \in Desires : WriteSpec(e)
  <2>1. PICK e \in Desires : WriteSpec(e)
    BY <1>1
  <2>2. PICK ok \in BOOLEAN : specs' = [specs EXCEPT ![e] = [rev |-> now + 1, wellFormed |-> ok]]
    BY <2>1 DEF WriteSpec
  <2>3. UNCHANGED <<cache, q, status, pc, job, usurped>>
    BY <2>1 DEF WriteSpec, intake, worker
  <2>4. e # d
    <3> SUFFICES ASSUME e = d PROVE FALSE
      OBVIOUS
    <3>1. cache[d] # NoDoc /\ cache[d].rev = now + 1
      BY <1>0, <2>2, <2>3
    <3> QED BY <1>0, <3>1 DEF Ordered
  <2>5. specs'[d] = specs[d]
    BY <1>0, <2>2, <2>4
  <2> QED BY <2>3, <2>5 DEF Remembered, Handled, WillReport, Settled, ReportsCurrent, Fetched, Overruled
<1>2. CASE \E e \in Desires : DeleteSpec(e)
  <2>1. specs'[d] = specs[d] /\ UNCHANGED <<cache, q, status, pc, job, usurped>>
    BY <1>0, <1>2 DEF DeleteSpec, intake, worker
  <2> QED BY <2>1 DEF Remembered, Handled, WillReport, Settled, ReportsCurrent, Fetched, Overruled
<1>3. CASE \E e \in Desires : Deliver(e)
  <2>1. PICK e \in Desires : Deliver(e)
    BY <1>3
  <2>2. CASE e = d
    <3>1. specs[d] \in SpecDoc /\ specs[d] # NoDoc /\ cache[d] # specs[d] /\ UNCHANGED specs
      BY <1>0, <2>1, <2>2 DEF Deliver, db
    <3>2. \/ enqueue(d)
          \/ cache[d] # NoDoc /\ handleUpdate(d, cache[d], specs[d])
      BY <2>1, <2>2, <3>1 DEF Deliver
    <3>3. cache[d] # NoDoc => Changed(cache[d], specs[d])
      BY <3>1, <1>0 DEF Ordered, Changed
    <3>4. q' = QAdd(q, d)
      BY <3>2, <3>3 DEF enqueue, handleUpdate
    <3>5. d \in q'.dirty
      BY <1>0, <3>4, QAddOK
    <3> QED BY <3>5 DEF Handled
  <2>3. CASE e # d
    <3>1. cache'[d] = cache[d] /\ UNCHANGED <<specs, status, pc, job, usurped>>
      BY <1>0, <2>1, <2>3 DEF Deliver, db, worker
    <3>2. q' = q \/ q' = QAdd(q, e)
      BY <2>1 DEF Deliver, handleUpdate, enqueue
    <3>3. q.dirty \subseteq q'.dirty /\ q'.delayed = q.delayed
      BY <1>0, <3>2, QAddOK
    <3> QED BY <3>1, <3>3
            DEF Remembered, Handled, WillReport, Settled, ReportsCurrent, Fetched, Overruled
  <2> QED BY <2>2, <2>3
<1>4. CASE Restart
  BY <1>0, <1>4 DEF Restart, db
<1>5. CASE /\ ~(\E w \in Workers : Calls(w)) /\ ~Restart
           /\ UNCHANGED <<specs, cache, status, pc, job, usurped>>
  <2>1. q.dirty \subseteq q'.dirty /\ q.delayed \subseteq q'.delayed \cup q'.dirty
    BY <1>0, <1>5, QueueStep
  <2> QED BY <1>5, <2>1
          DEF Remembered, Handled, WillReport, Settled, ReportsCurrent, Fetched, Overruled
<1>6. ASSUME NEW w \in Workers, Calls(w) PROVE Handled(d)'
  <2>1. /\ \A v \in Workers \ {w} : pc'[v] = pc[v] /\ job'[v] = job[v]
        /\ UNCHANGED <<specs, now, cache>>
    BY <1>0, <1>6, OthersStay
  <2>2. Handled(d) /\ specs[d] # NoDoc
    BY <2>1 DEF Remembered
  <2>3. CASE WillReport(w, d)
    BY <1>6, <2>2, <2>3, WillReportStep DEF Handled
  <2>4. ASSUME NEW v \in Workers, WillReport(v, d), v # w PROVE Handled(d)'
    <3>1. WillReport(v, d)'
      BY <2>1, <2>4 DEF WillReport, Fetched
    <3> QED BY <3>1 DEF Handled
  <2>5. CASE Settled(d)
    <3>1. CASE status'[d] = status[d]
      BY <2>1, <2>5, <3>1 DEF Handled, Settled, ReportsCurrent
    <3>2. CASE status'[d] # status[d]
      <4>1. Writes(w)
        BY <1>0, <1>6, <3>2, OwnStep
           DEF Takes, Fetches, GoesOn, Decides, Reads, Leaves, GivesUp, Releases
      <4>2. job[w].key = d /\ Fetched(w) /\ job[w].desire.rev \in Nat /\ specs[d].rev \in Nat
        BY <1>0, <2>2, <3>2, <4>1 DEF Writes, Fetched, Holding, Witnessed, Known, SpecDoc
      <4>3. status[d] # NoDoc /\ status[d].observed = specs[d].rev
        BY <2>5 DEF Settled, ReportsCurrent
      <4>4. status[d].observed <= job[w].desire.rev /\ job[w].desire.rev <= specs[d].rev
        BY <1>0, <2>2, <4>2, <4>3 DEF Ordered
      <4>5. job[w].desire.rev = specs[d].rev
        BY <4>2, <4>3, <4>4
      <4>6. WillReport(w, d)
        BY <4>1, <4>2, <4>5 DEF WillReport, Writes
      <4> QED BY <2>3, <4>6
    <3> QED BY <3>1, <3>2
  <2>6. CASE d \in q.dirty \cup q.delayed
    <3>1. CASE Takes(w)
      <4>1. q'.dirty = q.dirty \ {job'[w].key} /\ q'.delayed = q.delayed
        BY <1>0, <3>1, QGetOK DEF Takes
      <4>2. CASE job'[w].key = d
        <5>1. WillReport(w, d)'
          BY <3>1, <4>2 DEF WillReport, Takes
        <5> QED BY <5>1 DEF Handled
      <4> QED BY <2>6, <4>1, <4>2 DEF Handled
    <3>2. CASE Releases(w)
      <4>1. q'.dirty = q.dirty /\ q.delayed \subseteq q'.delayed
        BY <1>0, <3>2, FinishQueue DEF Releases
      <4> QED BY <2>6, <4>1 DEF Handled
    <3>3. CASE q' = q
      BY <2>6, <3>3 DEF Handled
    <3> QED BY <1>0, <1>6, <3>1, <3>2, <3>3, OwnStep
            DEF Fetches, GoesOn, Decides, Reads, Leaves, GivesUp, Writes
  <2>7. CASE Overruled(d)
    <3>1. CASE Takes(w) /\ job'[w].key = d
      <4>1. WillReport(w, d)'
        BY <3>1 DEF WillReport, Takes
      <4> QED BY <4>1 DEF Handled
    <3>2. CASE ~(Takes(w) /\ job'[w].key = d)
      <4>1. /\ d \in usurped'
            /\ (pc'[w] # "idle" /\ job'[w].key = d) => pc'[w] = "finish"
        BY <1>0, <1>6, <2>7, <3>2, OwnStep
           DEF Overruled, Takes, Fetches, GoesOn, Decides, Reads, Leaves, GivesUp, Writes,
               Releases, Fetched, Holding
      <4>2. Overruled(d)'
        BY <2>1, <2>7, <4>1 DEF Overruled
      <4> QED BY <4>2 DEF Handled
    <3> QED BY <3>1, <3>2
  <2> QED BY <2>2, <2>3, <2>4, <2>5, <2>6, <2>7 DEF Handled
<1>7. ASSUME NEW c \in late, LateWrite(c) PROVE Handled(d)'
  <2>1. /\ status' = [status EXCEPT ![c.doc] = c.new]
        /\ UNCHANGED <<specs, cache, q, pc>>
        /\ usurped' = IF status[c.doc] = NoDoc THEN usurped ELSE usurped \cup {c.doc}
        /\ \A v \in Workers : /\ job'[v].key = job[v].key /\ job'[v].desire = job[v].desire
                              /\ job'[v].result = job[v].result
    BY <1>0, <1>7, LateMove DEF Witnessed
  <2>2. Handled(d) /\ specs[d] # NoDoc
    BY <2>1 DEF Remembered
  <2>3. ASSUME NEW v \in Workers, WillReport(v, d) PROVE Handled(d)'
    <3>1. WillReport(v, d)'
      BY <2>1, <2>3 DEF WillReport, Fetched
    <3> QED BY <3>1 DEF Handled
  <2>4. CASE Overruled(d)
    <3>1. Overruled(d)'
      BY <2>1, <2>4 DEF Overruled
    <3> QED BY <3>1 DEF Handled
  <2>5. CASE Settled(d) /\ c.doc # d
    <3>1. Settled(d)'
      BY <1>0, <2>1, <2>5 DEF Settled, ReportsCurrent
    <3> QED BY <3>1 DEF Handled
  <2>6. CASE Settled(d) /\ c.doc = d
    <3>1. /\ status[d] # NoDoc /\ status[d].observed = specs[d].rev
          /\ specs[d].rev \in Nat /\ d \in usurped'
      BY <1>0, <2>1, <2>2, <2>6 DEF Settled, ReportsCurrent
    <3>2. ASSUME NEW v \in Workers, pc[v] # "idle", Doc(v) = d, pc[v] # "finish"
          PROVE  WillReport(v, d)
      <4>1. CASE pc[v] = "fetch"
        BY <3>2, <4>1 DEF WillReport
      <4>2. CASE Fetched(v)
        <5>1. job[v].desire.rev \in Nat
          BY <1>0, <4>2 DEF Witnessed, Known, Fetched, SpecDoc
        <5>2. status[d].observed <= job[v].desire.rev /\ job[v].desire.rev <= specs[d].rev
          BY <1>0, <2>2, <3>1, <3>2, <4>2 DEF Ordered
        <5>3. job[v].desire.rev = specs[d].rev
          BY <3>1, <5>1, <5>2
        <5> QED BY <3>2, <4>2, <5>3 DEF WillReport
      <4> QED BY <1>0, <3>2, <4>1, <4>2 DEF Witnessed, TypeOK, Fetched, Holding
    <3>3. CASE \E v \in Workers : WillReport(v, d)
      BY <2>3, <3>3
    <3>4. CASE ~(\E v \in Workers : WillReport(v, d))
      <4>1. Overruled(d)'
        BY <2>1, <3>1, <3>2, <3>4 DEF Overruled
      <4> QED BY <4>1 DEF Handled
    <3> QED BY <3>3, <3>4
  <2>7. CASE d \in q.dirty \cup q.delayed
    BY <2>1, <2>7 DEF Handled
  <2> QED BY <2>2, <2>3, <2>4, <2>5, <2>6, <2>7 DEF Handled
<1> QED
  BY <1>1, <1>2, <1>3, <1>4, <1>5, <1>6, <1>7
     DEF Next, Step, vars, Calls, Resync, CooldownElapses, RetryDue, Create, OthersDelete,
         Release, worker, db, intake

(* Once the queue and the workers have let go of a document the informer   *)
(* knows, its status reports the current revision: its object is gone or   *)
(* awaited. Failures, lost replies and restarts are included, with one     *)
(* exception that is stated: a Replace that outlived its process and wrote *)
(* the status last may have taken the place of the report, or made it fail *)
(* its precondition, and then it is the resync that brings the report.     *)
THEOREM NothingForgotten == Spec => []IdleMeansReported
<1>1. Init => Remembered
  BY DEF Init, Remembered
<1>2. Ledger /\ Remembered => IdleMeansReported
  <2> SUFFICES ASSUME Ledger, Remembered, NEW d \in Desires,
                      specs[d] # NoDoc, cache[d] = specs[d], QIdle(q, d), d \notin usurped
               PROVE  ReportsCurrent(d) /\ (Successful(d) \/ Waiting(d))
    BY DEF IdleMeansReported
  <2>1. Settled(d)
    BY DEF Remembered, Handled, Overruled, WillReport, QIdle, Ledger, Exclusive
  <2>2. status[d] # NoDoc /\ status[d] \in StatusDoc
    BY <2>1 DEF Settled, ReportsCurrent, Ledger, Witnessed, TypeOK
  <2>3. status[d].verdict.reason \in Reasons
    BY <2>2 DEF StatusDoc, Verdict
  <2> QED BY <2>1, <2>2, <2>3 DEF Settled, SyncErr, Successful, Waiting, Reason, Reasons
<1> QED BY <1>1, <1>2, RememberedNext, LedgerInvariant, PTL DEF Spec
=============================================================================
