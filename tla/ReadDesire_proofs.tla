------------------------- MODULE ReadDesire_proofs -------------------------
(***************************************************************************)
(* Theorems of ReadDesire, for every set of documents, scopes and objects, *)
(* with any number of revisions, changes, failures, refused and abandoned  *)
(* writes, and restarts.                                                   *)
(***************************************************************************)
EXTENDS ReadDesire, WorkQueue_proofs

-----------------------------------------------------------------------------
(* The types of what the actions compute.                                  *)

LEMMA KeyOfType ==
  ASSUME NEW d \in Desires, NEW s \in SpecDoc
  PROVE  KeyOf(d, s) \in ReadDesireKey /\ KeyOf(d, s).name = d
BY DEF KeyOf, ReadDesireKey, SpecDoc

LEMMA VersionType ==
  ASSUME NEW t \in Targets, NEW n \in Nat \ {0}
  PROVE  Version(t, n) \in Content
BY DEF Version, Content

LEMMA ImageType ==
  ASSUME NEW c \in Content \cup {NoDoc}
  PROVE  Image(c) \in Content \cup {NoDoc}
<1> DEFINE b == c.version \in Inexact
<1>1. b \in BOOLEAN
  OBVIOUS
<1>2. Image(c) = IF c = NoDoc THEN NoDoc ELSE [c EXCEPT !.rounded = b]
  BY DEF Image
<1> HIDE DEF b
<1> QED BY <1>1, <1>2 DEF Content

LEMMA PersistedType ==
  ASSUME NEW s \in StatusDoc
  PROVE  Persisted(s) \in StatusDoc
<1>1. Image(s.content) \in Content \cup {NoDoc}
  BY ImageType DEF StatusDoc
<1> QED BY <1>1 DEF Persisted, StatusDoc

LEMMA NewInstanceType ==
  ASSUME NEW s \in SpecDoc, s.target # NoTarget
  PROVE  NewInstance(s) \in Instance /\ NewInstance(s).target = s.target
BY DEF NewInstance, Instance, SpecDoc

LEMMA IdleManagerType == IdleManager \in Manager /\ IdleManager.pc = "idle"
BY DEF IdleManager, Manager

-----------------------------------------------------------------------------
(* The first part of the inductive invariant: types, and who waits for     *)
(* which write.                                                            *)

(* The manager works on the one key it has taken.                          *)
ManagerOK ==
  /\ manager.pc # "idle" => manager.key \in ReadDesireKey /\ manager.key \in q.processing
  /\ manager.pc \in {"read", "write"} => manager.desire \in SpecDoc

(* Whoever waits for an answer has sent one write and does nothing else.   *)
Sent ==
  /\ \A wr \in writes : wr.by = "manager" => manager.pc = "write" /\ wr.key = manager.key
  /\ \A wr \in writes :
       wr.by = "instance" => running[wr.key] # NoDoc /\ running[wr.key].pc = "write"
  /\ \A v, wr \in writes :
       (v.by = wr.by /\ v.by # "stopped" /\ v.key = wr.key) => v = wr

(* A write that would be accepted replaces what its sender has read.       *)
FreshReads ==
  \A wr \in writes : (wr.existing # NoDoc /\ wr.fresh) => wr.existing = status[wr.key.name]

Typed == TypeOK /\ ManagerOK /\ Sent /\ FreshReads

LEMMA TypedInit == Init => Typed
<1> SUFFICES ASSUME Init PROVE Typed
  OBVIOUS
<1>1. \A t \in Targets : Version(t, 1) \in Content
  BY VersionType
<1>2. TypeOK
  BY <1>1, IdleManagerType, EmptyQueueOK DEF Init, TypeOK
<1>3. ManagerOK /\ Sent /\ FreshReads
  BY IdleManagerType DEF Init, ManagerOK, Sent, FreshReads
<1> QED BY <1>2, <1>3 DEF Typed

(* Writes that lose their sender keep everything but its name.             *)
Stopped(wr) == [wr EXCEPT !.by = "stopped"]
LEMMA AbandonedType ==
  ASSUME writes \subseteq PendingWrite, NEW S \in SUBSET writes
  PROVE  /\ Abandoned(S) \subseteq PendingWrite
         /\ \A v \in Abandoned(S) :
              \/ v \in writes /\ v \notin S
              \/ v.by = "stopped" /\ \E wr \in S :
                   v.key = wr.key /\ v.existing = wr.existing /\ v.fresh = wr.fresh
<1>1. \A wr \in PendingWrite :
        /\ Stopped(wr) \in PendingWrite /\ Stopped(wr).by = "stopped"
        /\ Stopped(wr).key = wr.key /\ Stopped(wr).existing = wr.existing
        /\ Stopped(wr).fresh = wr.fresh
  BY DEF Stopped, PendingWrite
<1>2. Abandoned(S) = (writes \ S) \cup {Stopped(wr) : wr \in S}
  BY DEF Abandoned, Stopped
<1> QED BY <1>1, <1>2

(* A write that lands makes the others on its document stale.              *)
Staled(v, d) == IF v.key.name = d THEN [v EXCEPT !.fresh = FALSE] ELSE v
LEMMA StaledType ==
  ASSUME NEW v \in PendingWrite, NEW d
  PROVE  /\ Staled(v, d) \in PendingWrite
         /\ Staled(v, d).by = v.by /\ Staled(v, d).key = v.key
         /\ Staled(v, d).existing = v.existing
         /\ v.key.name = d => ~Staled(v, d).fresh
         /\ v.key.name # d => Staled(v, d) = v
BY DEF Staled, PendingWrite

(* What keeps Typed when the manager, the instances and the writes are     *)
(* left alone.                                                             *)
LEMMA TypedElsewhere ==
  ASSUME Typed, UNCHANGED <<manager, running, writes, status>>,
         q'.processing = q.processing, TypeOK'
  PROVE  Typed'
BY DEF Typed, ManagerOK, Sent, FreshReads

(* What handlers and timers do to the queue.                               *)
QueueGrows ==
  /\ q' \in QueueType(ReadDesireKey)
  /\ q'.processing = q.processing
  /\ q.dirty \subseteq q'.dirty
  /\ q.delayed \subseteq q'.delayed \cup q'.dirty

LEMMA HandlerStep ==
  ASSUME TypeOK, NEW d \in Desires, Deliver(d) \/ Resync(d)
  PROVE  /\ QueueGrows /\ cooling' \subseteq ReadDesireKey
         /\ cache' \in [Desires -> SpecDoc \cup {NoDoc}]
         /\ UNCHANGED <<db, api, manager, running, writes, status, restarts>>
<1>1. /\ q \in QueueType(ReadDesireKey) /\ cooling \subseteq ReadDesireKey
      /\ cache \in [Desires -> SpecDoc \cup {NoDoc}]
      /\ specs \in [Desires -> SpecDoc \cup {NoDoc}]
  BY DEF TypeOK
<1>2. ASSUME NEW k \in ReadDesireKey, q' = QAdd(q, k) PROVE QueueGrows
  BY <1>1, <1>2, QAddOK DEF QueueGrows
<1>3. ASSUME q' = q PROVE QueueGrows
  BY <1>1, <1>3 DEF QueueGrows
<1>4. \A s \in SpecDoc : KeyOf(d, s) \in ReadDesireKey
  BY KeyOfType
<1>5. ASSUME NEW old, NEW s \in SpecDoc, handleUpdate(d, old, s)
      PROVE  QueueGrows /\ cooling' \subseteq ReadDesireKey
  BY <1>1, <1>2, <1>3, <1>4, <1>5 DEF handleUpdate, enqueue
<1>6. ASSUME NEW s \in SpecDoc, enqueue(d, s)
      PROVE  QueueGrows /\ cooling' \subseteq ReadDesireKey
  BY <1>1, <1>2, <1>4, <1>6 DEF enqueue
<1>7. QueueGrows /\ cooling' \subseteq ReadDesireKey
  BY <1>1, <1>5, <1>6 DEF Deliver, Resync, handleDelete
<1>8. cache' \in [Desires -> SpecDoc \cup {NoDoc}]
  BY <1>1 DEF Deliver, Resync
<1> QED BY <1>7, <1>8 DEF Deliver, Resync, db

(* A step of the documents, the objects, the informer or a timer.          *)
Outside ==
  \/ \E d \in Desires : WriteSpec(d) \/ DeleteSpec(d) \/ Deliver(d) \/ Resync(d)
  \/ \E t \in Targets : ChangeObject(t)
  \/ \E k \in ReadDesireKey : CooldownElapses(k) \/ RetryDue(k)

LEMMA OutsideStep ==
  ASSUME Typed, Outside
  PROVE  /\ Typed' /\ QueueGrows
         /\ UNCHANGED <<manager, running, writes, status>>
<1> USE DEF db, intake, api
<1>0. /\ TypeOK /\ q \in QueueType(ReadDesireKey) /\ now \in Nat /\ changes \in Nat
      /\ specs \in [Desires -> SpecDoc \cup {NoDoc}]
      /\ objects \in [Targets -> Content \cup {NoDoc}]
      /\ cooling \subseteq ReadDesireKey
  BY DEF Typed, TypeOK
<1>1. ASSUME NEW d \in Desires, WriteSpec(d)
      PROVE  TypeOK' /\ QueueGrows /\ UNCHANGED <<manager, running, writes, status>>
  <2>1. PICK s \in Scopes, t \in Targets \cup {NoTarget} :
          specs' = [specs EXCEPT ![d] = [rev |-> now + 1, scope |-> s, target |-> t]]
    BY <1>1 DEF WriteSpec
  <2>2. now + 1 \in Nat \ {0}
    BY <1>0
  <2>3. [rev |-> now + 1, scope |-> s, target |-> t] \in SpecDoc
    BY <2>2 DEF SpecDoc
  <2>4. specs' \in [Desires -> SpecDoc \cup {NoDoc}]
    BY <1>0, <2>1, <2>3
  <2>5. now' \in Nat
    BY <1>0, <1>1 DEF WriteSpec
  <2>6. home' \in [Desires -> ReadDesireKey \cup {NoDoc}]
    <3>1. PICK new \in SpecDoc : home' = [home EXCEPT ![d] = KeyOf(d, new)]
      BY <1>1, <2>2 DEF WriteSpec, SpecDoc
    <3> QED BY <3>1, <1>0, KeyOfType DEF TypeOK
  <2> QED BY <1>0, <1>1, <2>4, <2>5, <2>6 DEF WriteSpec, TypeOK, QueueGrows
<1>2. ASSUME NEW d \in Desires, DeleteSpec(d)
      PROVE  TypeOK' /\ QueueGrows /\ UNCHANGED <<manager, running, writes, status>>
  <2>1. home' \in [Desires -> ReadDesireKey \cup {NoDoc}]
    BY <1>0, <1>2 DEF DeleteSpec, TypeOK
  <2> QED BY <1>0, <1>2, <2>1 DEF DeleteSpec, TypeOK, QueueGrows
<1>3. ASSUME NEW d \in Desires, Deliver(d) \/ Resync(d)
      PROVE  TypeOK' /\ QueueGrows /\ UNCHANGED <<manager, running, writes, status>>
  BY <1>0, <1>3, HandlerStep DEF TypeOK, QueueGrows
<1>4. ASSUME NEW t \in Targets, ChangeObject(t)
      PROVE  TypeOK' /\ QueueGrows /\ UNCHANGED <<manager, running, writes, status>>
  <2>1. changes + 2 \in Nat \ {0} /\ changes' \in Nat
    BY <1>0, <1>4 DEF ChangeObject
  <2>2. Version(t, changes + 2) \in Content
    BY <2>1, VersionType
  <2>3. objects' \in [Targets -> Content \cup {NoDoc}]
    BY <1>0, <1>4, <2>2 DEF ChangeObject
  <2> QED BY <1>0, <1>4, <2>1, <2>3 DEF ChangeObject, TypeOK, QueueGrows
<1>5. ASSUME NEW k \in ReadDesireKey, CooldownElapses(k) \/ RetryDue(k)
      PROVE  TypeOK' /\ QueueGrows /\ UNCHANGED <<manager, running, writes, status>>
  <2>1. CASE CooldownElapses(k)
    BY <1>0, <2>1 DEF CooldownElapses, TypeOK, QueueGrows
  <2>2. CASE RetryDue(k)
    <3>1. QueueGrows
      BY <1>0, <2>2, QBackoffElapsedOK DEF RetryDue, QueueGrows
    <3> QED BY <1>0, <2>2, <3>1 DEF RetryDue, TypeOK, QueueGrows
  <2> QED BY <1>5, <2>1, <2>2
<1>6. TypeOK' /\ QueueGrows /\ UNCHANGED <<manager, running, writes, status>>
  BY <1>1, <1>2, <1>3, <1>4, <1>5 DEF Outside
<1> QED BY <1>6, TypedElsewhere DEF QueueGrows

-----------------------------------------------------------------------------
(* The manager.                                                            *)

(* What processNext does when SyncOnce has returned.                       *)
LEMMA FinishedStep ==
  ASSUME Typed, manager.pc # "idle", NEW r \in {"nil", "err"}, Finished(r)
  PROVE  /\ manager' \in Manager /\ manager'.pc = "idle"
         /\ q' \in QueueType(ReadDesireKey)
         /\ q'.dirty = q.dirty /\ q.delayed \subseteq q'.delayed
         /\ r = "err" => manager.key \in q'.delayed
<1> DEFINE k == manager.key
           p == IF r = "err" THEN QAddRateLimited(q, k) ELSE QForget(q, k)
<1>1. q \in QueueType(ReadDesireKey) /\ k \in ReadDesireKey
  BY DEF Typed, TypeOK, ManagerOK
<1>2. /\ p \in QueueType(ReadDesireKey) /\ p.dirty = q.dirty
      /\ q.delayed \subseteq p.delayed /\ (r = "err" => k \in p.delayed)
  BY <1>1, QAddRateLimitedOK DEF QForget
<1>3. q' = QDone(p, k) /\ manager' = IdleManager
  BY DEF Finished
<1> HIDE DEF p
<1> QED BY <1>1, <1>2, <1>3, QDoneOK, IdleManagerType

(* The instance of a key is replaced or stopped, and its write abandoned.  *)
LEMMA RunStep ==
  ASSUME Typed, NEW k \in ReadDesireKey, NEW i \in Instance \cup {NoDoc}, Run(k, i)
  PROVE  /\ running' \in [ReadDesireKey -> Instance \cup {NoDoc}]
         /\ running'[k] = i /\ \A j \in ReadDesireKey \ {k} : running'[j] = running[j]
         /\ writes' \subseteq PendingWrite
         /\ \A v \in writes' :
              \/ v \in writes /\ (v.by = "instance" => v.key # k)
              \/ v.by = "stopped" /\ \E wr \in writes :
                   v.key = wr.key /\ v.existing = wr.existing /\ v.fresh = wr.fresh
<1> DEFINE S == PendingBy("instance", k)
<1>1. /\ running \in [ReadDesireKey -> Instance \cup {NoDoc}] /\ writes \subseteq PendingWrite
      /\ S \in SUBSET writes
  BY DEF Typed, TypeOK, PendingBy
<1>2. running' = [running EXCEPT ![k] = i] /\ writes' = Abandoned(S)
  BY DEF Run
<1>3. \A v \in writes : v \notin S => (v.by = "instance" => v.key # k)
  BY DEF PendingBy
<1> HIDE DEF S
<1>4. /\ writes' \subseteq PendingWrite
      /\ \A v \in writes' :
           \/ v \in writes /\ v \notin S
           \/ v.by = "stopped" /\ \E wr \in S :
                v.key = wr.key /\ v.existing = wr.existing /\ v.fresh = wr.fresh
  BY <1>1, <1>2, AbandonedType
<1> QED BY <1>1, <1>2, <1>3, <1>4

(* What is left of Sent and FreshReads when an instance has been replaced. *)
LEMMA RunSent ==
  ASSUME Typed, NEW k \in ReadDesireKey, NEW i \in Instance \cup {NoDoc}, Run(k, i),
         UNCHANGED status, manager.pc = "fetch"
  PROVE  Sent' /\ FreshReads'
<1> DEFINE Abandons(v) ==
             v.by = "stopped" /\ \E wr \in writes :
               v.key = wr.key /\ v.existing = wr.existing /\ v.fresh = wr.fresh
<1>1. /\ writes \subseteq PendingWrite
      /\ running'[k] = i /\ \A j \in ReadDesireKey \ {k} : running'[j] = running[j]
      /\ writes' \subseteq PendingWrite
      /\ \A v \in writes' : (v \in writes /\ (v.by = "instance" => v.key # k)) \/ Abandons(v)
  BY RunStep DEF Typed, TypeOK
<1>2. \A v \in writes' : v.by # "stopped" => v \in writes /\ (v.by = "instance" => v.key # k)
  BY <1>1
<1>3. \A v \in writes' : (v.existing # NoDoc /\ v.fresh) => v.existing = status[v.key.name]
  BY <1>1 DEF Typed, FreshReads
<1>4. \A v \in writes' : v.by # "manager"
  BY <1>2 DEF Typed, Sent
<1>5. \A v \in writes' :
        v.by = "instance" => running'[v.key] # NoDoc /\ running'[v.key].pc = "write"
  BY <1>1, <1>2 DEF Typed, Sent, PendingWrite
<1>6. \A v, wr \in writes' : (v.by = wr.by /\ v.by # "stopped" /\ v.key = wr.key) => v = wr
  BY <1>2 DEF Typed, Sent
<1> QED BY <1>3, <1>4, <1>5, <1>6 DEF Sent, FreshReads

(* One more write on its way, over the status its sender has just read.    *)
LEMMA SendStep ==
  ASSUME Typed, NEW by \in {"manager", "instance"}, NEW k \in ReadDesireKey,
         NEW new \in StatusDoc, Send(by, k, new)
  PROVE  /\ writes' \subseteq PendingWrite
         /\ \E wr \in PendingWrite :
              /\ writes' = writes \cup {wr} /\ wr.by = by /\ wr.key = k
              /\ wr.existing = status[k.name]
<1> DEFINE wr == [by |-> by, key |-> k, new |-> new, existing |-> status[k.name],
                  fresh |-> TRUE]
<1>1. status[k.name] \in StatusDoc \cup {NoDoc} /\ writes \subseteq PendingWrite
  BY DEF Typed, TypeOK, ReadDesireKey
<1>2. wr \in PendingWrite /\ wr.by = by /\ wr.key = k /\ wr.existing = status[k.name]
  BY <1>1 DEF PendingWrite
<1>3. writes' = writes \cup {wr}
  BY DEF Send
<1> HIDE DEF wr
<1> QED BY <1>1, <1>2, <1>3

LEMMA RefusalType ==
  ASSUME Typed, manager.pc = "read"
  PROVE  Refusal \in StatusDoc
<1>1. manager.key \in ReadDesireKey /\ manager.desire \in SpecDoc
      /\ status \in [Desires -> StatusDoc \cup {NoDoc}]
  BY DEF Typed, TypeOK, ManagerOK
<1>2. manager.key.name \in Desires /\ manager.desire.rev \in Nat
  BY <1>1 DEF ReadDesireKey, SpecDoc
<1> QED BY <1>1, <1>2 DEF Refusal, StatusDoc

(* A step of the manager's worker before its write.                        *)
ManagerStep == (\E k \in ReadDesireKey : Get(k)) \/ ManagerSync

LEMMA ManagerTyped ==
  ASSUME Typed, ManagerStep
  PROVE  Typed'
<1> USE DEF db, intake, api, ManagerAt
<1>0. /\ TypeOK /\ ManagerOK /\ Sent /\ FreshReads
      /\ manager \in Manager /\ q \in QueueType(ReadDesireKey)
      /\ specs \in [Desires -> SpecDoc \cup {NoDoc}]
      /\ manager.pc # "idle" => manager.key \in ReadDesireKey /\ manager.key.name \in Desires
  BY DEF Typed, TypeOK, ManagerOK, ReadDesireKey
<1>1. ASSUME NEW k \in ReadDesireKey, Get(k) PROVE Typed'
  <2> DEFINE m == [manager EXCEPT !.pc = "fetch", !.key = k]
  <2>1. m \in Manager /\ m.pc = "fetch" /\ m.key = k
    BY <1>0 DEF Manager
  <2>2. manager' = m /\ manager.pc = "idle" /\ k \in q.queue /\ q' = QGet(q, k)
        /\ UNCHANGED <<specs, now, home, cache, cooling, objects, changes, running, writes, status,
                       restarts>>
    BY <1>1 DEF Get
  <2> HIDE DEF m
  <2>3. q' \in QueueType(ReadDesireKey) /\ k \in q'.processing
    BY <1>0, <2>2, QGetOK
  <2>4. TypeOK'
    BY <1>0, <2>1, <2>2, <2>3 DEF TypeOK
  <2>5. ManagerOK'
    BY <2>1, <2>2, <2>3 DEF ManagerOK
  <2>6. Sent' /\ FreshReads'
    BY <1>0, <2>2 DEF Sent, FreshReads
  <2> QED BY <2>4, <2>5, <2>6 DEF Typed
<1>2. CASE FetchSpecFails \/ KeepRunning \/ ManagerReadFails
  <2>1. /\ manager.pc \in {"fetch", "read"} /\ \E r \in {"nil", "err"} : Finished(r)
        /\ UNCHANGED <<specs, now, home, cache, cooling, objects, changes, running, writes, status,
                       restarts>>
    BY <1>2 DEF FetchSpecFails, KeepRunning, ManagerReadFails
  <2>2. manager' \in Manager /\ manager'.pc = "idle" /\ q' \in QueueType(ReadDesireKey)
    BY <2>1, FinishedStep
  <2> QED BY <1>0, <2>1, <2>2 DEF Typed, TypeOK, ManagerOK, Sent, FreshReads
<1>3. CASE StopDeleted \/ Start
  <2>1. PICK i \in Instance \cup {NoDoc} : Run(manager.key, i)
    BY <1>0, <1>3, NewInstanceType DEF StopDeleted, Start, Fetched
  <2>2. /\ manager.pc = "fetch" /\ Finished("nil")
        /\ UNCHANGED <<specs, now, home, cache, cooling, objects, changes, status, restarts>>
    BY <1>3 DEF StopDeleted, Start
  <2>3. /\ running' \in [ReadDesireKey -> Instance \cup {NoDoc}]
        /\ writes' \subseteq PendingWrite
    BY <1>0, <2>1, <2>2, RunStep
  <2>4. Sent' /\ FreshReads'
    BY <1>0, <2>1, <2>2, RunSent
  <2>5. manager' \in Manager /\ manager'.pc = "idle" /\ q' \in QueueType(ReadDesireKey)
    BY <2>2, FinishedStep
  <2> QED BY <1>0, <2>2, <2>3, <2>4, <2>5 DEF Typed, TypeOK, ManagerOK
<1>4. CASE RefuseTarget
  <2> DEFINE m == [manager EXCEPT !.pc = "read", !.desire = Fetched]
  <2>1. /\ manager.pc = "fetch" /\ Fetched # NoDoc /\ Run(manager.key, NoDoc) /\ manager' = m
        /\ UNCHANGED <<specs, now, home, cache, q, cooling, objects, changes, status, restarts>>
    BY <1>4 DEF RefuseTarget
  <2>2. Fetched \in SpecDoc
    BY <1>0, <2>1 DEF Fetched
  <2>3. m \in Manager /\ m.pc = "read" /\ m.key = manager.key /\ m.desire = Fetched
    BY <1>0, <2>2 DEF Manager
  <2> HIDE DEF m
  <2>4. /\ running' \in [ReadDesireKey -> Instance \cup {NoDoc}]
        /\ writes' \subseteq PendingWrite
    BY <1>0, <2>1, RunStep
  <2>5. Sent' /\ FreshReads'
    BY <1>0, <2>1, RunSent
  <2>6. ManagerOK'
    BY <1>0, <2>1, <2>2, <2>3 DEF ManagerOK
  <2> QED BY <1>0, <2>1, <2>3, <2>4, <2>5, <2>6 DEF Typed, TypeOK
<1>5. CASE ManagerReadStatus
  <2>1. CASE Finished("nil") /\ UNCHANGED writes
    <3>1. manager.pc = "read"
          /\ UNCHANGED <<specs, now, home, cache, cooling, objects, changes, running, status, restarts>>
      BY <1>5 DEF ManagerReadStatus
    <3>2. manager' \in Manager /\ manager'.pc = "idle" /\ q' \in QueueType(ReadDesireKey)
      BY <2>1, <3>1, FinishedStep
    <3> QED BY <1>0, <2>1, <3>1, <3>2 DEF Typed, TypeOK, ManagerOK, Sent, FreshReads
  <2> DEFINE m == [manager EXCEPT !.pc = "write"]
  <2>2. CASE Send("manager", manager.key, Refusal) /\ manager' = m /\ UNCHANGED q
    <3>1. manager.pc = "read"
          /\ UNCHANGED <<specs, now, home, cache, q, cooling, objects, changes, running, status, restarts>>
      BY <1>5, <2>2 DEF ManagerReadStatus
    <3>2. m \in Manager /\ m.pc = "write" /\ m.key = manager.key /\ m.desire = manager.desire
      BY <1>0 DEF Manager
    <3>3. manager' = m
      BY <2>2
    <3> HIDE DEF m
    <3>4. writes' \subseteq PendingWrite
          /\ \E wr \in PendingWrite :
              /\ writes' = writes \cup {wr} /\ wr.by = "manager" /\ wr.key = manager.key
              /\ wr.existing = status[manager.key.name]
      BY <1>0, <2>2, <3>1, RefusalType, SendStep
    <3>5. PICK wr \in PendingWrite :
              /\ writes' = writes \cup {wr} /\ wr.by = "manager" /\ wr.key = manager.key
              /\ wr.existing = status[manager.key.name]
      BY <3>4
    <3>6. \A v \in writes : v.by # "manager"
      BY <1>0, <3>1 DEF Sent
    <3>7. Sent'
      BY <1>0, <3>1, <3>2, <3>3, <3>5, <3>6 DEF Sent
    <3>8. FreshReads'
      BY <1>0, <3>1, <3>5 DEF FreshReads
    <3>9. ManagerOK'
      BY <1>0, <3>1, <3>2, <3>3 DEF ManagerOK
    <3> QED BY <1>0, <3>1, <3>2, <3>3, <3>4, <3>7, <3>8, <3>9 DEF Typed, TypeOK
  <2> QED BY <1>5, <2>1, <2>2 DEF ManagerReadStatus
<1> QED BY <1>1, <1>2, <1>3, <1>4, <1>5 DEF ManagerStep, ManagerSync

-----------------------------------------------------------------------------
(* The instances.                                                          *)

InstanceActs(k) == Sync(k) \/ Observe(k) \/ Tick(k) \/ InstanceSync(k)

(* An instance's step leaves its key and target, and changes no other one. *)
Steps(k) ==
  /\ Running(k) /\ running' \in [ReadDesireKey -> Instance \cup {NoDoc}]
  /\ running'[k] \in Instance /\ running'[k].target = running[k].target
  /\ \A j \in ReadDesireKey \ {k} : running'[j] = running[j]

LEMMA UpdateStep ==
  ASSUME Typed, NEW k \in ReadDesireKey, Running(k), NEW i \in Instance,
         i.target = running[k].target, Update(k, i)
  PROVE  Steps(k) /\ running'[k] = i
BY DEF Typed, TypeOK, Update, Steps

LEMMA ReturnedType ==
  ASSUME NEW k, running[k] \in Instance
  PROVE  /\ Returned(k) \in Instance /\ Returned(k).pc = "idle"
         /\ Returned(k).target = running[k].target /\ Returned(k).dirty = running[k].dirty
BY DEF Returned, Instance

(* Without a write, nobody waits who did not wait before.                  *)
LEMMA InstanceMoves ==
  ASSUME Typed, NEW k \in ReadDesireKey, NEW i \in Instance, Running(k),
         i.target = running[k].target, Update(k, i), InstanceStep, UNCHANGED writes,
         running[k].pc = "write" => i.pc = "write"
  PROVE  Typed' /\ Steps(k)
<1>1. Steps(k) /\ running'[k] = i
  BY UpdateStep
<1>2. UNCHANGED <<specs, now, home, cache, q, cooling, objects, changes, manager, status, restarts,
                  writes>>
  BY DEF InstanceStep, db, intake, api
<1>3. TypeOK'
  BY <1>1, <1>2 DEF Typed, TypeOK, Steps
<1>4. i # NoDoc
  BY NoDocAssumption
<1>5. \A wr \in writes : wr.key \in ReadDesireKey
  BY DEF Typed, TypeOK, PendingWrite
<1>6. Sent'
  BY <1>1, <1>2, <1>4, <1>5 DEF Typed, Sent, Steps
<1>7. ManagerOK' /\ FreshReads'
  BY <1>2 DEF Typed, ManagerOK, FreshReads
<1> QED BY <1>1, <1>3, <1>6, <1>7 DEF Typed

LEMMA InstanceTyped ==
  ASSUME Typed, NEW k \in ReadDesireKey, InstanceActs(k)
  PROVE  Typed' /\ Steps(k)
<1>0. /\ Running(k) /\ running[k] \in Instance /\ k.name \in Desires
      /\ status[k.name] \in StatusDoc \cup {NoDoc} /\ InstanceStep
  BY DEF InstanceActs, Sync, Observe, Tick, InstanceSync, InstanceFetch, InstanceReadStatus,
         InstanceFails, At, Running, Typed, TypeOK, ReadDesireKey
<1>1. running[k].target \in Targets
  BY <1>0 DEF Instance
<1>2. objects[running[k].target] \in Content \cup {NoDoc}
  BY <1>1 DEF Typed, TypeOK
<1>3. CASE Sync(k)
  <2> DEFINE i == [running[k] EXCEPT !.synced = TRUE, !.dirty = TRUE,
                                     !.store = objects[running[k].target]]
  <2>1. i \in Instance /\ i.target = running[k].target /\ i.pc = running[k].pc
    BY <1>0, <1>2 DEF Instance
  <2>2. Update(k, i) /\ UNCHANGED writes
    BY <1>3 DEF Sync
  <2> HIDE DEF i
  <2> QED BY <1>0, <2>1, <2>2, InstanceMoves
<1>4. CASE Observe(k)
  <2> DEFINE i == [running[k] EXCEPT !.store = objects[running[k].target], !.dirty = TRUE]
  <2>1. i \in Instance /\ i.target = running[k].target /\ i.pc = running[k].pc
    BY <1>0, <1>2 DEF Instance
  <2>2. Update(k, i) /\ UNCHANGED writes
    BY <1>4 DEF Observe
  <2> HIDE DEF i
  <2> QED BY <1>0, <2>1, <2>2, InstanceMoves
<1>5. CASE Tick(k)
  <2> DEFINE i == [running[k] EXCEPT !.dirty = TRUE]
  <2>1. i \in Instance /\ i.target = running[k].target /\ i.pc = running[k].pc
    BY <1>0 DEF Instance
  <2>2. Update(k, i) /\ UNCHANGED writes
    BY <1>5 DEF Tick
  <2> HIDE DEF i
  <2> QED BY <1>0, <2>1, <2>2, InstanceMoves
<1>6. CASE InstanceFetch(k)
  <2> DEFINE b == Keep(running[k].store, ContentOf(k.name))
             i == [running[k] EXCEPT !.pc = "read", !.dirty = FALSE, !.seen = running[k].store,
                                     !.keep = b]
  <2>1. b \in BOOLEAN
    BY DEF Keep
  <2>2. Update(k, i) /\ UNCHANGED writes /\ running[k].pc = "idle"
    BY <1>6 DEF InstanceFetch, At
  <2> HIDE DEF b
  <2>3. i \in Instance /\ i.target = running[k].target
    BY <1>0, <2>1 DEF Instance
  <2> HIDE DEF i
  <2> QED BY <1>0, <2>2, <2>3, InstanceMoves
<1>7. CASE InstanceFails(k)
  <2> DEFINE r == Returned(k)
             b == r.dirty /\ At(k, "read")
             i == [r EXCEPT !.dirty = b]
  <2>1. b \in BOOLEAN
    OBVIOUS
  <2>2. Update(k, i) /\ UNCHANGED writes /\ running[k].pc # "write"
    BY <1>7 DEF InstanceFails, At
  <2>3. r \in Instance /\ r.target = running[k].target
    BY <1>0, ReturnedType
  <2> HIDE DEF b, r
  <2>4. i \in Instance /\ i.target = running[k].target
    BY <2>1, <2>3 DEF Instance
  <2> HIDE DEF i
  <2> QED BY <1>0, <2>2, <2>4, InstanceMoves
<1>8. CASE InstanceReadStatus(k)
  <2>1. CASE Update(k, Returned(k)) /\ UNCHANGED writes
    <3>1. running[k].pc = "read"
      BY <1>8 DEF InstanceReadStatus, At
    <3> QED BY <1>0, <2>1, <3>1, ReturnedType, InstanceMoves
  <2> DEFINE i == [running[k] EXCEPT !.pc = "write"]
  <2>2. CASE Update(k, i) /\ Send("instance", k, NewStatus(k))
    <3>1. running[k].pc = "read"
      BY <1>8 DEF InstanceReadStatus, At
    <3>2. i \in Instance /\ i.target = running[k].target /\ i.pc = "write"
      BY <1>0 DEF Instance
    <3>3. Update(k, i)
      BY <2>2
    <3> HIDE DEF i
    <3>4. Steps(k) /\ running'[k] = i
      BY <1>0, <3>2, <3>3, UpdateStep
    <3>5. NewStatus(k) \in StatusDoc
      <4>1. running[k].rev \in Nat /\ running[k].seen \in Content \cup {NoDoc}
        BY <1>0 DEF Instance
      <4>2. ContentOf(k.name) \in Content \cup {NoDoc}
        BY <1>0 DEF ContentOf, StatusDoc
      <4> QED BY <4>1, <4>2 DEF NewStatus, StatusDoc
    <3>6. /\ writes' \subseteq PendingWrite
          /\ \E wr \in PendingWrite :
               /\ writes' = writes \cup {wr} /\ wr.by = "instance" /\ wr.key = k
               /\ wr.existing = status[k.name]
      BY <2>2, <3>5, SendStep
    <3>7. PICK wr \in PendingWrite :
               /\ writes' = writes \cup {wr} /\ wr.by = "instance" /\ wr.key = k
               /\ wr.existing = status[k.name]
      BY <3>6
    <3>8. UNCHANGED <<specs, now, home, cache, q, cooling, objects, changes, manager, status, restarts>>
      BY <1>0 DEF InstanceStep, db, intake, api
    <3>9. \A v \in writes : v.key \in ReadDesireKey /\ (v.by = "instance" => v.key # k)
      BY <3>1 DEF Typed, TypeOK, Sent, PendingWrite
    <3>10. i # NoDoc
      BY <3>2, NoDocAssumption
    <3>11. Sent'
      <4>1. \A v \in writes' : v.by = "manager" => manager'.pc = "write" /\ v.key = manager'.key
        BY <3>7, <3>8 DEF Typed, Sent
      <4>2. \A v \in writes' :
              v.by = "instance" => running'[v.key] # NoDoc /\ running'[v.key].pc = "write"
        BY <3>2, <3>4, <3>7, <3>9, <3>10 DEF Typed, Sent, Steps
      <4>3. \A u, v \in writes' :
              (u.by = v.by /\ u.by # "stopped" /\ u.key = v.key) => u = v
        BY <3>7, <3>9 DEF Typed, Sent
      <4> QED BY <4>1, <4>2, <4>3 DEF Sent
    <3>12. FreshReads'
      BY <3>7, <3>8 DEF Typed, FreshReads
    <3>13. TypeOK' /\ ManagerOK'
      BY <3>4, <3>6, <3>8 DEF Typed, TypeOK, ManagerOK, Steps
    <3> QED BY <3>4, <3>11, <3>12, <3>13 DEF Typed
  <2> QED BY <1>8, <2>1, <2>2 DEF InstanceReadStatus
<1> QED BY <1>3, <1>4, <1>5, <1>6, <1>7, <1>8 DEF InstanceActs, InstanceSync

-----------------------------------------------------------------------------
(* The status database's answers.                                          *)

Answered(wr) == WriteLands(wr) \/ WriteRefused(wr) \/ WriteFails(wr)

(* The writes that are left: those that were there, perhaps stale.         *)
LEMMA AnsweredWrites ==
  ASSUME Typed, NEW wr \in writes, Answered(wr)
  PROVE  /\ writes' \subseteq PendingWrite
         /\ \A v \in writes' : \E u \in writes \ {wr} :
              /\ v = u \/ v = Staled(u, wr.key.name)
              /\ v.by = u.by /\ v.key = u.key /\ v.existing = u.existing
              /\ v.fresh => v = u /\ status'[v.key.name] = status[v.key.name]
         /\ \A u, v \in writes' : (u.by = v.by /\ u.by # "stopped" /\ u.key = v.key) => u = v
<1>0. /\ writes \subseteq PendingWrite /\ wr \in PendingWrite
      /\ status \in [Desires -> StatusDoc \cup {NoDoc}]
      /\ \A u, v \in writes : (u.by = v.by /\ u.by # "stopped" /\ u.key = v.key) => u = v
  BY DEF Typed, TypeOK, Sent
<1>1. CASE WriteLands(wr)
  <2>1. /\ writes' = {Staled(v, wr.key.name) : v \in writes \ {wr}}
        /\ status' = [status EXCEPT ![wr.key.name] = Persisted(wr.new)]
    BY <1>1 DEF WriteLands, Staled
  <2>2. \A u \in writes :
          /\ Staled(u, wr.key.name) \in PendingWrite
          /\ Staled(u, wr.key.name).by = u.by /\ Staled(u, wr.key.name).key = u.key
          /\ Staled(u, wr.key.name).existing = u.existing
          /\ Staled(u, wr.key.name).fresh =>
               u.key.name # wr.key.name /\ Staled(u, wr.key.name) = u
    BY <1>0, StaledType
  <2>3. \A u \in writes : u.key.name # wr.key.name => status'[u.key.name] = status[u.key.name]
    BY <1>0, <2>1 DEF PendingWrite, ReadDesireKey
  <2>4. ASSUME NEW x \in writes', NEW y \in writes', x.by = y.by, x.by # "stopped", x.key = y.key
        PROVE  x = y
    <3>1. PICK u \in writes : x = Staled(u, wr.key.name)
      BY <2>1
    <3>2. PICK v \in writes : y = Staled(v, wr.key.name)
      BY <2>1
    <3>3. u = v
      BY <1>0, <2>2, <2>4, <3>1, <3>2
    <3> QED BY <3>1, <3>2, <3>3
  <2>5. ASSUME NEW v \in writes'
        PROVE  \E u \in writes \ {wr} :
                 /\ v = u \/ v = Staled(u, wr.key.name)
                 /\ v.by = u.by /\ v.key = u.key /\ v.existing = u.existing
                 /\ v.fresh => v = u /\ status'[v.key.name] = status[v.key.name]
    <3>1. PICK u \in writes \ {wr} : v = Staled(u, wr.key.name)
      BY <2>1
    <3> QED BY <2>2, <2>3, <3>1
  <2>6. writes' \subseteq PendingWrite
    BY <2>1, <2>2
  <2> QED BY <2>4, <2>5, <2>6
<1>2. CASE WriteRefused(wr) \/ WriteFails(wr)
  <2>1. writes' = writes \ {wr} /\ status' = status
    BY <1>2 DEF WriteRefused, WriteFails
  <2> QED BY <1>0, <2>1
<1> QED BY <1>1, <1>2 DEF Answered

(* What the answer does to whoever sent the write.                         *)
LEMMA AnswerStep ==
  ASSUME Typed, NEW wr \in writes, NEW r \in {"nil", "err"}, Answer(wr, r)
  PROVE  /\ manager' \in Manager /\ manager'.pc \in {"idle", manager.pc}
         /\ manager'.pc # "idle" => manager' = manager /\ UNCHANGED q /\ wr.by # "manager"
         /\ q' \in QueueType(ReadDesireKey)
         /\ q'.dirty = q.dirty /\ q.delayed \subseteq q'.delayed
         /\ running' \in [ReadDesireKey -> Instance \cup {NoDoc}]
         /\ UNCHANGED running \/ (wr.by = "instance" /\ Steps(wr.key))
         /\ wr.by = "manager" => UNCHANGED running
         /\ wr.by # "manager" => UNCHANGED <<manager, q>>
<1>0. /\ manager \in Manager /\ q \in QueueType(ReadDesireKey) /\ wr \in PendingWrite
      /\ running \in [ReadDesireKey -> Instance \cup {NoDoc}]
  BY DEF Typed, TypeOK
<1>1. CASE wr.by = "manager" /\ Finished(r) /\ UNCHANGED running
  <2>1. manager.pc = "write"
    BY <1>1 DEF Typed, Sent
  <2> QED BY <1>0, <1>1, <2>1, FinishedStep
<1>2. CASE wr.by = "instance" /\ Update(wr.key, Returned(wr.key)) /\ UNCHANGED <<q, manager>>
  <2>1. Running(wr.key) /\ wr.key \in ReadDesireKey /\ running[wr.key] \in Instance
    BY <1>0, <1>2 DEF Typed, Sent, Running, PendingWrite
  <2>2. Steps(wr.key)
    BY <1>2, <2>1, ReturnedType, UpdateStep
  <2> QED BY <1>0, <1>2, <2>2 DEF Steps, Manager
<1>3. CASE wr.by = "stopped" /\ UNCHANGED <<q, manager, running>>
  BY <1>0, <1>3 DEF Manager
<1> QED BY <1>1, <1>2, <1>3 DEF Answer

LEMMA AnsweredBy ==
  ASSUME NEW wr, Answered(wr)
  PROVE  /\ \E r \in {"nil", "err"} : Answer(wr, r)
         /\ UNCHANGED <<specs, now, home, cache, cooling, objects, changes, restarts>>
BY DEF Answered, WriteLands, WriteRefused, WriteFails, db, api

LEMMA AnsweredTyped ==
  ASSUME Typed, NEW wr \in writes, Answered(wr)
  PROVE  Typed'
<1>0. /\ TypeOK /\ ManagerOK /\ Sent /\ FreshReads /\ wr \in PendingWrite
      /\ status \in [Desires -> StatusDoc \cup {NoDoc}]
      /\ UNCHANGED <<specs, now, home, cache, cooling, objects, changes, restarts>>
  BY AnsweredBy DEF Typed, TypeOK
<1>1. PICK r \in {"nil", "err"} : Answer(wr, r)
  BY AnsweredBy
<1>2. /\ manager' \in Manager
      /\ manager'.pc # "idle" => manager' = manager /\ UNCHANGED q /\ wr.by # "manager"
      /\ q' \in QueueType(ReadDesireKey)
      /\ running' \in [ReadDesireKey -> Instance \cup {NoDoc}]
      /\ UNCHANGED running \/ (wr.by = "instance" /\ Steps(wr.key))
      /\ wr.by = "manager" => UNCHANGED running
      /\ wr.by # "manager" => UNCHANGED <<manager, q>>
  BY <1>1, AnswerStep
<1>3. /\ writes' \subseteq PendingWrite
      /\ \A v \in writes' : \E u \in writes \ {wr} :
           /\ v.by = u.by /\ v.key = u.key /\ v.existing = u.existing
           /\ v.fresh => v = u /\ status'[v.key.name] = status[v.key.name]
      /\ \A u, v \in writes' : (u.by = v.by /\ u.by # "stopped" /\ u.key = v.key) => u = v
  BY AnsweredWrites
<1>4. status' \in [Desires -> StatusDoc \cup {NoDoc}]
  <2>1. Persisted(wr.new) \in StatusDoc
    BY <1>0, PersistedType DEF PendingWrite
  <2> QED BY <1>0, <2>1 DEF Answered, WriteLands, WriteRefused, WriteFails
<1>5. TypeOK'
  BY <1>0, <1>2, <1>3, <1>4 DEF TypeOK
<1>6. ManagerOK'
  BY <1>0, <1>2 DEF ManagerOK
<1>7. \A v \in writes' : v.by = "manager" => manager'.pc = "write" /\ v.key = manager'.key
  <2> SUFFICES ASSUME NEW v \in writes', v.by = "manager"
               PROVE  manager'.pc = "write" /\ v.key = manager'.key
    OBVIOUS
  <2>1. PICK u \in writes \ {wr} : v.by = u.by /\ v.key = u.key
    BY <1>3
  <2>2. manager.pc = "write" /\ v.key = manager.key
    BY <1>0, <2>1 DEF Sent
  <2>3. wr.by # "manager"
    BY <1>0, <2>1 DEF Sent
  <2> QED BY <1>2, <2>2, <2>3
<1>8. \A v \in writes' :
        v.by = "instance" => running'[v.key] # NoDoc /\ running'[v.key].pc = "write"
  <2> SUFFICES ASSUME NEW v \in writes', v.by = "instance"
               PROVE  running'[v.key] # NoDoc /\ running'[v.key].pc = "write"
    OBVIOUS
  <2>1. PICK u \in writes \ {wr} : v.by = u.by /\ v.key = u.key
    BY <1>3
  <2>2. running[v.key] # NoDoc /\ running[v.key].pc = "write" /\ v.key \in ReadDesireKey
    BY <1>0, <1>3, <2>1 DEF Sent, PendingWrite
  <2>3. wr.by = "instance" => wr.key # v.key
    BY <1>0, <2>1 DEF Sent
  <2> QED BY <1>2, <2>2, <2>3 DEF Steps
<1>9. Sent'
  BY <1>3, <1>7, <1>8 DEF Sent
<1>10. FreshReads'
  <2> SUFFICES ASSUME NEW v \in writes', v.existing # NoDoc, v.fresh
               PROVE  v.existing = status'[v.key.name]
    BY DEF FreshReads
  <2>1. PICK u \in writes \ {wr} : v = u /\ status'[v.key.name] = status[v.key.name]
    BY <1>3
  <2> QED BY <1>0, <2>1 DEF FreshReads
<1> QED BY <1>5, <1>6, <1>9, <1>10 DEF Typed

-----------------------------------------------------------------------------
(* Every step keeps the types.                                             *)

LEMMA RestartTyped ==
  ASSUME Typed, Restart
  PROVE  Typed'
<1>1. /\ UNCHANGED <<specs, now, home, objects, changes, status>>
      /\ cache' = [d \in Desires |-> NoDoc] /\ q' = EmptyQueue /\ cooling' = {}
      /\ manager' = IdleManager /\ running' = [k \in ReadDesireKey |-> NoDoc]
      /\ restarts' = restarts + 1
      /\ writes' = Abandoned(writes)
  BY DEF Restart, db, api
<1>2. /\ writes' \subseteq PendingWrite
      /\ \A v \in writes' :
           v.by = "stopped" /\ \E wr \in writes :
             v.key = wr.key /\ v.existing = wr.existing /\ v.fresh = wr.fresh
  BY <1>1, AbandonedType DEF Typed, TypeOK
<1>3. restarts' \in Nat
  BY <1>1 DEF Typed, TypeOK
<1>4. TypeOK'
  BY <1>1, <1>2, <1>3, IdleManagerType, EmptyQueueOK DEF Typed, TypeOK
<1>5. ManagerOK' /\ Sent'
  BY <1>1, <1>2, IdleManagerType DEF ManagerOK, Sent
<1>6. FreshReads'
  BY <1>1, <1>2 DEF Typed, FreshReads
<1> QED BY <1>4, <1>5, <1>6 DEF Typed

(* The kinds of steps.                                                     *)
LEMMA StepKinds ==
  ASSUME Next
  PROVE  \/ Outside \/ ManagerStep \/ Restart
         \/ \E k \in ReadDesireKey : InstanceActs(k)
         \/ \E wr \in writes : Answered(wr)
BY DEF Next, Outside, ManagerStep, InstanceActs, Answered

LEMMA TypedNext == Typed /\ [Next]_vars => Typed'
<1> SUFFICES ASSUME Typed, [Next]_vars PROVE Typed'
  OBVIOUS
<1>1. CASE UNCHANGED vars
  BY <1>1 DEF vars, db, intake, api, Typed, TypeOK, ManagerOK, Sent, FreshReads
<1>2. CASE Next
  BY <1>2, StepKinds, OutsideStep, ManagerTyped, InstanceTyped, AnsweredTyped, RestartTyped
<1> QED BY <1>1, <1>2

LEMMA TypedInvariant == Spec => []Typed
BY TypedInit, TypedNext, PTL DEF Spec

(* Every variable keeps its type.                                          *)
THEOREM TypeCorrect == Spec => []TypeOK
<1>1. Typed => TypeOK
  BY DEF Typed
<1> QED BY <1>1, TypedInvariant, PTL

(* Who has not written leaves the statuses alone.                          *)
LEMMA StatusStep ==
  ASSUME Typed, Next, status' # status
  PROVE  \E wr \in writes : WriteLands(wr)
<1>1. ASSUME ManagerStep PROVE UNCHANGED status
  BY <1>1 DEF ManagerStep, ManagerSync, Get, FetchSpecFails, StopDeleted, KeepRunning, Start,
     RefuseTarget, ManagerReadStatus, ManagerReadFails
<1>2. ASSUME NEW k \in ReadDesireKey, InstanceActs(k) PROVE UNCHANGED status
  BY <1>2 DEF InstanceActs, InstanceSync, InstanceStep, Sync, Observe, Tick, InstanceFetch,
     InstanceReadStatus, InstanceFails
<1>3. ASSUME NEW wr \in writes, Answered(wr), ~WriteLands(wr) PROVE UNCHANGED status
  BY <1>3 DEF Answered, WriteRefused, WriteFails
<1> QED BY <1>1, <1>2, <1>3, StepKinds, OutsideStep DEF Restart

(* A write replaces only the very status that its sender has read, be the  *)
(* sender the manager, a running instance or one that was stopped.         *)
THEOREM NeverBlind == Spec => NoBlindOverwrite
<1>1. Typed /\ [Next]_vars =>
        [\A d \in Desires : status'[d] # status[d] =>
           \E wr \in writes :
             wr.key.name = d /\ wr.existing = status[d] /\ Persisted(wr.new) = status'[d]]_vars
  <2> SUFFICES ASSUME Typed, [Next]_vars, NEW d \in Desires, status'[d] # status[d]
               PROVE  \E wr \in writes :
                        wr.key.name = d /\ wr.existing = status[d]
                        /\ Persisted(wr.new) = status'[d]
    OBVIOUS
  <2>1. Next /\ status' # status
    BY DEF vars
  <2>2. PICK wr \in writes : WriteLands(wr)
    BY <2>1, StatusStep
  <2>3. /\ status \in [Desires -> StatusDoc \cup {NoDoc}] /\ wr.key.name \in Desires
        /\ status' = [status EXCEPT ![wr.key.name] = Persisted(wr.new)] /\ Accepted(wr)
    BY <2>2 DEF WriteLands, Typed, TypeOK, PendingWrite, ReadDesireKey
  <2>4. wr.key.name = d /\ Persisted(wr.new) = status'[d]
    BY <2>3
  <2>5. wr.existing = status[d]
    BY <2>3, <2>4 DEF Accepted, Typed, FreshReads
  <2> QED BY <2>4, <2>5
<1> QED BY <1>1, TypedInvariant, PTL DEF Spec, NoBlindOverwrite

-----------------------------------------------------------------------------
(* The informer's copy is an earlier commit, or the current one.           *)
Ordered ==
  \A d \in Desires :
    /\ specs[d] # NoDoc => specs[d].rev <= now
    /\ cache[d] # NoDoc => cache[d].rev <= now
    /\ (specs[d] # NoDoc /\ cache[d] # NoDoc /\ cache[d].rev = specs[d].rev) =>
         cache[d] = specs[d]

(* Only these steps touch the documents.                                   *)
LEMMA DocumentStep ==
  ASSUME Typed, [Next]_vars
  PROVE  \/ UNCHANGED <<specs, now, home, cache>>
         \/ \E d \in Desires : WriteSpec(d) \/ DeleteSpec(d) \/ Deliver(d)
         \/ Restart
<1>1. ASSUME ManagerStep PROVE UNCHANGED <<specs, now, home, cache>>
  BY <1>1 DEF ManagerStep, ManagerSync, Get, FetchSpecFails, StopDeleted, KeepRunning, Start,
     RefuseTarget, ManagerReadStatus, ManagerReadFails, db, intake
<1>2. ASSUME NEW k \in ReadDesireKey, InstanceActs(k) PROVE UNCHANGED <<specs, now, home, cache>>
  BY <1>2 DEF InstanceActs, InstanceSync, InstanceStep, Sync, Observe, Tick, InstanceFetch,
     InstanceReadStatus, InstanceFails, db, intake
<1>3. ASSUME NEW wr \in writes, Answered(wr) PROVE UNCHANGED <<specs, now, home, cache>>
  BY <1>3, AnsweredBy
<1>4. CASE Outside
  BY <1>4 DEF Outside, Resync, ChangeObject, CooldownElapses, RetryDue, db, intake
<1>5. CASE UNCHANGED vars
  BY <1>5 DEF vars, db, intake
<1> QED BY <1>1, <1>2, <1>3, <1>4, <1>5, StepKinds

LEMMA OrderedNext == Typed /\ Ordered /\ [Next]_vars => Ordered'
<1> SUFFICES ASSUME Typed, Ordered, [Next]_vars PROVE Ordered'
  OBVIOUS
<1>0. /\ specs \in [Desires -> SpecDoc \cup {NoDoc}] /\ cache \in [Desires -> SpecDoc \cup {NoDoc}]
      /\ now \in Nat /\ \A s \in SpecDoc : s.rev \in Nat
  BY DEF Typed, TypeOK, SpecDoc
<1>1. ASSUME NEW d \in Desires, WriteSpec(d) PROVE Ordered'
  <2>1. PICK s \in Scopes, t \in Targets \cup {NoTarget} :
          specs' = [specs EXCEPT ![d] = [rev |-> now + 1, scope |-> s, target |-> t]]
    BY <1>1 DEF WriteSpec
  <2>2. [rev |-> now + 1, scope |-> s, target |-> t].rev = now + 1
    OBVIOUS
  <2>3. now' = now + 1 /\ UNCHANGED cache
    BY <1>1 DEF WriteSpec, intake
  <2> QED BY <1>0, <2>1, <2>2, <2>3 DEF Ordered
<1>2. ASSUME NEW d \in Desires, DeleteSpec(d) PROVE Ordered'
  BY <1>0, <1>2 DEF DeleteSpec, intake, Ordered
<1>3. ASSUME NEW d \in Desires, Deliver(d) PROVE Ordered'
  BY <1>0, <1>3 DEF Deliver, db, Ordered
<1>4. CASE Restart
  BY <1>0, <1>4 DEF Restart, db, Ordered
<1>5. CASE UNCHANGED <<specs, now, home, cache>>
  BY <1>5 DEF Ordered
<1> QED BY <1>1, <1>2, <1>3, <1>4, <1>5, DocumentStep

-----------------------------------------------------------------------------
(* The key that answers for a document is the one of its last revision,   *)
(* and if that has been deleted, the one the informer will report.         *)
Homes ==
  \A d \in Desires : home[d] # NoDoc =>
    /\ home[d].name = d
    /\ specs[d] # NoDoc => home[d] = KeyOf(d, specs[d])
    /\ (specs[d] = NoDoc /\ cache[d] # NoDoc) => home[d] = KeyOf(d, cache[d])

LEMMA HomesNext == Typed /\ Homes /\ [Next]_vars => Homes'
<1> SUFFICES ASSUME Typed, Homes, [Next]_vars PROVE Homes'
  OBVIOUS
<1>0. /\ specs \in [Desires -> SpecDoc \cup {NoDoc}] /\ cache \in [Desires -> SpecDoc \cup {NoDoc}]
      /\ home \in [Desires -> ReadDesireKey \cup {NoDoc}] /\ now \in Nat
      /\ \A d \in Desires, s \in SpecDoc : KeyOf(d, s).name = d
  BY KeyOfType DEF Typed, TypeOK
<1>1. ASSUME NEW d \in Desires, WriteSpec(d) PROVE Homes'
  <2>1. PICK s \in Scopes, t \in Targets \cup {NoTarget} :
          LET new == [rev |-> now + 1, scope |-> s, target |-> t] IN
            specs' = [specs EXCEPT ![d] = new] /\ home' = [home EXCEPT ![d] = KeyOf(d, new)]
    BY <1>1 DEF WriteSpec
  <2> DEFINE new == [rev |-> now + 1, scope |-> s, target |-> t]
  <2>2. new \in SpecDoc
    BY <1>0 DEF SpecDoc
  <2>3. specs' = [specs EXCEPT ![d] = new] /\ home' = [home EXCEPT ![d] = KeyOf(d, new)]
        /\ UNCHANGED cache
    BY <1>1, <2>1 DEF WriteSpec, intake
  <2> HIDE DEF new
  <2>4. new # NoDoc
    BY <2>2, NoDocAssumption
  <2> QED BY <1>0, <2>2, <2>3, <2>4 DEF Homes
<1>2. ASSUME NEW d \in Desires, DeleteSpec(d) PROVE Homes'
  BY <1>0, <1>2 DEF DeleteSpec, intake, Homes
<1>3. ASSUME NEW d \in Desires, Deliver(d) PROVE Homes'
  BY <1>0, <1>3 DEF Deliver, db, Homes
<1>4. CASE Restart
  BY <1>0, <1>4 DEF Restart, db, Homes
<1>5. CASE UNCHANGED <<specs, now, home, cache>>
  BY <1>5 DEF Homes
<1> QED BY <1>1, <1>2, <1>3, <1>4, <1>5, DocumentStep

-----------------------------------------------------------------------------
(* The manager loses no document: its key is queued, in the worker's hands *)
(* before it has looked, or the instance of the key is what it should be.  *)

InLine(d) ==
  IF Readable(d) THEN Watches(running[home[d]], specs[d].target) ELSE running[home[d]] = NoDoc

Tended(d) ==
  \/ home[d] \in q.dirty \cup q.delayed
  \/ manager.pc = "fetch" /\ manager.key = home[d]
  \/ InLine(d)

Remembered == \A d \in Desires : (home[d] # NoDoc /\ cache[d] = specs[d]) => Tended(d)

(* The manager's steps, seen from a document of which it has the revision. *)
LEMMA ManagerTends ==
  ASSUME Typed, ManagerStep, UNCHANGED <<specs, home>>, NEW d \in Desires,
         home[d] # NoDoc, home[d].name = d, Tended(d)
  PROVE  Tended(d)'
<1> DEFINE k == home[d]
<1> USE DEF ManagerAt
<1>0. /\ specs[d] \in SpecDoc \cup {NoDoc} /\ k \in ReadDesireKey /\ k.name = d
      /\ q \in QueueType(ReadDesireKey) /\ manager \in Manager
      /\ running \in [ReadDesireKey -> Instance \cup {NoDoc}]
      /\ manager.pc # "idle" => manager.key \in ReadDesireKey
  BY KeyOfType DEF Typed, TypeOK, ManagerOK
<1>1. /\ Tended(d)' <=> \/ k \in q'.dirty \cup q'.delayed
                        \/ manager'.pc = "fetch" /\ manager'.key = k
                        \/ InLine(d)'
      /\ Tended(d) <=> \/ k \in q.dirty \cup q.delayed
                       \/ manager.pc = "fetch" /\ manager.key = k
                       \/ InLine(d)
  BY DEF Tended
<1>2. running'[k] = running[k] => (InLine(d) => InLine(d)')
  BY DEF InLine, Readable
<1> HIDE DEF k
<1>3. ASSUME NEW j \in ReadDesireKey, Get(j) PROVE Tended(d)'
  <2> DEFINE m == [manager EXCEPT !.pc = "fetch", !.key = j]
  <2>1. m.pc = "fetch" /\ m.key = j
    BY <1>0 DEF Manager
  <2>2. manager.pc = "idle" /\ manager' = m /\ UNCHANGED running /\ j \in q.queue
        /\ q' = QGet(q, j)
    BY <1>3 DEF Get
  <2> HIDE DEF m
  <2>3. q'.dirty = q.dirty \ {j} /\ q'.delayed = q.delayed
    BY <1>0, <2>2, QGetOK
  <2> QED BY <1>1, <1>2, <2>1, <2>2, <2>3
<1>4. ASSUME manager.pc = "fetch", manager.key # k, NEW i \in Instance \cup {NoDoc},
             Run(manager.key, i), q.dirty \subseteq q'.dirty, q.delayed \subseteq q'.delayed
      PROVE  Tended(d)'
  <2>1. running'[k] = running[k]
    BY <1>0, <1>4, RunStep
  <2> QED BY <1>1, <1>2, <1>4, <2>1
<1>5. CASE FetchSpecFails
  <2>1. manager.pc = "fetch" /\ Finished("err") /\ UNCHANGED running
    BY <1>5 DEF FetchSpecFails
  <2>2. q'.dirty = q.dirty /\ q.delayed \subseteq q'.delayed /\ manager.key \in q'.delayed
    BY <2>1, FinishedStep
  <2> QED BY <1>1, <1>2, <2>1, <2>2
<1>6. CASE ManagerReadFails \/ ManagerReadStatus
  <2>1. /\ manager.pc = "read" /\ UNCHANGED running
        /\ (\E r \in {"nil", "err"} : Finished(r)) \/ UNCHANGED q
    BY <1>6 DEF ManagerReadFails, ManagerReadStatus
  <2>2. q.dirty \subseteq q'.dirty /\ q.delayed \subseteq q'.delayed
    BY <2>1, FinishedStep
  <2> QED BY <1>1, <1>2, <2>1, <2>2
<1>7. CASE KeepRunning
  <2>1. manager.pc = "fetch" /\ Finished("nil") /\ UNCHANGED running /\ SameTarget(manager.key)
        /\ specs[manager.key.name] # NoDoc
    BY <1>7 DEF KeepRunning, Fetched
  <2>2. q'.dirty = q.dirty /\ q.delayed \subseteq q'.delayed
    BY <2>1, FinishedStep
  <2>3. CASE manager.key = k
    <3>1. running[k] \in Instance /\ running[k].target = specs[d].target
      BY <1>0, <2>1, <2>3 DEF SameTarget
    <3>2. specs[d].target # NoTarget
      BY <3>1, TargetAssumption DEF Instance
    <3>3. InLine(d)
      BY <1>0, <2>1, <2>3, <3>1, <3>2, NoDocAssumption DEF InLine, Readable, Watches, SameTarget, k
    <3> QED BY <1>1, <1>2, <2>1, <3>3
  <2>4. CASE manager.key # k
    BY <1>1, <1>2, <2>1, <2>2, <2>4
  <2> QED BY <2>3, <2>4
<1>8. CASE StopDeleted
  <2>1. manager.pc = "fetch" /\ Finished("nil") /\ Run(manager.key, NoDoc)
        /\ specs[manager.key.name] = NoDoc
    BY <1>8 DEF StopDeleted, Fetched
  <2>2. q'.dirty = q.dirty /\ q.delayed \subseteq q'.delayed
    BY <2>1, FinishedStep
  <2>3. CASE manager.key = k
    <3>1. running'[k] = NoDoc /\ specs[d] = NoDoc
      BY <1>0, <2>1, <2>3, RunStep
    <3>2. InLine(d)'
      BY <3>1 DEF InLine, Readable, k
    <3> QED BY <1>1, <3>2
  <2> QED BY <1>4, <2>1, <2>2, <2>3
<1>9. CASE Start
  <2>1. /\ manager.pc = "fetch" /\ Finished("nil") /\ Run(manager.key, NewInstance(Fetched))
        /\ Fetched # NoDoc /\ Fetched.target # NoTarget
    BY <1>9 DEF Start
  <2>2. q'.dirty = q.dirty /\ q.delayed \subseteq q'.delayed
    BY <2>1, FinishedStep
  <2>3. Fetched \in SpecDoc
    BY <1>0, <2>1 DEF Fetched, Typed, TypeOK, ReadDesireKey
  <2>4. NewInstance(Fetched) \in Instance /\ NewInstance(Fetched).target = Fetched.target
    BY <2>1, <2>3, NewInstanceType
  <2>5. CASE manager.key = k
    <3>1. running'[k] = NewInstance(Fetched) /\ Fetched = specs[d]
      BY <1>0, <2>1, <2>4, <2>5, RunStep DEF Fetched
    <3>2. running'[k] # NoDoc /\ running'[k].target = specs[d].target
      BY <2>4, <3>1, NoDocAssumption
    <3>3. InLine(d)'
      BY <2>1, <3>1, <3>2 DEF InLine, Readable, Watches, k
    <3> QED BY <1>1, <3>3
  <2> QED BY <1>4, <2>1, <2>2, <2>4, <2>5
<1>10. CASE RefuseTarget
  <2>1. /\ manager.pc = "fetch" /\ Run(manager.key, NoDoc) /\ q' = q
        /\ Fetched.target = NoTarget
    BY <1>10 DEF RefuseTarget, intake
  <2>2. CASE manager.key = k
    <3>1. running'[k] = NoDoc /\ Fetched = specs[d]
      BY <1>0, <2>1, <2>2, RunStep DEF Fetched
    <3>2. InLine(d)'
      BY <2>1, <3>1 DEF InLine, Readable, k
    <3> QED BY <1>1, <3>2
  <2> QED BY <1>4, <2>1, <2>2
<1> QED BY <1>3, <1>5, <1>6, <1>7, <1>8, <1>9, <1>10 DEF ManagerStep, ManagerSync

LEMMA RememberedNext == Typed /\ Ordered /\ Homes /\ Remembered /\ [Next]_vars => Remembered'
<1> SUFFICES ASSUME Typed, Ordered, Homes, Remembered, [Next]_vars,
                    NEW d \in Desires, home'[d] # NoDoc, cache'[d] = specs'[d]
             PROVE  Tended(d)'
  BY DEF Remembered
<1>0. /\ specs \in [Desires -> SpecDoc \cup {NoDoc}] /\ cache \in [Desires -> SpecDoc \cup {NoDoc}]
      /\ now \in Nat /\ q \in QueueType(ReadDesireKey)
      /\ home \in [Desires -> ReadDesireKey \cup {NoDoc}]
      /\ \A s \in SpecDoc : KeyOf(d, s) \in ReadDesireKey
  BY KeyOfType DEF Typed, TypeOK
<1>1. ASSUME specs'[d] = specs[d], cache'[d] = cache[d], home'[d] = home[d], UNCHANGED <<manager, running>>,
             q.dirty \subseteq q'.dirty, q.delayed \subseteq q'.delayed \cup q'.dirty
      PROVE  Tended(d)'
  <2>1. Tended(d)
    BY <1>1 DEF Remembered
  <2>2. InLine(d) => InLine(d)'
    BY <1>1 DEF InLine, Readable
  <2> QED BY <1>1, <2>1, <2>2 DEF Tended
<1>2. CASE \E e \in Desires : WriteSpec(e)
  <2>1. PICK e \in Desires : WriteSpec(e)
    BY <1>2
  <2>2. PICK s \in Scopes, t \in Targets \cup {NoTarget} :
          specs' = [specs EXCEPT ![e] = [rev |-> now + 1, scope |-> s, target |-> t]]
    BY <2>1 DEF WriteSpec
  <2>3. UNCHANGED <<cache, q, manager, running>>
    BY <2>1 DEF WriteSpec, intake
  <2>4. e # d
    <3> SUFFICES ASSUME e = d PROVE FALSE
      OBVIOUS
    <3> DEFINE new == [rev |-> now + 1, scope |-> s, target |-> t]
    <3>0. new \in SpecDoc /\ new.rev = now + 1
      BY <1>0 DEF SpecDoc
    <3>1. cache[d] # NoDoc /\ cache[d].rev = now + 1
      BY <1>0, <2>2, <2>3, <3>0, NoDocAssumption
    <3> QED BY <1>0, <3>1 DEF Ordered
  <2>5. specs'[d] = specs[d] /\ home'[d] = home[d]
    BY <1>0, <2>1, <2>2, <2>4 DEF WriteSpec
  <2> QED BY <1>1, <2>3, <2>5
<1>3. CASE \E e \in Desires : DeleteSpec(e)
  BY <1>0, <1>1, <1>3 DEF DeleteSpec, intake
<1>4. CASE \E e \in Desires : Deliver(e)
  <2>1. PICK e \in Desires : Deliver(e)
    BY <1>4
  <2>2. CASE e = d
    <3>1. cache[d] # specs[d] /\ UNCHANGED <<specs, home>> /\ home[d] # NoDoc
      BY <1>0, <2>1, <2>2 DEF Deliver, db
    <3>2. \/ specs[d] # NoDoc /\ enqueue(d, specs[d])
          \/ specs[d] # NoDoc /\ cache[d] # NoDoc /\ handleUpdate(d, cache[d], specs[d])
          \/ specs[d] = NoDoc /\ cache[d] # NoDoc /\ enqueue(d, cache[d])
      BY <2>1, <2>2, <3>1 DEF Deliver, handleDelete
    <3>3. (specs[d] # NoDoc /\ cache[d] # NoDoc) => cache[d].rev # specs[d].rev
      BY <3>1, <1>0 DEF Ordered
    <3>4. q' = QAdd(q, home[d])
      BY <3>1, <3>2, <3>3 DEF enqueue, handleUpdate, Homes
    <3>5. home[d] \in q'.dirty
      BY <1>0, <3>1, <3>4, QAddOK
    <3> QED BY <3>1, <3>5 DEF Tended
  <2>3. CASE e # d
    <3>1. cache'[d] = cache[d] /\ UNCHANGED <<specs, home>>
      BY <1>0, <2>1, <2>3 DEF Deliver, db
    <3>2. QueueGrows /\ UNCHANGED <<manager, running>>
      BY <2>1, OutsideStep DEF Outside
    <3> QED BY <1>1, <3>1, <3>2 DEF QueueGrows
  <2> QED BY <2>2, <2>3
<1>5. CASE Restart
  <2>1. cache'[d] = NoDoc /\ running'[home'[d]] = NoDoc /\ home'[d] = home[d]
    BY <1>0, <1>5 DEF Restart, db
  <2>2. InLine(d)'
    BY <2>1 DEF InLine, Readable
  <2> QED BY <2>2 DEF Tended
<1>6. CASE UNCHANGED <<specs, now, home, cache>>
  <2>1. Tended(d) /\ home[d] # NoDoc /\ home[d].name = d
    BY <1>6 DEF Remembered, Homes
  <2>2. CASE ManagerStep
    BY <1>6, <2>1, <2>2, ManagerTends
  <2>3. CASE Outside
    <3>1. QueueGrows /\ UNCHANGED <<manager, running>>
      BY <2>3, OutsideStep
    <3> QED BY <1>1, <1>6, <3>1 DEF QueueGrows
  <2>4. ASSUME NEW k \in ReadDesireKey, Steps(k), manager' = manager,
               q.dirty \subseteq q'.dirty, q.delayed \subseteq q'.delayed
        PROVE  Tended(d)'
    <3>1. home[d] \in ReadDesireKey
      BY <1>0, <2>1
    <3>2. InLine(d) => InLine(d)'
      <4> SUFFICES ASSUME InLine(d) PROVE InLine(d)'
        OBVIOUS
      <4>1. CASE home[d] = k
        <5>1. running[k] # NoDoc /\ running'[k] # NoDoc /\ running'[k].target = running[k].target
          BY <2>4, NoDocAssumption DEF Steps, Running
        <5> QED BY <1>6, <4>1, <5>1 DEF InLine, Readable, Watches
      <4>2. CASE home[d] # k
        <5>1. running'[home[d]] = running[home[d]]
          BY <2>4, <3>1, <4>2 DEF Steps
        <5> QED BY <1>6, <5>1 DEF InLine, Readable
      <4> QED BY <4>1, <4>2
    <3> QED BY <1>6, <2>1, <2>4, <3>2 DEF Tended
  <2>5. ASSUME NEW k \in ReadDesireKey, InstanceActs(k) PROVE Tended(d)'
    <3>1. UNCHANGED <<manager, q>>
      BY <2>5 DEF InstanceActs, InstanceSync, InstanceStep, Sync, Observe, Tick, InstanceFetch,
         InstanceReadStatus, InstanceFails, intake
    <3>2. Steps(k)
      BY <2>5, InstanceTyped
    <3>3. manager' = manager /\ q.dirty \subseteq q'.dirty /\ q.delayed \subseteq q'.delayed
      BY <3>1
    <3> QED BY <2>4, <3>2, <3>3
  <2>6. ASSUME NEW wr \in writes, Answered(wr) PROVE Tended(d)'
    <3>1. PICK r \in {"nil", "err"} : Answer(wr, r)
      BY <2>6, AnsweredBy
    <3>2. /\ manager'.pc \in {"idle", manager.pc}
          /\ manager'.pc # "idle" => manager' = manager
          /\ q'.dirty = q.dirty /\ q.delayed \subseteq q'.delayed
          /\ UNCHANGED running \/ (wr.by = "instance" /\ Steps(wr.key))
          /\ wr.by # "manager" => UNCHANGED <<manager, q>>
      BY <3>1, AnswerStep
    <3>3. wr.key \in ReadDesireKey /\ (wr.by = "manager" => manager.pc = "write")
      BY DEF Typed, TypeOK, PendingWrite, Sent
    <3>4. CASE UNCHANGED running
      <4>1. InLine(d) => InLine(d)'
        BY <1>6, <3>4 DEF InLine, Readable
      <4>2. manager' = manager \/ manager.pc # "fetch"
        BY <3>2, <3>3
      <4> QED BY <1>6, <2>1, <3>2, <4>1, <4>2 DEF Tended
    <3>5. CASE wr.by = "instance" /\ Steps(wr.key)
      <4>1. /\ manager' = manager /\ wr.key \in ReadDesireKey
            /\ q.dirty \subseteq q'.dirty /\ q.delayed \subseteq q'.delayed
        BY <3>2, <3>3, <3>5
      <4>2. Steps(wr.key)
        BY <3>5
      <4> QED BY <2>4, <4>1, <4>2
    <3> QED BY <3>2, <3>4, <3>5
  <2>7. CASE UNCHANGED vars
    BY <1>1, <2>7 DEF vars, intake, db
  <2> QED BY <1>5, <2>2, <2>3, <2>5, <2>6, <2>7, StepKinds
<1> QED BY <1>2, <1>3, <1>4, <1>5, <1>6, DocumentStep

(* Once the informer has caught up and the manager is done with the key    *)
(* that answers for a document, its instance watches the object that the   *)
(* last revision names, and none runs if it names no object or if the      *)
(* document is gone: no revision, deletion, failure or refused write is    *)
(* forgotten. (It says nothing of an instance under a former key, nor of a *)
(* document that was deleted before the informer had seen it under its     *)
(* last key.)                                                              *)
THEOREM WatchedWhenIdle == Spec => []IdleMeansWatched
<1>1. Init => Ordered /\ Homes /\ Remembered
  BY DEF Init, Ordered, Homes, Remembered
<1>2. Typed /\ Remembered => IdleMeansWatched
  <2> SUFFICES ASSUME Typed, Remembered, NEW d \in Desires,
                      home[d] # NoDoc, cache[d] = specs[d], QIdle(q, home[d])
               PROVE  IF Readable(d) THEN Watches(running[home[d]], specs[d].target)
                      ELSE running[home[d]] = NoDoc
    BY DEF IdleMeansWatched
  <2>1. Tended(d)
    BY DEF Remembered
  <2>2. InLine(d)
    BY <2>1 DEF Tended, QIdle, Typed, ManagerOK
  <2> QED BY <2>2 DEF InLine
<1> QED BY <1>1, <1>2, TypedInit, TypedNext, OrderedNext, HomesNext, RememberedNext, PTL DEF Spec
=============================================================================
