--------------------------- MODULE Handover_proofs ---------------------------
(***************************************************************************)
(* Theorems of Handover and of the CRUD and the codec under it, for every  *)
(* set of documents, replicas and contents, with any number of elections,  *)
(* overlapping leaders, failures and calls that outlive their process.     *)
(***************************************************************************)
EXTENDS Handover, FiniteSetTheorems, TLAPS

-----------------------------------------------------------------------------
(* The codec.                                                              *)

(* What is read from a field is nothing or an object.                      *)
LEMMA FromFieldType ==
  ASSUME NEW f \in Stored
  PROVE  FromField(f) \in Objects \cup {None} /\ FromField(f) \in RawExtension
BY DEF FromField, mapToRawExt, Stored, RawExtension, Raw

(* What is written to a field is in the image of the codec.                *)
Image(f) == f \in Stored /\ (f \in Objects => Float64[f] = f)

LEMMA FieldType ==
  ASSUME NEW ext
  PROVE  Image(Field(ext))
BY CodecAssumption DEF Field, rawExtToMap, Stored, Image

LEMMA UpdatedType ==
  ASSUME NEW f, NEW ext
  PROVE  Image(Updated(f, ext))
BY FieldType DEF Updated

(* Content that the codec does not change survives the round trip, through *)
(* Create and through Replace.                                             *)
LEMMA RoundTrip ==
  ASSUME NEW f, NEW ext \in RawExtension, Exact(ext)
  PROVE  /\ Unmarshals(ext)
         /\ FromField(Field(ext)) = ext /\ FromField(Updated(f, ext)) = ext
<1>1. CASE ext \in Objects
  BY <1>1, CodecAssumption
     DEF Exact, Unmarshals, Updated, Field, FromField, rawExtToMap, mapToRawExt
<1>2. CASE ext = None
  BY <1>2, CodecAssumption DEF Unmarshals, Updated, Field, FromField
<1> QED BY <1>1, <1>2 DEF Exact

(* What was read is exact.                                                 *)
LEMMA ReadIsExact ==
  ASSUME NEW f, Image(f)
  PROVE  FromField(f) \in RawExtension /\ Exact(FromField(f))
<1>1. CASE f \in Objects
  BY <1>1, CodecAssumption DEF Image, FromField, mapToRawExt, Exact, RawExtension, Raw
<1>2. CASE f \in {"absent", "null"}
  BY <1>2, CodecAssumption DEF FromField, mapToRawExt, Exact, RawExtension, Raw
<1> QED BY <1>1, <1>2 DEF Image, Stored
-----------------------------------------------------------------------------
(* Documents and desires.                                                  *)

(* A document written by this code: its contents are images.               *)
Clean(doc) == Image(doc.specContent) /\ Image(doc.statusContent)

LEMMA SnapshotType ==
  ASSUME NEW d \in Docs, NEW doc \in Document
  PROVE  LET obj == snapshotToDesire(d, doc) IN
           /\ obj \in Desire /\ obj # None /\ obj.id = d
           /\ obj.status = doc.status /\ obj.spec = doc.spec
           /\ obj.updateTime = doc.updateTime /\ obj.createTime = doc.createTime
           /\ obj.specContent = FromField(doc.specContent)
           /\ obj.specContent \in Objects \cup {None}
           /\ obj.statusContent = FromField(doc.statusContent)
BY FromFieldType, NoneAssumption DEF snapshotToDesire, Document, Desire

LEMMA CreatedType ==
  ASSUME NEW obj \in Desire, NEW t \in Nat \ {0}
  PROVE  LET doc == toFirestoreMap(obj, t) IN
           /\ doc \in Document /\ doc # None /\ Clean(doc)
           /\ doc.status = obj.status /\ doc.updateTime = t
BY FieldType, NoneAssumption DEF toFirestoreMap, Document, Desire, Clean, Image

LEMMA UpdatesType ==
  ASSUME NEW doc \in Document, NEW obj \in Desire, NEW t \in Nat \ {0}
  PROVE  LET new == Updates(doc, obj, t) IN
           /\ new \in Document /\ new # None /\ Clean(new)
           /\ new.status = obj.status /\ new.spec = obj.spec
           /\ new.updateTime = t /\ new.createTime = doc.createTime
           /\ new.specContent = Updated(doc.specContent, obj.specContent)
           /\ new.statusContent = Updated(doc.statusContent, obj.statusContent)
<1> DEFINE new == Updates(doc, obj, t)
           c1 == Updated(doc.specContent, obj.specContent)
           c2 == Updated(doc.statusContent, obj.statusContent)
<1>1. Image(c1) /\ Image(c2)
  BY UpdatedType
<1> HIDE DEF c1, c2
<1>2. new = [doc EXCEPT !.spec = obj.spec, !.status = obj.status, !.specContent = c1,
                        !.statusContent = c2, !.updateTime = t]
  BY DEF Updates, c1, c2
<1> HIDE DEF new
<1>3. /\ new \in Document
      /\ new.status = obj.status /\ new.spec = obj.spec
      /\ new.updateTime = t /\ new.createTime = doc.createTime
      /\ new.specContent = c1 /\ new.statusContent = c2
  BY <1>1, <1>2 DEF Document, Desire, Image
<1> QED BY <1>1, <1>3, NoneAssumption DEF Clean, new, c1, c2

(* A collection as this code writes it.                                    *)
Collection == [Docs -> Document \cup {None}]
AllClean(docs) == \A d \in Docs : docs[d] # None => Clean(docs[d])

LEMMA GetType ==
  ASSUME NEW docs \in Collection, NEW d \in Docs
  PROVE  /\ docs[d] = None => Get(docs, d) = Refused(docs, "NotFound")
         /\ docs[d] # None => /\ docs[d] \in Document
                              /\ Get(docs, d) = Answer(docs, snapshotToDesire(d, docs[d]))
         /\ Get(docs, d).err = "nil" <=> docs[d] # None
         /\ Get(docs, d).out = None <=> docs[d] = None
         /\ Get(docs, d).out \in Desire \cup {None}
         /\ docs[d] # None => Get(docs, d).out = snapshotToDesire(d, docs[d])
BY SnapshotType DEF Get, Refused, Answer, Collection

(* A write that is accepted changes one document, to what was sent.        *)
LEMMA CreateType ==
  ASSUME NEW docs \in Collection, NEW obj \in Desire, NEW t \in Nat \ {0}
  PROVE  LET a == Create(docs, obj, t) IN
           \/ a.docs = docs
           \/ /\ docs[obj.id] = None
              /\ a.docs = [docs EXCEPT ![obj.id] = toFirestoreMap(obj, t)]
BY DEF Create, Refused, Answer

LEMMA ReplaceType ==
  ASSUME NEW docs \in Collection, NEW obj \in Desire, NEW t \in Nat \ {0}
  PROVE  LET a == Replace(docs, obj, t) IN
           \/ a.docs = docs
           \/ /\ docs[obj.id] # None /\ docs[obj.id].updateTime = obj.updateTime
              /\ a.docs = [docs EXCEPT ![obj.id] = Updates(docs[obj.id], obj, t)]
BY DEF Replace, Refused, Answer, Collection, Desire
-----------------------------------------------------------------------------
(* The test double.                                                        *)

(* What FakeCRUD stores in the place of a document.                        *)
LEMMA FakeOfType ==
  ASSUME NEW docs \in Collection
  PROVE  /\ FakeOf(docs) = [d \in Docs |-> Get(docs, d).out]
         /\ \A d \in Docs : /\ FakeOf(docs)[d] = None <=> docs[d] = None
                            /\ docs[d] # None => FakeOf(docs)[d] = snapshotToDesire(d, docs[d])
<1>1. DOMAIN docs = Docs
  BY DEF Collection
<1> QED BY <1>1, GetType DEF FakeOf

(* A document that is read back as what FakeCRUD stores makes the whole    *)
(* collection agree.                                                       *)
LEMMA FakeOfWrite ==
  ASSUME NEW docs \in Collection, NEW d \in Docs, NEW doc \in Document \cup {None}
  PROVE  FakeOf([docs EXCEPT ![d] = doc]) =
           [FakeOf(docs) EXCEPT ![d] = IF doc = None THEN None ELSE snapshotToDesire(d, doc)]
<1> DEFINE new == [docs EXCEPT ![d] = doc]
<1>1. new \in Collection /\ new[d] = doc /\ \A e \in Docs \ {d} : new[e] = docs[e]
  BY DEF Collection
<1> HIDE DEF new
<1>2. \A e \in Docs : Get(new, e).out = IF new[e] = None THEN None ELSE snapshotToDesire(e, new[e])
  BY <1>1, GetType
<1>3. \A e \in Docs : Get(docs, e).out = IF docs[e] = None THEN None ELSE snapshotToDesire(e, docs[e])
  BY GetType
<1>4. FakeOf(new) = [e \in Docs |-> Get(new, e).out] /\ FakeOf(docs) = [e \in Docs |-> Get(docs, e).out]
  BY <1>1, FakeOfType
<1>5. \A e \in Docs : FakeOf(new)[e] =
        IF e = d THEN IF doc = None THEN None ELSE snapshotToDesire(d, doc) ELSE FakeOf(docs)[e]
  BY <1>1, <1>2, <1>3, <1>4
<1> QED BY <1>4, <1>5 DEF new

(* What the callers of FakeAgrees offer.                                   *)
LEMMA OfferedType ==
  ASSUME NEW docs \in Collection, now \in Nat, NEW d \in Docs, NEW obj \in Offered(docs, d)
  PROVE  /\ obj \in Desire /\ obj.id = d
         /\ obj = [id |-> d, spec |-> obj.spec, status |-> obj.status,
                   specContent |-> obj.specContent, statusContent |-> obj.statusContent,
                   updateTime |-> obj.updateTime, createTime |-> obj.createTime]
         /\ Exact(obj.specContent) /\ Exact(obj.statusContent)
         /\ docs[d] # None => obj.createTime = docs[d].createTime
<1> DEFINE created == IF docs[d] = None THEN 0 ELSE docs[d].createTime
<1>2. PICK ext \in {e \in RawExtension : Exact(e)}, t \in 0..now : obj = Offer(docs, d, ext, t)
  BY DEF Offered
<1>3. created \in Nat
  BY DEF Collection, Document
<1> HIDE DEF created
<1>4. obj = [id |-> d, spec |-> "spec", status |-> None, specContent |-> ext,
             statusContent |-> None, updateTime |-> t, createTime |-> created]
  BY <1>2 DEF Offer, NewDesire, created
<1>5. Exact(None) /\ None \in RawExtension
  BY CodecAssumption DEF Exact, RawExtension
<1>6. t \in Nat
  OBVIOUS
<1>7. obj \in Desire
  BY <1>2, <1>3, <1>4, <1>5, <1>6 DEF Desire
<1> QED BY <1>2, <1>4, <1>5, <1>7 DEF created

(* What a write puts into a desire.                                        *)
LEMMA Stamped ==
  ASSUME NEW obj \in Desire, NEW t, NEW u
  PROVE  [obj EXCEPT !.updateTime = t, !.createTime = u] =
         [id |-> obj.id, spec |-> obj.spec, status |-> obj.status,
          specContent |-> obj.specContent, statusContent |-> obj.statusContent,
          updateTime |-> t, createTime |-> u]
<1>1. obj = [id |-> obj.id, spec |-> obj.spec, status |-> obj.status,
             specContent |-> obj.specContent, statusContent |-> obj.statusContent,
             updateTime |-> obj.updateTime, createTime |-> obj.createTime]
  BY DEF Desire
<1>2. [obj EXCEPT !.updateTime = t] =
        [id |-> obj.id, spec |-> obj.spec, status |-> obj.status,
         specContent |-> obj.specContent, statusContent |-> obj.statusContent,
         updateTime |-> t, createTime |-> obj.createTime]
  BY <1>1
<1> DEFINE mid == [obj EXCEPT !.updateTime = t]
<1>3. [obj EXCEPT !.updateTime = t, !.createTime = u] = [mid EXCEPT !.createTime = u]
  OBVIOUS
<1> HIDE DEF mid
<1>4. mid = [id |-> obj.id, spec |-> obj.spec, status |-> obj.status,
             specContent |-> obj.specContent, statusContent |-> obj.statusContent,
             updateTime |-> t, createTime |-> obj.createTime]
  BY <1>2 DEF mid
<1>5. [mid EXCEPT !.createTime = u] =
        [id |-> obj.id, spec |-> obj.spec, status |-> obj.status,
         specContent |-> obj.specContent, statusContent |-> obj.statusContent,
         updateTime |-> t, createTime |-> u]
  BY <1>4
<1> QED BY <1>3, <1>5

LEMMA SameGet ==
  ASSUME NEW docs \in Collection, NEW d \in Docs
  PROVE  Same(Get(docs, d), FakeGet(FakeOf(docs), d))
BY GetType, FakeOfType DEF Same, FakeGet, Refused, Answer

LEMMA SameCreate ==
  ASSUME NEW docs \in Collection, now \in Nat, NEW d \in Docs, NEW obj \in Offered(docs, d)
  PROVE  Same(Create(docs, obj, now + 1), FakeCreate(FakeOf(docs), obj, now + 1))
<1> DEFINE t == now + 1
           stored == [obj EXCEPT !.updateTime = t, !.createTime = t]
           doc == toFirestoreMap(obj, t)
<1>0. t \in Nat \ {0}
  OBVIOUS
<1> HIDE DEF t
<1>1. /\ obj \in Desire /\ obj.id = d /\ d # ""
      /\ Exact(obj.specContent) /\ Exact(obj.statusContent)
  BY OfferedType, DocsAssumption
<1>2. Writable(obj)
  BY <1>1, RoundTrip DEF Writable, Desire
<1>3. FakeOf(docs)[d] = None <=> docs[d] = None
  BY FakeOfType
<1>4. CASE docs[d] # None
  BY <1>1, <1>2, <1>3, <1>4 DEF Create, FakeCreate, Same, Refused
<1>5. CASE docs[d] = None
  <2>1. doc \in Document /\ doc # None
    BY <1>0, <1>1, CreatedType
  <2>2. snapshotToDesire(d, doc) = stored
    <3>1. /\ FromField(Field(obj.specContent)) = obj.specContent
          /\ FromField(Field(obj.statusContent)) = obj.statusContent
      BY <1>1, RoundTrip DEF Desire
    <3>2. stored = [id |-> d, spec |-> obj.spec, status |-> obj.status,
                    specContent |-> obj.specContent, statusContent |-> obj.statusContent,
                    updateTime |-> t, createTime |-> t]
      BY <1>1, Stamped
    <3>3. snapshotToDesire(d, doc) =
            [id |-> d, spec |-> obj.spec, status |-> obj.status,
             specContent |-> FromField(Field(obj.specContent)),
             statusContent |-> FromField(Field(obj.statusContent)),
             updateTime |-> t, createTime |-> t]
      BY DEF snapshotToDesire, toFirestoreMap
    <3> QED BY <3>1, <3>2, <3>3
  <2> HIDE DEF stored, doc, t
  <2>3. FakeOf([docs EXCEPT ![d] = doc]) = [FakeOf(docs) EXCEPT ![d] = stored]
    BY <2>1, <2>2, FakeOfWrite
  <2>4. Create(docs, obj, t) = Answer([docs EXCEPT ![d] = doc], stored)
    BY <1>1, <1>2, <1>5 DEF Create, doc, stored
  <2>5. FakeCreate(FakeOf(docs), obj, t) = Answer([FakeOf(docs) EXCEPT ![d] = stored], stored)
    BY <1>1, <1>3, <1>5 DEF FakeCreate, stored
  <2>6. Same(Create(docs, obj, t), FakeCreate(FakeOf(docs), obj, t))
    BY <2>3, <2>4, <2>5 DEF Same, Answer
  <2> QED BY <2>6 DEF t
<1> QED BY <1>4, <1>5

LEMMA SameReplace ==
  ASSUME NEW docs \in Collection, now \in Nat, NEW d \in Docs, NEW obj \in Offered(docs, d)
  PROVE  Same(Replace(docs, obj, now + 1), FakeReplace(FakeOf(docs), obj, now + 1))
<1> DEFINE t == now + 1
           out == [obj EXCEPT !.updateTime = t]
           replacement == [obj EXCEPT !.updateTime = t,
                                      !.createTime = FakeOf(docs)[obj.id].createTime]
           doc == Updates(docs[d], obj, t)
<1>0. t \in Nat \ {0}
  OBVIOUS
<1> HIDE DEF t
<1>1. /\ obj \in Desire /\ obj.id = d
      /\ Exact(obj.specContent) /\ Exact(obj.statusContent)
  BY OfferedType
<1>2. Writable(obj)
  BY <1>1, RoundTrip DEF Writable, Desire
<1>3. FakeOf(docs)[d] = None <=> docs[d] = None
  BY FakeOfType
<1>4. CASE docs[d] = None
  BY <1>1, <1>2, <1>3, <1>4 DEF Replace, FakeReplace, Same, Refused
<1>5. CASE docs[d] # None
  <2>1. docs[d] \in Document
    BY <1>5 DEF Collection
  <2>2. /\ FakeOf(docs)[d].updateTime = docs[d].updateTime
        /\ FakeOf(docs)[d].createTime = docs[d].createTime
    BY <1>5, <2>1, FakeOfType, SnapshotType
  <2>3. CASE docs[d].updateTime # obj.updateTime
    BY <1>1, <1>2, <1>3, <1>5, <2>2, <2>3 DEF Replace, FakeReplace, Same, Refused
  <2>4. CASE docs[d].updateTime = obj.updateTime
    <3>1. /\ doc \in Document /\ doc # None
          /\ doc.status = obj.status /\ doc.spec = obj.spec
          /\ doc.updateTime = t /\ doc.createTime = docs[d].createTime
          /\ doc.specContent = Updated(docs[d].specContent, obj.specContent)
          /\ doc.statusContent = Updated(docs[d].statusContent, obj.statusContent)
      BY <1>0, <1>1, <2>1, UpdatesType
    <3>2. /\ FromField(doc.specContent) = obj.specContent
          /\ FromField(doc.statusContent) = obj.statusContent
      BY <1>1, <3>1, RoundTrip DEF Desire
    <3>3. out = [id |-> d, spec |-> obj.spec, status |-> obj.status,
                 specContent |-> obj.specContent, statusContent |-> obj.statusContent,
                 updateTime |-> t, createTime |-> docs[d].createTime]
      BY <1>5, OfferedType
    <3>4. replacement = out
      BY <1>1, <1>5, <2>2, OfferedType, <3>3
    <3> HIDE DEF t, out, doc, replacement
    <3>5. snapshotToDesire(d, doc) = out
      BY <3>1, <3>2, <3>3 DEF snapshotToDesire
    <3>6. FakeOf([docs EXCEPT ![d] = doc]) = [FakeOf(docs) EXCEPT ![d] = out]
      BY <3>1, <3>5, FakeOfWrite
    <3>7. Replace(docs, obj, t) = Answer([docs EXCEPT ![d] = doc], out)
      BY <1>1, <1>2, <1>5, <2>4 DEF Replace, doc, out
    <3>8. FakeReplace(FakeOf(docs), obj, t) = Answer([FakeOf(docs) EXCEPT ![d] = out], out)
      BY <1>1, <1>3, <1>5, <2>2, <2>4, <3>4 DEF FakeReplace, replacement
    <3>9. Same(Replace(docs, obj, t), FakeReplace(FakeOf(docs), obj, t))
      BY <3>6, <3>7, <3>8 DEF Same, Answer
    <3> QED BY <3>9 DEF t
  <2> QED BY <2>3, <2>4
<1> QED BY <1>4, <1>5

LEMMA SameDelete ==
  ASSUME NEW docs \in Collection, NEW d \in Docs, docs[d] # None
  PROVE  Same(Delete(docs, d), FakeDelete(FakeOf(docs), d))
<1>1. FakeOf(docs)[d] # None /\ FakeOf([docs EXCEPT ![d] = None]) = [FakeOf(docs) EXCEPT ![d] = None]
  BY FakeOfType, FakeOfWrite
<1> QED BY <1>1 DEF Same, Delete, FakeDelete, Answer

(* Writing back what was read changes nothing for a reader but the time.   *)
LEMMA Rewritten ==
  ASSUME NEW docs \in Collection, AllClean(docs), now \in Nat, NEW d \in Docs, docs[d] # None
  PROVE  LET read == Get(docs, d).out IN
           Get(Replace(docs, read, now + 1).docs, d).out = [read EXCEPT !.updateTime = now + 1]
<1> DEFINE t == now + 1
           read == snapshotToDesire(d, docs[d])
           doc == Updates(docs[d], read, t)
           new == [docs EXCEPT ![d] = doc]
<1>1. docs[d] \in Document /\ Clean(docs[d]) /\ t \in Nat \ {0} /\ Get(docs, d).out = read
  BY GetType DEF AllClean
<1>2. /\ read \in Desire /\ read.id = d
      /\ read.status = docs[d].status /\ read.spec = docs[d].spec
      /\ read.updateTime = docs[d].updateTime /\ read.createTime = docs[d].createTime
      /\ read.specContent = FromField(docs[d].specContent)
      /\ read.statusContent = FromField(docs[d].statusContent)
  BY <1>1, SnapshotType
<1>3. /\ read.specContent \in RawExtension /\ Exact(read.specContent)
      /\ read.statusContent \in RawExtension /\ Exact(read.statusContent)
  BY <1>1, <1>2, ReadIsExact DEF Clean
<1>4. Writable(read)
  BY <1>3, RoundTrip DEF Writable
<1>5. [read EXCEPT !.updateTime = t] =
        [id |-> d, spec |-> docs[d].spec, status |-> docs[d].status,
         specContent |-> FromField(docs[d].specContent),
         statusContent |-> FromField(docs[d].statusContent),
         updateTime |-> t, createTime |-> docs[d].createTime]
  BY DEF snapshotToDesire
<1> HIDE DEF t, read
<1>6. /\ doc \in Document /\ doc # None
      /\ doc.status = read.status /\ doc.spec = read.spec
      /\ doc.updateTime = t /\ doc.createTime = docs[d].createTime
      /\ doc.specContent = Updated(docs[d].specContent, read.specContent)
      /\ doc.statusContent = Updated(docs[d].statusContent, read.statusContent)
  BY <1>1, <1>2, UpdatesType
<1>7. /\ FromField(doc.specContent) = read.specContent
      /\ FromField(doc.statusContent) = read.statusContent
  BY <1>3, <1>6, RoundTrip
<1> HIDE DEF doc
<1>8. new \in Collection /\ new[d] = doc
  BY <1>6 DEF Collection
<1>9. Replace(docs, read, t).docs = new
  BY <1>1, <1>2, <1>4 DEF Replace, Answer, doc
<1> HIDE DEF new
<1>10. Get(new, d).out = snapshotToDesire(d, doc)
  BY <1>6, <1>8, GetType
<1>11. snapshotToDesire(d, doc) = [read EXCEPT !.updateTime = t]
  BY <1>2, <1>5, <1>6, <1>7 DEF snapshotToDesire
<1>12. Get(Replace(docs, read, t).docs, d).out = [read EXCEPT !.updateTime = t]
  BY <1>9, <1>10, <1>11
<1> QED BY <1>1, <1>12 DEF t
-----------------------------------------------------------------------------
(* The inductive invariant.                                                *)

Works == calls \cup {work[r] : r \in Replicas}

(* A status that reports success names an acknowledged revision.           *)
Credible(st, ack) ==
  \A d \in Docs : st[d] # None =>
    /\ st[d].status \in Report
    /\ st[d].status.reason = "NoErrors" => st[d].status.observed \in ack[d]

(* What a worker knows, and what a call left behind carries: the revision  *)
(* it has fetched, an acknowledgement if it is to report success, and a    *)
(* status that is still the stored one if its UpdateTime is.               *)
Informed(w, st, ack) ==
  w.desire # None =>
    LET d == w.desire.id IN
      /\ w.desire.updateTime # 0
      /\ w.pc = "apply" => w.desire.specContent \in Objects
      /\ w.pc \in {"read", "write"} /\ w.reason = "NoErrors" => w.desire.updateTime \in ack[d]
      /\ w.existing # None =>
           /\ w.pc = "write" /\ w.existing.id = d
           /\ (st[d] # None /\ st[d].updateTime = w.existing.updateTime)
                => w.existing = snapshotToDesire(d, st[d])

IInv ==
  /\ TypeOK /\ IsFiniteSet(calls)
  /\ AllClean(specs)
  /\ Credible(status, acked)
  /\ \A w \in Works : Informed(w, status, acked)
-----------------------------------------------------------------------------
(* The commit times of the status database.                                *)

LEMMA FiniteImage ==
  ASSUME NEW S, IsFiniteSet(S), NEW f, DOMAIN f = S, f = [x \in S |-> f[x]]
  PROVE  IsFiniteSet({f[x] : x \in S})
<1>1. f \in Surjection(S, {f[x] : x \in S})
  BY DEF Surjection
<1> QED BY <1>1, FS_Surjection

LEMMA FiniteWorks ==
  ASSUME IInv
  PROVE  IsFiniteSet(Works)
<1>1. DOMAIN work = Replicas /\ work = [r \in Replicas |-> work[r]]
  BY DEF IInv, TypeOK
<1>2. IsFiniteSet({work[r] : r \in Replicas})
  BY <1>1, FiniteImage, ReplicaAssumption
<1> QED BY <1>2, FS_Union DEF IInv, Works

(* There is always a commit time that nobody holds: the set of those that  *)
(* are held is finite, and the choice is among one more.                   *)
LEMMA Fresh ==
  ASSUME IInv, NEW d \in Docs
  PROVE  CommitTime(d) \in Nat \ {0} /\ CommitTime(d) \notin Held(d)
<1> DEFINE V == {w \in Works : w.existing # None}
           f == [v \in V |-> v.existing.updateTime]
           own == IF status[d] = None THEN {} ELSE {status[d].updateTime}
           n == Cardinality(Held(d))
<1>1. IsFiniteSet(V)
  BY FiniteWorks, FS_Subset
<1>2. IsFiniteSet({f[v] : v \in V})
  <2> HIDE DEF V
  <2>1. DOMAIN f = V /\ f = [v \in V |-> f[v]]
    OBVIOUS
  <2> HIDE DEF f
  <2> QED BY <1>1, <2>1, FiniteImage
<1>3. {f[v] : v \in V} = {v.existing.updateTime : v \in V}
  OBVIOUS
<1>4. IsFiniteSet(own)
  BY FS_EmptySet, FS_Singleton
<1>5. Held(d) = {v.existing.updateTime : v \in V} \cup own
  BY DEF Held, Works
<1> HIDE DEF V, f, own
<1>6. IsFiniteSet(Held(d))
  BY <1>2, <1>3, <1>4, <1>5, FS_Union
<1>7. n \in Nat
  BY <1>6, FS_CardinalityType
<1> HIDE DEF n
<1>8. IsFiniteSet(1..(n + 1)) /\ Cardinality(1..(n + 1)) = n + 1
  BY <1>7, FS_Interval
<1>9. \E t \in 1..(n + 1) : t \notin Held(d)
  <2>1. SUFFICES ASSUME 1..(n + 1) \in SUBSET Held(d) PROVE FALSE
    OBVIOUS
  <2>2. Cardinality(1..(n + 1)) <= n
    BY <1>6, <2>1, FS_Subset DEF n
  <2> QED BY <1>7, <1>8, <2>2
<1>10. CommitTime(d) \in 1..(n + 1) /\ CommitTime(d) \notin Held(d)
  BY <1>9 DEF CommitTime, n
<1> QED BY <1>7, <1>10
-----------------------------------------------------------------------------
(* What a write of the status can be.                                      *)

LEMMA WorkType ==
  ASSUME IInv, NEW w \in Works
  PROVE  /\ w \in Work /\ Informed(w, status, acked)
         /\ (w.desire = None) = (w.pc = "idle")
         /\ w.desire # None => w.desire \in Desire /\ w.desire.id \in Docs
         /\ w.existing # None => w.existing \in Desire
BY DEF IInv, TypeOK, Works, Work, Desire

LEMMA MutatedType ==
  ASSUME IInv, NEW w \in Works, w.desire # None
  PROVE  LET new == Mutated(w) IN
           /\ new \in Desire /\ new.id = w.desire.id
           /\ new.status = ReportOf(w) /\ ReportOf(w) \in Report
           /\ w.existing # None => new.updateTime = w.existing.updateTime
<1> DEFINE zero == [NewDesire(w.desire.id, None) EXCEPT !.spec = "zero"]
           from == IF w.existing = None THEN zero ELSE w.existing
           d == w.desire.id
<1>1. w \in Work /\ w.desire \in Desire /\ d \in Docs /\ w.desire.updateTime # 0
  BY WorkType DEF Informed
<1>2. zero = [id |-> d, spec |-> "zero", status |-> None, specContent |-> None,
              statusContent |-> None, updateTime |-> 0, createTime |-> 0]
  BY DEF NewDesire
<1>3. zero \in Desire /\ zero.id = d
  BY <1>1, <1>2 DEF Desire, RawExtension
<1> HIDE DEF zero
<1>4. from \in Desire /\ from.id = d /\ (w.existing # None => from = w.existing)
  BY <1>3, WorkType DEF Informed
<1> HIDE DEF from
<1>5. ReportOf(w) \in Report
  BY <1>1 DEF ReportOf, Report, Work, Desire
<1>6. Mutated(w) = [from EXCEPT !.status = ReportOf(w)]
  BY DEF Mutated, from, zero
<1> HIDE DEF d
<1>7. [from EXCEPT !.status = ReportOf(w)] \in Desire
  BY <1>4, <1>5 DEF Desire
<1> QED BY <1>4, <1>5, <1>6, <1>7 DEF Desire, d

(* An accepted write replaces what its worker has read by its report, at a *)
(* commit time that nobody holds.                                          *)
Written(w, st, doc) ==
  /\ doc \in Document /\ doc # None
  /\ doc.status = ReportOf(w)
  /\ doc.updateTime \notin Held(w.desire.id)
  /\ w.existing = Get(status, w.desire.id).out
  /\ st = [status EXCEPT ![w.desire.id] = doc]

LEMMA Answered ==
  ASSUME IInv, NEW w \in Works, w.pc = "write", NEW st, st = AnswerTo(w).docs
  PROVE  st = status \/ \E doc \in Document : Written(w, st, doc)
<1> DEFINE d == w.desire.id
           new == Mutated(w)
           t == CommitTime(d)
<1>1. /\ w.desire # None /\ d \in Docs /\ status \in Collection
      /\ Informed(w, status, acked)
  BY WorkType DEF IInv, TypeOK, Collection
<1>2. /\ new \in Desire /\ new.id = d /\ new.status = ReportOf(w)
      /\ w.existing # None => new.updateTime = w.existing.updateTime
  BY <1>1, MutatedType
<1>3. t \in Nat \ {0} /\ t \notin Held(d)
  BY <1>1, Fresh
<1>4. st = (IF w.existing = None THEN Create(status, new, t) ELSE Replace(status, new, t)).docs
  BY DEF AnswerTo
<1> HIDE DEF new, t, d
<1>5. CASE w.existing = None
  <2>1. \/ st = status
        \/ status[d] = None /\ st = [status EXCEPT ![d] = toFirestoreMap(new, t)]
    BY <1>1, <1>2, <1>3, <1>4, <1>5, CreateType
  <2> DEFINE doc == toFirestoreMap(new, t)
  <2>2. doc \in Document /\ doc # None /\ doc.status = new.status /\ doc.updateTime = t
    BY <1>2, <1>3, CreatedType
  <2>3. status[d] = None => Get(status, d).out = None
    BY <1>1, GetType
  <2> HIDE DEF doc
  <2> QED BY <1>2, <1>3, <1>5, <2>1, <2>2, <2>3 DEF Written, doc, d
<1>6. CASE w.existing # None
  <2>1. \/ st = status
        \/ /\ status[d] # None /\ status[d].updateTime = new.updateTime
           /\ st = [status EXCEPT ![d] = Updates(status[d], new, t)]
    BY <1>1, <1>2, <1>3, <1>4, <1>6, ReplaceType
  <2>2. CASE st # status
    <3> DEFINE doc == Updates(status[d], new, t)
    <3>1. status[d] \in Document
      BY <1>1, <2>1, <2>2 DEF Collection
    <3>2. doc \in Document /\ doc # None /\ doc.status = new.status /\ doc.updateTime = t
      BY <1>2, <1>3, <3>1, UpdatesType
    <3>3. w.existing = snapshotToDesire(d, status[d])
      BY <1>1, <1>2, <1>6, <2>1, <2>2 DEF Informed, d
    <3>4. Get(status, d).out = w.existing
      BY <1>1, <2>1, <2>2, <3>3, GetType
    <3> HIDE DEF doc
    <3> QED BY <1>2, <1>3, <2>1, <2>2, <3>2, <3>4 DEF Written, doc, d
  <2> QED BY <2>2
<1> QED BY <1>5, <1>6

(* Such a write leaves every status credible, and everybody informed: who  *)
(* has read this status before holds another UpdateTime.                   *)
LEMMA AfterWrite ==
  ASSUME IInv, NEW w \in Works, w.pc = "write", NEW st, st = AnswerTo(w).docs
  PROVE  /\ st \in [Docs -> Document \cup {None}]
         /\ Credible(st, acked)
         /\ \A v \in Works : Informed(v, st, acked)
<1> DEFINE d == w.desire.id
<1>1. status \in [Docs -> Document \cup {None}] /\ Credible(status, acked)
  BY DEF IInv, TypeOK
<1>2. \A v \in Works : Informed(v, status, acked)
  BY WorkType
<1>3. CASE st = status
  BY <1>1, <1>2, <1>3
<1>4. ASSUME NEW doc \in Document, Written(w, st, doc)
      PROVE  /\ st \in [Docs -> Document \cup {None}]
             /\ Credible(st, acked)
             /\ \A v \in Works : Informed(v, st, acked)
  <2>1. /\ d \in Docs /\ ReportOf(w) \in Report
        /\ w.reason = "NoErrors" => w.desire.updateTime \in acked[d]
    BY WorkType, MutatedType DEF Informed
  <2>2. /\ st \in [Docs -> Document \cup {None}] /\ st[d] = doc
        /\ \A e \in Docs \ {d} : st[e] = status[e]
    BY <1>1, <1>4, <2>1 DEF Written
  <2>3. doc.status = ReportOf(w) /\ doc.updateTime \notin Held(d)
    BY <1>4 DEF Written
  <2>4. Credible(st, acked)
    BY <1>1, <2>1, <2>2, <2>3 DEF Credible, ReportOf
  <2>5. ASSUME NEW v \in Works PROVE Informed(v, st, acked)
    <3>1. v.existing # None => v.existing.updateTime \in Held(d)
      BY DEF Held, Works
    <3>2. v.existing # None => doc.updateTime # v.existing.updateTime
      BY <2>3, <3>1
    <3>3. v.desire # None => v.desire.id \in Docs
      BY WorkType
    <3>4. Informed(v, status, acked)
      BY WorkType
    <3> HIDE DEF d
    <3> QED BY <2>2, <3>2, <3>3, <3>4 DEF Informed
  <2> QED BY <2>2, <2>4, <2>5
<1> QED BY <1>3, <1>4, Answered
-----------------------------------------------------------------------------
(* Every action preserves the invariant.                                   *)

(* A collection after a write to the specs database.                       *)
LEMMA Stays ==
  ASSUME NEW docs \in Collection, AllClean(docs), NEW d \in Docs,
         NEW doc \in Document, Clean(doc), NEW new, new = [docs EXCEPT ![d] = doc]
  PROVE  new \in Collection /\ AllClean(new)
BY DEF Collection, AllClean

LEMMA IntakePreserves ==
  ASSUME IInv, NEW d \in Docs, NEW ext \in RawExtension,
         \/ DeleteSpec(d) \/ CreateSpec(d, ext) \/ ReplaceSpec(d, ext)
  PROVE  IInv'
<1>1. specs \in Collection /\ AllClean(specs) /\ now \in Nat
  BY DEF IInv, TypeOK, Collection
<1>2. SUFFICES specs' \in Collection /\ AllClean(specs') /\ now' \in Nat /\ UNCHANGED <<leading, agent>>
  <2>1. CASE /\ specs' \in Collection /\ AllClean(specs') /\ now' \in Nat
             /\ UNCHANGED <<lease, elections, role, status, cluster, work, calls, acked, failures>>
    BY <2>1 DEF IInv, TypeOK, Works, Collection
  <2> QED BY <2>1 DEF leading, agent
<1>4. CASE CreateSpec(d, ext)
  <2> DEFINE obj == NewDesire(d, ext)
  <2>1. obj \in Desire
    BY DEF NewDesire, Desire, RawExtension
  <2>2. obj.id = d
    BY DEF NewDesire
  <2> HIDE DEF obj
  <2>3. specs' = Create(specs, obj, now + 1).docs /\ now' = now + 1 /\ UNCHANGED <<leading, agent>>
    BY <1>4 DEF CreateSpec, Submit, obj
  <2>4. now + 1 \in Nat \ {0} /\ now' \in Nat
    BY <1>1, <2>3
  <2>5. specs' = specs \/ specs' = [specs EXCEPT ![d] = toFirestoreMap(obj, now + 1)]
    BY <1>1, <2>1, <2>2, <2>3, <2>4, CreateType
  <2>6. toFirestoreMap(obj, now + 1) \in Document /\ Clean(toFirestoreMap(obj, now + 1))
    BY <2>1, <2>4, CreatedType
  <2>7. specs' \in Collection /\ AllClean(specs')
    BY <1>1, <2>5, <2>6, Stays
  <2> QED BY <2>3, <2>4, <2>7
<1>5. CASE ReplaceSpec(d, ext)
  <2> DEFINE read == Get(specs, d).out
             obj == [read EXCEPT !.specContent = ext]
  <2>1. specs[d] # None /\ read \in Desire /\ read.id = d
    BY <1>1, <1>5, GetType, SnapshotType DEF ReplaceSpec
  <2> HIDE DEF read
  <2>2. obj \in Desire /\ obj.id = d
    BY <2>1 DEF Desire
  <2> HIDE DEF obj
  <2>3. specs' = Replace(specs, obj, now + 1).docs /\ now' = now + 1 /\ UNCHANGED <<leading, agent>>
    BY <1>5 DEF ReplaceSpec, Submit, obj, read
  <2>4. specs[d] \in Document
    BY <1>1, <2>1 DEF Collection
  <2>5. now + 1 \in Nat \ {0} /\ now' \in Nat
    BY <1>1, <2>3
  <2>6. specs' = specs \/ specs' = [specs EXCEPT ![d] = Updates(specs[d], obj, now + 1)]
    BY <1>1, <2>2, <2>3, <2>5, ReplaceType
  <2>7. Updates(specs[d], obj, now + 1) \in Document /\ Clean(Updates(specs[d], obj, now + 1))
    BY <2>2, <2>4, <2>5, UpdatesType
  <2>8. specs' \in Collection /\ AllClean(specs')
    BY <1>1, <2>6, <2>7, Stays
  <2> QED BY <2>3, <2>5, <2>8
<1>6. CASE DeleteSpec(d)
  <2>1. specs' = [specs EXCEPT ![d] = None] /\ now' = now /\ UNCHANGED <<leading, agent>>
    BY <1>6 DEF DeleteSpec, Delete, Answer
  <2> QED BY <1>1, <2>1 DEF Collection, AllClean
<1> QED BY <1>4, <1>5, <1>6

LEMMA IdleType == IdleWork \in Work /\ IdleWork.desire = None /\ IdleWork.pc = "idle"
BY DEF IdleWork, Work, Reasons

LEMMA LeadershipPreserves ==
  ASSUME IInv, NEW r \in Replicas, Elect(r) \/ GiveUp(r) \/ Exit(r)
  PROVE  IInv'
<1>1. CASE Elect(r) \/ GiveUp(r)
  <2>1. /\ lease' \in Replicas \cup {None} /\ elections' \in Nat
        /\ role' \in [Replicas -> {"candidate", "leader", "releasing"}]
        /\ UNCHANGED <<specs, now, status, cluster, work, calls, acked, failures>>
    BY <1>1 DEF IInv, TypeOK, Elect, GiveUp, FreeLease, agent
  <2> QED BY <2>1 DEF IInv, TypeOK, Works
<1>2. CASE Exit(r)
  <2>1. /\ lease' \in Replicas \cup {None} /\ work' \in [Replicas -> Work]
        /\ role' \in [Replicas -> {"candidate", "leader", "releasing"}]
        /\ UNCHANGED <<specs, now, elections, status, cluster, acked, failures>>
    BY <1>2, IdleType DEF IInv, TypeOK, Exit, FreeLease
  <2>2. calls' \subseteq Work /\ Works' \subseteq Works \cup {IdleWork}
    BY <1>2 DEF IInv, TypeOK, Works, Exit, Sent
  <2>3. IsFiniteSet(calls')
    <3>1. IsFiniteSet(Sent(r))
      BY FS_EmptySet, FS_Singleton DEF Sent
    <3> QED BY <1>2, <3>1, FS_Union DEF Exit, IInv
  <2>4. \A w \in Works' : Informed(w, status, acked) /\ ((w.desire = None) = (w.pc = "idle"))
    BY <2>2, WorkType, IdleType DEF Informed
  <2> QED BY <2>1, <2>2, <2>3, <2>4 DEF IInv, TypeOK, Works
<1> QED BY <1>1, <1>2

(* A worker goes on, and the calls on their way stay.                      *)
LEMMA WorkerStep ==
  ASSUME IInv, NEW r \in Replicas, NEW w \in Work, Goto(r, w), UNCHANGED <<specs, now, leading, calls>>,
         (w.desire = None) = (w.pc = "idle"),
         status' \in [Docs -> Document \cup {None}], cluster' \in [Docs -> Objects \cup {None}],
         acked' \in [Docs -> SUBSET (Nat \ {0})], failures' \in Nat,
         Credible(status', acked'), Informed(w, status', acked'),
         \A v \in Works : Informed(v, status', acked')
  PROVE  IInv'
<1>1. work' \in [Replicas -> Work] /\ Works' \subseteq Works \cup {w}
  BY DEF Goto, IInv, TypeOK, Works
<1>2. \A v \in Works' : Informed(v, status', acked') /\ ((v.desire = None) = (v.pc = "idle"))
  BY <1>1, WorkType
<1>3. UNCHANGED <<specs, now, lease, elections, role, calls>>
  BY DEF leading
<1> QED BY <1>1, <1>2, <1>3 DEF IInv, TypeOK, Works

LEMMA FetchPreserves ==
  ASSUME IInv, NEW r \in Replicas, NEW d \in Docs, Fetch(r, d)
  PROVE  IInv'
<1> DEFINE desire == Get(specs, d).out
           w == Fetched(desire)
<1>1. specs[d] # None /\ specs[d] \in Document /\ specs \in Collection
  BY GetType DEF Fetch, IInv, TypeOK, Collection
<1>2. /\ desire \in Desire /\ desire # None /\ desire.updateTime # 0
      /\ desire.specContent \in Objects \cup {None}
  BY <1>1, GetType, SnapshotType DEF Document
<1>3. Goto(r, w) /\ UNCHANGED <<specs, now, leading, calls, status, cluster, acked, failures>>
  BY DEF Fetch, Rest
<1> HIDE DEF desire
<1>4. /\ w \in Work /\ w.desire = desire /\ w.existing = None
      /\ w.pc \in {"read", "apply"}
      /\ w.pc = "read" => w.reason # "NoErrors"
      /\ w.pc = "apply" => desire.specContent # None
  BY <1>2 DEF Fetched, IdleWork, Work, Reasons
<1> HIDE DEF w
<1>5. Informed(w, status, acked)
  BY <1>2, <1>4 DEF Informed
<1>6. \A v \in Works : Informed(v, status, acked)
  BY WorkType
<1> QED BY <1>2, <1>3, <1>4, <1>5, <1>6, WorkerStep DEF IInv, TypeOK

LEMMA ApplyPreserves ==
  ASSUME IInv, NEW r \in Replicas, ApplySucceeds(r) \/ ApplyFails(r)
  PROVE  IInv'
<1> DEFINE v == work[r]
           d == v.desire.id
<1>1. /\ v \in Works /\ v \in Work /\ v.pc = "apply" /\ v.desire \in Desire /\ v.desire # None
      /\ d \in Docs /\ v.existing = None
      /\ v.desire.specContent \in Objects /\ v.desire.updateTime \in Nat \ {0}
  BY WorkType DEF ApplySucceeds, ApplyFails, At, Works, Informed, Desire
<1>2. Applied(v) => cluster' \in [Docs -> Objects \cup {None}]
  BY <1>1 DEF Applied, IInv, TypeOK
<1>3. \A u \in Works : Informed(u, status, acked) /\ (u.desire # None => u.desire.id \in Docs)
  BY WorkType
<1>4. CASE ApplySucceeds(r)
  <2> DEFINE w == [v EXCEPT !.pc = "read"]
  <2>1. /\ acked' \in [Docs -> SUBSET (Nat \ {0})]
        /\ v.desire.updateTime \in acked'[d]
        /\ \A e \in Docs : acked[e] \subseteq acked'[e]
    BY <1>1, <1>4 DEF ApplySucceeds, IInv, TypeOK
  <2>2. /\ w \in Work /\ w.desire = v.desire /\ w.existing = None /\ w.pc = "read"
    BY <1>1 DEF Work
  <2>3. Goto(r, w) /\ UNCHANGED <<specs, now, leading, calls, status, failures>> /\ Applied(v)
    BY <1>4 DEF ApplySucceeds, Rest
  <2> HIDE DEF w, v
  <2>4. Informed(w, status', acked')
    BY <1>1, <2>1, <2>2 DEF Informed
  <2>5. \A u \in Works : Informed(u, status', acked')
    BY <1>3, <2>1, <2>3 DEF Informed
  <2>6. Credible(status', acked')
    BY <2>1, <2>3 DEF Credible, IInv
  <2> QED BY <1>1, <1>2, <2>1, <2>2, <2>3, <2>4, <2>5, <2>6, WorkerStep DEF IInv, TypeOK
<1>5. CASE ApplyFails(r)
  <2> DEFINE w == [v EXCEPT !.pc = "read", !.reason = "KubeAPIError"]
  <2>1. /\ w \in Work /\ w.desire = v.desire /\ w.existing = None /\ w.pc = "read"
        /\ w.reason = "KubeAPIError"
    BY <1>1 DEF Work, Reasons
  <2>2. Goto(r, w) /\ UNCHANGED <<specs, now, leading, calls, status, acked>>
    BY <1>5 DEF ApplyFails, Rest
  <2>3. cluster' \in [Docs -> Objects \cup {None}] /\ failures' \in Nat
    BY <1>2, <1>5 DEF ApplyFails, IInv, TypeOK
  <2> HIDE DEF w, v
  <2>4. Informed(w, status, acked)
    BY <1>1, <2>1 DEF Informed
  <2> QED BY <1>1, <1>3, <2>1, <2>2, <2>3, <2>4, WorkerStep DEF IInv, TypeOK
<1> QED BY <1>4, <1>5

LEMMA ReadPreserves ==
  ASSUME IInv, NEW r \in Replicas, ReadStatus(r)
  PROVE  IInv'
<1> DEFINE v == work[r]
           d == v.desire.id
           existing == Get(status, d).out
           read == [v EXCEPT !.pc = "write", !.existing = existing]
           w == IF Mutated(read) = read.existing THEN IdleWork ELSE read
<1>1. /\ v \in Works /\ v \in Work /\ v.pc = "read" /\ v.desire # None /\ d \in Docs
      /\ Informed(v, status, acked)
  BY WorkType DEF ReadStatus, At, Works
<1>2. status \in Collection
  BY DEF IInv, TypeOK, Collection
<1>3. existing \in Desire \cup {None} /\ (existing = None <=> status[d] = None)
  BY <1>1, <1>2, GetType
<1>4. existing # None => existing = snapshotToDesire(d, status[d]) /\ existing.id = d
  BY <1>1, <1>2, <1>3, GetType, SnapshotType DEF Collection
<1>5. Goto(r, w) /\ UNCHANGED <<specs, now, leading, calls, status, cluster, acked, failures>>
  BY DEF ReadStatus, Rest
<1> HIDE DEF existing
<1>6. /\ read \in Work /\ read.desire = v.desire /\ read.reason = v.reason
      /\ read.pc = "write" /\ read.existing = existing
  BY <1>1, <1>3 DEF Work
<1> HIDE DEF read
<1>7. Informed(read, status, acked)
  BY <1>1, <1>3, <1>4, <1>6 DEF Informed
<1>8. w \in Work /\ Informed(w, status, acked) /\ (w.desire = None) = (w.pc = "idle")
  BY <1>1, <1>6, <1>7, IdleType DEF Informed
<1>9. \A u \in Works : Informed(u, status, acked)
  BY WorkType
<1> HIDE DEF w
<1> QED BY <1>5, <1>8, <1>9, WorkerStep DEF IInv, TypeOK

LEMMA WritePreserves ==
  ASSUME IInv, NEW r \in Replicas, WriteStatus(r) \/ StatusFails(r)
  PROVE  IInv'
<1>1. /\ Goto(r, IdleWork) /\ UNCHANGED <<specs, now, leading, calls, cluster, acked>>
      /\ failures' \in Nat
  BY DEF WriteStatus, StatusFails, Rest, IInv, TypeOK
<1>2. /\ status' \in [Docs -> Document \cup {None}] /\ Credible(status', acked)
      /\ \A v \in Works : Informed(v, status', acked)
  <2>1. CASE WriteStatus(r)
    <3>1. work[r] \in Works /\ work[r].pc = "write" /\ status' = AnswerTo(work[r]).docs
      BY <2>1 DEF WriteStatus, At, Works
    <3> QED BY <3>1, AfterWrite
  <2>2. CASE StatusFails(r)
    BY <2>2, WorkType DEF StatusFails, IInv, TypeOK
  <2> QED BY <2>1, <2>2
<1>3. Informed(IdleWork, status', acked)
  BY IdleType DEF Informed
<1> QED BY <1>1, <1>2, <1>3, IdleType, WorkerStep DEF IInv, TypeOK

LEMMA CallPreserves ==
  ASSUME IInv, NEW w \in calls, CallLands(w) \/ CallLost(w)
  PROVE  IInv'
<1>1. w \in Works /\ (w.pc = "apply" => w.desire.id \in Docs /\ w.desire.specContent \in Objects)
  BY WorkType DEF Works, Informed
<1>2. /\ calls' = calls \ {w} /\ UNCHANGED <<specs, now, lease, elections, role, work, acked, failures>>
  BY DEF CallLands, CallLost, Rest, leading
<1>3. calls' \subseteq Work /\ Works' \subseteq Works /\ IsFiniteSet(calls')
  BY <1>2, FS_RemoveElement DEF Works, IInv, TypeOK
<1>4. cluster' \in [Docs -> Objects \cup {None}]
  BY <1>1 DEF CallLands, CallLost, Applied, IInv, TypeOK
<1>5. /\ status' \in [Docs -> Document \cup {None}] /\ Credible(status', acked)
      /\ \A v \in Works : Informed(v, status', acked)
  <2>1. CASE UNCHANGED status
    BY <2>1, WorkType DEF IInv, TypeOK
  <2>2. CASE w.pc = "write" /\ status' = AnswerTo(w).docs
    BY <1>1, <2>2, AfterWrite
  <2> QED BY <2>1, <2>2 DEF CallLands, CallLost
<1>6. \A v \in Works' : Informed(v, status', acked) /\ ((v.desire = None) = (v.pc = "idle"))
  BY <1>3, <1>5, WorkType
<1> QED BY <1>2, <1>3, <1>4, <1>5, <1>6 DEF IInv, TypeOK, Works
-----------------------------------------------------------------------------
(* The theorems.                                                           *)

LEMMA InitEstablishes == Init => IInv
<1> SUFFICES ASSUME Init PROVE IInv
  OBVIOUS
<1>1. Works = {work[r] : r \in Replicas} /\ \A w \in Works : w = IdleWork
  BY DEF Init, Works
<1>2. TypeOK
  BY <1>1, IdleType DEF Init, TypeOK, Works
<1>3. IsFiniteSet(calls)
  BY FS_EmptySet DEF Init
<1>4. \A w \in Works : Informed(w, status, acked)
  BY <1>1, IdleType DEF Informed
<1>5. \A d \in Docs : specs[d] = None /\ status[d] = None
  BY DEF Init
<1> QED BY <1>2, <1>3, <1>4, <1>5 DEF IInv, AllClean, Credible

LEMMA NextPreserves == IInv /\ [Next]_vars => IInv'
<1> SUFFICES ASSUME IInv, [Next]_vars PROVE IInv'
  OBVIOUS
<1>1. CASE Next
  <2>1. None \in RawExtension /\ Extensions \subseteq RawExtension
    BY ExtensionAssumption DEF RawExtension
  <2>2. CASE \E d \in Docs : DeleteSpec(d) \/ \E ext \in Extensions : CreateSpec(d, ext) \/ ReplaceSpec(d, ext)
    BY <2>1, <2>2, IntakePreserves
  <2>3. CASE \E r \in Replicas : Elect(r) \/ GiveUp(r) \/ Exit(r)
    BY <2>3, LeadershipPreserves
  <2>4. CASE \E r \in Replicas : SyncOnce(r) \/ \E d \in Docs : Fetch(r, d)
    BY <2>4, FetchPreserves, ApplyPreserves, ReadPreserves, WritePreserves DEF SyncOnce
  <2>5. CASE \E w \in calls : CallLands(w) \/ CallLost(w)
    BY <2>5, CallPreserves
  <2> QED BY <1>1, <2>2, <2>3, <2>4, <2>5 DEF Next
<1>2. CASE UNCHANGED vars
  BY <1>2 DEF vars, leading, agent, IInv, TypeOK, Works
<1> QED BY <1>1, <1>2

THEOREM Invariant == Spec => []IInv
<1> QED BY InitEstablishes, NextPreserves, PTL DEF Spec

(* What the collections, the workers and the calls left behind hold.       *)
THEOREM TypeCorrect == Spec => []TypeOK
<1>1. IInv => TypeOK
  BY DEF IInv
<1> QED BY <1>1, Invariant, PTL

(* A status that reports success names a revision that the API server has  *)
(* acknowledged, however many replicas believe to lead (updateStatus with  *)
(* the revision that SyncOnce fetched).                                    *)
THEOREM Acknowledged == Spec => []SuccessIsAcknowledged
<1>1. IInv => SuccessIsAcknowledged
  BY DEF IInv, TypeOK, Credible, SuccessIsAcknowledged, Successful
<1> QED BY <1>1, Invariant, PTL

(* The LastUpdateTime precondition of ResourceCRUD.Replace makes everybody *)
(* replace the very status it has read, without a lease that fences.       *)
THEOREM NeverBlind == Spec => NoBlindOverwrite
<1> DEFINE Step == \A d \in Docs : status'[d] # status[d] =>
                     \E w \in Writers : w.desire.id = d /\ w.existing = Get(status, d).out
<1>1. ASSUME IInv, [Next]_vars, NEW d \in Docs, status'[d] # status[d]
      PROVE  \E w \in Writers : w.desire.id = d /\ w.existing = Get(status, d).out
  <2>1. PICK w \in Works : w.pc = "write" /\ status' = AnswerTo(w).docs
    <3>1. CASE \E r \in Replicas : SyncOnce(r)
      <4>1. PICK r \in Replicas : WriteStatus(r)
        BY <1>1, <3>1 DEF SyncOnce, ApplySucceeds, ApplyFails, ReadStatus, StatusFails
      <4> QED BY <4>1 DEF WriteStatus, At, Works
    <3>2. CASE \E w \in calls : CallLands(w) \/ CallLost(w)
      BY <1>1, <3>2 DEF CallLands, CallLost, Works
    <3>3. CASE \E r \in Replicas : Elect(r) \/ GiveUp(r) \/ Exit(r) \/ \E e \in Docs : Fetch(r, e)
      BY <1>1, <3>3 DEF Elect, GiveUp, Exit, Fetch, agent
    <3>4. CASE \E e \in Docs : DeleteSpec(e) \/ \E ext \in Extensions : CreateSpec(e, ext) \/ ReplaceSpec(e, ext)
      BY <1>1, <3>4 DEF DeleteSpec, CreateSpec, ReplaceSpec, Submit, agent
    <3> QED BY <1>1, <3>1, <3>2, <3>3, <3>4 DEF Next, vars, agent
  <2>2. PICK doc \in Document : Written(w, status', doc)
    <3>1. status' # status
      BY <1>1
    <3> QED BY <1>1, <2>1, <3>1, Answered
  <2>3. w.existing = Get(status, w.desire.id).out /\ status' = [status EXCEPT ![w.desire.id] = doc]
    BY <2>2 DEF Written
  <2>4. w.desire.id = d
    BY <1>1, <2>3 DEF IInv, TypeOK
  <2> QED BY <2>1, <2>3, <2>4 DEF Writers, Works
<1>2. IInv /\ [Next]_vars => [Step]_vars
  BY <1>1
<1> QED BY <1>2, Invariant, PTL DEF Spec, NoBlindOverwrite

(* FakeCRUD answers like ResourceCRUD in every collection that is reached, *)
(* whatever a caller sends, for content that the codec does not change.    *)
THEOREM FakeAgreement == Spec => []FakeAgrees
<1>1. IInv => specs \in Collection /\ now \in Nat
  BY DEF IInv, TypeOK, Collection
<1>2. specs \in Collection /\ now \in Nat => FakeAgrees
  BY SameGet, SameCreate, SameReplace, SameDelete DEF FakeAgrees
<1> QED BY <1>1, <1>2, Invariant, PTL

(* Replace with what Get has returned keeps every content as it was read.  *)
THEOREM RewriteIsFaithful == Spec => []RewriteKeeps
<1>1. IInv => specs \in Collection /\ now \in Nat /\ AllClean(specs)
  BY DEF IInv, TypeOK, Collection
<1>2. specs \in Collection /\ now \in Nat /\ AllClean(specs) => RewriteKeeps
  BY Rewritten DEF RewriteKeeps
<1> QED BY <1>1, <1>2, Invariant, PTL
=============================================================================
