--------------------------- MODULE FirestoreCRUD ---------------------------
(***************************************************************************)
(* One Firestore collection behind ResourceCRUD and SpecReader, with the   *)
(* manual codec of the kubeContent fields, and FakeCRUD, the test double   *)
(* that the unit tests of the controllers use in its place.                *)
(*                                                                         *)
(* A collection maps document IDs to stored documents. A caller holds a    *)
(* desire, in which a kubeContent is a RawExtension: None for nil, or its  *)
(* JSON bytes. What a struct codec does to `spec` and `status` is not      *)
(* told apart from the identity: they are opaque here. An answer is an     *)
(* error, a desire and the collection afterwards.                          *)
(***************************************************************************)
CONSTANTS
  Objects,  \* JSON objects
  Float64,  \* the object with every number rounded to a float64
  None      \* nil: no document, no RawExtension

ASSUME CodecAssumption ==
  /\ Float64 \in [Objects -> Objects]
  /\ \A o \in Objects : Float64[Float64[o]] = Float64[o]
  /\ Objects \cap {None, "", "null", "[]", "absent"} = {}
  /\ None \notin {"", "null", "[]", "absent"}

(* JSON bytes: none, the literal null, an array, or an object.             *)
Raw == {"", "null", "[]"} \cup Objects
RawExtension == Raw \cup {None}

(* A field of a document that a RawExtension is stored in.                 *)
Stored == {"absent", "null"} \cup Objects
-----------------------------------------------------------------------------
(* The codec.                                                              *)

(* json.Unmarshal into a map: an array is an error.                        *)
Unmarshals(ext) == ext # "[]"

(* No bytes, or null, give a nil map, which Firestore stores as null.      *)
rawExtToMap(ext) == IF ext \in Objects THEN Float64[ext] ELSE "null"

mapToRawExt(v) == IF v = "null" THEN None ELSE v

(* kubeContentWriteMap leaves the field of a nil out; for Replace,         *)
(* kubeContentWriteUpdates deletes it.                                     *)
Field(ext) == IF ext = None THEN "absent" ELSE rawExtToMap(ext)

(* Mutant: Replace does not touch the field of a nil.                      *)
UpdatedIfSet(field, ext) == IF ext = None THEN field ELSE rawExtToMap(ext)
Updated(field, ext) == Field(ext)

(* Mutant: whatever is found in the field is taken for its content.        *)
FromAnything(field) == field
FromField(field) == IF field = "absent" THEN None ELSE mapToRawExt(field)
-----------------------------------------------------------------------------
(* Documents and desires.                                                  *)

toFirestoreMap(obj, t) ==
  [spec |-> obj.spec, status |-> obj.status,
   specContent |-> Field(obj.specContent), statusContent |-> Field(obj.statusContent),
   updateTime |-> t, createTime |-> t]

Updates(doc, obj, t) ==
  [doc EXCEPT !.spec = obj.spec, !.status = obj.status,
              !.specContent = Updated(@, obj.specContent),
              !.statusContent = Updated(@, obj.statusContent),
              !.updateTime = t]

(* Mutant: the two contents are mixed up.                                  *)
snapshotToSwapped(id, doc) ==
  [id |-> id, spec |-> doc.spec, status |-> doc.status,
   specContent |-> FromField(doc.statusContent), statusContent |-> FromField(doc.specContent),
   updateTime |-> doc.updateTime, createTime |-> doc.createTime]
snapshotToDesire(id, doc) ==
  [id |-> id, spec |-> doc.spec, status |-> doc.status,
   specContent |-> FromField(doc.specContent), statusContent |-> FromField(doc.statusContent),
   updateTime |-> doc.updateTime, createTime |-> doc.createTime]

Writable(obj) == Unmarshals(obj.specContent) /\ Unmarshals(obj.statusContent)

Refused(docs, err) == [err |-> err, out |-> None, docs |-> docs]
Answer(docs, out) == [err |-> "nil", out |-> out, docs |-> docs]
-----------------------------------------------------------------------------
(* ResourceCRUD. SpecReader is its Get and its List.                       *)

Get(docs, id) ==
  IF docs[id] = None THEN Refused(docs, "NotFound")
  ELSE Answer(docs, snapshotToDesire(id, docs[id]))

Create(docs, obj, t) ==
  IF obj.id = "" \/ ~Writable(obj) THEN Refused(docs, "error")
  ELSE IF docs[obj.id] # None THEN Refused(docs, "AlreadyExists")
  ELSE Answer([docs EXCEPT ![obj.id] = toFirestoreMap(obj, t)],
              [obj EXCEPT !.updateTime = t, !.createTime = t])

(* Update with the LastUpdateTime precondition.                            *)
Replace(docs, obj, t) ==
  IF ~Writable(obj) THEN Refused(docs, "error")
  ELSE IF docs[obj.id] = None THEN Refused(docs, "NotFound")
  ELSE IF docs[obj.id].updateTime # obj.updateTime THEN Refused(docs, "FailedPrecondition")
  ELSE Answer([docs EXCEPT ![obj.id] = Updates(@, obj, t)], [obj EXCEPT !.updateTime = t])

(* Deleting what is not there is no error.                                 *)
Delete(docs, id) == Answer([docs EXCEPT ![id] = None], None)
-----------------------------------------------------------------------------
(* FakeCRUD: it stores desires, and nothing is converted.                  *)

FakeGet(store, id) ==
  IF store[id] = None THEN Refused(store, "NotFound") ELSE Answer(store, store[id])

FakeCreate(store, obj, t) ==
  LET stored == [obj EXCEPT !.updateTime = t, !.createTime = t] IN
    IF obj.id = "" THEN Refused(store, "error")
    ELSE IF store[obj.id] # None THEN Refused(store, "AlreadyExists")
    ELSE Answer([store EXCEPT ![obj.id] = stored], stored)

FakeReplace(store, obj, t) ==
  LET replacement == [obj EXCEPT !.updateTime = t, !.createTime = store[obj.id].createTime] IN
    IF store[obj.id] = None THEN Refused(store, "NotFound")
    ELSE IF store[obj.id].updateTime # obj.updateTime
         THEN Refused(store, "FailedPrecondition")
    ELSE Answer([store EXCEPT ![obj.id] = replacement], replacement)

FakeDelete(store, id) ==
  IF store[id] = None THEN Refused(store, "NotFound")
  ELSE Answer([store EXCEPT ![id] = None], None)
=============================================================================
