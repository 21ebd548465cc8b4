------------------------------ MODULE SpecFeed ------------------------------
(***************************************************************************)
(* What the controllers rely on between the specs database and their work  *)
(* queues, whatever mechanism provides it: an informer that sees documents *)
(* late and may skip revisions, a set of documents that are owed a         *)
(* reconciliation, and workers that read the database themselves. The      *)
(* modules of the controllers use it as Deliver, Resync, the queue and the *)
(* fetch; SpecInformer implements it.                                      *)
(***************************************************************************)
CONSTANTS
  Docs,      \* document IDs
  Document,  \* what a document may hold
  Stopped,   \* documents of a kind whose deletion has a handler
  NoDoc      \* no document

VARIABLES
  db,    \* the specs database
  past,  \* every document it has held so far
  seen,  \* what the informer has seen of it
  owed,  \* documents that a worker will look at
  done   \* what the workers last read, in this life of the process

vars == <<db, past, seen, owed, done>>

Init ==
  /\ db = [d \in Docs |-> NoDoc] /\ seen = db /\ done = db
  /\ past = {} /\ owed = {}

(* The backend writes or deletes a document. Every commit gives it a new   *)
(* UpdateTime, so no document comes twice.                                 *)
Change(d) ==
  /\ db' \in [Docs -> Document \cup {NoDoc}]
  /\ past \subseteq past' /\ db'[d] \in (past' \ past) \cup {NoDoc}
  /\ \A e \in Docs \ {d} : db'[e] = db[e]
  /\ UNCHANGED <<seen, owed, done>>

(* A deletion matters only to the documents of Stopped.                    *)
Matters(d, doc) == doc # NoDoc \/ d \in Stopped

(* The informer catches up with some documents, and owes those that moved. *)
Catch(S) ==
  /\ seen' = [d \in Docs |-> IF d \in S THEN db[d] ELSE seen[d]]
  /\ owed' = owed \cup {d \in S : seen[d] # db[d] /\ Matters(d, db[d])}
  /\ UNCHANGED <<db, past, done>>

(* A resync.                                                               *)
Revisit(S) == owed' = owed \cup S /\ UNCHANGED <<db, past, seen, done>>

(* A worker reads the document; it may be owed once more already.          *)
Reconcile(d) ==
  /\ d \in owed
  /\ done' = [done EXCEPT ![d] = db[d]]
  /\ owed' \in {owed, owed \ {d}}
  /\ UNCHANGED <<db, past, seen>>

(* The process stops and starts again.                                     *)
Restart ==
  /\ seen' = [d \in Docs |-> NoDoc] /\ done' = seen' /\ owed' = {}
  /\ UNCHANGED <<db, past>>

Next ==
  \/ \E d \in Docs : Change(d) \/ Reconcile(d)
  \/ \E S \in SUBSET Docs : Catch(S) \/ Revisit(S)
  \/ Restart

Spec == Init /\ [][Next]_vars

(* What the informer has seen is either owed a reconciliation or has been  *)
(* reconciled at a revision at least as new: nothing that reaches the      *)
(* agent is dropped on the way to a worker.                                *)
NothingMissed ==
  \A d \in Docs :
    (db[d] # NoDoc /\ seen[d] = db[d] /\ d \notin owed) => done[d] = db[d]
=============================================================================
