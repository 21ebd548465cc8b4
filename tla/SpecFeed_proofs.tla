--------------------------- MODULE SpecFeed_proofs ---------------------------
(***************************************************************************)
(* Nothing that the informer has seen is dropped on the way to a worker.   *)
(***************************************************************************)
EXTENDS SpecFeed, TLAPS

(* The part of the type that matters, and that no document comes twice:    *)
(* whatever the informer has seen of a document was in the database.       *)
Known ==
  /\ db \in [Docs -> past \cup {NoDoc}]
  /\ seen \in [Docs -> past \cup {NoDoc}]
  /\ done \in [Docs -> past \cup {NoDoc}]

IInv == Known /\ NothingMissed
-----------------------------------------------------------------------------
(* A commit makes a revision that the informer has not seen.               *)
LEMMA ChangeKeeps ==
  ASSUME IInv, NEW d \in Docs, Change(d)
  PROVE  IInv'
<1> USE DEF IInv, Known
<1>1. past \subseteq past' /\ db'[d] \in (past' \ past) \cup {NoDoc}
  BY DEF Change
<1>2. UNCHANGED <<seen, owed, done>>
  BY DEF Change
<1>3. ASSUME NEW e \in Docs PROVE db'[e] \in past' \cup {NoDoc}
  <2>1. CASE e = d BY <2>1, <1>1
  <2>2. CASE e # d BY <2>2, <1>1 DEF Change
  <2> QED BY <2>1, <2>2
<1>4. Known'
  BY <1>1, <1>2, <1>3 DEF Change
<1>5. ASSUME NEW e \in Docs, db'[e] # NoDoc, seen'[e] = db'[e], e \notin owed'
      PROVE  done'[e] = db'[e]
  <2>1. CASE e = d
    <3>1. seen[d] \in past \cup {NoDoc} BY <2>1
    <3> QED BY <3>1, <2>1, <1>1, <1>2, <1>5
  <2>2. CASE e # d
    BY <2>2, <1>2, <1>5 DEF Change, NothingMissed
  <2> QED BY <2>1, <2>2
<1> QED BY <1>4, <1>5 DEF NothingMissed

(* What the informer sees anew is owed.                                    *)
LEMMA CatchKeeps ==
  ASSUME IInv, NEW S \in SUBSET Docs, Catch(S)
  PROVE  IInv'
<1> USE DEF IInv, Known
<1>1. Known'
  BY DEF Catch
<1>2. ASSUME NEW e \in Docs, db'[e] # NoDoc, seen'[e] = db'[e], e \notin owed'
      PROVE  done'[e] = db'[e]
  <2>1. e \notin owed /\ db'[e] = db[e] /\ done'[e] = done[e]
    BY <1>2 DEF Catch
  <2>2. seen[e] = db[e]
    <3>1. CASE e \in S BY <3>1, <2>1, <1>2 DEF Catch, Matters
    <3>2. CASE e \notin S BY <3>2, <2>1, <1>2 DEF Catch
    <3> QED BY <3>1, <3>2
  <2> QED BY <2>1, <2>2, <1>2 DEF NothingMissed
<1> QED BY <1>1, <1>2 DEF NothingMissed

(* A worker that takes a document off the list has read it.                *)
LEMMA ReconcileKeeps ==
  ASSUME IInv, NEW d \in Docs, Reconcile(d)
  PROVE  IInv'
<1> USE DEF IInv, Known
<1>1. Known'
  BY DEF Reconcile
<1>2. ASSUME NEW e \in Docs, db'[e] # NoDoc, seen'[e] = db'[e], e \notin owed'
      PROVE  done'[e] = db'[e]
  <2>1. CASE e = d BY <2>1 DEF Reconcile
  <2>2. CASE e # d
    <3>1. e \notin owed BY <2>2, <1>2 DEF Reconcile
    <3> QED BY <3>1, <2>2, <1>2 DEF Reconcile, NothingMissed
  <2> QED BY <2>1, <2>2
<1> QED BY <1>1, <1>2 DEF NothingMissed

(* What the informer has seen is owed or has been reconciled, for any      *)
(* documents, commits, resyncs and restarts: no handler, gate or queue     *)
(* that implements the feed loses a revision.                              *)
THEOREM NothingLost == Spec => []NothingMissed
<1>1. Init => IInv
  BY DEF Init, IInv, Known, NothingMissed
<1>2. IInv /\ [Next]_vars => IInv'
  <2> SUFFICES ASSUME IInv, [Next]_vars PROVE IInv'
    OBVIOUS
  <2>1. ASSUME NEW d \in Docs, Change(d) PROVE IInv'
    BY <2>1, ChangeKeeps
  <2>2. ASSUME NEW d \in Docs, Reconcile(d) PROVE IInv'
    BY <2>2, ReconcileKeeps
  <2>3. ASSUME NEW S \in SUBSET Docs, Catch(S) PROVE IInv'
    BY <2>3, CatchKeeps
  <2>4. ASSUME NEW S \in SUBSET Docs, Revisit(S) PROVE IInv'
    BY <2>4 DEF Revisit, IInv, Known, NothingMissed
  <2>5. CASE Restart
    BY <2>5 DEF Restart, IInv, Known, NothingMissed
  <2>6. CASE UNCHANGED vars
    BY <2>6 DEF vars, IInv, Known, NothingMissed
  <2> QED BY <2>1, <2>2, <2>3, <2>4, <2>5, <2>6 DEF Next
<1>3. IInv => NothingMissed
  BY DEF IInv
<1> QED BY <1>1, <1>2, <1>3, PTL DEF Spec
=============================================================================
