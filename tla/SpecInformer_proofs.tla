------------------------- MODULE SpecInformer_proofs -------------------------
(***************************************************************************)
(* The informers, their handlers and the cool-down gate implement the      *)
(* feed, and bring every document back to a worker in time: for any        *)
(* collections, documents, periods, failures and restarts.                 *)
(***************************************************************************)
EXTENDS SpecInformer, TLAPS

-----------------------------------------------------------------------------
(* What lies between the listener and the handlers of one document: the    *)
(* store st and the events p on their way, as operators of the two.        *)

Ahead(st, p, i) == IF i = 1 THEN st ELSE p[i - 1].doc
LastSeen(st, p) == Ahead(st, p, Len(p) + 1)
Arrives(st, p, d) ==
  \E i \in DOMAIN p : p[i].doc # Ahead(st, p, i) /\ (p[i].doc # NoDoc \/ d \in Stopped)

LEMMA OfTheDocument ==
  ASSUME NEW d
  PROVE  /\ Heading(d) = LastSeen(store[d], pipe[d])
         /\ Arriving(d) <=> Arrives(store[d], pipe[d], d)
BY DEF Heading, Arriving, Before, Ahead, LastSeen, Arrives

LEMMA NothingOnItsWay ==
  ASSUME NEW st, NEW d
  PROVE  LastSeen(st, << >>) = st /\ ~Arrives(st, << >>, d)
BY DEF LastSeen, Ahead, Arrives

(* An event that is queued is what the informer has seen last.             *)
LEMMA Queued ==
  ASSUME NEW st, NEW p \in Seq(Event), NEW e \in Event, NEW d
  PROVE  LET q == Append(p, e) IN
           /\ q \in Seq(Event) /\ q # << >>
           /\ LastSeen(st, q) = e.doc
           /\ Arrives(st, q, d) <=>
                \/ Arrives(st, p, d)
                \/ e.doc # LastSeen(st, p) /\ (e.doc # NoDoc \/ d \in Stopped)
<1> DEFINE q == Append(p, e)
           n == Len(p)
<1>1. /\ q \in Seq(Event) /\ n \in Nat /\ Len(q) = n + 1 /\ DOMAIN q = 1..(n + 1)
      /\ DOMAIN p = 1..n /\ q[n + 1] = e /\ \A i \in 1..n : q[i] = p[i]
  OBVIOUS
<1> HIDE DEF q, n
<1>2. LastSeen(st, q) = e.doc
  BY <1>1 DEF LastSeen, Ahead
<1>3. \A i \in 1..(n + 1) : Ahead(st, q, i) = Ahead(st, p, i)
  BY <1>1 DEF Ahead
<1>4. q # << >>
  BY <1>1
<1>5. Arrives(st, q, d) <=>
        \/ \E i \in 1..n : p[i].doc # Ahead(st, p, i) /\ (p[i].doc # NoDoc \/ d \in Stopped)
        \/ e.doc # Ahead(st, p, n + 1) /\ (e.doc # NoDoc \/ d \in Stopped)
  <2>1. \A i : i \in 1..(n + 1) <=> i \in 1..n \/ i = n + 1
    BY <1>1
  <2> QED BY <1>1, <1>3, <2>1 DEF Arrives
<1> QED BY <1>1, <1>2, <1>4, <1>5 DEF LastSeen, Arrives, q, n

(* Handling the first event changes nothing of what has been seen, and     *)
(* only that event arrives.                                                *)
LEMMA Handled ==
  ASSUME NEW st, NEW p \in Seq(Event), p # << >>, NEW d
  PROVE  LET new == Head(p).doc IN
           /\ Head(p) \in Event /\ Tail(p) \in Seq(Event)
           /\ LastSeen(new, Tail(p)) = LastSeen(st, p)
           /\ Arrives(st, p, d) <=>
                \/ Arrives(new, Tail(p), d)
                \/ new # st /\ (new # NoDoc \/ d \in Stopped)
<1> DEFINE q == Tail(p)
           n == Len(p)
           new == Head(p).doc
<1>1. /\ q \in Seq(Event) /\ n \in Nat \ {0} /\ Len(q) = n - 1 /\ DOMAIN q = 1..(n - 1)
      /\ DOMAIN p = 1..n /\ Head(p) = p[1] /\ \A i \in 1..(n - 1) : q[i] = p[i + 1]
  OBVIOUS
<1>2. p[1] \in Event
  BY <1>1
<1> HIDE DEF q, n
<1>3. \A i \in 1..n : Ahead(new, q, i) = Ahead(st, p, i + 1)
  BY <1>1 DEF Ahead
<1>4. LastSeen(new, q) = LastSeen(st, p)
  BY <1>1, <1>3 DEF LastSeen
<1>5. Arrives(new, q, d) <=>
        \E i \in 2..n : p[i].doc # Ahead(st, p, i) /\ (p[i].doc # NoDoc \/ d \in Stopped)
  <2>1. ASSUME NEW i \in 1..(n - 1)
        PROVE  i + 1 \in 2..n /\ q[i] = p[i + 1] /\ Ahead(new, q, i) = Ahead(st, p, i + 1)
    BY <1>1, <1>3
  <2>2. ASSUME NEW i \in 2..n
        PROVE  i - 1 \in 1..(n - 1) /\ q[i - 1] = p[i] /\ Ahead(new, q, i - 1) = Ahead(st, p, i)
    BY <1>1, <1>3
  <2> HIDE DEF new
  <2>3. ASSUME Arrives(new, q, d)
        PROVE  \E i \in 2..n : p[i].doc # Ahead(st, p, i) /\ (p[i].doc # NoDoc \/ d \in Stopped)
    <3>1. PICK i \in 1..(n - 1) : q[i].doc # Ahead(new, q, i) /\ (q[i].doc # NoDoc \/ d \in Stopped)
      BY <1>1, <2>3 DEF Arrives
    <3> QED BY <2>1, <3>1
  <2>4. ASSUME NEW i \in 2..n, p[i].doc # Ahead(st, p, i), p[i].doc # NoDoc \/ d \in Stopped
        PROVE  Arrives(new, q, d)
    <3>1. q[i - 1].doc # Ahead(new, q, i - 1) /\ (q[i - 1].doc # NoDoc \/ d \in Stopped)
      BY <2>2, <2>4
    <3> QED BY <1>1, <2>2, <3>1 DEF Arrives
  <2> QED BY <2>3, <2>4
<1>6. Arrives(st, p, d) <=>
        \/ \E i \in 2..n : p[i].doc # Ahead(st, p, i) /\ (p[i].doc # NoDoc \/ d \in Stopped)
        \/ new # st /\ (new # NoDoc \/ d \in Stopped)
  <2>1. \A i : i \in 1..n <=> i \in 2..n \/ i = 1
    BY <1>1
  <2>2. Ahead(st, p, 1) = st
    BY DEF Ahead
  <2> QED BY <1>1, <2>1, <2>2 DEF Arrives
<1> QED BY <1>1, <1>2, <1>4, <1>5, <1>6 DEF q

(* The events on their way carry the document x.                           *)
Carries(p, x) == \E i \in DOMAIN p : p[i].doc = x

LEMMA CarriedOn ==
  ASSUME NEW p \in Seq(Event), NEW x
  PROVE  /\ \A e \in Event : Carries(Append(p, e), x) => Carries(p, x) \/ x = e.doc
         /\ p # << >> => Carries(p, Head(p).doc) /\ (Carries(Tail(p), x) => Carries(p, x))
         /\ ~Carries(<< >>, x)
<1>1. ASSUME NEW e \in Event, Carries(Append(p, e), x)
      PROVE  Carries(p, x) \/ x = e.doc
  <2>1. PICK i \in 1..(Len(p) + 1) : Append(p, e)[i].doc = x
    BY <1>1 DEF Carries
  <2>2. (i \in 1..Len(p) /\ Append(p, e)[i] = p[i]) \/ Append(p, e)[i] = e
    OBVIOUS
  <2> QED BY <2>1, <2>2 DEF Carries
<1>2. ASSUME p # << >>, Carries(Tail(p), x) PROVE Carries(p, x)
  <2>1. PICK i \in DOMAIN Tail(p) : Tail(p)[i].doc = x
    BY <1>2 DEF Carries
  <2>2. i + 1 \in DOMAIN p /\ Tail(p)[i] = p[i + 1]
    BY <1>2
  <2> QED BY <2>1, <2>2 DEF Carries
<1>3. p # << >> => 1 \in DOMAIN p /\ Head(p) = p[1]
  OBVIOUS
<1> QED BY <1>1, <1>2, <1>3 DEF Carries
-----------------------------------------------------------------------------
(* The inductive invariant.                                                *)

(* x is, or was a moment ago, the document d.                              *)
Of(x, d) == x = db[d] \/ x = store[d] \/ Carries(pipe[d], x)

(* A commit number stands for one content: what the handlers take for the  *)
(* same document is the same.                                              *)
OneVersion(d) ==
  \A x, y \in Document :
    Of(x, d) /\ Of(y, d) => x.rev <= now /\ (x.rev = y.rev => x = y)

(* A gate that is closed was closed by the delivery of the document, and   *)
(* one that is open lets the next resync through.                          *)
Cooling(d) == CanSync(d) \/ age[d] <= Cooldown - gate[d]
Watched(d) == phase[CollectionOf[d]] = "watch" /\ store[d] # NoDoc /\ pipe[d] = << >>
Due(d) ==
  Watched(d) /\ CanSync(d) => age[d] <= Cooldown + ResyncPeriod - timer[CollectionOf[d]]

IInv ==
  /\ TypeOK
  /\ \A d \in Docs : OneVersion(d)
  /\ \A d \in Docs : Cooling(d) /\ Due(d)
-----------------------------------------------------------------------------
(* The handlers.                                                           *)

LEMMA Enqueued ==
  ASSUME TypeOK, NEW S \in SUBSET Docs, enqueue(S)
  PROVE  /\ queue' = queue \cup S /\ gate' = gate
         /\ age' \in [Docs -> 0..Oldest]
         /\ \A d \in Docs : age'[d] = IF d \in S THEN 0 ELSE age[d]
<1>1. 0 \in 0..Oldest
  BY TimeAssumption DEF Oldest
<1> QED BY <1>1 DEF enqueue, Renewed, TypeOK

LEMMA EnqueuedWithCooldown ==
  ASSUME TypeOK, NEW S \in SUBSET Docs, enqueueWithCooldown(S)
  PROVE  /\ queue' = queue \cup {d \in S : CanSync(d)}
         /\ age' \in [Docs -> 0..Oldest] /\ gate' \in [Docs -> -1..Cooldown \cup {NoDoc}]
         /\ \A d \in Docs :
              IF d \in S /\ CanSync(d) THEN age'[d] = 0 /\ gate'[d] = Cooldown
              ELSE age'[d] = age[d] /\ gate'[d] = gate[d]
<1>1. 0 \in 0..Oldest /\ Cooldown \in -1..Cooldown
  BY TimeAssumption DEF Oldest
<1>2. /\ queue' = queue \cup {d \in S : CanSync(d)}
      /\ age' = [d \in Docs |-> IF d \in S /\ CanSync(d) THEN 0 ELSE age[d]]
      /\ gate' = [d \in Docs |-> IF d \in S /\ CanSync(d) THEN Cooldown ELSE gate[d]]
  BY DEF enqueueWithCooldown, Renewed, Stamped
<1> QED BY <1>1, <1>2 DEF TypeOK

(* A handler hands the document on if it is another one than the store     *)
(* held, or if the gate is open.                                           *)
LEMMA PopHandles ==
  ASSUME IInv, NEW d \in Docs, Pop(d)
  PROVE  LET new == Head(pipe[d]).doc IN
           /\ \E S \in SUBSET {d} :
                /\ queue' = queue \cup S
                /\ new # store[d] /\ (new # NoDoc \/ d \in Stopped) => d \in S
           /\ age' \in [Docs -> 0..Oldest] /\ gate' \in [Docs -> -1..Cooldown \cup {NoDoc}]
           /\ \A e \in Docs \ {d} : age'[e] = age[e] /\ gate'[e] = gate[e]
           /\ \/ age'[d] = 0 /\ gate'[d] \in {gate[d], Cooldown}
              \/ age'[d] = age[d] /\ gate'[d] = gate[d] /\ (new = NoDoc \/ ~CanSync(d))
<1> DEFINE new == Head(pipe[d]).doc
<1>1. TypeOK /\ gate \in [Docs -> -1..Cooldown \cup {NoDoc}] /\ age \in [Docs -> 0..Oldest]
  BY DEF IInv, TypeOK
<1>2. pipe[d] # << >> /\ pipe[d] \in Seq(Event)
  BY DEF Pop, IInv, TypeOK
<1>3. new \in Document \cup {NoDoc} /\ store[d] \in Document \cup {NoDoc}
  <2>1. Head(pipe[d]) \in Event
    BY <1>2
  <2> QED BY <1>1, <2>1 DEF Event, TypeOK
<1>4. new # NoDoc /\ store[d] # NoDoc /\ new.rev = store[d].rev => new = store[d]
  <2>1. Of(new, d) /\ Of(store[d], d)
    BY <1>2, CarriedOn DEF Of
  <2> QED BY <1>3, <2>1 DEF IInv, OneVersion
<1> HIDE DEF new
<1>5. CASE new # NoDoc /\ store[d] = NoDoc /\ enqueue({d})
  BY <1>1, <1>5, Enqueued DEF new
<1>6. CASE new # NoDoc /\ store[d] # NoDoc /\ Changed(store[d], new) /\ enqueue(Notified({d}))
  BY <1>1, <1>6, Enqueued DEF new, Notified
<1>7. CASE new # NoDoc /\ store[d] # NoDoc /\ ~Changed(store[d], new) /\ enqueueWithCooldown(Notified({d}))
  <2>1. enqueueWithCooldown({d}) /\ new = store[d]
    BY <1>4, <1>7 DEF Notified, Changed
  <2> QED BY <1>1, <1>7, <2>1, EnqueuedWithCooldown DEF new
<1>8. CASE new = NoDoc /\ enqueue(IF store[d] = NoDoc THEN {} ELSE {d} \cap Stopped)
  <2> DEFINE S == IF store[d] = NoDoc THEN {} ELSE {d} \cap Stopped
  <2>1. S \in SUBSET Docs /\ S \in SUBSET {d} /\ (new # store[d] /\ d \in Stopped => d \in S)
    BY <1>8
  <2>2. enqueue(S)
    BY <1>8
  <2> HIDE DEF S
  <2> QED BY <1>1, <1>8, <2>1, <2>2, Enqueued DEF new
<1> QED BY <1>5, <1>6, <1>7, <1>8 DEF Pop, handleUpdate, new
-----------------------------------------------------------------------------
(* The reflector.                                                          *)

(* Events that carry the documents of S as they are now are queued.        *)
Extended(S) ==
  /\ pipe' \in [Docs -> Seq(Event)]
  /\ \A d \in Docs \ S : pipe'[d] = pipe[d]
  /\ \A d \in S : \E e \in Event : e.doc = db[d] /\ pipe'[d] = Append(pipe[d], e)

LEMMA Extends ==
  ASSUME IInv, NEW S \in SUBSET Docs, NEW initial \in BOOLEAN,
         pipe' = [d \in Docs |-> IF d \in S
                                 THEN Append(pipe[d], [doc |-> db[d], initial |-> initial])
                                 ELSE pipe[d]]
  PROVE  Extended(S)
<1>1. ASSUME NEW d \in Docs
      PROVE  /\ [doc |-> db[d], initial |-> initial] \in Event
             /\ [doc |-> db[d], initial |-> initial].doc = db[d]
             /\ pipe[d] \in Seq(Event)
             /\ Append(pipe[d], [doc |-> db[d], initial |-> initial]) \in Seq(Event)
  <2>1. [doc |-> db[d], initial |-> initial] \in Event
    BY DEF IInv, TypeOK, Event
  <2>2. pipe[d] \in Seq(Event)
    BY DEF IInv, TypeOK
  <2> QED BY <2>1, <2>2
<1>2. pipe' \in [Docs -> Seq(Event)]
  BY <1>1
<1> QED BY <1>1, <1>2 DEF Extended

(* A list queues all it finds, and every document that is known.           *)
LEMMA ListExtends ==
  ASSUME IInv, NEW c \in Collections, List(c)
  PROVE  \E S \in SUBSET Docs : Extended(S) /\ \A d \in DocsOf(c) : store[d] # NoDoc => d \in S
<1> DEFINE S == {d \in Docs : d \in DocsOf(c) /\ (db[d] # NoDoc \/ Known(d))}
<1>1. pipe' = [d \in Docs |->
                 IF d \in S THEN Append(pipe[d], [doc |-> db[d], initial |-> c \notin listed])
                 ELSE pipe[d]]
  BY DEF List
<1>2. \A d \in DocsOf(c) : store[d] # NoDoc => d \in S
  BY DEF Known, DocsOf
<1> HIDE DEF S
<1>3. S \in SUBSET Docs
  BY DEF S
<1> QED BY <1>1, <1>2, <1>3, Extends

LEMMA SnapshotExtends ==
  ASSUME IInv, NEW c \in Collections, Snapshot(c)
  PROVE  \E S \in SUBSET Docs : Extended(S)
<1> DEFINE S == {d \in Docs : d \in DocsOf(c) /\ db[d] # view[d] /\ ChangeDoc(d).ok}
<1>1. pipe' = [d \in Docs |->
                 IF d \in S THEN Append(pipe[d], [doc |-> db[d], initial |-> FALSE]) ELSE pipe[d]]
  BY DEF Snapshot, DocsOf
<1>2. S \in SUBSET Docs
  OBVIOUS
<1> HIDE DEF S
<1> QED BY <1>1, <1>2, Extends
-----------------------------------------------------------------------------
(* Types.                                                                  *)

(* A commit has a new number, a removal leaves nothing.                    *)
LEMMA Committed ==
  ASSUME IInv, NEW d \in Docs, Commit(d) \/ Remove(d)
  PROVE  /\ now \in Nat /\ now' \in Nat /\ now' \in {now, now + 1}
         /\ \E doc \in Document \cup {NoDoc} :
              /\ db' = [db EXCEPT ![d] = doc]
              /\ doc # NoDoc => now' = now + 1 /\ doc.rev = now + 1
         /\ UNCHANGED <<phase, view, timer, listed, pipe, store, gate, queue, age, started, done, failures>>
<1>1. now \in Nat /\ NoDoc \notin Document
  BY NoDocAssumption DEF IInv, TypeOK
<1>2. CASE Commit(d)
  <2>1. PICK ok \in BOOLEAN : db' = [db EXCEPT ![d] = [rev |-> now + 1, ok |-> ok]]
    BY <1>2 DEF Commit
  <2> DEFINE doc == [rev |-> now + 1, ok |-> ok]
  <2>2. doc \in Document /\ doc # NoDoc /\ doc.rev = now + 1 /\ db' = [db EXCEPT ![d] = doc]
    BY <1>1, <2>1 DEF Document
  <2> HIDE DEF doc
  <2>3. now' = now + 1 /\ UNCHANGED <<stream, pipe, handled, workers, failures>>
    BY <1>2 DEF Commit
  <2>4. \E x \in Document \cup {NoDoc} :
          db' = [db EXCEPT ![d] = x] /\ (x # NoDoc => now' = now + 1 /\ x.rev = now + 1)
    BY <2>2, <2>3
  <2>5. UNCHANGED <<phase, view, timer, listed, pipe, store, gate, queue, age, started, done, failures>>
    BY <2>3 DEF stream, handled, workers
  <2>6. now' \in Nat /\ now' \in {now, now + 1}
    BY <1>1, <2>3
  <2> QED BY <1>1, <2>4, <2>5, <2>6
<1>3. CASE Remove(d)
  BY <1>1, <1>3 DEF Remove, stream, handled, workers
<1> QED BY <1>2, <1>3

LEMMA CommitTypes ==
  ASSUME IInv, NEW d \in Docs, Commit(d) \/ Remove(d)
  PROVE  TypeOK'
<1>1. PICK doc \in Document \cup {NoDoc} : db' = [db EXCEPT ![d] = doc]
  BY Committed
<1>2. db' \in [Docs -> Document \cup {NoDoc}] /\ now' \in Nat
  BY <1>1, Committed DEF IInv, TypeOK
<1>3. UNCHANGED <<phase, view, timer, listed, pipe, store, gate, queue, age, started, done, failures>>
  BY Committed
<1> QED BY <1>2, <1>3 DEF IInv, TypeOK

LEMMA ReflectorTypes ==
  ASSUME IInv, NEW c \in Collections, List(c) \/ Snapshot(c) \/ Break(c) \/ Resync(c)
  PROVE  TypeOK'
<1>1. CASE List(c)
  <2>1. pipe' \in [Docs -> Seq(Event)]
    BY <1>1, ListExtends DEF Extended
  <2>2. /\ phase' \in [Collections -> {"list", "watch"}] /\ listed' \subseteq Collections
        /\ view' \in [Docs -> Document \cup {NoDoc}]
        /\ timer' \in [Collections -> 0..ResyncPeriod]
        /\ UNCHANGED <<db, now, store, gate, queue, age, started, done, failures>>
    BY <1>1, TimeAssumption DEF List, IInv, TypeOK, handled, workers
  <2> QED BY <2>1, <2>2 DEF IInv, TypeOK
<1>2. CASE Snapshot(c)
  <2>1. pipe' \in [Docs -> Seq(Event)]
    BY <1>2, SnapshotExtends DEF Extended
  <2>2. /\ view' \in [Docs -> Document \cup {NoDoc}]
        /\ UNCHANGED <<db, now, phase, timer, listed, store, gate, queue, age, started, done, failures>>
    BY <1>2 DEF Snapshot, IInv, TypeOK, handled, workers
  <2> QED BY <2>1, <2>2 DEF IInv, TypeOK
<1>3. CASE Break(c)
  BY <1>3 DEF Break, IInv, TypeOK, handled, workers
<1>4. CASE Resync(c)
  <2> DEFINE S == {d \in DocsOf(c) : store[d] # NoDoc /\ pipe[d] = << >>}
  <2>1. S \in SUBSET Docs /\ enqueueWithCooldown(S) /\ TypeOK
    BY <1>4 DEF Resync, Notified, DocsOf, IInv
  <2> HIDE DEF S
  <2>2. /\ queue' \subseteq Docs /\ age' \in [Docs -> 0..Oldest]
        /\ gate' \in [Docs -> -1..Cooldown \cup {NoDoc}]
    BY <2>1, EnqueuedWithCooldown DEF TypeOK
  <2>3. /\ timer' \in [Collections -> 0..ResyncPeriod]
        /\ UNCHANGED <<db, now, phase, view, listed, pipe, store, started, done, failures>>
    BY <1>4, TimeAssumption DEF Resync, workers, IInv, TypeOK
  <2> QED BY <2>2, <2>3 DEF IInv, TypeOK
<1> QED BY <1>1, <1>2, <1>3, <1>4

LEMMA PopTypes ==
  ASSUME IInv, NEW d \in Docs, Pop(d)
  PROVE  TypeOK'
<1>1. pipe[d] \in Seq(Event) /\ pipe[d] # << >> /\ Tail(pipe[d]) \in Seq(Event)
  BY Handled DEF Pop, IInv, TypeOK
<1>2. Head(pipe[d]).doc \in Document \cup {NoDoc}
  <2>1. Head(pipe[d]) \in Event
    BY <1>1, Handled
  <2> QED BY <2>1 DEF Event
<1>3. /\ pipe' \in [Docs -> Seq(Event)] /\ store' \in [Docs -> Document \cup {NoDoc}]
      /\ UNCHANGED <<db, now, phase, view, timer, listed, started, done, failures>>
  BY <1>1, <1>2 DEF Pop, IInv, TypeOK, stream, workers
<1>4. /\ queue' \subseteq Docs /\ age' \in [Docs -> 0..Oldest]
      /\ gate' \in [Docs -> -1..Cooldown \cup {NoDoc}]
  BY PopHandles DEF IInv, TypeOK
<1> QED BY <1>3, <1>4 DEF IInv, TypeOK

LEMMA OtherTypes ==
  ASSUME IInv,
         \/ Tick \/ Start \/ Restart
         \/ \E d \in Docs : Reconcile(d)
  PROVE  TypeOK'
<1>1. CASE Tick
  <2>1. timer' \in [Collections -> 0..ResyncPeriod]
    BY <1>1, TimeAssumption DEF Tick, IInv, TypeOK
  <2>2. gate' \in [Docs -> -1..Cooldown \cup {NoDoc}]
    <3>1. ASSUME NEW d \in Docs PROVE Elapsed(gate[d]) \in -1..Cooldown \cup {NoDoc}
      BY TimeAssumption DEF Elapsed, IInv, TypeOK
    <3> QED BY <1>1, <3>1 DEF Tick
  <2>3. age' \in [Docs -> 0..Oldest]
    BY <1>1, TimeAssumption DEF Tick, Oldest, IInv, TypeOK
  <2> QED BY <1>1, <2>1, <2>2, <2>3 DEF Tick, IInv, TypeOK, workers
<1>2. CASE Restart
  <2>1. 0 \in 0..Oldest /\ ResyncPeriod \in 0..ResyncPeriod
    BY TimeAssumption DEF Oldest
  <2>2. pipe' \in [Docs -> Seq(Event)]
    BY <1>2 DEF Restart
  <2>3. /\ store' \in [Docs -> Document \cup {NoDoc}] /\ view' = store' /\ done' = store'
        /\ gate' \in [Docs -> -1..Cooldown \cup {NoDoc}]
    BY <1>2 DEF Restart, NoDocs
  <2>4. /\ phase' \in [Collections -> {"list", "watch"}]
        /\ timer' \in [Collections -> 0..ResyncPeriod] /\ age' \in [Docs -> 0..Oldest]
        /\ listed' = {} /\ queue' = {} /\ started' = FALSE /\ failures' \in Nat
        /\ UNCHANGED <<db, now>>
    BY <1>2, <2>1 DEF Restart, IInv, TypeOK
  <2> QED BY <2>2, <2>3, <2>4 DEF IInv, TypeOK
<1>3. CASE Start
  BY <1>3 DEF Start, IInv, TypeOK, stream, handled
<1>4. CASE \E d \in Docs : Reconcile(d)
  BY <1>4 DEF Reconcile, IInv, TypeOK, stream
<1> QED BY <1>1, <1>2, <1>3, <1>4
-----------------------------------------------------------------------------
(* One content for every commit number.                                    *)

LEMMA NoNewVersion ==
  ASSUME IInv, NEW d \in Docs, now' \in {now, now + 1},
         \A x \in Document : Of(x, d)' => Of(x, d)
  PROVE  OneVersion(d)'
<1>1. now \in Nat /\ \A x \in Document : x.rev \in Nat
  BY DEF IInv, TypeOK, Document
<1> QED BY <1>1 DEF IInv, OneVersion

LEMMA CommitVersions ==
  ASSUME IInv, NEW d \in Docs, Commit(d) \/ Remove(d), NEW e \in Docs
  PROVE  OneVersion(e)'
<1>1. PICK doc \in Document \cup {NoDoc} :
        db' = [db EXCEPT ![d] = doc] /\ (doc # NoDoc => now' = now + 1 /\ doc.rev = now + 1)
  BY Committed
<1>2. now \in Nat /\ now' \in {now, now + 1} /\ UNCHANGED <<store, pipe>>
  BY Committed
<1>3. db' \in [Docs -> Document \cup {NoDoc}] /\ NoDoc \notin Document
  BY CommitTypes, NoDocAssumption DEF TypeOK
<1>4. \A x \in Document : Of(x, e)' => Of(x, e) \/ (doc # NoDoc /\ x = doc)
  <2>1. db'[e] = db[e] \/ db'[e] = doc
    BY <1>1, <1>3 DEF IInv, TypeOK
  <2> QED BY <1>2, <1>3, <2>1 DEF Of
<1>5. \A x \in Document : Of(x, e) => x.rev <= now /\ x.rev \in Nat
  BY DEF IInv, OneVersion, Document
<1>6. ASSUME NEW x \in Document, NEW y \in Document, Of(x, e)', Of(y, e)'
      PROVE  x.rev <= now' /\ (x.rev = y.rev => x = y)
  <2>1. CASE Of(x, e) /\ Of(y, e)
    BY <1>2, <1>5, <2>1 DEF IInv, OneVersion
  <2>2. CASE ~(Of(x, e) /\ Of(y, e))
    <3>1. doc # NoDoc /\ now' = now + 1 /\ doc.rev = now + 1
      BY <1>1, <1>4, <1>6, <2>2
    <3>2. (x = doc \/ x.rev <= now) /\ (y = doc \/ y.rev <= now)
      BY <1>4, <1>5, <1>6
    <3>3. x.rev \in Nat /\ y.rev \in Nat
      BY DEF Document
    <3> QED BY <1>2, <1>4, <1>6, <2>2, <3>1, <3>2, <3>3, <1>5
  <2> QED BY <2>1, <2>2
<1> QED BY <1>6 DEF OneVersion

LEMMA ReflectorVersions ==
  ASSUME IInv, NEW c \in Collections, List(c) \/ Snapshot(c) \/ Break(c) \/ Resync(c), NEW d \in Docs
  PROVE  OneVersion(d)'
<1>1. UNCHANGED <<db, now, store>>
  BY DEF List, Snapshot, Break, Resync, handled
<1>2. pipe[d] \in Seq(Event)
  BY DEF IInv, TypeOK
<1>3. ASSUME NEW x, Carries(pipe[d], x)' PROVE Carries(pipe[d], x) \/ x = db[d]
  <2>1. CASE List(c) \/ Snapshot(c)
    <3>1. PICK S \in SUBSET Docs : Extended(S)
      BY <2>1, ListExtends, SnapshotExtends
    <3>2. CASE d \in S
      <4>1. PICK e \in Event : e.doc = db[d] /\ pipe'[d] = Append(pipe[d], e)
        BY <3>1, <3>2 DEF Extended
      <4>2. Carries(Append(pipe[d], e), x)
        BY <1>3, <4>1 DEF Carries
      <4> QED BY <1>2, <4>1, <4>2, CarriedOn
    <3>3. CASE d \notin S
      BY <1>3, <3>1, <3>3 DEF Extended, Carries
    <3> QED BY <3>2, <3>3
  <2>2. CASE Break(c) \/ Resync(c)
    BY <1>3, <2>2 DEF Break, Resync, Carries
  <2> QED BY <2>1, <2>2
<1> QED BY <1>1, <1>3, NoNewVersion DEF Of

LEMMA OtherVersions ==
  ASSUME IInv, NEW d \in Docs,
         \/ Tick \/ Start \/ Restart
         \/ \E e \in Docs : Reconcile(e) \/ Pop(e)
  PROVE  OneVersion(d)'
<1>1. CASE \E e \in Docs : Pop(e)
  <2>1. PICK e \in Docs : Pop(e)
    BY <1>1
  <2>2. pipe[e] # << >> /\ pipe[e] \in Seq(Event) /\ UNCHANGED <<db, now>>
    BY <2>1 DEF Pop, IInv, TypeOK
  <2>3. CASE d = e
    <3>1. pipe'[e] = Tail(pipe[e]) /\ store'[e] = Head(pipe[e]).doc
      BY <2>1 DEF Pop, IInv, TypeOK
    <3>2. ASSUME NEW x, Carries(pipe[e], x)' PROVE Carries(pipe[e], x)
      <4>1. Carries(Tail(pipe[e]), x)
        BY <3>1, <3>2 DEF Carries
      <4> QED BY <2>2, <4>1, CarriedOn
    <3>3. Carries(pipe[e], Head(pipe[e]).doc)
      BY <2>2, CarriedOn
    <3> QED BY <2>2, <2>3, <3>1, <3>2, <3>3, NoNewVersion DEF Of
  <2>4. CASE d # e
    <3>1. pipe'[d] = pipe[d] /\ store'[d] = store[d]
      BY <2>1, <2>4 DEF Pop, IInv, TypeOK
    <3>2. \A x : Carries(pipe[d], x)' => Carries(pipe[d], x)
      BY <3>1 DEF Carries
    <3> QED BY <2>2, <3>1, <3>2, NoNewVersion DEF Of
  <2> QED BY <2>3, <2>4
<1>2. CASE Restart
  <2>1. \A x : ~Carries(pipe[d], x)'
    BY <1>2 DEF Restart, Carries
  <2>2. NoDoc \notin Document /\ store'[d] = NoDoc /\ UNCHANGED <<db, now>>
    BY <1>2, NoDocAssumption DEF Restart, NoDocs
  <2> QED BY <2>1, <2>2, NoNewVersion DEF Of
<1>3. CASE Tick \/ Start \/ \E e \in Docs : Reconcile(e)
  <2>1. UNCHANGED <<db, now, store, pipe>>
    BY <1>3 DEF Tick, Start, Reconcile, handled
  <2>2. \A x : Of(x, d)' => Of(x, d)
    BY <2>1 DEF Of, Carries
  <2> QED BY <2>1, <2>2, NoNewVersion
<1> QED BY <1>1, <1>2, <1>3
-----------------------------------------------------------------------------
(* The gates and the resync timers.                                        *)

LEMMA Times ==
  ASSUME IInv, NEW d \in Docs
  PROVE  /\ CollectionOf[d] \in Collections
         /\ timer[CollectionOf[d]] \in 0..ResyncPeriod /\ age[d] \in 0..Oldest
         /\ gate[d] \in -1..Cooldown \cup {NoDoc} /\ NoDoc \notin Int
         /\ Cooldown \in Nat /\ ResyncPeriod \in Nat
         /\ Cooling(d) /\ Due(d)
BY CollectionAssumption, NoDocAssumption, TimeAssumption DEF IInv, TypeOK

(* Nothing moves for a document that is not touched.                       *)
LEMMA Untouched ==
  ASSUME IInv, NEW d \in Docs, gate'[d] = gate[d], age'[d] = age[d],
         Watched(d)' => Watched(d) /\ timer'[CollectionOf[d]] = timer[CollectionOf[d]]
  PROVE  Cooling(d)' /\ Due(d)'
<1>1. Cooling(d) /\ Due(d)
  BY Times
<1>2. CanSync(d)' <=> CanSync(d)
  BY DEF CanSync
<1> QED BY <1>1, <1>2 DEF Cooling, Due

LEMMA ListGates ==
  ASSUME IInv, NEW c \in Collections, List(c) \/ Snapshot(c) \/ Break(c), NEW d \in Docs
  PROVE  Cooling(d)' /\ Due(d)'
<1>1. UNCHANGED <<gate, age, store>>
  BY DEF List, Snapshot, Break, handled
<1>2. pipe[d] \in Seq(Event) /\ phase \in [Collections -> {"list", "watch"}]
  BY DEF IInv, TypeOK
<1>3. \A S \in SUBSET Docs : Extended(S) /\ pipe'[d] = << >> => d \notin S /\ pipe[d] = << >>
  BY <1>2, Queued DEF Extended
<1>4. CASE List(c)
  <2>1. PICK S \in SUBSET Docs : Extended(S) /\ \A e \in DocsOf(c) : store[e] # NoDoc => e \in S
    BY <1>4, ListExtends
  <2>2. CASE CollectionOf[d] = c
    <3>1. ~Watched(d)'
      BY <1>1, <1>3, <2>1, <2>2 DEF Watched, DocsOf
    <3> QED BY <1>1, <3>1, Untouched
  <2>3. CASE CollectionOf[d] # c
    <3>1. /\ phase'[CollectionOf[d]] = phase[CollectionOf[d]]
          /\ timer'[CollectionOf[d]] = timer[CollectionOf[d]]
      BY <1>4, <2>3, Times DEF List, IInv, TypeOK
    <3> QED BY <1>1, <1>3, <2>1, <3>1, Untouched DEF Watched
  <2> QED BY <2>2, <2>3
<1>5. CASE Snapshot(c)
  <2>1. PICK S \in SUBSET Docs : Extended(S)
    BY <1>5, SnapshotExtends
  <2>2. UNCHANGED <<phase, timer>>
    BY <1>5 DEF Snapshot
  <2> QED BY <1>1, <1>3, <2>1, <2>2, Untouched DEF Watched
<1>6. CASE Break(c)
  <2>1. phase'[CollectionOf[d]] = "watch" => phase[CollectionOf[d]] = "watch"
    BY <1>2, <1>6, Times DEF Break
  <2>2. UNCHANGED <<pipe, timer>>
    BY <1>6 DEF Break
  <2> QED BY <1>1, <2>1, <2>2, Untouched DEF Watched
<1> QED BY <1>4, <1>5, <1>6

(* The resync closes every gate it finds open, and starts the period anew. *)
LEMMA ResyncGates ==
  ASSUME IInv, NEW c \in Collections, Resync(c), NEW d \in Docs
  PROVE  Cooling(d)' /\ Due(d)'
<1> DEFINE S == {e \in DocsOf(c) : store[e] # NoDoc /\ pipe[e] = << >>}
<1>1. S \in SUBSET Docs /\ enqueueWithCooldown(S) /\ TypeOK
  BY DEF Resync, Notified, DocsOf, IInv
<1>2. /\ UNCHANGED <<phase, store, pipe>>
      /\ CollectionOf[d] # c => timer'[CollectionOf[d]] = timer[CollectionOf[d]]
  BY Times DEF Resync, IInv, TypeOK
<1>3. IF d \in S /\ CanSync(d) THEN age'[d] = 0 /\ gate'[d] = Cooldown
      ELSE age'[d] = age[d] /\ gate'[d] = gate[d]
  <2> HIDE DEF S
  <2> QED BY <1>1, EnqueuedWithCooldown
<1>4. CASE d \in S /\ CanSync(d)
  <2>1. age'[d] = 0 /\ gate'[d] = Cooldown /\ ~CanSync(d)'
    BY <1>3, <1>4, Times DEF CanSync
  <2> QED BY <2>1, Times DEF Cooling, Due
<1>5. CASE ~(d \in S /\ CanSync(d))
  <2>1. age'[d] = age[d] /\ gate'[d] = gate[d]
    BY <1>3, <1>5
  <2>2. CASE CanSync(d) /\ CollectionOf[d] = c
    <3>1. ~Watched(d)'
      BY <1>2, <1>5, <2>2 DEF Watched, DocsOf
    <3> QED BY <2>1, <3>1, Untouched
  <2>3. CASE ~CanSync(d)
    BY <2>1, <2>3, Times DEF CanSync, Cooling, Due
  <2>4. CASE CollectionOf[d] # c
    <3>1. Watched(d)' => Watched(d)
      BY <1>2 DEF Watched
    <3> QED BY <1>2, <2>1, <2>4, <3>1, Untouched
  <2> QED BY <2>2, <2>3, <2>4
<1> QED BY <1>4, <1>5

LEMMA TickGates ==
  ASSUME IInv, Tick, NEW d \in Docs
  PROVE  Cooling(d)' /\ Due(d)'
<1> DEFINE c == CollectionOf[d]
<1>1. /\ gate'[d] = Elapsed(gate[d]) /\ age'[d] <= age[d] + 1
      /\ UNCHANGED <<phase, store, pipe>>
      /\ phase[c] = "watch" => timer'[c] = timer[c] - 1
      /\ age'[d] \in Int
  BY Times, TimeAssumption DEF Tick, Oldest
<1>2. /\ c \in Collections /\ timer[c] \in 0..ResyncPeriod /\ age[d] \in Int
      /\ gate[d] \in -1..Cooldown \cup {NoDoc} /\ NoDoc \notin Int
      /\ Cooldown \in Nat /\ ResyncPeriod \in Nat
      /\ Cooling(d) /\ Due(d)
  BY Times
<1>3. Watched(d)' => Watched(d) /\ timer'[c] = timer[c] - 1
  BY <1>1 DEF Watched
<1> HIDE DEF c
<1>4. CASE CanSync(d)
  <2>1. gate'[d] = gate[d] /\ CanSync(d)'
    BY <1>1, <1>4 DEF Elapsed, CanSync
  <2>2. Watched(d)' => age'[d] <= Cooldown + ResyncPeriod - timer'[c]
    BY <1>1, <1>2, <1>3, <1>4 DEF Due, c
  <2> QED BY <2>1, <2>2 DEF Cooling, Due, c
<1>5. CASE ~CanSync(d)
  <2>1. gate[d] \in 0..Cooldown /\ gate'[d] = gate[d] - 1 /\ age[d] <= Cooldown - gate[d]
    BY <1>1, <1>2, <1>5 DEF Elapsed, CanSync, Cooling
  <2>2. age'[d] <= Cooldown - gate'[d]
    BY <1>1, <1>2, <2>1
  <2>3. CASE gate[d] = 0
    <3>1. CanSync(d)'
      BY <2>1, <2>3 DEF CanSync
    <3>2. Watched(d)' => age'[d] <= Cooldown + ResyncPeriod - timer'[c]
      BY <1>1, <1>2, <1>3, <2>1, <2>2, <2>3
    <3> QED BY <3>1, <3>2 DEF Cooling, Due, c
  <2>4. CASE gate[d] > 0
    <3>1. ~CanSync(d)'
      BY <1>2, <2>1, <2>4 DEF CanSync
    <3> QED BY <2>2, <3>1 DEF Cooling, Due
  <2> QED BY <2>1, <2>3, <2>4
<1> QED BY <1>4, <1>5

LEMMA OtherGates ==
  ASSUME IInv, NEW d \in Docs,
         \/ Start \/ Restart
         \/ \E e \in Docs : Commit(e) \/ Remove(e) \/ Reconcile(e) \/ Pop(e)
  PROVE  Cooling(d)' /\ Due(d)'
<1>1. CASE Pop(d)
  <2> DEFINE new == Head(pipe[d]).doc
  <2>1. store'[d] = new /\ UNCHANGED <<phase, timer>>
    BY <1>1 DEF Pop, IInv, TypeOK, stream
  <2>2. CASE age'[d] = 0 /\ gate'[d] \in {gate[d], Cooldown}
    BY <2>1, <2>2, Times DEF Cooling, Due, CanSync
  <2>3. CASE age'[d] = age[d] /\ gate'[d] = gate[d] /\ (new = NoDoc \/ ~CanSync(d))
    BY <2>1, <2>3, Times DEF Cooling, Due, CanSync, Watched
  <2> QED BY <1>1, <2>2, <2>3, PopHandles
<1>2. CASE \E e \in Docs \ {d} : Pop(e)
  <2>1. PICK e \in Docs \ {d} : Pop(e)
    BY <1>2
  <2>2. store'[d] = store[d] /\ pipe'[d] = pipe[d] /\ UNCHANGED <<phase, timer>>
    BY <2>1 DEF Pop, IInv, TypeOK, stream
  <2>3. age'[d] = age[d] /\ gate'[d] = gate[d]
    BY <2>1, PopHandles
  <2> QED BY <2>2, <2>3, Untouched DEF Watched
<1>3. CASE Restart
  <2>1. store'[d] = NoDoc /\ gate'[d] = NoDoc
    BY <1>3 DEF Restart, NoDocs
  <2> QED BY <2>1 DEF Cooling, Due, CanSync, Watched
<1>4. CASE Start \/ \E e \in Docs : Commit(e) \/ Remove(e) \/ Reconcile(e)
  <2>1. UNCHANGED <<phase, timer, store, pipe, gate, age>>
    BY <1>4, Committed DEF Start, Reconcile, stream, handled
  <2> QED BY <2>1, Untouched DEF Watched
<1> QED BY <1>1, <1>2, <1>3, <1>4
-----------------------------------------------------------------------------
(* Every step is a step of the feed.                                       *)

LEMMA CommitIsChange ==
  ASSUME IInv, NEW d \in Docs, Commit(d) \/ Remove(d)
  PROVE  Feed!Change(d)
<1>1. PICK doc \in Document \cup {NoDoc} :
        db' = [db EXCEPT ![d] = doc] /\ (doc # NoDoc => now' = now + 1 /\ doc.rev = now + 1)
  BY Committed
<1>2. /\ now \in Nat /\ now' \in {now, now + 1}
      /\ UNCHANGED <<store, pipe, queue, done>>
  BY Committed
<1>3. db \in [Docs -> Document \cup {NoDoc}] /\ db' \in [Docs -> Document \cup {NoDoc}]
  BY CommitTypes DEF IInv, TypeOK
<1>4. db'[d] = doc /\ \A e \in Docs \ {d} : db'[e] = db[e]
  BY <1>1, <1>3
<1>5. [rev : 1..now, ok : BOOLEAN] \subseteq [rev : 1..now', ok : BOOLEAN]
  BY <1>2
<1>6. doc # NoDoc => doc \in [rev : 1..now', ok : BOOLEAN] \ [rev : 1..now, ok : BOOLEAN]
  BY <1>1, <1>2 DEF Document
<1>7. /\ [e \in Docs |-> Heading(e)]' = [e \in Docs |-> Heading(e)]
      /\ (queue \cup {e \in Docs : Arriving(e)})' = queue \cup {e \in Docs : Arriving(e)}
  BY <1>2 DEF Heading, Arriving, Before
<1> QED BY <1>2, <1>3, <1>4, <1>5, <1>6, <1>7 DEF Feed!Change

(* The mapped variables of a document that no event is queued or handled   *)
(* of stay as they are.                                                    *)
LEMMA SameOnItsWay ==
  ASSUME NEW d, store'[d] = store[d], pipe'[d] = pipe[d]
  PROVE  Heading(d)' = Heading(d) /\ (Arriving(d)' <=> Arriving(d))
BY DEF Heading, Arriving, Before

LEMMA ReadIsCatch ==
  ASSUME IInv, NEW S \in SUBSET Docs, Extended(S), UNCHANGED <<db, now, store, queue, done>>
  PROVE  Feed!Catch(S)
<1>1. ASSUME NEW d \in Docs
      PROVE  /\ Heading(d)' = IF d \in S THEN db[d] ELSE Heading(d)
             /\ Arriving(d)' <=>
                  \/ Arriving(d)
                  \/ d \in S /\ Heading(d) # db[d] /\ (db[d] # NoDoc \/ d \in Stopped)
  <2>1. CASE d \in S
    <3>1. PICK e \in Event : e.doc = db[d] /\ pipe'[d] = Append(pipe[d], e)
      BY <2>1 DEF Extended
    <3>2. pipe[d] \in Seq(Event) /\ store'[d] = store[d]
      BY DEF IInv, TypeOK
    <3>3. Heading(d)' = LastSeen(store[d], Append(pipe[d], e))
          /\ (Arriving(d)' <=> Arrives(store[d], Append(pipe[d], e), d))
      BY <3>1, <3>2 DEF Heading, Arriving, Before, LastSeen, Arrives, Ahead
    <3>4. /\ Heading(d) = LastSeen(store[d], pipe[d])
          /\ Arriving(d) <=> Arrives(store[d], pipe[d], d)
      BY OfTheDocument
    <3> QED BY <2>1, <3>1, <3>2, <3>3, <3>4, Queued
  <2>2. CASE d \notin S
    BY <2>2, SameOnItsWay DEF Extended
  <2> QED BY <2>1, <2>2
<1>2. [d \in Docs |-> Heading(d)]' =
        [d \in Docs |-> IF d \in S THEN db[d] ELSE [e \in Docs |-> Heading(e)][d]]
  BY <1>1
<1>3. (queue \cup {d \in Docs : Arriving(d)})' =
        (queue \cup {d \in Docs : Arriving(d)})
          \cup {d \in S : [e \in Docs |-> Heading(e)][d] # db[d] /\ (db[d] # NoDoc \/ d \in Stopped)}
  BY <1>1
<1> QED BY <1>2, <1>3 DEF Feed!Catch, Feed!Matters

(* A handler owes nothing that was not owed, unless it is a resync.        *)
LEMMA PopIsRevisit ==
  ASSUME IInv, NEW d \in Docs, Pop(d)
  PROVE  \E S \in SUBSET Docs : Feed!Revisit(S)
<1> DEFINE new == Head(pipe[d]).doc
<1>1. PICK S \in SUBSET {d} :
        queue' = queue \cup S /\ (new # store[d] /\ (new # NoDoc \/ d \in Stopped) => d \in S)
  BY PopHandles
<1>2. /\ pipe[d] # << >> /\ pipe[d] \in Seq(Event)
      /\ store'[d] = new /\ pipe'[d] = Tail(pipe[d])
      /\ \A e \in Docs \ {d} : store'[e] = store[e] /\ pipe'[e] = pipe[e]
      /\ UNCHANGED <<db, now, done>>
  BY DEF Pop, IInv, TypeOK, workers
<1>3. /\ Heading(d)' = LastSeen(new, Tail(pipe[d]))
      /\ Arriving(d)' <=> Arrives(new, Tail(pipe[d]), d)
  BY <1>2 DEF Heading, Arriving, Before, LastSeen, Arrives, Ahead
<1>4. /\ Heading(d) = LastSeen(store[d], pipe[d])
      /\ Arriving(d) <=> Arrives(store[d], pipe[d], d)
  BY OfTheDocument
<1>5. /\ Heading(d)' = Heading(d)
      /\ Arriving(d) <=> Arriving(d)' \/ (new # store[d] /\ (new # NoDoc \/ d \in Stopped))
  BY <1>2, <1>3, <1>4, Handled
<1> HIDE DEF new
<1>6. \A e \in Docs : Heading(e)' = Heading(e) /\ (e # d => (Arriving(e)' <=> Arriving(e)))
  BY <1>2, <1>5, SameOnItsWay
<1>7. [e \in Docs |-> Heading(e)]' = [e \in Docs |-> Heading(e)]
  BY <1>6
<1>8. (queue \cup {e \in Docs : Arriving(e)})' = (queue \cup {e \in Docs : Arriving(e)}) \cup S
  BY <1>1, <1>5, <1>6
<1> QED BY <1>1, <1>2, <1>7, <1>8 DEF Feed!Revisit

LEMMA ResyncIsRevisit ==
  ASSUME IInv, NEW c \in Collections, Resync(c)
  PROVE  \E S \in SUBSET Docs : Feed!Revisit(S)
<1> DEFINE R == {d \in DocsOf(c) : store[d] # NoDoc /\ pipe[d] = << >>}
           S == {d \in R : CanSync(d)}
<1>1. R \in SUBSET Docs /\ enqueueWithCooldown(R) /\ TypeOK
  BY DEF Resync, Notified, DocsOf, IInv
<1> HIDE DEF R
<1>2. queue' = queue \cup S /\ S \in SUBSET Docs
  BY <1>1 DEF enqueueWithCooldown
<1> HIDE DEF S
<1>3. UNCHANGED <<db, now, store, pipe, done>>
  BY DEF Resync, workers
<1>4. \A d \in Docs : Heading(d)' = Heading(d) /\ (Arriving(d)' <=> Arriving(d))
  BY <1>3, SameOnItsWay
<1>5. [e \in Docs |-> Heading(e)]' = [e \in Docs |-> Heading(e)]
  BY <1>4
<1>6. (queue \cup {e \in Docs : Arriving(e)})' = (queue \cup {e \in Docs : Arriving(e)}) \cup S
  BY <1>2, <1>4
<1> QED BY <1>2, <1>3, <1>5, <1>6 DEF Feed!Revisit

LEMMA ReconcileIsReconcile ==
  ASSUME IInv, NEW d \in Docs, Reconcile(d)
  PROVE  Feed!Reconcile(d)
<1>1. /\ queue' = queue \ {d} /\ d \in queue /\ done' = [done EXCEPT ![d] = db[d]]
      /\ UNCHANGED <<db, now, store, pipe>>
  BY DEF Reconcile
<1>2. \A e \in Docs : Heading(e)' = Heading(e) /\ (Arriving(e)' <=> Arriving(e))
  BY <1>1, SameOnItsWay
<1>3. [e \in Docs |-> Heading(e)]' = [e \in Docs |-> Heading(e)]
  BY <1>2
<1> DEFINE owed == queue \cup {e \in Docs : Arriving(e)}
           after == (queue \cup {e \in Docs : Arriving(e)})'
<1>4. after = (queue \ {d}) \cup {e \in Docs : Arriving(e)}
  BY <1>1, <1>2
<1>5. after \in {owed, owed \ {d}}
  <2>1. CASE Arriving(d)
    BY <1>1, <1>4, <2>1
  <2>2. CASE ~Arriving(d)
    BY <1>1, <1>4, <2>2
  <2> QED BY <2>1, <2>2
<1> QED BY <1>1, <1>3, <1>5 DEF Feed!Reconcile

LEMMA RestartIsRestart ==
  ASSUME IInv, Restart
  PROVE  Feed!Restart
<1>1. \A d \in Docs : store'[d] = NoDoc /\ pipe'[d] = << >>
  BY DEF Restart, NoDocs
<1>2. \A d \in Docs : Heading(d)' = NoDoc /\ ~Arriving(d)'
  <2>1. ASSUME NEW d \in Docs PROVE Heading(d)' = NoDoc /\ ~Arriving(d)'
    <3>1. Heading(d)' = LastSeen(NoDoc, << >>) /\ (Arriving(d)' <=> Arrives(NoDoc, << >>, d))
      BY <1>1 DEF Heading, Arriving, Before, LastSeen, Arrives, Ahead
    <3> QED BY <3>1, NothingOnItsWay
  <2> QED BY <2>1
<1>3. [d \in Docs |-> Heading(d)]' = [d \in Docs |-> NoDoc]
  BY <1>2
<1>4. (queue \cup {d \in Docs : Arriving(d)})' = {}
  BY <1>2 DEF Restart
<1> QED BY <1>3, <1>4 DEF Feed!Restart, Restart, NoDocs

LEMMA OthersStutter ==
  ASSUME UNCHANGED <<db, now, store, pipe, queue, done>>
  PROVE  UNCHANGED Feed!vars
BY DEF Feed!vars, Heading, Arriving, Before
-----------------------------------------------------------------------------
(* The theorems.                                                           *)

LEMMA InitEstablishes == Init => IInv
<1> SUFFICES ASSUME Init PROVE IInv
  OBVIOUS
<1>1. \A d \in Docs : db[d] = NoDoc /\ store[d] = NoDoc /\ gate[d] = NoDoc /\ pipe[d] = << >>
  BY DEF Init, Fresh, NoDocs
<1>2. TypeOK
  <2>1. 0 \in 0..Oldest /\ ResyncPeriod \in 0..ResyncPeriod
    BY TimeAssumption DEF Oldest
  <2>2. /\ db \in [Docs -> Document \cup {NoDoc}] /\ store = db /\ view = db /\ done = db
        /\ gate \in [Docs -> -1..Cooldown \cup {NoDoc}] /\ pipe \in [Docs -> Seq(Event)]
    BY DEF Init, Fresh, NoDocs
  <2> QED BY <2>1, <2>2 DEF Init, Fresh, TypeOK
<1>3. ASSUME NEW d \in Docs PROVE OneVersion(d) /\ Cooling(d) /\ Due(d)
  <2>1. \A x \in Document : ~Of(x, d)
    BY <1>1, NoDocAssumption, CarriedOn DEF Of, Carries
  <2> QED BY <1>1, <2>1 DEF OneVersion, Cooling, Due, CanSync, Watched
<1> QED BY <1>2, <1>3 DEF IInv

LEMMA NextPreserves == IInv /\ [Next]_vars => IInv'
<1> SUFFICES ASSUME IInv, [Next]_vars PROVE IInv'
  OBVIOUS
<1>1. CASE \E d \in Docs : Commit(d) \/ Remove(d)
  BY <1>1, CommitTypes, CommitVersions, OtherGates DEF IInv
<1>2. CASE \E d \in Docs : Pop(d)
  BY <1>2, PopTypes, OtherVersions, OtherGates DEF IInv
<1>3. CASE \E c \in Collections : List(c) \/ Snapshot(c) \/ Break(c) \/ Resync(c)
  BY <1>3, ReflectorTypes, ReflectorVersions, ListGates, ResyncGates DEF IInv
<1>4. CASE Tick
  BY <1>4, OtherTypes, OtherVersions, TickGates DEF IInv
<1>5. CASE Start \/ Restart \/ \E d \in Docs : Reconcile(d)
  BY <1>5, OtherTypes, OtherVersions, OtherGates DEF IInv
<1>6. CASE UNCHANGED vars
  <2>1. UNCHANGED <<db, now, phase, view, timer, listed, pipe, store, gate, queue, age, started, done, failures>>
    BY <1>6 DEF vars, stream, handled, workers
  <2> QED BY <2>1 DEF IInv, TypeOK, OneVersion, Of, Carries, Cooling, Due, CanSync, Watched
<1> QED BY <1>1, <1>2, <1>3, <1>4, <1>5, <1>6 DEF Next

THEOREM Invariant == Spec => []IInv
<1> QED BY InitEstablishes, NextPreserves, PTL DEF Spec

(* What the informers, the handlers and the workers hold.                  *)
THEOREM TypeCorrect == Spec => []TypeOK
<1>1. IInv => TypeOK
  BY DEF IInv
<1> QED BY <1>1, Invariant, PTL

(* README, "Database structure": the resync period triggers the handlers   *)
(* through the cool-down (CooldownChecker.CanSync in front of the queue).  *)
THEOREM Revisits == Spec => []RevisitedInTime
<1>1. ASSUME IInv, NEW d \in Docs, Watched(d)
      PROVE  age[d] <= Cooldown + ResyncPeriod
  <2>1. CASE CanSync(d)
    BY <1>1, <2>1, Times DEF Due
  <2>2. CASE ~CanSync(d)
    BY <1>1, <2>2, Times DEF Cooling, CanSync
  <2> QED BY <2>1, <2>2
<1>2. IInv => RevisitedInTime
  BY <1>1 DEF RevisitedInTime, Watched
<1> QED BY <1>2, Invariant, PTL

(* Informer, handlers and gate implement the feed of the controllers.      *)
THEOREM Refinement == Spec => Implements
<1>1. Init => Feed!Init
  <2> SUFFICES ASSUME Init PROVE Feed!Init
    OBVIOUS
  <2>1. /\ db = [d \in Docs |-> NoDoc] /\ done = db /\ queue = {} /\ now = 0
        /\ \A d \in Docs : store[d] = NoDoc /\ pipe[d] = << >>
    BY DEF Init, Fresh, NoDocs
  <2>2. \A d \in Docs : Heading(d) = NoDoc /\ ~Arriving(d)
    BY <2>1, OfTheDocument, NothingOnItsWay
  <2>3. [d \in Docs |-> Heading(d)] = [d \in Docs |-> NoDoc]
    BY <2>2
  <2>4. queue \cup {d \in Docs : Arriving(d)} = {}
    BY <2>1, <2>2
  <2>5. [rev : 1..now, ok : BOOLEAN] = {}
    BY <2>1
  <2> QED BY <2>1, <2>3, <2>4, <2>5 DEF Feed!Init
<1>2. IInv /\ [Next]_vars => [Feed!Next]_(Feed!vars)
  <2> SUFFICES ASSUME IInv, [Next]_vars PROVE [Feed!Next]_(Feed!vars)
    OBVIOUS
  <2>1. CASE \E d \in Docs : Commit(d) \/ Remove(d)
    BY <2>1, CommitIsChange DEF Feed!Next
  <2>2. CASE \E d \in Docs : Pop(d)
    BY <2>2, PopIsRevisit DEF Feed!Next
  <2>3. CASE \E d \in Docs : Reconcile(d)
    BY <2>3, ReconcileIsReconcile DEF Feed!Next
  <2>4. ASSUME NEW c \in Collections, List(c) \/ Snapshot(c) PROVE Feed!Next
    <3>1. PICK S \in SUBSET Docs : Extended(S)
      BY <2>4, ListExtends, SnapshotExtends
    <3>2. UNCHANGED <<db, now, store, queue, done>>
      BY <2>4 DEF List, Snapshot, handled, workers
    <3> QED BY <3>1, <3>2, ReadIsCatch DEF Feed!Next
  <2>5. CASE \E c \in Collections : Resync(c)
    BY <2>5, ResyncIsRevisit DEF Feed!Next
  <2>6. CASE Restart
    BY <2>6, RestartIsRestart DEF Feed!Next
  <2>7. CASE Tick \/ Start \/ (\E c \in Collections : Break(c)) \/ UNCHANGED vars
    <3>1. UNCHANGED <<db, now, store, pipe, queue, done>>
      BY <2>7 DEF Tick, Start, Break, vars, handled, workers
    <3> QED BY <3>1, OthersStutter
  <2> QED BY <2>1, <2>2, <2>3, <2>4, <2>5, <2>6, <2>7 DEF Next
<1> QED BY <1>1, <1>2, Invariant, PTL DEF Spec, Implements, Feed!Spec

(* Nothing that an informer has seen is dropped on the way to a worker:    *)
(* what the feed promises, the informers and the handlers keep.            *)
FeedProofs == INSTANCE SpecFeed_proofs WITH
                past <- [rev : 1..now, ok : BOOLEAN],
                seen <- [d \in Docs |-> Heading(d)],
                owed <- queue \cup {d \in Docs : Arriving(d)}

THEOREM NothingLost == Spec => []NothingMissed
<1>1. Feed!Init => FeedProofs!Init
  BY DEF Feed!Init, FeedProofs!Init
<1>2. [Feed!Next]_(Feed!vars) => [FeedProofs!Next]_(FeedProofs!vars)
  BY DEF Feed!Next, Feed!vars, Feed!Change, Feed!Matters, Feed!Catch, Feed!Revisit, Feed!Reconcile,
         Feed!Restart, FeedProofs!Next, FeedProofs!vars, FeedProofs!Change, FeedProofs!Matters,
         FeedProofs!Catch, FeedProofs!Revisit, FeedProofs!Reconcile, FeedProofs!Restart
<1>3. FeedProofs!NothingMissed => NothingMissed
  BY DEF FeedProofs!NothingMissed, NothingMissed, Feed!NothingMissed
<1>4. FeedProofs!Spec => []FeedProofs!NothingMissed
  BY FeedProofs!NothingLost
<1> QED BY <1>1, <1>2, <1>3, <1>4, Refinement, PTL DEF Implements, Feed!Spec, FeedProofs!Spec
=============================================================================
