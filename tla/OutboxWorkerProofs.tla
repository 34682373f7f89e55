------------------------- MODULE OutboxWorkerProofs -------------------------
(***************************************************************************)
(* Proofs about OutboxWorker, for any number of workers, versions, events, *)
(* edits, crashes and provider failures; the last one is about a single    *)
(* worker.                                                                 *)
(***************************************************************************)
EXTENDS OutboxWorker, SequenceTheorems, TLAPS

-----------------------------------------------------------------------------
(***************************************************************************)
(* Types.  TypeOK alone is not inductive: that the version of a worker's   *)
(* event is a version needs the event to exist, and what a handler does    *)
(* with it needs its type.                                                 *)
(***************************************************************************)

Event == [type : Types, version : Versions]

Place == [at : Locking \cup {"poll", "next", "mark"}, batch : SUBSET Nat,
          event : Nat, rev : 0 .. MaxEdits, gen : Nat]

\* Where a worker may be: its events exist, and a handler's steps run on an
\* event of the handler's type.
Placed(p) ==
    /\ p.batch \subseteq Ids
    /\ p.at \notin {"poll", "next"} => p.event \in Ids
    /\ p.at \in {"delete", "insert"} => events[p.event].type = "version.published"
    /\ p.at \in {"embed", "store"} => events[p.event].type = "version.reindexed"

Segments == [rev : 0 .. MaxEdits, gen : Nat, embedded : BOOLEAN]

\* Segments carry the id of the event that was queued with them.
Queued(v) ==
    index[v].gen # 0 =>
        /\ index[v].gen \in Ids
        /\ events[index[v].gen] = [type |-> "version.reindexed", version |-> v]

\* A version's text only gets newer after it was published, and by a bounded
\* number of edits.
Released ==
    /\ shown # None => released <= text[shown]
    /\ \A v \in loaded : text[v] < MaxEdits

TypeInv ==
    /\ TypeOK
    /\ Released
    /\ \A w \in Workers : Placed(worker[w])
    /\ \A v \in Versions : Queued(v)

\* Segments whose events exist are typed by the length of the queue.
LEMMA SegmentsTyped ==
    ASSUME NEW es \in Seq(Event), NEW ix \in [Versions -> Segments],
           \A v \in Versions : ix[v].gen # 0 => ix[v].gen \in DOMAIN es
    PROVE  ix \in [Versions -> [rev : 0 .. MaxEdits, gen : 0 .. Len(es), embedded : BOOLEAN]]
  <1>1. Len(es) \in Nat /\ DOMAIN es = 1 .. Len(es)
    BY LenProperties
  <1>2. \A v \in Versions : ix[v].gen \in 0 .. Len(es)
    BY <1>1 DEF Segments
  <1> QED  BY <1>2 DEF Segments

\* Queueing an event adds one id and keeps the events before it.
LEMMA Queueing ==
    ASSUME TypeInv, NEW r \in Event, events' = Append(events, r)
    PROVE  /\ events' \in Seq(Event)
           /\ Ids \subseteq Ids' /\ Len(events) + 1 \in Ids' /\ Len(events) + 1 \notin Ids
           /\ Len(events) + 1 \in Nat /\ \A e \in Ids : e < Len(events) + 1 /\ e \in Nat /\ e > 0
           /\ events'[Len(events) + 1] = r
           /\ \A e \in Ids : events'[e] = events[e]
  <1>1. events \in Seq(Event)
    BY DEF TypeInv, TypeOK, Event
  <1>2. Len(events) \in Nat /\ Ids = 1 .. Len(events)
    BY <1>1, LenProperties DEF Ids
  <1>3. /\ events' \in Seq(Event) /\ Len(events') = Len(events) + 1
        /\ \A e \in 1 .. Len(events) : events'[e] = events[e]
        /\ events'[Len(events) + 1] = r
    BY <1>1, AppendProperties
  <1>4. Ids' = 1 .. Len(events) + 1
    BY <1>2, <1>3, LenProperties DEF Ids
  <1> QED  BY <1>2, <1>3, <1>4

\* Ids are positive.
LEMMA IdsPositive ==
    ASSUME TypeInv
    PROVE  \A e \in Ids : e \in Nat /\ e > 0 /\ events[e] \in Event
  <1>1. events \in Seq(Event)
    BY DEF TypeInv, TypeOK, Event
  <1>2. Len(events) \in Nat /\ Ids = 1 .. Len(events)
    BY <1>1, LenProperties DEF Ids
  <1> QED  BY <1>1, <1>2, ElementOfSeq

\* The type of the segments, without the length of the queue.
LEMMA SegmentsOfIndex ==
    ASSUME TypeInv PROVE index \in [Versions -> Segments]
  <1>1. Len(events) \in Nat
    BY LenProperties DEF TypeInv, TypeOK
  <1> QED  BY <1>1 DEF TypeInv, TypeOK, Segments

\* What was placed and queued stays so while the queue grows.
LEMMA StillPlaced ==
    ASSUME TypeInv, Ids \subseteq Ids', \A e \in Ids : events'[e] = events[e]
    PROVE  /\ \A p \in Place : Placed(p) => Placed(p)'
           /\ \A v \in Versions : index'[v] = index[v] => Queued(v)'
  <1>1. ASSUME NEW p \in Place, Placed(p) PROVE Placed(p)'
    BY <1>1 DEF Placed
  <1>2. ASSUME NEW v \in Versions, index'[v] = index[v] PROVE Queued(v)'
    BY <1>2 DEF Queued, TypeInv
  <1> QED  BY <1>1, <1>2

\* One worker moves to a good place, the queue stays or grows: all are placed.
LEMMA WorkerMoves ==
    ASSUME TypeInv, NEW w \in Workers, NEW p \in Place,
           Ids \subseteq Ids', \A e \in Ids : events'[e] = events[e],
           Placed(p)', worker' = [worker EXCEPT ![w] = p]
    PROVE  /\ worker' \in [Workers -> Place]
           /\ \A x \in Workers : Placed(worker[x])'
  <1>1. worker \in [Workers -> Place]
    BY DEF TypeInv, TypeOK, Place
  <1>2. worker' \in [Workers -> Place]
    BY <1>1
  <1>3. ASSUME NEW x \in Workers PROVE Placed(worker[x])'
    <2>1. CASE x = w
      BY <1>1, <2>1 DEF Placed
    <2>2. CASE x # w
      <3>1. worker'[x] = worker[x] /\ worker[x] \in Place /\ Placed(worker[x])
        BY <1>1, <2>2 DEF TypeInv
      <3> QED  BY <3>1, StillPlaced DEF Placed
    <2> QED  BY <2>1, <2>2
  <1> QED  BY <1>2, <1>3

\* At the start nothing is queued, indexed or under way.
LEMMA TypeInit == Init => TypeInv
  <1> SUFFICES ASSUME Init PROVE TypeInv
    OBVIOUS
  <1>1. MaxEdits \in Nat /\ MaxFaults \in Nat
    BY WorkerAssumption
  <1>2. Rest \in Place /\ Placed(Rest)
    BY <1>1 DEF Rest, Place, Placed
  <1>3. events \in Seq(Event) /\ done \subseteq Ids
    BY DEF Init, Event
  <1>4. index \in [Versions -> [rev : 0 .. MaxEdits, gen : 0 .. Len(events), embedded : BOOLEAN]]
    <2>1. index \in [Versions -> Segments] /\ \A v \in Versions : index[v].gen = 0
      BY <1>1 DEF Init, Segments
    <2> QED  BY <1>3, <2>1, SegmentsTyped
  <1>5. TypeOK
    BY <1>1, <1>2, <1>3, <1>4 DEF Init, TypeOK, Event, Place
  <1> QED  BY <1>2, <1>5 DEF Init, TypeInv, Queued, Released

\* The steps of a worker that change nothing but its place.
LEMMA PlacesTyped ==
    ASSUME TypeInv, NEW w \in Workers,
           \/ Poll(w) \/ EndBatch(w) \/ DispatchNothing(w) \/ ReadVersion(w)
           \/ DeleteSegments(w) \/ ReadSegments(w) \/ CallProvider(w)
    PROVE  TypeInv'
  <1> DEFINE q == worker[w]
  <1>1. q \in Place /\ Placed(q) /\ worker \in [Workers -> Place] /\ Ids \subseteq Nat
    BY IdsPositive DEF TypeInv, TypeOK, Place
  <1>2. UNCHANGED <<text, shown, released, loaded, events, done, index, provider, faults>>
    BY DEF Poll, EndBatch, DispatchNothing, ReadVersion, DeleteSegments, ReadSegments, CallProvider
  <1>3. SUFFICES \E p \in Place : Placed(p) /\ worker' = [worker EXCEPT ![w] = p]
    <2> SUFFICES ASSUME NEW p \in Place, Placed(p), worker' = [worker EXCEPT ![w] = p]
                 PROVE  TypeInv'
      OBVIOUS
    <2>1. Ids' = Ids /\ \A e \in Ids : events'[e] = events[e]
      BY <1>2 DEF Ids
    <2>2. Placed(p)' /\ \A v \in Versions : Queued(v)'
      BY <1>2, <2>1, StillPlaced
    <2>3. worker' \in [Workers -> Place] /\ \A x \in Workers : Placed(worker[x])'
      BY <2>1, <2>2, WorkerMoves
    <2>4. TypeOK'
      BY <1>2, <2>1, <2>3 DEF TypeInv, TypeOK, Place
    <2> QED  BY <1>2, <2>2, <2>3, <2>4 DEF TypeInv, Released
  <1>4. CASE Poll(w)
    <2> DEFINE b == {e \in Pending : Cardinality({f \in Pending : f < e}) < BatchSize}
               p == [q EXCEPT !.at = "next", !.batch = b]
    <2>1. b \subseteq Ids
      BY DEF Pending
    <2>2. p \in Place /\ Placed(p)
      BY <1>1, <2>1 DEF Place, Placed
    <2>3. worker' = [worker EXCEPT ![w] = p]
      BY <1>1, <1>4 DEF Poll, Place
    <2> QED  BY <2>2, <2>3
  <1>5. CASE EndBatch(w)
    <2> DEFINE p == [q EXCEPT !.at = "poll"]
    <2>1. p \in Place /\ Placed(p)
      BY <1>1 DEF Place, Placed
    <2>2. worker' = [worker EXCEPT ![w] = p]
      BY <1>1, <1>5 DEF EndBatch, Goto
    <2> QED  BY <2>1, <2>2
  <1>6. CASE DispatchNothing(w)
    <2> DEFINE p == [q EXCEPT !.at = "mark_locked"]
    <2>1. p \in Place /\ Placed(p)
      BY <1>1, <1>6 DEF DispatchNothing, Place, Placed, Locking
    <2>2. worker' = [worker EXCEPT ![w] = p]
      BY <1>1, <1>6 DEF DispatchNothing, Goto
    <2> QED  BY <2>1, <2>2
  <1>7. CASE ReadVersion(w)
    <2> DEFINE p == [q EXCEPT !.at = "delete", !.rev = text[VersionOf(w)]]
    <2>1. q.event \in Ids /\ VersionOf(w) \in Versions
      BY <1>1, <1>7, IdsPositive DEF ReadVersion, Placed, VersionOf, Event
    <2>2. p \in Place /\ Placed(p)
      BY <1>1, <1>7, <2>1 DEF ReadVersion, Place, Placed, Locking, TypeOf, TypeInv, TypeOK
    <2>3. worker' = [worker EXCEPT ![w] = p]
      BY <1>1, <1>7 DEF ReadVersion, Place
    <2> QED  BY <2>2, <2>3
  <1>8. CASE DeleteSegments(w)
    <2> DEFINE p == [q EXCEPT !.at = "insert", !.gen = index[VersionOf(w)].gen]
    <2>1. q.event \in Ids /\ VersionOf(w) \in Versions
      BY <1>1, <1>8, IdsPositive DEF DeleteSegments, Placed, VersionOf, Event
    <2>2. p \in Place /\ Placed(p)
      BY <1>1, <1>8, <2>1, SegmentsOfIndex DEF DeleteSegments, Place, Placed, Locking, Segments
    <2>3. worker' = [worker EXCEPT ![w] = p]
      BY <1>1, <1>8 DEF DeleteSegments, Place
    <2> QED  BY <2>2, <2>3
  <1>9. CASE ReadSegments(w)
    <2> DEFINE p == [q EXCEPT !.at = "embed", !.gen = index[VersionOf(w)].gen]
    <2>1. q.event \in Ids /\ VersionOf(w) \in Versions
      BY <1>1, <1>9, IdsPositive DEF ReadSegments, Placed, VersionOf, Event
    <2>2. p \in Place /\ Placed(p)
      BY <1>1, <1>9, <2>1, SegmentsOfIndex
      DEF ReadSegments, Place, Placed, Locking, TypeOf, Segments
    <2>3. worker' = [worker EXCEPT ![w] = p]
      BY <1>1, <1>9 DEF ReadSegments, Place
    <2> QED  BY <2>2, <2>3
  <1>10. CASE CallProvider(w)
    <2> DEFINE p == [q EXCEPT !.at = "store"]
    <2>1. p \in Place /\ Placed(p)
      BY <1>1, <1>10 DEF CallProvider, Place, Placed, Locking
    <2>2. worker' = [worker EXCEPT ![w] = p]
      BY <1>1, <1>10 DEF CallProvider, Goto
    <2> QED  BY <2>1, <2>2
  <1> QED  BY <1>4, <1>5, <1>6, <1>7, <1>8, <1>9, <1>10

\* A worker that takes, skips or leaves an event: what it keeps is its batch.
LEMMA EventTurnsTyped ==
    ASSUME TypeInv, NEW w \in Workers,
           Claim(w) \/ Mark(w) \/ HandlerRaises(w) \/ ProviderFails(w) \/ Crash(w)
    PROVE  TypeInv'
  <1> DEFINE q == worker[w]
  <1>1. /\ q \in Place /\ Placed(q) /\ worker \in [Workers -> Place] /\ Ids \subseteq Nat
        /\ MaxEdits \in Nat /\ MaxFaults \in Nat
    BY IdsPositive, WorkerAssumption DEF TypeInv, TypeOK, Place
  <1>2. UNCHANGED <<text, shown, released, loaded, events, index, provider>>
    BY DEF Claim, Mark, HandlerRaises, ProviderFails, Crash
  <1>3. SUFFICES ASSUME done' \subseteq Ids, faults' \in 0 .. MaxFaults
                 PROVE  \E p \in Place : Placed(p) /\ worker' = [worker EXCEPT ![w] = p]
    <2>1. done' \subseteq Ids /\ faults' \in 0 .. MaxFaults
      <3>1. done \subseteq Ids /\ faults \in 0 .. MaxFaults
        BY DEF TypeInv, TypeOK
      <3>2. CASE Claim(w) \/ HandlerRaises(w)
        BY <3>1, <3>2 DEF Claim, HandlerRaises, DoneAtClaim, DoneUnlessFailed
      <3>3. CASE Mark(w)
        <4>1. q.event \in Ids
          BY <1>1, <3>3 DEF Mark, Placed
        <4> QED  BY <3>1, <3>3, <4>1 DEF Mark
      <3>4. CASE ProviderFails(w) \/ Crash(w)
        <4>1. done' = done /\ faults < MaxFaults /\ faults' = faults + 1
          BY <3>4 DEF ProviderFails, Crash, DoneUnlessFailed
        <4>2. MaxFaults \in Nat
          BY WorkerAssumption
        <4> QED  BY <3>1, <4>1, <4>2
      <3> QED  BY <3>2, <3>3, <3>4
    <2> SUFFICES ASSUME NEW p \in Place, Placed(p), worker' = [worker EXCEPT ![w] = p]
                 PROVE  TypeInv'
      BY <2>1
    <2>2. Ids' = Ids /\ \A e \in Ids : events'[e] = events[e]
      BY <1>2 DEF Ids
    <2>3. Placed(p)' /\ \A v \in Versions : Queued(v)'
      BY <1>2, <2>2, StillPlaced
    <2>4. worker' \in [Workers -> Place] /\ \A x \in Workers : Placed(worker[x])'
      BY <2>2, <2>3, WorkerMoves
    <2>5. TypeOK'
      BY <1>2, <2>1, <2>2, <2>4 DEF TypeInv, TypeOK, Place
    <2> QED  BY <1>2, <2>3, <2>4, <2>5 DEF TypeInv, Released
  <1>4. CASE Claim(w)
    <2>1. PICK e \in q.batch :
             worker' = [worker EXCEPT
               ![w].batch = @ \ {e},
               ![w].event = IF Claimable(e) THEN e ELSE 0,
               ![w].at = IF Claimable(e) THEN "dispatch" ELSE "next"]
      BY <1>4 DEF Claim
    <2> DEFINE p == [q EXCEPT !.batch = @ \ {e}, !.event = IF Claimable(e) THEN e ELSE 0,
                              !.at = IF Claimable(e) THEN "dispatch" ELSE "next"]
    <2>2. e \in Ids
      BY <1>1 DEF Placed
    <2>3. p \in Place /\ Placed(p)
      BY <1>1, <2>2 DEF Place, Placed, Locking
    <2>4. worker' = [worker EXCEPT ![w] = p]
      BY <1>1, <2>1 DEF Place
    <2> QED  BY <2>3, <2>4
  <1>5. CASE Mark(w) \/ HandlerRaises(w) \/ ProviderFails(w)
    <2> DEFINE p == [Rest EXCEPT !.at = "next", !.batch = q.batch]
    <2>1. Rest \in Place
      BY <1>1 DEF Rest, Place
    <2>2. p \in Place /\ Placed(p)
      BY <1>1, <2>1 DEF Place, Placed
    <2>3. worker' = [worker EXCEPT ![w] = p]
      BY <1>5 DEF Mark, HandlerRaises, ProviderFails, AfterFailure, Leave
    <2> QED  BY <2>2, <2>3
  <1>6. CASE Crash(w)
    <2>1. Rest \in Place /\ Placed(Rest)
      BY <1>1 DEF Rest, Place, Placed
    <2> QED  BY <1>6, <2>1 DEF Crash
  <1> QED  BY <1>4, <1>5, <1>6

\* The commits of the two handlers.
LEMMA HandlersTyped ==
    ASSUME TypeInv, NEW w \in Workers, InsertSegments(w) \/ StoreEmbeddings(w)
    PROVE  TypeInv'
  <1> DEFINE q == worker[w]
  <1>1. q \in Place /\ Placed(q) /\ worker \in [Workers -> Place] /\ Ids \subseteq Nat
    BY IdsPositive DEF TypeInv, TypeOK, Place
  <1>2. q.event \in Ids
    BY <1>1 DEF InsertSegments, StoreEmbeddings, Placed
  <1>3. PICK v \in Versions : v = VersionOf(w)
    BY <1>2, IdsPositive DEF VersionOf, Event
  <1>4. PICK p \in Place : p = [q EXCEPT !.at = "mark"] /\ Placed(p)
    <2>1. [q EXCEPT !.at = "mark"] \in Place /\ Placed([q EXCEPT !.at = "mark"])
      BY <1>1, <1>2 DEF Place, Placed
    <2> QED  BY <2>1
  <1>5. UNCHANGED <<text, shown, released, loaded, done, provider, faults>> /\ worker' = [worker EXCEPT ![w] = p]
    BY <1>1, <1>4 DEF InsertSegments, StoreEmbeddings, Goto
  <1>6. /\ events' \in Seq(Event) /\ Ids \subseteq Ids' /\ \A e \in Ids : events'[e] = events[e]
        /\ index' \in [Versions -> Segments]
        /\ \A x \in Versions \ {v} : index'[x] = index[x]
        /\ Queued(v)'
    <2>1. CASE InsertSegments(w)
      <3> DEFINE r == [type |-> "version.reindexed", version |-> v]
      <3>1. r \in Event /\ events' = Append(events, r)
        BY <1>3, <2>1 DEF InsertSegments, WithReindexed, Event, Types
      <3>2. index' = [index EXCEPT ![v] = NewSegments(w)]
        BY <1>3, <2>1 DEF InsertSegments
      <3>3. NewSegments(w) \in Segments
        BY <1>1, <3>1, Queueing DEF NewSegments, Place, Segments
      <3>4. index'[v].gen = Len(events) + 1
        BY <1>3, <3>2, SegmentsOfIndex DEF NewSegments
      <3>5. /\ index' \in [Versions -> Segments]
            /\ \A x \in Versions \ {v} : index'[x] = index[x]
        BY <3>2, <3>3, SegmentsOfIndex
      <3>6. Queued(v)'
        BY <3>1, <3>4, Queueing DEF Queued
      <3> QED  BY <3>1, <3>5, <3>6, Queueing
    <2>2. CASE StoreEmbeddings(w)
      <3>1. events' = events /\ index' = [index EXCEPT ![v].embedded = TRUE]
        BY <1>3, <2>2 DEF StoreEmbeddings
      <3>2. events \in Seq(Event) /\ Ids' = Ids /\ Queued(v)
        BY <1>3, <3>1 DEF TypeInv, TypeOK, Event, Ids
      <3>3. index'[v].gen = index[v].gen
        BY <1>3, <3>1 DEF TypeInv, TypeOK
      <3>4. Queued(v)'
        BY <3>1, <3>2, <3>3 DEF Queued
      <3>5. index' \in [Versions -> Segments]
        <4>1. [index[v] EXCEPT !.embedded = TRUE] \in Segments
          BY <1>3, SegmentsOfIndex DEF Segments
        <4>2. index' = [index EXCEPT ![v] = [index[v] EXCEPT !.embedded = TRUE]]
          BY <3>1
        <4> QED  BY <4>1, <4>2, SegmentsOfIndex
      <3>6. \A x \in Versions \ {v} : index'[x] = index[x]
        BY <1>3, <3>1 DEF TypeInv, TypeOK
      <3> QED  BY <3>1, <3>2, <3>4, <3>5, <3>6
    <2> QED  BY <2>1, <2>2
  <1>7. Placed(p)' /\ \A x \in Versions : Queued(x)'
    BY <1>4, <1>6, StillPlaced
  <1>8. worker' \in [Workers -> Place] /\ \A x \in Workers : Placed(worker[x])'
    BY <1>4, <1>6, <1>7, <1>5, WorkerMoves
  <1>9. PICK es : es = events'
    OBVIOUS
  <1>10. PICK ix : ix = index'
    OBVIOUS
  <1>11. ix \in [Versions -> [rev : 0 .. MaxEdits, gen : 0 .. Len(es), embedded : BOOLEAN]]
    <2>1. \A x \in Versions : ix[x].gen # 0 => ix[x].gen \in DOMAIN es
      BY <1>7, <1>9, <1>10 DEF Queued, Ids
    <2> QED  BY <1>6, <1>9, <1>10, <2>1, SegmentsTyped
  <1>12. done' \subseteq Ids'
    BY <1>5, <1>6 DEF TypeInv, TypeOK
  <1>13. TypeOK'
    BY <1>5, <1>6, <1>8, <1>9, <1>10, <1>11, <1>12 DEF TypeInv, TypeOK, Place, Event
  <1> QED  BY <1>5, <1>7, <1>8, <1>13 DEF TypeInv, Released

\* What clients and the operator do.
LEMMA EnvironmentTyped ==
    ASSUME TypeInv, Environment
    PROVE  TypeInv'
  <1>1. UNCHANGED <<done, index, worker, faults>> /\ MaxEdits \in Nat
    BY WorkerAssumption
    DEF Environment, LoadEdit, CommitEdit, Publish, OtherEvent, RepairKey
  <1>2. /\ events' \in Seq(Event) /\ Ids \subseteq Ids'
        /\ \A e \in Ids : events'[e] = events[e]
    <2>1. CASE events' = events
      BY <2>1 DEF TypeInv, TypeOK, Event, Ids
    <2>2. CASE events' # events
      <3>1. PICK r \in Event : events' = Append(events, r)
        BY <2>2 DEF Environment, LoadEdit, CommitEdit, Publish, OtherEvent, RepairKey, Event, Types
      <3> QED  BY <3>1, Queueing
    <2> QED  BY <2>1, <2>2
  <1>3. /\ text' \in [Versions -> 0 .. MaxEdits] /\ shown' \in Versions \cup {None}
        /\ released' \in 0 .. MaxEdits /\ loaded' \subseteq Versions
        /\ provider' \in {"none", "working", "refused"} /\ Released'
    <2>1. /\ text \in [Versions -> 0 .. MaxEdits] /\ shown \in Versions \cup {None}
          /\ released \in 0 .. MaxEdits /\ loaded \subseteq Versions
          /\ provider \in {"none", "working", "refused"} /\ Released
      BY DEF TypeInv, TypeOK
    <2>2. ASSUME NEW v \in Versions, CommitEdit(v)
          PROVE  /\ text' \in [Versions -> 0 .. MaxEdits] /\ loaded' \subseteq Versions
                 /\ Released'
      BY <1>1, <2>1, <2>2 DEF CommitEdit, Released
    <2>3. ASSUME NEW v \in Versions, Publish(v)
          PROVE  released' \in 0 .. MaxEdits /\ Released'
      BY <1>1, <2>1, <2>3 DEF Publish, Released
    <2>4. ASSUME NEW v \in Versions, LoadEdit(v) \/ OtherEvent(v)
          PROVE  Released' /\ loaded' \subseteq Versions /\ UNCHANGED <<text, shown, released>>
      BY <1>1, <2>1, <2>4 DEF LoadEdit, OtherEvent, Released
    <2>5. CASE RepairKey
      BY <2>1, <2>5 DEF RepairKey, Released
    <2> QED
      BY <2>1, <2>2, <2>3, <2>4, <2>5
      DEF Environment, LoadEdit, CommitEdit, Publish, OtherEvent, RepairKey
  <1>4. /\ \A x \in Workers : Placed(worker[x])'
        /\ \A v \in Versions : Queued(v)'
    <2>1. \A x \in Workers : worker[x] \in Place /\ Placed(worker[x]) /\ worker'[x] = worker[x]
      BY <1>1 DEF TypeInv, TypeOK, Place
    <2> QED  BY <1>1, <1>2, <2>1, StillPlaced DEF Placed
  <1>5. PICK es : es = events'
    OBVIOUS
  <1>6. index' \in [Versions -> [rev : 0 .. MaxEdits, gen : 0 .. Len(es), embedded : BOOLEAN]]
    <2>1. \A v \in Versions : index[v].gen # 0 => index[v].gen \in DOMAIN es
      BY <1>1, <1>4, <1>5 DEF Queued, Ids
    <2> QED  BY <1>1, <1>2, <1>5, <2>1, SegmentsOfIndex, SegmentsTyped
  <1>7. worker' \in [Workers -> Place] /\ done' \subseteq Ids' /\ faults' \in 0 .. MaxFaults
    BY <1>1, <1>2 DEF TypeInv, TypeOK, Place
  <1>8. TypeOK'
    BY <1>2, <1>3, <1>5, <1>6, <1>7 DEF TypeOK, Event, Place
  <1> QED  BY <1>3, <1>4, <1>8 DEF TypeInv

\* Every step keeps the strengthened type invariant.
LEMMA TypeStep == TypeInv /\ [Next]_vars => TypeInv'
  <1>1. TypeInv /\ UNCHANGED vars => TypeInv'
    BY DEF vars, TypeInv, TypeOK, Placed, Queued, Ids, Released
  <1> QED  BY <1>1, PlacesTyped, EventTurnsTyped, HandlersTyped, EnvironmentTyped
           DEF Next, Work

\* The strengthened type invariant holds in every reachable state.
LEMMA TypeInvariant == Spec => []TypeInv
  BY TypeInit, TypeStep, PTL DEF Spec

\* No worker, crash or retry leaves the outbox, the index or a worker in a
\* state outside their domains; in particular only existing events are marked.
THEOREM TypeCorrect == Spec => []TypeOK
  <1>1. TypeInv => TypeOK
    BY DEF TypeInv
  <1> QED  BY <1>1, TypeInvariant, PTL

-----------------------------------------------------------------------------
(***************************************************************************)
(* Exclusion.  One worker moves in a step, and it comes to hold the lock   *)
(* of an event only by keeping it or by a claim, which a lock refuses.     *)
(***************************************************************************)

\* Nobody but w moves; if w is inside a handler afterwards, it was inside it
\* before or has claimed an event that was not locked.
MovesTo(w) ==
    /\ \A x \in Workers \ {w} : worker'[x] = worker[x]
    /\ worker'[w].at \in Locking =>
         \/ worker[w].at \in Locking /\ worker'[w].event = worker[w].event
         \/ ~Locked(worker'[w].event)

\* A step moves one worker at most.
LEMMA OneWorkerMoves ==
    TypeInv /\ [Next]_vars => UNCHANGED worker \/ \E w \in Workers : MovesTo(w)
  <1> SUFFICES ASSUME TypeInv, [Next]_vars
               PROVE  UNCHANGED worker \/ \E w \in Workers : MovesTo(w)
    OBVIOUS
  <1>1. worker \in [Workers -> Place]
    BY DEF TypeInv, TypeOK, Place
  <1>2. CASE Environment \/ UNCHANGED vars
    BY <1>2 DEF Environment, LoadEdit, CommitEdit, Publish, OtherEvent, RepairKey, vars
  <1>3. ASSUME NEW w \in Workers, Work(w) \/ ProviderFails(w) \/ Crash(w)
        PROVE  MovesTo(w)
    <2>1. CASE Claim(w)
      BY <1>1, <2>1 DEF Claim, MovesTo, Claimable, Locking, Place
    <2>2. CASE Poll(w) \/ EndBatch(w) \/ DispatchNothing(w) \/ CallProvider(w)
      BY <1>1, <2>2 DEF Poll, EndBatch, DispatchNothing, CallProvider, Goto, MovesTo, Locking, Place
    <2>3. CASE ReadVersion(w) \/ DeleteSegments(w) \/ ReadSegments(w)
      BY <1>1, <2>3 DEF ReadVersion, DeleteSegments, ReadSegments, MovesTo, Locking, Place
    <2>4. CASE InsertSegments(w) \/ StoreEmbeddings(w)
      BY <1>1, <2>4 DEF InsertSegments, StoreEmbeddings, Goto, MovesTo, Locking, Place
    <2>5. CASE Mark(w) \/ HandlerRaises(w) \/ ProviderFails(w)
      BY <1>1, <2>5 DEF Mark, HandlerRaises, ProviderFails, AfterFailure, Leave, Rest,
                        MovesTo, Locking
    <2>6. CASE Crash(w)
      BY <1>1, <2>6 DEF Crash, Rest, MovesTo, Locking
    <2> QED  BY <1>3, <2>1, <2>2, <2>3, <2>4, <2>5, <2>6 DEF Work
  <1> QED  BY <1>2, <1>3 DEF Next

\* A step never puts a second worker inside a handler of the same event.
LEMMA SoleStep == TypeInv /\ SoleHandler /\ [Next]_vars => SoleHandler'
  <1> SUFFICES ASSUME TypeInv, SoleHandler, NEW w \in Workers, MovesTo(w)
               PROVE  SoleHandler'
    BY OneWorkerMoves DEF SoleHandler
  <1>1. ASSUME NEW x \in Workers \ {w}, worker'[w].at \in Locking, worker'[x].at \in Locking
        PROVE  worker'[w].event # worker'[x].event
    <2>1. worker'[x] = worker[x]
      BY DEF MovesTo
    <2>2. CASE worker[w].at \in Locking /\ worker'[w].event = worker[w].event
      BY <1>1, <2>1, <2>2 DEF SoleHandler
    <2>3. CASE ~Locked(worker'[w].event)
      BY <1>1, <2>1, <2>3 DEF Locked
    <2> QED  BY <1>1, <2>2, <2>3 DEF MovesTo
  <1>2. ASSUME NEW x \in Workers \ {w}, NEW y \in Workers \ {w}, x # y,
               worker'[x].at \in Locking, worker'[y].at \in Locking
        PROVE  worker'[x].event # worker'[y].event
    BY <1>2 DEF MovesTo, SoleHandler
  <1> QED  BY <1>1, <1>2 DEF SoleHandler

\* No event is ever inside two handlers at once, however many workers there are.
THEOREM NeverHandledTwiceAtOnce == Spec => []SoleHandler
  <1>1. Init => SoleHandler
    BY DEF Init, SoleHandler, Rest, Locking
  <1> QED  BY <1>1, SoleStep, TypeInvariant, PTL DEF Spec

-----------------------------------------------------------------------------
(***************************************************************************)
(* Delivery.  Marking an event is safe because of what the worker at the   *)
(* mark has achieved, and because the id kept with a version's segments    *)
(* only grows: a repeated or overtaken delivery cannot undo it.            *)
(***************************************************************************)

\* What a worker about to mark its event has achieved: a publication's version
\* has been reindexed since; segments written with the event are embedded.
Achieved(p) ==
    p.at \in {"mark", "mark_locked"} =>
        LET e == p.event
            v == events[e].version
        IN  /\ events[e].type = "version.published" => index[v].gen > e
            /\ index[v].gen = e /\ provider # "none" => index[v].embedded

DeliveryInv ==
    /\ ProcessedIsIndexed
    /\ EmbeddingPending
    /\ \A w \in Workers : Achieved(worker[w])

\* A version's segments are kept, embedded, or replaced by ones with a new event.
SegmentsMove(v) ==
    \/ index'[v] = index[v]
    \/ index'[v].gen = index[v].gen /\ index'[v].embedded
    \/ /\ index'[v].gen \in Ids' \ Ids
       /\ \A e \in Ids : index'[v].gen > e

\* The queue grows at its end, and a provider is configured for good.
QueueMoves ==
    /\ Ids \subseteq Ids'
    /\ \A e \in Ids : events'[e] = events[e]
    /\ provider' = "none" <=> provider = "none"
    /\ \A v \in Versions : SegmentsMove(v)

\* What every step does to the queue and the segments.
LEMMA QueueStep == TypeInv /\ [Next]_vars => QueueMoves
  <1> SUFFICES ASSUME TypeInv, [Next]_vars PROVE QueueMoves
    OBVIOUS
  <1>1. CASE UNCHANGED <<events, index, provider>>
    BY <1>1 DEF QueueMoves, SegmentsMove, Ids
  <1>2. CASE Environment
    <2>1. index' = index /\ (provider' = "none" <=> provider = "none")
      BY <1>2 DEF Environment, LoadEdit, CommitEdit, Publish, OtherEvent, RepairKey
    <2>2. CASE events' = events
      BY <2>1, <2>2 DEF QueueMoves, SegmentsMove, Ids
    <2>3. CASE events' # events
      <3>1. PICK r \in Event : events' = Append(events, r)
        BY <1>2, <2>3 DEF Environment, LoadEdit, CommitEdit, Publish, OtherEvent, RepairKey, Event, Types
      <3> QED  BY <2>1, <3>1, Queueing DEF QueueMoves, SegmentsMove
    <2> QED  BY <2>2, <2>3
  <1>3. ASSUME NEW w \in Workers, InsertSegments(w)
        PROVE  QueueMoves
    <2>1. worker[w].event \in Ids
      BY <1>3 DEF InsertSegments, TypeInv, Placed
    <2>2. PICK v \in Versions : v = VersionOf(w)
      BY <2>1, IdsPositive DEF VersionOf, Event
    <2>3. PICK r \in Event : events' = Append(events, r)
      BY <1>3, <2>2 DEF InsertSegments, WithReindexed, Event, Types
    <2>4. index'[v].gen = Len(events) + 1 /\ \A x \in Versions \ {v} : index'[x] = index[x]
      BY <1>3, <2>2 DEF InsertSegments, NewSegments, TypeInv, TypeOK
    <2>5. provider' = provider
      BY <1>3 DEF InsertSegments
    <2> QED  BY <2>3, <2>4, <2>5, Queueing DEF QueueMoves, SegmentsMove
  <1>4. ASSUME NEW w \in Workers, StoreEmbeddings(w)
        PROVE  QueueMoves
    <2>1. worker[w].event \in Ids
      BY <1>4 DEF StoreEmbeddings, TypeInv, Placed
    <2>2. PICK v \in Versions : v = VersionOf(w)
      BY <2>1, IdsPositive DEF VersionOf, Event
    <2>3. /\ index'[v].gen = index[v].gen /\ index'[v].embedded
          /\ \A x \in Versions \ {v} : index'[x] = index[x]
      BY <1>4, <2>2 DEF StoreEmbeddings, TypeInv, TypeOK
    <2>4. UNCHANGED <<events, provider>>
      BY <1>4 DEF StoreEmbeddings
    <2> QED  BY <2>3, <2>4 DEF QueueMoves, SegmentsMove, Ids
  <1>5. ASSUME NEW w \in Workers,
               ~InsertSegments(w), ~StoreEmbeddings(w), Work(w) \/ ProviderFails(w) \/ Crash(w)
        PROVE  UNCHANGED <<events, index, provider>>
    BY <1>5 DEF Work, Poll, Claim, EndBatch, DispatchNothing, ReadVersion, DeleteSegments,
                ReadSegments, CallProvider, Mark, HandlerRaises, ProviderFails, Crash
  <1> QED  BY <1>1, <1>2, <1>3, <1>4, <1>5 DEF Next, Work, vars

\* What a worker has achieved stays achieved while the queue moves.
LEMMA AchievedStays ==
    ASSUME TypeInv, QueueMoves
    PROVE  \A p \in Place : Placed(p) /\ Achieved(p) => Achieved(p)'
  <1> SUFFICES ASSUME NEW p \in Place, Placed(p), Achieved(p),
                      p.at \in {"mark", "mark_locked"}
               PROVE  Achieved(p)'
    BY DEF Achieved
  <1>1. p.event \in Ids
    BY DEF Placed
  <1>2. PICK v \in Versions : v = events[p.event].version
    BY <1>1, IdsPositive DEF Event
  <1>3. events'[p.event] = events[p.event] /\ (provider' = "none" <=> provider = "none")
    BY <1>1 DEF QueueMoves
  <1>4. index[v].gen \in Nat /\ p.event \in Nat /\ SegmentsMove(v)
    BY <1>1, IdsPositive DEF TypeInv, TypeOK, QueueMoves
  <1>5. events[p.event].type = "version.published" => index'[v].gen > p.event
    BY <1>1, <1>2, <1>4 DEF SegmentsMove, Achieved
  <1>6. index'[v].gen = p.event /\ provider' # "none" => index'[v].embedded
    BY <1>1, <1>2, <1>3, <1>4 DEF SegmentsMove, Achieved
  <1> QED  BY <1>2, <1>3, <1>5, <1>6 DEF Achieved

\* A worker comes to the mark only with its event's work achieved.
LEMMA AchievedStep ==
    ASSUME TypeInv, TypeInv', QueueMoves, [Next]_vars, \A w \in Workers : Achieved(worker[w])
    PROVE  \A w \in Workers : Achieved(worker[w])'
  <1>1. worker \in [Workers -> Place] /\ \A x \in Workers : worker[x] \in Place /\ Placed(worker[x])
    BY DEF TypeInv, TypeOK, Place
  <1>2. ASSUME NEW x \in Workers, worker'[x] = worker[x]
        PROVE  Achieved(worker[x])'
    BY <1>1, <1>2, AchievedStays DEF Achieved
  <1>3. ASSUME NEW w \in Workers, Work(w) \/ ProviderFails(w) \/ Crash(w)
        PROVE  Achieved(worker[w])'
    <2>1. CASE worker'[w].at \notin {"mark", "mark_locked"}
      BY <2>1 DEF Achieved
    <2>2. CASE DispatchNothing(w)
      <3>1. /\ worker'[w].event = worker[w].event /\ worker[w].event \in Ids
            /\ UNCHANGED <<events, index, provider>>
        BY <1>1, <2>2 DEF DispatchNothing, Goto, Placed
      <3>2. PICK v \in Versions : v = VersionOf(w)
        BY <3>1, IdsPositive DEF VersionOf, Event
      <3>3. TypeOf(w) # "version.published"
        BY <2>2 DEF DispatchNothing
      <3>4. index[v].gen = worker[w].event /\ provider # "none" => index[v].embedded
        <4>1. worker[w].event # 0
          BY <3>1, IdsPositive
        <4>2. index[v].gen = worker[w].event => TypeOf(w) = "version.reindexed"
          <5>1. Queued(v)
            BY <3>2 DEF TypeInv
          <5> QED  BY <4>1, <5>1 DEF Queued, TypeOf
        <4> QED  BY <2>2, <3>2, <4>2 DEF DispatchNothing
      <3> QED  BY <3>1, <3>2, <3>3, <3>4 DEF Achieved, TypeOf, VersionOf
    <2>3. CASE InsertSegments(w)
      <3>1. worker'[w].event = worker[w].event /\ worker[w].event \in Ids
        BY <1>1, <2>3 DEF InsertSegments, Goto, Placed
      <3>2. PICK v \in Versions : v = VersionOf(w)
        BY <3>1, IdsPositive DEF VersionOf, Event
      <3>3. index'[v].gen = Len(events) + 1
        BY <2>3, <3>2 DEF InsertSegments, NewSegments, TypeInv, TypeOK
      <3>4. PICK r \in Event : events' = Append(events, r)
        BY <2>3, <3>2 DEF InsertSegments, WithReindexed, Event, Types
      <3>5. index'[v].gen > worker[w].event /\ worker[w].event \in Nat
        BY <3>1, <3>3, <3>4, Queueing
      <3>6. events'[worker[w].event] = events[worker[w].event]
        BY <3>1 DEF QueueMoves
      <3>7. worker'[w].event = worker[w].event /\ events'[worker[w].event].version = v
        BY <3>1, <3>2, <3>6 DEF VersionOf
      <3>8. index'[v].gen # worker[w].event
        BY <3>3, <3>5
      <3> QED  BY <3>5, <3>7, <3>8, SMTT(30) DEF Achieved
    <2>4. CASE StoreEmbeddings(w)
      <3>1. /\ worker'[w].event = worker[w].event /\ worker[w].event \in Ids
            /\ TypeOf(w) = "version.reindexed" /\ events' = events
        BY <1>1, <2>4 DEF StoreEmbeddings, Goto, Placed, TypeOf
      <3>2. PICK v \in Versions : v = VersionOf(w)
        BY <3>1, IdsPositive DEF VersionOf, Event
      <3>3. index'[v].embedded
        BY <2>4, <3>2 DEF StoreEmbeddings, TypeInv, TypeOK
      <3> QED  BY <3>1, <3>2, <3>3 DEF Achieved, VersionOf, TypeOf
    <2>5. DispatchNothing(w) \/ InsertSegments(w) \/ StoreEmbeddings(w)
            \/ worker'[w].at \notin {"mark", "mark_locked"}
      <3>1. CASE Poll(w) \/ EndBatch(w) \/ CallProvider(w)
        <4>1. worker'[w].at \in {"next", "poll", "store"}
          BY <1>1, <3>1 DEF Poll, EndBatch, CallProvider, Goto, Place
        <4> QED  BY <4>1
      <3>2. CASE ReadVersion(w) \/ DeleteSegments(w) \/ ReadSegments(w)
        BY <1>1, <3>2 DEF ReadVersion, DeleteSegments, ReadSegments, Place
      <3>3. CASE Claim(w)
        <4>1. PICK e \in worker[w].batch :
                 worker' = [worker EXCEPT
                   ![w].batch = @ \ {e},
                   ![w].event = IF Claimable(e) THEN e ELSE 0,
                   ![w].at = IF Claimable(e) THEN "dispatch" ELSE "next"]
          BY <3>3 DEF Claim
        <4>2. worker'[w].at = IF Claimable(e) THEN "dispatch" ELSE "next"
          BY <1>1, <4>1 DEF Place
        <4> QED  BY <4>2
      <3>4. CASE Mark(w) \/ HandlerRaises(w) \/ ProviderFails(w)
        <4>1. worker' = [worker EXCEPT ![w] = [Rest EXCEPT !.at = "next", !.batch = worker[w].batch]]
          BY <3>4 DEF Mark, HandlerRaises, ProviderFails, AfterFailure, Leave
        <4>2. worker'[w].at = "next"
          BY <1>1, <4>1 DEF Rest
        <4> QED  BY <4>2
      <3>5. CASE Crash(w)
        <4>1. worker'[w].at = "poll"
          BY <1>1, <3>5 DEF Crash, Rest
        <4> QED  BY <4>1
      <3> QED  BY <1>3, <3>1, <3>2, <3>3, <3>4, <3>5 DEF Work
    <2> QED  BY <2>1, <2>2, <2>3, <2>4, <2>5
  <1>4. CASE Environment \/ UNCHANGED vars
    <2>1. worker' = worker
      BY <1>4 DEF Environment, LoadEdit, CommitEdit, Publish, OtherEvent, RepairKey, vars
    <2> QED  BY <1>2, <2>1
  <1>5. ASSUME NEW w \in Workers, Work(w) \/ ProviderFails(w) \/ Crash(w)
        PROVE  \A x \in Workers : Achieved(worker[x])'
    <2>1. \A x \in Workers \ {w} : worker'[x] = worker[x]
      BY <1>5, <1>1 DEF Work, Poll, Claim, EndBatch, DispatchNothing, ReadVersion,
           DeleteSegments, InsertSegments, ReadSegments, CallProvider, StoreEmbeddings, Mark,
           HandlerRaises, ProviderFails, Crash, Goto, AfterFailure, Leave
    <2> QED  BY <1>2, <1>3, <1>5, <2>1
  <1> QED  BY <1>4, <1>5 DEF Next

\* Marks are the only way to be processed, and a mark follows the achievement.
LEMMA DeliveryStep == TypeInv /\ TypeInv' /\ DeliveryInv /\ [Next]_vars => DeliveryInv'
  <1> SUFFICES ASSUME TypeInv, TypeInv', DeliveryInv, [Next]_vars
               PROVE  DeliveryInv'
    OBVIOUS
  <1>1. QueueMoves
    BY QueueStep
  <1>2. \A w \in Workers : Achieved(worker[w])'
    BY <1>1, AchievedStep DEF DeliveryInv
  <1>3. PICK D \in SUBSET Ids :
          /\ done' = done \cup D
          /\ \A e \in D : \E w \in Workers :
               worker[w].event = e /\ worker[w].at \in {"mark", "mark_locked"}
    <2>1. CASE done' = done
      <3>1. WITNESS {} \in SUBSET Ids
      <3> QED  BY <2>1
    <2>2. ASSUME NEW w \in Workers, Mark(w)
          PROVE  \E D \in SUBSET Ids :
                   /\ done' = done \cup D
                   /\ \A e \in D : \E x \in Workers :
                        worker[x].event = e /\ worker[x].at \in {"mark", "mark_locked"}
      <3>1. /\ worker[w].at \in {"mark", "mark_locked"} /\ worker[w].event \in Ids
            /\ done' = done \cup {worker[w].event}
        BY <2>2 DEF Mark, TypeInv, Placed
      <3>2. {worker[w].event} \in SUBSET Ids
        BY <3>1
      <3>3. WITNESS {worker[w].event} \in SUBSET Ids
      <3> QED  BY <3>1
    <2>3. done' = done \/ \E w \in Workers : Mark(w)
      BY DEF Next, Work, vars, Environment, LoadEdit, CommitEdit, Publish, OtherEvent, RepairKey, Poll, Claim,
             EndBatch, DispatchNothing, ReadVersion, DeleteSegments, InsertSegments,
             ReadSegments, CallProvider, StoreEmbeddings, HandlerRaises, ProviderFails, Crash,
             DoneAtClaim, DoneUnlessFailed
    <2> QED  BY <2>1, <2>2, <2>3
  <1>4. done \subseteq Ids /\ \A v \in Versions : index[v].gen \in Nat
    BY SegmentsOfIndex DEF TypeInv, TypeOK, Segments
  <1>5. ASSUME NEW e \in done', events'[e].type = "version.published"
        PROVE  index'[events'[e].version].gen > e
    <2>1. e \in Ids /\ events'[e] = events[e] /\ e \in Nat
      BY <1>1, <1>3, <1>4, IdsPositive DEF QueueMoves
    <2>2. PICK v \in Versions : v = events[e].version
      BY <2>1, IdsPositive DEF Event
    <2>3. index[v].gen > e
      <3>1. CASE e \in done
        BY <1>5, <2>1, <2>2, <3>1 DEF DeliveryInv, ProcessedIsIndexed
      <3>2. CASE e \in D
        BY <1>3, <1>5, <2>1, <2>2, <3>2 DEF DeliveryInv, Achieved
      <3> QED  BY <1>3, <3>1, <3>2
    <2>4. SegmentsMove(v)
      BY <1>1, <2>2 DEF QueueMoves
    <2> QED  BY <2>1, <2>2, <2>3, <2>4 DEF SegmentsMove
  <1>6. ASSUME NEW v \in Versions,
               index'[v].gen # 0, ~index'[v].embedded, provider' # "none"
        PROVE  index'[v].gen \in Ids' /\ index'[v].gen \notin done'
    <2>1. SegmentsMove(v) /\ provider # "none" /\ Ids \subseteq Ids'
      BY <1>1, <1>6 DEF QueueMoves
    <2>2. CASE index'[v] = index[v]
      <3>1. index[v].gen \in Ids /\ index[v].gen \notin done
        BY <1>6, <2>1, <2>2 DEF DeliveryInv, EmbeddingPending, Pending
      <3>2. index[v].gen \notin D
        <4> SUFFICES ASSUME NEW w \in Workers, worker[w].event = index[v].gen,
                            worker[w].at \in {"mark", "mark_locked"}
                     PROVE  FALSE
          BY <1>3
        <4>1. events[index[v].gen].version = v
          <5>1. Queued(v)
            BY DEF TypeInv
          <5> QED  BY <1>6, <2>2, <5>1 DEF Queued
        <4> QED  BY <1>6, <2>1, <2>2, <4>1 DEF DeliveryInv, Achieved
      <3> QED  BY <1>3, <2>1, <2>2, <3>1, <3>2
    <2>3. CASE index'[v].gen \in Ids' \ Ids
      BY <1>3, <1>4, <2>3
    <2> QED  BY <1>6, <2>1, <2>2, <2>3 DEF SegmentsMove
  <1> QED  BY <1>2, <1>5, <1>6 DEF DeliveryInv, ProcessedIsIndexed, EmbeddingPending, Pending

\* Nothing is marked, indexed or achieved at the start.
LEMMA DeliveryInit == Init => DeliveryInv
  BY DEF Init, DeliveryInv, ProcessedIsIndexed, EmbeddingPending, Achieved, Rest

\* Marks follow achievements in every reachable state.
LEMMA DeliveryInvariant == Spec => []DeliveryInv
  BY DeliveryInit, DeliveryStep, TypeInvariant, PTL DEF Spec

\* At least once: a publication counts as processed only if its version was
\* reindexed after it was queued, whatever crashes, conflicts and second
\* deliveries the workers go through.
THEOREM PublicationsIndexed == Spec => []ProcessedIsIndexed
  <1>1. DeliveryInv => ProcessedIsIndexed
    BY DEF DeliveryInv
  <1> QED  BY <1>1, DeliveryInvariant, PTL

\* No embedding is lost: segments without one have their event in the queue.
THEOREM EmbeddingsStayPending == Spec => []EmbeddingPending
  <1>1. DeliveryInv => EmbeddingPending
    BY DEF DeliveryInv
  <1> QED  BY <1>1, DeliveryInvariant, PTL

-----------------------------------------------------------------------------
(***************************************************************************)
(* Freshness, for one worker.  The worker may index a text it read before  *)
(* the version was edited and published again; that is harmless because    *)
(* the second publication has an event of its own, which is pending until  *)
(* the worker has read the version anew and indexed what it read.          *)
(***************************************************************************)
OneWorker == \E w : Workers = {w}

\* A worker inside the handler of event e works with the text that was published or a later one.
Answers(p, e) ==
    p.event = e =>
        /\ p.at \in {"delete", "insert"} => p.rev >= released
        /\ p.at = "mark" => index[shown].rev >= released
        /\ p.at # "mark_locked"

\* A publication of what is shown is still to be processed.
Owed(e) == e \in Pending /\ events[e] = [type |-> "version.published", version |-> shown]

\* A worker is about to index a text of what is shown that was replaced before it was published.
Outdated(p) ==
    p.at \in {"delete", "insert"} /\ events[p.event].version = shown /\ p.rev < released

Fresh(p) ==
    shown # None =>
        \/ \E e \in Ids : Owed(e) /\ Answers(p, e)
        \/ index[shown].rev >= released /\ ~Outdated(p)

FreshInv == \A w \in Workers : Fresh(worker[w])

\* What clients and the operator do leaves search fresh or gives the worker an
\* event to make it fresh.
LEMMA FreshWhenPublished ==
    ASSUME TypeInv, NEW w \in Workers, Fresh(worker[w]), Environment
    PROVE  Fresh(worker[w])'
  <1>1. worker[w] \in Place /\ Placed(worker[w]) /\ worker' = worker
    BY DEF TypeInv, TypeOK, Place, Environment, LoadEdit, CommitEdit, Publish, OtherEvent, RepairKey
  <1>2. ASSUME NEW v \in Versions, Publish(v) PROVE Fresh(worker[w])'
    <2> DEFINE r == [type |-> "version.published", version |-> v]
    <2>0. PICK e : e = Len(events) + 1
      OBVIOUS
    <2>1. r \in Event /\ events' = Append(events, r) /\ shown' = v /\ done' = done
      BY <1>2 DEF Publish, Event, Types
    <2>2. e \in Ids' /\ e \notin Ids /\ events'[e] = r
      BY <2>0, <2>1, Queueing
    <2>3. e \notin done'
      BY <2>1, <2>2 DEF TypeInv, TypeOK
    <2>4. worker[w].at \notin {"poll", "next"} => worker[w].event # e
      BY <1>1, <2>2 DEF Placed
    <2>5. Owed(e)' /\ Answers(worker[w], e)'
      BY <1>1, <2>1, <2>2, <2>3, <2>4 DEF Owed, Answers, Pending
    <2> QED  BY <2>2, <2>5 DEF Fresh
  <1>3. ASSUME NEW v \in Versions, LoadEdit(v) PROVE Fresh(worker[w])'
    BY <1>3 DEF LoadEdit, Fresh, Owed, Answers, Outdated, Pending, Ids
  <1>4. ASSUME NEW v \in Versions, CommitEdit(v) \/ OtherEvent(v) PROVE Fresh(worker[w])'
    <2>1. UNCHANGED <<shown, released, done, index, worker>>
      BY <1>4 DEF CommitEdit, OtherEvent
    <2>2. PICK r \in Event : events' = Append(events, r)
      BY <1>4 DEF CommitEdit, OtherEvent, Event, Types
    <2>3. Ids \subseteq Ids' /\ \A e \in Ids : events'[e] = events[e]
      BY <2>2, Queueing
    <2>4. Outdated(worker[w])' <=> Outdated(worker[w])
      BY <1>1, <2>1, <2>3 DEF Outdated, Placed
    <2>5. \A e \in Ids : Owed(e) /\ Answers(worker[w], e) => Owed(e)' /\ Answers(worker[w], e)'
      BY <2>1, <2>3 DEF Owed, Answers, Pending
    <2> QED  BY <2>1, <2>3, <2>4, <2>5 DEF Fresh
  <1>5. CASE RepairKey
    BY <1>5 DEF RepairKey, Fresh, Owed, Answers, Outdated, Pending, Ids
  <1> QED  BY <1>2, <1>3, <1>4, <1>5 DEF Environment

\* The worker moves, and what is owed, shown and indexed stays.
LEMMA FreshWhileMoving ==
    ASSUME TypeInv, NEW w \in Workers, Fresh(worker[w]), UNCHANGED <<text, shown, released, loaded, events, done>>,
           index' = index \/ shown # None => index'[shown].rev = index[shown].rev,
           NEW p, worker'[w] = p,
           \A e \in Ids : Owed(e) /\ Answers(worker[w], e) => Answers(p, e)',
           ~Outdated(worker[w]) => ~Outdated(p)'
    PROVE  Fresh(worker[w])'
  <1>1. Ids' = Ids /\ \A e \in Ids : Owed(e)' <=> Owed(e)
    BY DEF Ids, Owed, Pending
  <1>2. \A e \in Ids : Answers(p, e)' <=> Answers(worker[w], e)'
    BY DEF Answers
  <1>3. Outdated(p)' <=> Outdated(worker[w])'
    BY DEF Outdated
  <1> QED  BY <1>1, <1>2, <1>3 DEF Fresh

\* The worker's own steps.
LEMMA FreshWhileWorking ==
    ASSUME TypeInv, NEW w \in Workers, Fresh(worker[w]),
           Work(w) \/ ProviderFails(w) \/ Crash(w)
    PROVE  Fresh(worker[w])'
  <1>1. worker[w] \in Place /\ Placed(worker[w]) /\ worker \in [Workers -> Place]
    BY DEF TypeInv, TypeOK, Place
  <1>2. PICK p : p = worker'[w]
    OBVIOUS
  <1>3. \A e \in Ids : Owed(e) => events[e].type = "version.published" /\ events[e].version = shown
    BY DEF Owed
  <1>4. CASE Poll(w) \/ EndBatch(w) \/ Claim(w) \/ HandlerRaises(w) \/ ProviderFails(w) \/ Crash(w)
    <2>1. p.at \in {"poll", "next", "dispatch"}
      <3>1. CASE Poll(w) \/ EndBatch(w)
        BY <1>1, <1>2, <3>1 DEF Poll, EndBatch, Goto, Place
      <3>2. CASE Claim(w)
        BY <1>1, <1>2, <3>2 DEF Claim, Place
      <3>3. CASE HandlerRaises(w) \/ ProviderFails(w)
        <4>1. worker' = [worker EXCEPT ![w] = [Rest EXCEPT !.at = "next", !.batch = worker[w].batch]]
          BY <3>3 DEF HandlerRaises, ProviderFails, AfterFailure, Leave
        <4> QED  BY <1>1, <1>2, <4>1 DEF Rest
      <3>4. CASE Crash(w)
        BY <1>1, <1>2, <3>4 DEF Crash, Rest
      <3> QED  BY <1>4, <3>1, <3>2, <3>3, <3>4
    <2>2. UNCHANGED <<text, shown, released, loaded, events, done, index>>
      BY <1>4 DEF Poll, EndBatch, Claim, HandlerRaises, ProviderFails, Crash, DoneAtClaim,
                  DoneUnlessFailed
    <2> QED  BY <1>2, <2>1, <2>2, FreshWhileMoving DEF Answers, Outdated
  <1>5. CASE DispatchNothing(w)
    <2>1. p.at = "mark_locked" /\ p.event = worker[w].event /\ TypeOf(w) # "version.published"
      BY <1>1, <1>2, <1>5 DEF DispatchNothing, Goto, Place
    <2>2. UNCHANGED <<text, shown, released, loaded, events, done, index>>
      BY <1>5 DEF DispatchNothing
    <2> QED  BY <1>2, <1>3, <2>1, <2>2, FreshWhileMoving DEF Answers, Outdated, TypeOf
  <1>6. CASE ReadVersion(w)
    <2>1. p.at = "delete" /\ p.event = worker[w].event /\ p.rev = text[VersionOf(w)]
      BY <1>1, <1>2, <1>6 DEF ReadVersion, Place
    <2>2. UNCHANGED <<text, shown, released, loaded, events, done, index>>
      BY <1>6 DEF ReadVersion
    <2>3. worker[w].event \in Ids
      BY <1>1, <1>6 DEF ReadVersion, Placed
    <2>4. VersionOf(w) \in Versions /\ None \notin Versions
      BY <2>3, IdsPositive, WorkerAssumption DEF VersionOf, Event
    <2>5. VersionOf(w) = shown => p.rev >= released /\ ~(p.rev < released)
      BY <2>1, <2>4 DEF TypeInv, TypeOK, Released
    <2> QED  BY <1>2, <1>3, <2>1, <2>2, <2>5, FreshWhileMoving DEF Answers, Outdated, VersionOf
  <1>7. CASE DeleteSegments(w)
    <2>1. /\ p.at = "insert" /\ p.event = worker[w].event /\ p.rev = worker[w].rev
          /\ worker[w].at = "delete"
      BY <1>1, <1>2, <1>7 DEF DeleteSegments, Place
    <2>2. UNCHANGED <<text, shown, released, loaded, events, done, index>>
      BY <1>7 DEF DeleteSegments
    <2> QED  BY <1>2, <2>1, <2>2, FreshWhileMoving DEF Answers, Outdated
  <1>8. CASE ReadSegments(w) \/ CallProvider(w)
    <2>1. p.at \in {"embed", "store"}
      BY <1>1, <1>2, <1>8 DEF ReadSegments, CallProvider, Goto, Place
    <2>2. UNCHANGED <<text, shown, released, loaded, events, done, index>>
      BY <1>8 DEF ReadSegments, CallProvider
    <2> QED  BY <1>2, <2>1, <2>2, FreshWhileMoving DEF Answers, Outdated
  <1>9. CASE StoreEmbeddings(w)
    <2>1. /\ p.at = "mark" /\ p.event = worker[w].event
          /\ events[worker[w].event].type = "version.reindexed"
      BY <1>1, <1>2, <1>9 DEF StoreEmbeddings, Goto, Placed
    <2>2. UNCHANGED <<text, shown, released, loaded, events, done>>
      BY <1>9 DEF StoreEmbeddings
    <2>3. shown # None => index'[shown].rev = index[shown].rev
      BY <1>9 DEF StoreEmbeddings, TypeInv, TypeOK
    <2> QED  BY <1>2, <1>3, <2>1, <2>2, <2>3, FreshWhileMoving DEF Answers, Outdated
  <1>10. CASE Mark(w)
    <2>1. /\ p.at = "next" /\ worker[w].at \in {"mark", "mark_locked"}
          /\ done' = done \cup {worker[w].event}
          /\ UNCHANGED <<text, shown, released, loaded, events, index>>
      BY <1>1, <1>2, <1>10 DEF Mark, Leave, Rest
    <2>2. \A e \in Ids : e # worker[w].event /\ Owed(e) => Owed(e)' /\ Answers(p, e)'
      BY <2>1 DEF Owed, Answers, Pending, Ids
    <2>3. Owed(worker[w].event) /\ Answers(worker[w], worker[w].event)
            => index[shown].rev >= released
      BY <2>1 DEF Answers
    <2>4. ~Outdated(worker[w])'
      BY <1>2, <2>1 DEF Outdated
    <2>5. \A e \in Ids : Answers(p, e)' => Answers(worker[w], e)'
      BY <1>2 DEF Answers
    <2> QED  BY <2>1, <2>2, <2>3, <2>4, <2>5 DEF Fresh, Ids
  <1>11. CASE InsertSegments(w)
    <2>1. /\ p.at = "mark" /\ p.event = worker[w].event /\ p.rev = worker[w].rev
          /\ worker[w].at = "insert" /\ UNCHANGED <<text, shown, released, loaded, done>>
          /\ worker[w].event \in Ids
      BY <1>1, <1>2, <1>11 DEF InsertSegments, Goto, Placed
    <2>2. PICK v \in Versions : v = VersionOf(w)
      BY <2>1, IdsPositive DEF VersionOf, Event
    <2>3. PICK r \in Event : events' = Append(events, r)
      BY <1>11, <2>2 DEF InsertSegments, WithReindexed, Event, Types
    <2>4. Ids \subseteq Ids' /\ \A e \in Ids : events'[e] = events[e]
      BY <2>3, Queueing
    <2>5. index'[v].rev = worker[w].rev /\ \A x \in Versions \ {v} : index'[x] = index[x]
      BY <1>11, <2>2 DEF InsertSegments, NewSegments, TypeInv, TypeOK
    <2>6. \A e \in Ids : Owed(e) => e \in Ids' /\ Owed(e)'
      BY <2>1, <2>4 DEF Owed, Pending
    <2>7. ~Outdated(worker[w])' /\ \A e \in Ids : Answers(p, e)' => Answers(worker[w], e)'
      BY <1>2, <2>1 DEF Outdated, Answers
    <2>0. worker[w].rev \in Int /\ released \in Int
      BY <1>1 DEF Place, TypeInv, TypeOK
    <2>8. CASE v = shown /\ worker[w].rev >= released
      BY <2>1, <2>5, <2>7, <2>8 DEF Fresh
    <2>9. CASE v = shown /\ worker[w].rev < released
      <3>1. Outdated(worker[w])
        BY <2>1, <2>2, <2>9 DEF Outdated, VersionOf
      <3>2. \A e \in Ids : Owed(e) /\ Answers(worker[w], e) => Answers(p, e)'
        BY <2>0, <2>1, <2>9 DEF Answers
      <3> QED  BY <2>1, <2>6, <2>7, <3>1, <3>2 DEF Fresh
    <2>10. CASE v # shown
      <3>1. \A e \in Ids : Owed(e) => Answers(p, e)'
        BY <1>3, <2>1, <2>2, <2>10 DEF Answers, VersionOf
      <3>2. shown # None => index'[shown] = index[shown]
        BY <2>5, <2>10 DEF TypeInv, TypeOK
      <3> QED  BY <2>1, <2>6, <2>7, <3>1, <3>2 DEF Fresh
    <2> QED  BY <2>0, <2>8, <2>9, <2>10
  <1> QED
    BY <1>4, <1>5, <1>6, <1>7, <1>8, <1>9, <1>10, <1>11 DEF Work

\* Every step of the one worker and of its environment keeps search fresh or the
\* event that makes it so.
LEMMA FreshStep == OneWorker /\ TypeInv /\ FreshInv /\ [Next]_vars => FreshInv'
  <1> SUFFICES ASSUME OneWorker, TypeInv, FreshInv, [Next]_vars, NEW w \in Workers
               PROVE  Fresh(worker[w])'
    BY DEF FreshInv
  <1>1. Fresh(worker[w])
    BY DEF FreshInv
  <1>2. CASE UNCHANGED vars
    BY <1>1, <1>2 DEF vars, Fresh, Owed, Answers, Outdated, Pending, Ids
  <1>3. CASE Environment
    BY <1>1, <1>3, FreshWhenPublished
  <1>4. ASSUME NEW x \in Workers, Work(x) \/ ProviderFails(x) \/ Crash(x)
        PROVE  Fresh(worker[w])'
    <2>1. x = w
      BY DEF OneWorker
    <2> QED  BY <1>1, <1>4, <2>1, FreshWhileWorking
  <1> QED  BY <1>2, <1>3, <1>4 DEF Next

\* With one worker, once the outbox is drained search knows the text that was
\* published or a later one, whatever was edited, republished, retried or crashed
\* on the way, edits that were loaded before the publication included.
THEOREM OneWorkerFresh == ASSUME OneWorker PROVE Spec => []FreshWhenSettled
  <1>1. Init => FreshInv
    BY DEF Init, FreshInv, Fresh
  <1>2. TypeInv /\ FreshInv /\ [Next]_vars => FreshInv'
    BY FreshStep
  <1>3. FreshInv => FreshWhenSettled
    <2> SUFFICES ASSUME FreshInv, Pending = {}, shown # None
                 PROVE  index[shown].rev >= released
      BY DEF FreshWhenSettled
    <2>1. PICK w \in Workers : Fresh(worker[w])
      BY DEF OneWorker, FreshInv
    <2> QED  BY <2>1 DEF Fresh, Owed
  <1> QED  BY <1>1, <1>2, <1>3, TypeInvariant, PTL DEF Spec
=============================================================================
