------------------------- MODULE RegistryRaceProofs -------------------------
(***************************************************************************)
(* Proofs about what survives the races between requests (the approval a   *)
(* publication saw, the numbering of an object's versions), and about      *)
(* requests that run one at a time, in any order and number.               *)
(***************************************************************************)
EXTENDS RegistryProofs

-----------------------------------------------------------------------------
(***************************************************************************)
(* How one step may change the record of one session, as far as these two  *)
(* proofs care.                                                            *)
(***************************************************************************)
Move(old, new) ==
    \/ new = old
    \/ new.op \in {"idle", "update", "review", "mark"}
    \/ new.op = "create" /\ new.number \in Nat \ {0} /\ IsNextNumber(new.obj, new.number)
    \/ new.op = "publish" /\ new.step \in {"version", "reviews"}
    \/ new.op = "publish" /\ ReviewsAllow(new)
    \/ /\ new.op = "publish" /\ old.op = "publish" /\ old.step = "contradictions"
       /\ new.ver = old.ver /\ new.risk = old.risk

\* One session moves, the others stay.
LEMMA OneMoves ==
    ASSUME TypeInv, NEW s \in Sessions, NEW t, txn' = [txn EXCEPT ![s] = t], Move(txn[s], t)
    PROVE  \A q \in Sessions : Move(txn[q], txn'[q])
  <1>1. ASSUME NEW q \in Sessions, q # s PROVE Move(txn[q], txn'[q])
    BY <1>1 DEF Move, TypeInv, TypeOK
  <1>2. txn'[s] = t
    BY DEF TypeInv, TypeOK
  <1> QED  BY <1>1, <1>2

\* How a session's transaction may change in a step: it begins, goes on with
\* the version and risk band it has, passes the gate's checks in turn, or ends.
LEMMA SessionsMove == TypeInv /\ [Next]_vars => \A q \in Sessions : Move(txn[q], txn'[q])
  <1> SUFFICES ASSUME TypeInv, [Next]_vars PROVE \A q \in Sessions : Move(txn[q], txn'[q])
    OBVIOUS
  <1>1. CASE UNCHANGED txn
    BY <1>1 DEF Move
  <1>2. ASSUME NEW s \in Sessions, txn' = [txn EXCEPT ![s] = Idle]
        PROVE  \A q \in Sessions : Move(txn[q], txn'[q])
    BY <1>2, OneMoves DEF Move, Idle
  <1>3. ASSUME NEW s \in Sessions, NEW o \in Objects, CreateVersionLoad(s, o)
        PROVE  \A q \in Sessions : Move(txn[q], txn'[q])
    <2>1. PICK n \in 1 .. Cardinality(Versions) + 1 :
             /\ IsNextNumber(o, n)
             /\ txn' = [txn EXCEPT ![s] = [Idle EXCEPT !.op = "create", !.step = "commit",
                                                       !.obj = o, !.number = n]]
      BY <1>3 DEF CreateVersionLoad
    <2> DEFINE t == [Idle EXCEPT !.op = "create", !.step = "commit", !.obj = o, !.number = n]
    <2>2. t.op = "create" /\ t.obj = o /\ t.number = n
      BY DEF Idle
    <2>3. n \in Nat \ {0}
      BY FS_CardinalityType, RegistryAssumption
    <2> HIDE DEF t
    <2>4. Move(txn[s], t)
      BY <2>1, <2>2, <2>3 DEF Move
    <2> QED  BY <2>1, <2>4, OneMoves DEF t
  <1>4. ASSUME NEW s \in Sessions, NEW v \in Versions, NEW op \in {"publish", "update"},
               LoadObject(s, op, v)
        PROVE  \A q \in Sessions : Move(txn[q], txn'[q])
    <2>1. /\ txn'[s].op = op /\ txn'[s].step = "version"
          /\ \A q \in Sessions \ {s} : txn'[q] = txn[q]
      BY <1>4 DEF LoadObject, Idle, TypeInv, TypeOK
    <2> QED  BY <2>1 DEF Move
  <1>5. ASSUME NEW s \in Sessions, UpdateLoadVersion(s)
        PROVE  \A q \in Sessions : Move(txn[q], txn'[q])
    <2>1. txn[s] \in Txn /\ txn[s].ver \in Versions /\ txn[s].op = "update"
      BY <1>5 DEF UpdateLoadVersion, AtStep, TypeInv, TypeOK, FilledIn
    <2>2. Loaded(txn[s]) \in Txn /\ Loaded(txn[s]).op = "update"
      BY <2>1, LoadedTyped
    <2>3. txn'[s].op = "update" /\ (\A q \in Sessions \ {s} : txn'[q] = txn[q])
      BY <1>5, <2>2 DEF UpdateLoadVersion, TypeInv, TypeOK, Txn
    <2> QED  BY <2>3 DEF Move
  <1>6. ASSUME NEW s \in Sessions, PublishLoadVersion(s)
        PROVE  \A q \in Sessions : Move(txn[q], txn'[q])
    <2>1. txn[s] \in Txn /\ txn[s].ver \in Versions /\ txn[s].op = "publish"
      BY <1>6 DEF PublishLoadVersion, AtStep, TypeInv, TypeOK, FilledIn
    <2>2. Loaded(txn[s]) \in Txn /\ Loaded(txn[s]).op = "publish"
      BY <2>1, LoadedTyped
    <2>3. /\ txn'[s].op = "publish" /\ txn'[s].step = "reviews"
          /\ \A q \in Sessions \ {s} : txn'[q] = txn[q]
      BY <1>6, <2>2 DEF PublishLoadVersion, TypeInv, TypeOK, Txn
    <2> QED  BY <2>3 DEF Move
  <1>7. ASSUME NEW s \in Sessions, CheckReviews(s)
        PROVE  \A q \in Sessions : Move(txn[q], txn'[q])
    <2>1. /\ txn'[s].op = "publish" /\ txn'[s].ver = txn[s].ver /\ txn'[s].risk = txn[s].risk
          /\ \A q \in Sessions \ {s} : txn'[q] = txn[q]
      BY <1>7 DEF CheckReviews, AtStep, TypeInv, TypeOK, Txn
    <2>2. ReviewsAllow(txn[s])
      BY <1>7 DEF CheckReviews
    <2>3. \A t : t.ver = txn[s].ver /\ t.risk = txn[s].risk => ReviewsAllow(t)
      BY <2>2 DEF ReviewsAllow
    <2> QED  BY <2>1, <2>3 DEF Move
  <1>8. ASSUME NEW s \in Sessions, CheckContradictions(s)
        PROVE  \A q \in Sessions : Move(txn[q], txn'[q])
    <2>1. /\ txn'[s].op = "publish" /\ txn'[s].ver = txn[s].ver /\ txn'[s].risk = txn[s].risk
          /\ txn[s].op = "publish" /\ txn[s].step = "contradictions"
          /\ \A q \in Sessions \ {s} : txn'[q] = txn[q]
      BY <1>8 DEF CheckContradictions, AtStep, TypeInv, TypeOK, Txn
    <2> QED  BY <2>1 DEF Move
  <1>9. ASSUME NEW s \in Sessions, NEW v \in Versions,
               \/ \E outcome \in SentOutcomes : ReviewLoad(s, v, outcome)
               \/ \E status \in SentMarks \cap MarkedValidity : MarkLoad(s, v, status)
        PROVE  \A q \in Sessions : Move(txn[q], txn'[q])
    <2>1. CASE \E outcome \in SentOutcomes : ReviewLoad(s, v, outcome)
      <3>1. txn'[s].op = "review" /\ (\A q \in Sessions \ {s} : txn'[q] = txn[q])
        BY <2>1 DEF ReviewLoad, Idle, TypeInv, TypeOK
      <3> QED  BY <3>1 DEF Move
    <2>2. CASE \E status \in SentMarks \cap MarkedValidity : MarkLoad(s, v, status)
      <3>1. txn'[s].op = "mark" /\ (\A q \in Sessions \ {s} : txn'[q] = txn[q])
        BY <2>2 DEF MarkLoad, Idle, TypeInv, TypeOK
      <3> QED  BY <3>1 DEF Move
    <2> QED  BY <1>9, <2>1, <2>2
  <1>10. CASE UNCHANGED vars
    BY <1>1, <1>10 DEF vars
  <1>11. ASSUME \/ \E o \in Objects : CreateObject(o) \/ DeprecateObject(o)
                \/ \E o \in Objects, v \in Versions : MarkVerified(o, v)
                \/ \E c \in Cases, left, right \in Versions : OpenContradiction(c, left, right)
                \/ \E c \in Cases, status \in CaseStatus : ResolveContradiction(c, status)
         PROVE  \A q \in Sessions : Move(txn[q], txn'[q])
    BY <1>1, <1>11
    DEF CreateObject, DeprecateObject, MarkVerified, OpenContradiction, ResolveContradiction
  <1>12. ASSUME NEW s \in Sessions,
                \/ \E v \in Versions, r \in Risk, b \in Bodies,
                      val \in {"current"} \cup EditValidity : CreateVersionCommit(s, v, r, b, val)
                \/ \E r \in Risk, b \in Bodies, val \in EditValidity \cup {txn[s].validity} :
                     UpdateCommit(s, r, b, val)
                \/ PublishCommit(s) \/ ReviewCommit(s) \/ MarkCommit(s) \/ Rollback(s)
         PROVE  \A q \in Sessions : Move(txn[q], txn'[q])
    BY <1>2, <1>12
    DEF CreateVersionCommit, UpdateCommit, PublishCommit, ReviewCommit, MarkCommit, Rollback
  <1> QED
    BY <1>3, <1>4, <1>5, <1>6, <1>7, <1>8, <1>9, <1>10, <1>11, <1>12 DEF Next

-----------------------------------------------------------------------------
(***************************************************************************)
(* The approval outlives the gate: the invariant also covers the step      *)
(* between the check and the commit, and approvals are never withdrawn.    *)
(***************************************************************************)
GatePassed(t) ==
    t.op = "publish" /\ t.step \in {"contradictions", "commit"} => ReviewsAllow(t)

GateInv == \A s \in Sessions : GatePassed(txn[s])

\* Review records are only added.
LEMMA ApprovalsKept == [Next]_vars => approvals \subseteq approvals'
  <1> SUFFICES ASSUME [Next]_vars
               PROVE  approvals \subseteq approvals'
    OBVIOUS
  <1>1. CASE UNCHANGED rows
    BY <1>1 DEF rows
  <1>2. CASE UNCHANGED vars
    BY <1>1, <1>2 DEF vars
  <1>3. ASSUME \/ \E o \in Objects : CreateObject(o) \/ DeprecateObject(o)
               \/ \E o \in Objects, v \in Versions : MarkVerified(o, v)
               \/ \E c \in Cases, left, right \in Versions : OpenContradiction(c, left, right)
               \/ \E c \in Cases, status \in CaseStatus : ResolveContradiction(c, status)
        PROVE  approvals \subseteq approvals'
    BY <1>3 DEF CreateObject, DeprecateObject, MarkVerified, OpenContradiction,
                ResolveContradiction
  <1>4. ASSUME NEW s \in Sessions,
               \/ \E o \in Objects : CreateVersionLoad(s, o)
               \/ \E v \in Versions, op \in {"publish", "update"} : LoadObject(s, op, v)
               \/ UpdateLoadVersion(s) \/ PublishLoadVersion(s)
               \/ CheckReviews(s) \/ CheckContradictions(s)
               \/ \E v \in Versions, outcome \in SentOutcomes : ReviewLoad(s, v, outcome)
               \/ \E v \in Versions, status \in SentMarks \cap MarkedValidity :
                    MarkLoad(s, v, status)
               \/ Rollback(s)
        PROVE  UNCHANGED rows
    BY <1>4 DEF CreateVersionLoad, LoadObject, UpdateLoadVersion, PublishLoadVersion, CheckReviews,
                CheckContradictions, ReviewLoad, MarkLoad, Rollback
  <1>5. ASSUME NEW s \in Sessions,
               \/ \E v \in Versions, r \in Risk, b \in Bodies, val \in {"current"} \cup EditValidity :
                    CreateVersionCommit(s, v, r, b, val)
               \/ \E r \in Risk, b \in Bodies, val \in EditValidity \cup {txn[s].validity} :
                    UpdateCommit(s, r, b, val)
               \/ PublishCommit(s) \/ ReviewCommit(s) \/ MarkCommit(s)
        PROVE  approvals \subseteq approvals'
    BY <1>5 DEF CreateVersionCommit, UpdateCommit, PublishCommit, ReviewCommit, MarkCommit
  <1> QED  BY <1>1, <1>2, <1>3, <1>4, <1>5 DEF Next

\* Once past the review check a publication of a high-risk version stays
\* approved.
LEMMA GateStep == TypeInv /\ GateInv /\ [Next]_vars => GateInv'
  <1> SUFFICES ASSUME TypeInv, GateInv, [Next]_vars, NEW s \in Sessions
               PROVE  GatePassed(txn[s])'
    BY DEF GateInv
  <1>1. \A t : ReviewsAllow(t) => (t.risk = "high" => Approved(t.ver)')
    BY ApprovalsKept DEF ReviewsAllow, Approved
  <1>2. ReviewsAllow(txn'[s]) => GatePassed(txn[s])'
    BY <1>1 DEF GatePassed, ReviewsAllow
  <1>3. txn'[s].ver = txn[s].ver /\ txn'[s].risk = txn[s].risk /\ ReviewsAllow(txn[s])
          => ReviewsAllow(txn'[s])
    BY DEF ReviewsAllow
  <1>4. GatePassed(txn[s])
    BY DEF GateInv
  <1> QED
    BY <1>2, <1>3, <1>4, SessionsMove DEF Move, GatePassed

\* The publication of a version loaded as high-risk commits only while an
\* approval of that version is on record, whatever ran since the gate's check.
THEOREM ApprovalHolds == Spec => []ApprovalOutlivesGate
  <1>1. Init => GateInv
    BY DEF Init, GateInv, GatePassed, Idle
  <1>2. Spec => []GateInv
    BY <1>1, TypeInvariant, GateStep, PTL DEF Spec
  <1>3. GateInv => ApprovalOutlivesGate
    BY DEF GateInv, GatePassed, ReviewsAllow, ApprovalOutlivesGate, AtStep
  <1> QED  BY <1>2, <1>3, PTL

-----------------------------------------------------------------------------
(***************************************************************************)
(* Numbering.  Between its load and its insert a create_version request    *)
(* may be overtaken, so its number is the next one or already taken; the   *)
(* unique constraint leaves only the first case.                           *)
(***************************************************************************)
NumbersInv ==
    /\ VersionNumbersGapless
    /\ \A s \in Sessions :
         txn[s].op = "create" =>
             txn[s].number \in 1 .. Cardinality(VersionsOf(txn[s].obj)) + 1

\* An object's versions are a finite set.
LEMMA VersionsFinite ==
    ASSUME NEW S \in SUBSET Versions
    PROVE  IsFiniteSet(S) /\ Cardinality(S) \in Nat
  <1>1. IsFiniteSet(S)
    BY FS_Subset, RegistryAssumption
  <1> QED  BY <1>1, FS_CardinalityType

\* max + 1 over numbers 1 .. n is within 1 .. n + 1.
LEMMA NextNumberBound ==
    ASSUME NumbersInv, NEW o \in Objects, NEW n \in Nat \ {0}, IsNextNumber(o, n)
    PROVE  n \in 1 .. Cardinality(VersionsOf(o)) + 1
  <1>1. Cardinality(VersionsOf(o)) \in Nat
    BY VersionsFinite DEF VersionsOf
  <1>2. CASE n = 1
    BY <1>1, <1>2
  <1>3. CASE \E v \in VersionsOf(o) : number[v] = n - 1
    <2>1. n - 1 \in 1 .. Cardinality(VersionsOf(o))
      BY <1>3 DEF NumbersInv, VersionNumbersGapless
    <2> QED  BY <1>1, <2>1
  <1> QED  BY <1>2, <1>3 DEF IsNextNumber

\* Only the insert of a version touches owner and number.
LEMMA NumbersKept ==
    [Next]_vars =>
        \/ UNCHANGED <<owner, number>>
        \/ \E s \in Sessions, v \in Versions, r \in Risk, b \in Bodies,
              val \in {"current"} \cup EditValidity : CreateVersionCommit(s, v, r, b, val)
  <1> SUFFICES ASSUME [Next]_vars
               PROVE  \/ UNCHANGED <<owner, number>>
                      \/ \E s \in Sessions, v \in Versions, r \in Risk, b \in Bodies,
                            val \in {"current"} \cup EditValidity :
                              CreateVersionCommit(s, v, r, b, val)
    OBVIOUS
  <1>1. CASE UNCHANGED rows
    BY <1>1 DEF rows
  <1>2. CASE UNCHANGED vars
    BY <1>1, <1>2 DEF vars
  <1>3. ASSUME \/ \E o \in Objects : CreateObject(o) \/ DeprecateObject(o)
               \/ \E o \in Objects, v \in Versions : MarkVerified(o, v)
               \/ \E c \in Cases, left, right \in Versions : OpenContradiction(c, left, right)
               \/ \E c \in Cases, status \in CaseStatus : ResolveContradiction(c, status)
        PROVE  UNCHANGED <<owner, number>>
    BY <1>3 DEF CreateObject, DeprecateObject, MarkVerified, OpenContradiction,
                ResolveContradiction
  <1>4. ASSUME NEW s \in Sessions,
               \/ \E o \in Objects : CreateVersionLoad(s, o)
               \/ \E v \in Versions, op \in {"publish", "update"} : LoadObject(s, op, v)
               \/ UpdateLoadVersion(s) \/ PublishLoadVersion(s)
               \/ CheckReviews(s) \/ CheckContradictions(s)
               \/ \E v \in Versions, outcome \in SentOutcomes : ReviewLoad(s, v, outcome)
               \/ \E v \in Versions, status \in SentMarks \cap MarkedValidity :
                    MarkLoad(s, v, status)
               \/ Rollback(s)
        PROVE  UNCHANGED rows
    BY <1>4 DEF CreateVersionLoad, LoadObject, UpdateLoadVersion, PublishLoadVersion, CheckReviews,
                CheckContradictions, ReviewLoad, MarkLoad, Rollback
  <1>5. ASSUME NEW s \in Sessions,
               \/ \E r \in Risk, b \in Bodies, val \in EditValidity \cup {txn[s].validity} :
                    UpdateCommit(s, r, b, val)
               \/ PublishCommit(s) \/ ReviewCommit(s) \/ MarkCommit(s)
        PROVE  UNCHANGED <<owner, number>>
    BY <1>5 DEF UpdateCommit, PublishCommit, ReviewCommit, MarkCommit
  <1> QED  BY <1>1, <1>2, <1>3, <1>4, <1>5 DEF Next

\* The insert extends one object's numbers by the next one.
LEMMA InsertExtends ==
    ASSUME TypeInv, NumbersInv, NEW s \in Sessions, NEW v \in Versions, NEW r \in Risk,
           NEW b \in Bodies, NEW val \in {"current"} \cup EditValidity,
           CreateVersionCommit(s, v, r, b, val)
    PROVE  /\ VersionNumbersGapless'
           /\ \A o \in Objects : Cardinality(VersionsOf(o)) <= Cardinality(VersionsOf(o)')
  <1>0. PICK o, n : o = txn[s].obj /\ n = txn[s].number
    OBVIOUS
  <1> DEFINE k == Cardinality(VersionsOf(o))
  <1>1. /\ o \in Objects /\ o # None /\ n \in 1 .. k + 1 /\ k \in Nat /\ owner[v] = None
        /\ IsFiniteSet(VersionsOf(o))
    BY <1>0, VersionsFinite, RegistryAssumption
    DEF CreateVersionCommit, AtStep, NumbersInv, TypeInv, FilledIn, VersionsOf
  <1>2. {number[w] : w \in VersionsOf(o)} = 1 .. k
    BY <1>1 DEF NumbersInv, VersionNumbersGapless
  <1>3. n = k + 1
    <2>1. \A w \in VersionsOf(o) : number[w] # n
      BY <1>0 DEF CreateVersionCommit, NumberFree
    <2>2. n \notin 1 .. k
      BY <1>2, <2>1
    <2> QED  BY <1>1, <2>2
  <1>4. /\ owner' = [owner EXCEPT ![v] = o] /\ number' = [number EXCEPT ![v] = n]
        /\ owner \in [Versions -> Objects \cup {None}] /\ number \in [Versions -> Nat]
    BY <1>0 DEF CreateVersionCommit, TypeInv, TypeOK
  <1> HIDE DEF k
  <1>5. VersionsOf(o)' = VersionsOf(o) \cup {v} /\ v \notin VersionsOf(o)
    BY <1>1, <1>4 DEF VersionsOf
  <1>6. Cardinality(VersionsOf(o)') = k + 1
    BY <1>1, <1>5, FS_AddElement DEF k
  <1>7. {number'[w] : w \in VersionsOf(o)'} = 1 .. Cardinality(VersionsOf(o)')
    <2>1. /\ \A w \in VersionsOf(o) : number'[w] = number[w]
          /\ number'[v] = n
      BY <1>4, <1>5 DEF VersionsOf
    <2>2. {number'[w] : w \in VersionsOf(o)'} = {number[w] : w \in VersionsOf(o)} \cup {n}
      BY <1>5, <2>1
    <2>3. (1 .. k) \cup {k + 1} = 1 .. k + 1
      BY <1>1
    <2> QED  BY <1>2, <1>3, <1>6, <2>2, <2>3
  <1>8. ASSUME NEW p \in Objects, p # o
        PROVE  /\ VersionsOf(p)' = VersionsOf(p)
               /\ \A w \in VersionsOf(p) : number'[w] = number[w]
    BY <1>1, <1>4, <1>8, RegistryAssumption DEF VersionsOf
  <1>9. ASSUME NEW p \in Objects
        PROVE  /\ {number'[w] : w \in VersionsOf(p)'} = 1 .. Cardinality(VersionsOf(p)')
               /\ Cardinality(VersionsOf(p)) <= Cardinality(VersionsOf(p)')
    <2>1. CASE p = o
      BY <1>1, <1>6, <1>7, <2>1 DEF k
    <2>2. CASE p # o
      <3>1. /\ VersionsOf(p)' = VersionsOf(p) /\ Cardinality(VersionsOf(p)) \in Nat
            /\ \A w \in VersionsOf(p) : number'[w] = number[w]
        BY <1>8, <2>2, VersionsFinite DEF VersionsOf
      <3>2. {number'[w] : w \in VersionsOf(p)'} = {number[w] : w \in VersionsOf(p)}
        BY <3>1
      <3>3. {number[w] : w \in VersionsOf(p)} = 1 .. Cardinality(VersionsOf(p))
        BY DEF NumbersInv, VersionNumbersGapless
      <3> QED  BY <3>1, <3>2, <3>3
    <2> QED  BY <2>1, <2>2
  <1> QED  BY <1>9 DEF VersionNumbersGapless

\* Every step keeps the numbers gapless and the ones still to be inserted
\* within reach.
LEMMA NumbersStep == TypeInv /\ NumbersInv /\ [Next]_vars => NumbersInv'
  <1> SUFFICES ASSUME TypeInv, NumbersInv, [Next]_vars PROVE NumbersInv'  OBVIOUS
  <1>1. /\ VersionNumbersGapless'
        /\ \A o \in Objects : Cardinality(VersionsOf(o)) <= Cardinality(VersionsOf(o)')
    <2>1. CASE UNCHANGED <<owner, number>>
      <3>1. \A o : VersionsOf(o)' = VersionsOf(o)
        BY <2>1 DEF VersionsOf
      <3>2. VersionNumbersGapless'
        BY <2>1, <3>1 DEF NumbersInv, VersionNumbersGapless
      <3>3. \A o \in Objects : Cardinality(VersionsOf(o)) <= Cardinality(VersionsOf(o)')
        BY <3>1, VersionsFinite DEF VersionsOf
      <3> QED  BY <3>2, <3>3
    <2> QED  BY <2>1, NumbersKept, InsertExtends
  <1>2. ASSUME NEW s \in Sessions, NEW t, t = txn'[s], t.op = "create"
        PROVE  t.number \in 1 .. Cardinality(VersionsOf(t.obj)') + 1
    <2>1. Move(txn[s], t)
      BY <1>2, SessionsMove
    <2>2. t.obj \in Objects
      BY <1>2, TypeStep DEF TypeInv, FilledIn
    <2>3. t.number \in 1 .. Cardinality(VersionsOf(t.obj)) + 1
      <3>1. CASE t = txn[s]
        BY <1>2, <3>1 DEF NumbersInv
      <3>2. CASE t.number \in Nat \ {0} /\ IsNextNumber(t.obj, t.number)
        BY <2>2, <3>2, NextNumberBound
      <3> QED  BY <1>2, <2>1, <3>1, <3>2 DEF Move
    <2>4. /\ Cardinality(VersionsOf(t.obj)) \in Nat /\ Cardinality(VersionsOf(t.obj)') \in Nat
          /\ Cardinality(VersionsOf(t.obj)) <= Cardinality(VersionsOf(t.obj)')
      BY <1>1, <2>2, VersionsFinite DEF VersionsOf
    <2> QED  BY <2>3, <2>4
  <1>3. ASSUME NEW s \in Sessions, txn'[s].op = "create"
        PROVE  (txn[s].number \in 1 .. Cardinality(VersionsOf(txn[s].obj)) + 1)'
    <2>1. PICK t : t = txn'[s]
      OBVIOUS
    <2> QED  BY <1>2, <1>3, <2>1 DEF VersionsOf
  <1> QED  BY <1>1, <1>3 DEF NumbersInv

\* Every object's versions are numbered 1, 2, ..., n, however many requests for
\* a new version compute the same next number.
THEOREM NumbersAlwaysGapless == Spec => []VersionNumbersGapless
  <1>1. Init => NumbersInv
    <2> SUFFICES ASSUME Init PROVE NumbersInv  OBVIOUS
    <2>1. \A o \in Objects : VersionsOf(o) = {}
      BY RegistryAssumption DEF Init, VersionsOf
    <2>2. VersionNumbersGapless
      BY <2>1, FS_EmptySet DEF VersionNumbersGapless
    <2> QED  BY <2>2 DEF Init, NumbersInv, Idle
  <1>2. Spec => []NumbersInv
    BY <1>1, TypeInvariant, NumbersStep, PTL DEF Spec
  <1>3. NumbersInv => VersionNumbersGapless
    BY DEF NumbersInv
  <1> QED  BY <1>2, <1>3, PTL

-----------------------------------------------------------------------------
(***************************************************************************)
(* With one session nothing commits between a request's load and its own   *)
(* commit: that is the inductive invariant the serial properties need.     *)
(***************************************************************************)
OneSession == \A s, r \in Sessions : s = r

\* The row of the version has been read.
VersionRead(t) == t.step # "version" \/ t.current = t.ver

\* What a request has loaded is still what the rows hold, and what the gate has
\* checked so far is still so.
Agrees(t) ==
    /\ t.op = "publish" =>
         /\ t.current = current[t.obj] /\ t.lifecycle = lifecycle[t.obj]
         /\ t.current \notin {None, t.ver} => t.prior = validity[t.current]
         /\ VersionRead(t) => t.risk = risk[t.ver] /\ t.validity = validity[t.ver]
         /\ t.step = "version" /\ t.current = t.ver => t.body = body[t.ver]
         /\ t.step # "version" => ~LacksBoundary(t.obj, body[t.ver])
         /\ t.step \in {"contradictions", "commit"} => ReviewsAllow(t)
         /\ t.step = "commit" => ~Contested(t.ver)
    /\ t.op = "update" =>
         /\ owner[t.ver] # None
         /\ t.step = "version" => t.current = current[owner[t.ver]]
         /\ t.step # "version" => current[owner[t.ver]] # t.ver /\ t.validity = validity[t.ver]
    /\ t.op \in {"review", "mark"} => t.obj = owner[t.ver]
    /\ t.op = "review" /\ t.arg \in DOMAIN LifecycleOf => t.lifecycle = lifecycle[t.obj]
    /\ t.op = "mark" /\ t.arg = "deprecated" /\ current[t.obj] = t.ver => t.lifecycle = lifecycle[t.obj]

AllAgree == \A s \in Sessions : Agrees(txn[s])

LEMMA IdleAgrees == Agrees(Idle) /\ Agrees(Idle)'
  BY DEF Agrees, Idle

\* A step after which the one session is idle.
LEMMA EndsIdle ==
    ASSUME TypeInv, OneSession,
           \/ SessionFree /\ UNCHANGED txn
           \/ \E s \in Sessions : txn' = [txn EXCEPT ![s] = Idle]
    PROVE  AllAgree'
  <1>1. \A q \in Sessions : txn'[q] = Idle
    BY DEF OneSession, SessionFree, TypeInv, TypeOK
  <1> QED  BY <1>1, IdleAgrees DEF AllAgree

\* A step that only changes what the one session knows.
LEMMA OnlyKnows ==
    ASSUME TypeInv, OneSession, UNCHANGED rows, NEW s \in Sessions, NEW t, Agrees(t),
           txn' = [txn EXCEPT ![s] = t]
    PROVE  AllAgree'
  <1>1. \A q \in Sessions : txn'[q] = t
    BY DEF OneSession, TypeInv, TypeOK
  <1>2. \A q \in Sessions : Agrees(txn[q])' <=> Agrees(txn'[q])
    BY DEF Agrees, rows, Contested, VersionRead, LacksBoundary, ReviewsAllow, Approved
  <1> QED  BY <1>1, <1>2 DEF AllAgree

\* What a request reads of an object and of the version that is current there is
\* what the rows hold.
LEMMA ObjectLoaded ==
    ASSUME TypeInv, OneSession, NEW s \in Sessions, NEW v \in Versions,
           NEW op \in {"publish", "update"}, LoadObject(s, op, v)
    PROVE  AllAgree'
  <1> DEFINE o == owner[v]
             c == current[o]
             t == [Idle EXCEPT !.op = op, !.step = "version", !.obj = o, !.ver = v,
                               !.current = c, !.lifecycle = lifecycle[o],
                               !.prior = IF c \in {None, v} THEN "none" ELSE validity[c],
                               !.validity = IF c = v THEN validity[v] ELSE "none",
                               !.risk = IF c = v THEN risk[v] ELSE "none",
                               !.body = IF c = v THEN body[v] ELSE None]
  <1>1. UNCHANGED rows /\ txn' = [txn EXCEPT ![s] = t] /\ o # None
    BY DEF LoadObject
  <1>2. /\ t.op = op /\ t.step = "version" /\ t.obj = o /\ t.ver = v /\ t.current = c
        /\ t.lifecycle = lifecycle[o]
        /\ t.prior = (IF c \in {None, v} THEN "none" ELSE validity[c])
        /\ t.validity = (IF c = v THEN validity[v] ELSE "none")
        /\ t.risk = (IF c = v THEN risk[v] ELSE "none")
        /\ t.body = (IF c = v THEN body[v] ELSE None)
    BY DEF Idle
  <1>3. Agrees(t)
    <2> HIDE DEF t
    <2>1. op \in {"publish", "update"}
      OBVIOUS
    <2> QED  BY <1>1, <1>2, <2>1 DEF Agrees, VersionRead
  <1> QED
    <2> HIDE DEF t
    <2> QED  BY <1>1, <1>3, OnlyKnows

\* Reading the version's own row after its object's.
LEMMA RowRead ==
    ASSUME TypeInv, NEW t \in Txn, t.ver \in Versions,
           t.current = t.ver => /\ t.validity = validity[t.ver] /\ t.risk = risk[t.ver]
                                /\ t.body = body[t.ver]
    PROVE  /\ Loaded(t).validity = validity[t.ver] /\ Loaded(t).risk = risk[t.ver]
           /\ Loaded(t).body = body[t.ver] /\ Loaded(t).prior = t.prior
  <1>1. CASE t.current = t.ver
    BY <1>1 DEF Loaded
  <1>2. CASE t.current # t.ver
    BY <1>2 DEF Loaded, Txn
  <1> QED  BY <1>1, <1>2

\* The step that reads the version's row, and checks its boundary, before a
\* publication.
LEMMA PublishedRowRead ==
    ASSUME TypeInv, OneSession, AllAgree, NEW s \in Sessions, PublishLoadVersion(s)
    PROVE  AllAgree'
  <1> DEFINE l == Loaded(txn[s])
             t == [l EXCEPT !.step = "reviews", !.body = None]
  <1>1. /\ txn[s] \in Txn /\ txn[s].ver \in Versions /\ txn[s].obj \in Objects
        /\ txn[s].op = "publish" /\ txn[s].step = "version" /\ Agrees(txn[s])
    BY DEF PublishLoadVersion, AtStep, TypeInv, TypeOK, FilledIn, AllAgree
  <1>2. /\ l \in Txn /\ l.op = "publish" /\ l.ver = txn[s].ver /\ l.obj = txn[s].obj
        /\ l.current = txn[s].current /\ l.lifecycle = txn[s].lifecycle
    BY <1>1, LoadedTyped
  <1>3. /\ l.validity = validity[l.ver] /\ l.risk = risk[l.ver] /\ l.body = body[l.ver]
        /\ l.prior = txn[s].prior
    BY <1>1, <1>2, RowRead DEF Agrees, VersionRead
  <1>4. ~LacksBoundary(l.obj, l.body) /\ UNCHANGED rows /\ txn' = [txn EXCEPT ![s] = t]
    BY DEF PublishLoadVersion
  <1>5. /\ t.op = l.op /\ t.step = "reviews" /\ t.obj = l.obj /\ t.ver = l.ver
        /\ t.current = l.current /\ t.lifecycle = l.lifecycle /\ t.prior = l.prior
        /\ t.validity = l.validity /\ t.risk = l.risk
    BY <1>2 DEF Txn
  <1> HIDE DEF l, t
  <1>6. Agrees(t)
    BY <1>1, <1>2, <1>3, <1>4, <1>5 DEF Agrees, VersionRead
  <1> QED  BY <1>4, <1>6, OnlyKnows

\* The gate's two queries.
LEMMA GateQueried ==
    ASSUME TypeInv, OneSession, AllAgree, NEW s \in Sessions,
           CheckReviews(s) \/ CheckContradictions(s)
    PROVE  AllAgree'
  <1>1. /\ txn[s] \in Txn /\ txn[s].op = "publish" /\ Agrees(txn[s])
        /\ txn[s].step \in {"reviews", "contradictions"}
    BY DEF CheckReviews, CheckContradictions, AtStep, TypeInv, TypeOK, AllAgree
  <1>2. PICK step : /\ txn' = [txn EXCEPT ![s] = [txn[s] EXCEPT !.step = step]]
                    /\ UNCHANGED rows
                    /\ \/ step = "contradictions" /\ ReviewsAllow(txn[s])
                       \/ /\ step = "commit" /\ txn[s].step = "contradictions"
                          /\ ~Contested(txn[s].ver)
    BY DEF CheckReviews, CheckContradictions, AtStep, TypeInv, TypeOK
  <1> DEFINE t == [txn[s] EXCEPT !.step = step]
  <1>3. /\ t.op = "publish" /\ t.step = step /\ t.obj = txn[s].obj /\ t.ver = txn[s].ver
        /\ t.current = txn[s].current /\ t.lifecycle = txn[s].lifecycle
        /\ t.prior = txn[s].prior /\ t.validity = txn[s].validity /\ t.risk = txn[s].risk
    BY <1>1 DEF Txn
  <1>4. txn' = [txn EXCEPT ![s] = t]
    BY <1>2
  <1> HIDE DEF t
  <1>5. Agrees(t)
    BY <1>1, <1>2, <1>3 DEF Agrees, VersionRead, ReviewsAllow
  <1> QED  BY <1>2, <1>4, <1>5, OnlyKnows

\* The step that refuses the current version and reads the row to be edited.
LEMMA EditedRowRead ==
    ASSUME TypeInv, OneSession, AllAgree, NEW s \in Sessions, UpdateLoadVersion(s)
    PROVE  AllAgree'
  <1> DEFINE l == Loaded(txn[s])
             t == [l EXCEPT !.step = "commit", !.obj = None, !.current = None,
                            !.lifecycle = "none", !.prior = "none"]
  <1>1. /\ txn[s] \in Txn /\ txn[s].ver \in Versions /\ txn[s].current # txn[s].ver
        /\ txn[s].op = "update" /\ txn[s].step = "version" /\ Agrees(txn[s])
    BY DEF UpdateLoadVersion, MayUpdate, AtStep, TypeInv, TypeOK, FilledIn, AllAgree
  <1>2. l \in Txn /\ l.op = "update" /\ l.ver = txn[s].ver /\ l.validity = validity[l.ver]
    BY <1>1, LoadedTyped, RowRead
  <1>3. UNCHANGED rows /\ txn' = [txn EXCEPT ![s] = t]
    BY DEF UpdateLoadVersion, TypeInv, TypeOK
  <1>4. t.op = l.op /\ t.step = "commit" /\ t.ver = l.ver /\ t.validity = l.validity
    BY <1>2 DEF Txn
  <1> HIDE DEF l, t
  <1>5. Agrees(t)
    BY <1>1, <1>2, <1>4 DEF Agrees
  <1> QED  BY <1>3, <1>5, OnlyKnows

\* What a review and a mark read.
LEMMA ReviewedRowRead ==
    ASSUME TypeInv, OneSession, NEW s \in Sessions, NEW v \in Versions,
           \/ \E outcome \in SentOutcomes : ReviewLoad(s, v, outcome)
           \/ \E status \in SentMarks \cap MarkedValidity : MarkLoad(s, v, status)
    PROVE  AllAgree'
  <1>1. ASSUME NEW outcome \in SentOutcomes, ReviewLoad(s, v, outcome) PROVE AllAgree'
    <2> DEFINE o == owner[v]
               t == [Idle EXCEPT
                       !.op = "review", !.step = "commit", !.obj = o, !.ver = v, !.arg = outcome,
                       !.lifecycle = IF outcome \in DOMAIN LifecycleOf THEN lifecycle[o] ELSE "none",
                       !.validity = IF outcome \in DOMAIN ValidityOf THEN validity[v] ELSE "none",
                       !.body = IF outcome = "approved" THEN body[v] ELSE None]
    <2>1. UNCHANGED rows /\ txn' = [txn EXCEPT ![s] = t]
      BY <1>1 DEF ReviewLoad
    <2>2. /\ t.op = "review" /\ t.obj = owner[v] /\ t.ver = v /\ t.arg = outcome
          /\ t.lifecycle = IF outcome \in DOMAIN LifecycleOf THEN lifecycle[o] ELSE "none"
      BY DEF Idle
    <2> HIDE DEF t
    <2>3. Agrees(t)
      BY <2>2 DEF Agrees
    <2> QED  BY <2>1, <2>3, OnlyKnows
  <1>2. ASSUME NEW status \in SentMarks \cap MarkedValidity, MarkLoad(s, v, status)
        PROVE  AllAgree'
    <2> DEFINE o == owner[v]
               withdrawn == status \in {"deprecated", "retracted"} /\ current[o] = v
               t == [Idle EXCEPT
                       !.op = "mark", !.step = "commit", !.obj = o, !.ver = v, !.arg = status,
                       !.lifecycle = IF withdrawn THEN lifecycle[o] ELSE "none",
                       !.validity = validity[v]]
    <2>1. UNCHANGED rows /\ txn' = [txn EXCEPT ![s] = t]
      BY <1>2 DEF MarkLoad
    <2>2. /\ t.op = "mark" /\ t.obj = owner[v] /\ t.ver = v /\ t.arg = status
          /\ t.lifecycle = (IF withdrawn THEN lifecycle[o] ELSE "none")
      BY DEF Idle
    <2> HIDE DEF t
    <2>3. Agrees(t)
      BY <2>2 DEF Agrees
    <2> QED  BY <2>1, <2>3, OnlyKnows
  <1> QED  BY <1>1, <1>2

\* With one session every step leaves the session in agreement with the rows.
LEMMA AgreeStep == OneSession /\ TypeInv /\ AllAgree /\ [Next]_vars => AllAgree'
  <1> SUFFICES ASSUME OneSession, TypeInv, AllAgree, [Next]_vars PROVE AllAgree'
    OBVIOUS
  <1>1. CASE UNCHANGED vars
    BY <1>1 DEF vars, rows, AllAgree, Agrees, Contested, VersionRead, LacksBoundary, ReviewsAllow,
                Approved
  <1>2. ASSUME \/ \E o \in Objects : CreateObject(o) \/ DeprecateObject(o)
               \/ \E o \in Objects, v \in Versions : MarkVerified(o, v)
               \/ \E c \in Cases, left, right \in Versions : OpenContradiction(c, left, right)
               \/ \E c \in Cases, status \in CaseStatus : ResolveContradiction(c, status)
        PROVE  AllAgree'
    <2>1. SessionFree /\ UNCHANGED txn
      BY <1>2 DEF CreateObject, DeprecateObject, MarkVerified, OpenContradiction,
                  ResolveContradiction
    <2> QED  BY <2>1, EndsIdle
  <1>3. ASSUME NEW s \in Sessions,
               \/ \E v \in Versions, r \in Risk, b \in Bodies, val \in {"current"} \cup EditValidity :
                    CreateVersionCommit(s, v, r, b, val)
               \/ \E r \in Risk, b \in Bodies, val \in EditValidity \cup {txn[s].validity} :
                    UpdateCommit(s, r, b, val)
               \/ PublishCommit(s) \/ ReviewCommit(s) \/ MarkCommit(s) \/ Rollback(s)
        PROVE  AllAgree'
    <2>1. txn' = [txn EXCEPT ![s] = Idle]
      BY <1>3
      DEF CreateVersionCommit, UpdateCommit, PublishCommit, ReviewCommit, MarkCommit, Rollback
    <2> QED  BY <2>1, EndsIdle
  <1>4. ASSUME NEW s \in Sessions, NEW o \in Objects, CreateVersionLoad(s, o) PROVE AllAgree'
    <2>1. PICK n : txn' = [txn EXCEPT ![s] =
                             [Idle EXCEPT !.op = "create", !.step = "commit",
                                          !.obj = o, !.number = n]]
      BY <1>4 DEF CreateVersionLoad
    <2>2. Agrees([Idle EXCEPT !.op = "create", !.step = "commit", !.obj = o, !.number = n])
      BY DEF Agrees, Idle
    <2>3. UNCHANGED rows
      BY <1>4 DEF CreateVersionLoad
    <2> QED  BY <2>1, <2>2, <2>3, OnlyKnows
  <1> QED
    BY <1>1, <1>2, <1>3, <1>4, ObjectLoaded, PublishedRowRead, GateQueried, EditedRowRead,
       ReviewedRowRead
    DEF Next

\* With one session nothing a request has loaded is ever stale.
LEMMA AgreeInvariant == ASSUME OneSession PROVE Spec => []AllAgree
  <1>1. Init => AllAgree
    BY IdleAgrees DEF Init, AllAgree
  <1>2. TypeInv /\ AllAgree /\ [Next]_vars => AllAgree'
    BY AgreeStep
  <1> QED  BY <1>1, <1>2, TypeInvariant, PTL DEF Spec

-----------------------------------------------------------------------------
(***************************************************************************)
(* What the commits do to the rows, when nothing they loaded is stale.     *)
(***************************************************************************)

\* A publication: every check of the gate holds of the rows as they are, the
\* version becomes current and valid, and the one it replaces superseded.
Publication(o, v) ==
    /\ owner[v] = o /\ outbox' = Append(outbox, v)
    /\ ~LacksBoundary(o, body[v]) /\ (risk[v] = "high" => Approved(v)) /\ ~Contested(v)
    /\ current' = [current EXCEPT ![o] = v]
    /\ lifecycle' = [lifecycle EXCEPT ![o] = "published"]
    /\ validity' = [w \in Versions |-> IF w = v THEN "current"
                                     ELSE IF w = current[o] THEN "superseded"
                                     ELSE validity[w]]
    /\ UNCHANGED <<owner, risk, body>>

\* An edit: the version is not the current one of its object, and its status
\* stays what it was or becomes one that clients send.
Edit(v) ==
    /\ owner[v] # None /\ current[owner[v]] # v
    /\ \A w \in Versions \ {v} :
         validity'[w] = validity[w] /\ risk'[w] = risk[w] /\ body'[w] = body[w]
    /\ validity'[v] \in EditValidity \cup {validity[v]}
    /\ UNCHANGED <<lifecycle, current, owner, outbox>>

\* A new version: it belonged to nobody, so nobody shows it.
Creation(v) ==
    /\ owner[v] = None /\ owner'[v] # None /\ \A o \in Objects : current[o] # v
    /\ \A w \in Versions \ {v} : /\ owner'[w] = owner[w] /\ validity'[w] = validity[w]
                                 /\ risk'[w] = risk[w] /\ body'[w] = body[w]
    /\ UNCHANGED <<lifecycle, current, outbox>>

\* A review or a mark never makes a version superseded or current; one that
\* withdraws the current version withdraws its object with it.
Judgement(v) ==
    /\ \A w \in Versions \ {v} : validity'[w] = validity[w]
    /\ validity'[v] \in {validity[v], "deprecated", "disputed"}
    /\ \A o \in Objects :
         lifecycle'[o] = "published" =>
             /\ lifecycle[o] = "published"
             /\ current[o] = v => validity'[v] \in {validity[v], "disputed"}
    /\ UNCHANGED <<current, owner, outbox, risk, body>>

\* Every other step: no version changes and nothing becomes public.
Quiet ==
    /\ \A o \in Objects : lifecycle'[o] = "published" => lifecycle[o] = "published"
    /\ UNCHANGED <<current, owner, outbox, risk, body, validity>>

\* The commit of publish_version is a publication.
LEMMA PublicationExact ==
    ASSUME TypeInv, CatalogInv, AllAgree, NEW s \in Sessions, PublishCommit(s)
    PROVE  \E o \in Objects, v \in Versions : Publication(o, v)
  <1>1. PICK t : t = txn[s]
    OBVIOUS
  <1>2. /\ t.op = "publish" /\ t.step = "commit" /\ t.ver \in Versions /\ t.obj \in Objects
        /\ t.ver # None /\ owner[t.ver] = t.obj /\ Agrees(t)
    BY <1>1, RegistryAssumption
    DEF PublishCommit, AtStep, AllAgree, CatalogInv, StillKnows, TypeInv, TypeOK, FilledIn
  <1>3. /\ t.current = current[t.obj] /\ t.lifecycle = lifecycle[t.obj]
        /\ t.current \notin {None, t.ver} => t.prior = validity[t.current]
        /\ t.risk = risk[t.ver] /\ t.validity = validity[t.ver]
        /\ ~LacksBoundary(t.obj, body[t.ver]) /\ ReviewsAllow(t) /\ ~Contested(t.ver)
    BY <1>2 DEF Agrees, VersionRead
  <1>4. /\ validity' = Superseding(t)
        /\ current' = [current EXCEPT ![t.obj] = Written(t.ver, t.current, @)]
        /\ lifecycle' = [lifecycle EXCEPT ![t.obj] = Written("published", t.lifecycle, @)]
        /\ outbox' = Append(outbox, t.ver)
        /\ UNCHANGED <<owner, risk, body>>
    BY <1>1 DEF PublishCommit, Announce
  <1>5. /\ current' = [current EXCEPT ![t.obj] = t.ver]
        /\ lifecycle' = [lifecycle EXCEPT ![t.obj] = "published"]
    BY <1>2, <1>3, <1>4 DEF Written, TypeInv, TypeOK
  <1>6. \A w \in Versions : w # None
    BY RegistryAssumption
  <1>7. validity' = [w \in Versions |-> IF w = t.ver THEN "current"
                                        ELSE IF w = current[t.obj] THEN "superseded"
                                        ELSE validity[w]]
    BY <1>2, <1>3, <1>4, <1>6 DEF Superseding, Written
  <1>8. risk[t.ver] = "high" => Approved(t.ver)
    BY <1>3 DEF ReviewsAllow
  <1> QED  BY <1>2, <1>3, <1>4, <1>5, <1>7, <1>8 DEF Publication

\* The commit of update_draft_version is an edit.
LEMMA EditExact ==
    ASSUME TypeInv, AllAgree, NEW s \in Sessions, NEW r \in Risk, NEW b \in Bodies,
           NEW val \in EditValidity \cup {txn[s].validity}, UpdateCommit(s, r, b, val)
    PROVE  \E v \in Versions : Edit(v)
  <1>1. PICK t : t = txn[s]
    OBVIOUS
  <1>2. t.op = "update" /\ t.step = "commit" /\ t.ver \in Versions /\ Agrees(t)
    BY <1>1 DEF UpdateCommit, AtStep, AllAgree, TypeInv, FilledIn
  <1>3. /\ owner[t.ver] # None /\ current[owner[t.ver]] # t.ver
        /\ t.validity = validity[t.ver]
    BY <1>2 DEF Agrees
  <1>4. /\ risk' = [risk EXCEPT ![t.ver] = Written(r, t.risk, @)]
        /\ body' = [body EXCEPT ![t.ver] = Written(b, t.body, @)]
        /\ validity' = [validity EXCEPT ![t.ver] = Written(val, t.validity, @)]
        /\ UNCHANGED <<lifecycle, current, owner, outbox>>
        /\ val \in EditValidity \cup {t.validity}
    BY <1>1 DEF UpdateCommit
  <1>5. validity'[t.ver] \in EditValidity \cup {validity[t.ver]}
    BY <1>2, <1>3, <1>4 DEF Written, TypeInv, TypeOK
  <1>6. \A w \in Versions \ {t.ver} :
           validity'[w] = validity[w] /\ risk'[w] = risk[w] /\ body'[w] = body[w]
    BY <1>2, <1>4 DEF TypeInv, TypeOK
  <1> QED  BY <1>2, <1>3, <1>4, <1>5, <1>6 DEF Edit

\* The insert of create_version is a creation.
LEMMA CreationExact ==
    ASSUME TypeInv, CatalogInv, NEW s \in Sessions, NEW v \in Versions, NEW r \in Risk,
           NEW b \in Bodies, NEW val \in {"current"} \cup EditValidity,
           CreateVersionCommit(s, v, r, b, val)
    PROVE  Creation(v)
  <1>1. txn[s].obj \in Objects /\ txn[s].obj # None
    BY RegistryAssumption DEF CreateVersionCommit, AtStep, TypeInv, FilledIn
  <1>2. \A o \in Objects : current[o] # v
    BY RegistryAssumption DEF CreateVersionCommit, CatalogInv, PublishedWasAnnounced
  <1>3. owner[v] = None /\ owner'[v] # None
    BY <1>1 DEF CreateVersionCommit, TypeInv, TypeOK
  <1>4. \A w \in Versions \ {v} : /\ owner'[w] = owner[w] /\ validity'[w] = validity[w]
                                  /\ risk'[w] = risk[w] /\ body'[w] = body[w]
    BY DEF CreateVersionCommit, TypeInv, TypeOK
  <1>5. UNCHANGED <<lifecycle, current, outbox>>
    BY DEF CreateVersionCommit
  <1> QED  BY <1>2, <1>3, <1>4, <1>5 DEF Creation

\* The commits of submit_review and mark_version_validity are judgements.
LEMMA JudgementExact ==
    ASSUME TypeInv, CatalogInv, AllAgree, NEW s \in Sessions, ReviewCommit(s) \/ MarkCommit(s)
    PROVE  \E v \in Versions : Judgement(v)
  <1>1. PICK t : t = txn[s]
    OBVIOUS
  <1>2. /\ t.ver \in Versions /\ t.obj \in Objects /\ Agrees(t)
        /\ owner[t.ver] = t.obj
        /\ \A o \in Objects : current[o] = t.ver => o = t.obj
    <2>1. t.op \in {"review", "mark"} /\ Agrees(t) /\ FilledIn(t)
      BY <1>1 DEF ReviewCommit, MarkCommit, AtStep, AllAgree, TypeInv
    <2>2. t.ver \in Versions /\ t.obj \in Objects
      BY <2>1 DEF FilledIn
    <2>3. owner[t.ver] = t.obj
      BY <2>1 DEF Agrees
    <2>4. \A o \in Objects : current[o] = t.ver => o = t.obj
      BY <2>2, <2>3, RegistryAssumption DEF CatalogInv, PublishedWasAnnounced
    <2> QED  BY <2>1, <2>2, <2>3, <2>4
  <1>3. CASE ReviewCommit(s)
    <2>1. /\ lifecycle' = IF t.arg \in DOMAIN LifecycleOf
                             THEN [lifecycle EXCEPT ![t.obj] =
                                     Written(LifecycleOf[t.arg], t.lifecycle, @)]
                             ELSE lifecycle
          /\ validity' = IF t.arg \in DOMAIN ValidityOf
                            THEN [validity EXCEPT ![t.ver] =
                                    Written(ValidityOf[t.arg], t.validity, @)]
                            ELSE validity
          /\ UNCHANGED <<current, owner, outbox, risk, body>>
      BY <1>1, <1>3 DEF ReviewCommit
    <2>2. validity'[t.ver] \in {validity[t.ver], "deprecated", "disputed"}
      BY <1>2, <2>1 DEF ValidityOf, Written, TypeInv, TypeOK
    <2>3. \A w \in Versions \ {t.ver} : validity'[w] = validity[w]
      BY <1>2, <2>1 DEF TypeInv, TypeOK
    <2>4. \A o \in Objects : lifecycle'[o] = "published" => lifecycle[o] = "published"
      BY <1>3, WithdrawalsOnly DEF TypeInv, TypeOK
    <2>5. CASE t.arg = "deprecated"
      <3>1. t.lifecycle = lifecycle[t.obj]
        BY <1>1, <1>2, <1>3, <2>5 DEF ReviewCommit, AtStep, Agrees, LifecycleOf
      <3>2. lifecycle'[t.obj] = "deprecated"
        BY <1>2, <2>1, <2>5, <3>1 DEF LifecycleOf, Written, TypeInv, TypeOK
      <3> QED  BY <1>2, <2>1, <2>2, <2>3, <2>4, <3>2 DEF Judgement
    <2>6. CASE t.arg # "deprecated"
      <3>1. validity'[t.ver] \in {validity[t.ver], "disputed"}
        BY <1>2, <2>1, <2>6 DEF ValidityOf, Written, TypeInv, TypeOK
      <3> QED  BY <1>2, <2>1, <2>3, <2>4, <3>1 DEF Judgement
    <2> QED  BY <2>5, <2>6
  <1>4. CASE MarkCommit(s)
    <2>1. /\ validity' = [validity EXCEPT ![t.ver] = Written(t.arg, t.validity, @)]
          /\ lifecycle' = LifecycleAfterMark(t)
          /\ UNCHANGED <<current, owner, outbox, risk, body>>
          /\ t.op = "mark" /\ t.arg \in MarkedValidity
      BY <1>1, <1>4 DEF MarkCommit, AtStep, TypeInv, FilledIn
    <2>2. validity'[t.ver] \in {validity[t.ver], t.arg}
      BY <1>2, <2>1 DEF Written, TypeInv, TypeOK
    <2>3. \A w \in Versions \ {t.ver} : validity'[w] = validity[w]
      BY <1>2, <2>1 DEF TypeInv, TypeOK
    <2>4. \A o \in Objects : lifecycle'[o] = "published" => lifecycle[o] = "published"
      BY <1>4, WithdrawalsOnly DEF TypeInv, TypeOK
    <2>5. CASE t.arg = "deprecated" /\ current[t.obj] = t.ver
      <3>1. t.lifecycle = lifecycle[t.obj] /\ t.lifecycle # "none"
        BY <1>2, <2>1, <2>5 DEF Agrees, TypeInv, TypeOK, Lifecycle
      <3>2. lifecycle'[t.obj] = "deprecated"
        BY <1>2, <2>1, <3>1 DEF LifecycleAfterMark, Written, TypeInv, TypeOK
      <3> QED  BY <1>2, <2>1, <2>2, <2>3, <2>4, <2>5, <3>2 DEF Judgement
    <2>6. CASE t.arg = "deprecated" /\ current[t.obj] # t.ver
      BY <1>2, <2>1, <2>2, <2>3, <2>4, <2>6 DEF Judgement
    <2>7. CASE t.arg = "disputed"
      BY <1>2, <2>1, <2>2, <2>3, <2>4, <2>7 DEF Judgement
    <2> QED  BY <2>1, <2>5, <2>6, <2>7 DEF MarkedValidity
  <1> QED  BY <1>3, <1>4
\* With no stale load a step is one of these.
LEMMA StepExact ==
    TypeInv /\ CatalogInv /\ AllAgree /\ [Next]_vars =>
        \/ \E o \in Objects, v \in Versions : Publication(o, v)
        \/ \E v \in Versions : Edit(v) \/ Creation(v) \/ Judgement(v)
        \/ Quiet
  <1> SUFFICES ASSUME TypeInv, CatalogInv, AllAgree, [Next]_vars,
                      ~Quiet, ~\E o \in Objects, v \in Versions : Publication(o, v)
               PROVE  \E v \in Versions : Edit(v) \/ Creation(v) \/ Judgement(v)
    OBVIOUS
  <1>1. CASE UNCHANGED rows
    BY <1>1 DEF rows, Quiet
  <1>2. CASE UNCHANGED vars
    BY <1>1, <1>2 DEF vars
  <1>3. ASSUME \/ \E o \in Objects : CreateObject(o) \/ DeprecateObject(o)
               \/ \E o \in Objects, v \in Versions : MarkVerified(o, v)
               \/ \E c \in Cases, left, right \in Versions : OpenContradiction(c, left, right)
               \/ \E c \in Cases, status \in CaseStatus : ResolveContradiction(c, status)
        PROVE  Quiet
    BY <1>3 DEF CreateObject, DeprecateObject, MarkVerified, OpenContradiction,
                ResolveContradiction, Quiet, TypeInv, TypeOK
  <1>4. ASSUME NEW s \in Sessions,
               \/ \E o \in Objects : CreateVersionLoad(s, o)
               \/ \E v \in Versions, op \in {"publish", "update"} : LoadObject(s, op, v)
               \/ UpdateLoadVersion(s) \/ PublishLoadVersion(s)
               \/ CheckReviews(s) \/ CheckContradictions(s)
               \/ \E v \in Versions, outcome \in SentOutcomes : ReviewLoad(s, v, outcome)
               \/ \E v \in Versions, status \in SentMarks \cap MarkedValidity :
                    MarkLoad(s, v, status)
               \/ Rollback(s)
        PROVE  UNCHANGED rows
    BY <1>4 DEF CreateVersionLoad, LoadObject, UpdateLoadVersion, PublishLoadVersion, CheckReviews,
                CheckContradictions, ReviewLoad, MarkLoad, Rollback
  <1> QED
    BY <1>1, <1>2, <1>3, <1>4, PublicationExact, EditExact, CreationExact, JudgementExact DEF Next

-----------------------------------------------------------------------------
(***************************************************************************)
(* The properties.                                                         *)
(***************************************************************************)

\* Requests one at a time: what the public API shows is live.
LEMMA LiveStep ==
    TypeInv /\ TypeInv' /\ CatalogInv /\ AllAgree /\ PublishedIsLive /\ [Next]_vars
        => PublishedIsLive'
  <1> SUFFICES ASSUME TypeInv, CatalogInv, AllAgree, PublishedIsLive, [Next]_vars,
                      NEW o \in Objects, lifecycle'[o] = "published"
               PROVE  validity'[current'[o]] \notin {"superseded", "deprecated", "retracted"}
    BY DEF PublishedIsLive
  <1>1. \A p \in Objects :
           lifecycle[p] = "published" =>
               /\ current[p] \in Versions /\ owner[current[p]] = p
               /\ validity[current[p]] \notin {"superseded", "deprecated", "retracted"}
    BY DEF CatalogInv, PublishedWasAnnounced, PublishedIsLive, TypeInv, TypeOK
  <1>2. ASSUME NEW p \in Objects, NEW v \in Versions, Publication(p, v)
        PROVE  validity'[current'[o]] \notin {"superseded", "deprecated", "retracted"}
    <2>1. CASE o = p
      BY <1>2, <2>1 DEF Publication, TypeInv, TypeOK
    <2>2. CASE o # p
      <3>1. lifecycle[o] = "published" /\ current'[o] = current[o]
        BY <1>2, <2>2 DEF Publication, TypeInv, TypeOK
      <3>2. current[o] # v /\ current[o] # current[p]
        BY <1>1, <1>2, <2>2, <3>1, RegistryAssumption
        DEF Publication, CatalogInv, PublishedWasAnnounced
      <3> QED  BY <1>1, <1>2, <3>1, <3>2 DEF Publication
    <2> QED  BY <2>1, <2>2
  <1>3. ASSUME NEW v \in Versions, Edit(v) \/ Creation(v) \/ Judgement(v) \/ Quiet
        PROVE  validity'[current'[o]] \notin {"superseded", "deprecated", "retracted"}
    BY <1>1, <1>3 DEF Edit, Creation, Judgement, Quiet
  <1>4. CASE Quiet
    BY <1>1, <1>4 DEF Quiet
  <1> QED  BY <1>2, <1>3, <1>4, StepExact

\* What the public API shows is neither superseded nor withdrawn, after any
\* sequence of requests that do not overlap.
THEOREM SerialPublishedIsLive == ASSUME OneSession PROVE Spec => []PublishedIsLive
  <1>1. Init => PublishedIsLive
    BY DEF Init, PublishedIsLive
  <1> QED
    BY <1>1, TypeInvariant, CatalogInvariant, AgreeInvariant, LiveStep, PTL DEF Spec

\* Every publication passes the whole gate on the rows as they are at its
\* commit, when no other request runs during it.
THEOREM SerialGateAtPublication == ASSUME OneSession PROVE Spec => GateAtPublication
  <1> DEFINE Gated == outbox' # outbox =>
                        LET v == outbox'[Len(outbox')]
                        IN  /\ ~LacksBoundary(owner[v], body[v])
                            /\ risk[v] = "high" => Approved(v)
                            /\ ~Contested(v)
  <1>1. TypeInv /\ CatalogInv /\ AllAgree /\ [Next]_vars => [Gated]_vars
    <2> SUFFICES ASSUME TypeInv, CatalogInv, AllAgree, [Next]_vars, outbox' # outbox
                 PROVE  Gated
      OBVIOUS
    <2>1. PICK o \in Objects, v \in Versions : Publication(o, v)
      BY StepExact DEF Edit, Creation, Judgement, Quiet
    <2>2. outbox'[Len(outbox')] = v
      BY <2>1 DEF Publication, TypeInv, TypeOK
    <2> QED  BY <2>1, <2>2 DEF Publication
  <1> QED
    BY <1>1, TypeInvariant, CatalogInvariant, AgreeInvariant, PTL DEF Spec, GateAtPublication

\* The content and the risk band of what readers see never change under them,
\* when requests do not overlap.
THEOREM SerialCurrentIsImmutable == ASSUME OneSession PROVE Spec => CurrentIsImmutable
  <1> DEFINE Kept == \A v \in {current[o] : o \in Objects} \ {None} :
                        current'[owner[v]] = v => risk'[v] = risk[v] /\ body'[v] = body[v]
  <1>1. TypeInv /\ CatalogInv /\ AllAgree /\ [Next]_vars => [Kept]_vars
    <2> SUFFICES ASSUME TypeInv, CatalogInv, AllAgree, [Next]_vars, NEW o \in Objects,
                        current[o] # None
                 PROVE  risk'[current[o]] = risk[current[o]] /\ body'[current[o]] = body[current[o]]
      OBVIOUS
    <2>1. current[o] \in Versions /\ owner[current[o]] = o
      BY DEF CatalogInv, PublishedWasAnnounced, TypeInv, TypeOK
    <2> QED  BY <2>1, StepExact DEF Publication, Edit, Creation, Judgement, Quiet
  <1> QED
    BY <1>1, TypeInvariant, CatalogInvariant, AgreeInvariant, PTL DEF Spec, CurrentIsImmutable

\* What was announced belongs to an object: its row is never that of a version
\* still to be created.
AnnouncedOwned == \A v \in Announced : v \in Versions /\ owner[v] \in Objects

LEMMA AnnouncedBy ==
    ASSUME outbox \in Seq(Versions), NEW v \in Versions, outbox' = Append(outbox, v)
    PROVE  Announced' = Announced \cup {v}
  <1>1. /\ DOMAIN outbox' = DOMAIN outbox \cup {Len(outbox')}
        /\ \A i \in DOMAIN outbox : outbox'[i] = outbox[i]
        /\ outbox'[Len(outbox')] = v
    OBVIOUS
  <1> QED  BY <1>1 DEF Announced

SupersededInv == AnnouncedOwned /\ PriorSuperseded

\* A version that was published keeps an owner, and loses the claim to be
\* current with the publication that replaces it.
LEMMA SupersededStep ==
    ASSUME "current" \notin EditValidity
    PROVE  TypeInv /\ TypeInv' /\ CatalogInv /\ AllAgree /\ SupersededInv /\ [Next]_vars
               => SupersededInv'
  <1> SUFFICES ASSUME TypeInv, TypeInv', CatalogInv, AllAgree, SupersededInv, [Next]_vars,
                      NEW w \in Announced'
               PROVE  /\ w \in Versions /\ owner'[w] \in Objects
                      /\ current'[owner'[w]] # w => validity'[w] # "current"
    BY DEF SupersededInv, AnnouncedOwned, PriorSuperseded
  <1>1. ASSUME w \in Announced
        PROVE  /\ w \in Versions /\ owner[w] \in Objects
               /\ current[owner[w]] # w => validity[w] # "current"
    BY <1>1 DEF SupersededInv, AnnouncedOwned, PriorSuperseded
  <1>2. ASSUME NEW o \in Objects, NEW v \in Versions, Publication(o, v)
        PROVE  /\ w \in Versions /\ owner'[w] \in Objects
               /\ current'[owner'[w]] # w => validity'[w] # "current"
    <2>1. w = v \/ w \in Announced
      BY <1>2, AnnouncedBy DEF Publication, TypeInv, TypeOK
    <2> QED  BY <1>1, <1>2, <2>1 DEF Publication, TypeInv, TypeOK
  <1>3. ASSUME NEW v \in Versions, Edit(v) \/ Creation(v) \/ Judgement(v)
        PROVE  /\ w \in Versions /\ owner'[w] \in Objects
               /\ current'[owner'[w]] # w => validity'[w] # "current"
    <2>1. w \in Announced
      BY <1>3 DEF Edit, Creation, Judgement, Announced
    <2>2. owner[w] # None
      BY <1>1, <2>1, RegistryAssumption
    <2> QED  BY <1>1, <1>3, <2>1, <2>2 DEF Edit, Creation, Judgement
  <1>4. CASE Quiet
    BY <1>1, <1>4 DEF Quiet, Announced
  <1> QED  BY <1>2, <1>3, <1>4, StepExact

\* A version that was published and has been replaced does not claim to be
\* current, if requests do not overlap and no client sends "current" in a PATCH.
THEOREM SerialPriorSuperseded ==
    ASSUME OneSession, "current" \notin EditValidity
    PROVE  Spec => []PriorSuperseded
  <1>1. Init => SupersededInv
    BY DEF Init, SupersededInv, AnnouncedOwned, PriorSuperseded, Announced
  <1>2. TypeInv /\ TypeInv' /\ CatalogInv /\ AllAgree /\ SupersededInv /\ [Next]_vars
          => SupersededInv'
    BY SupersededStep
  <1>3. SupersededInv => PriorSuperseded
    BY DEF SupersededInv
  <1> QED
    BY <1>1, <1>2, <1>3, TypeInvariant, CatalogInvariant, AgreeInvariant, PTL DEF Spec
=============================================================================
