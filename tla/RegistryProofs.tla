--------------------------- MODULE RegistryProofs ---------------------------
(***************************************************************************)
(* Proofs about Registry, for any sets of objects, versions and sessions   *)
(* and any interleaving of the requests.                                   *)
(***************************************************************************)
EXTENDS Registry, FiniteSetTheorems, TLAPS

-----------------------------------------------------------------------------
(***************************************************************************)
(* Types.  TypeOK alone is not inductive: the record of a transaction has  *)
(* None in the fields its request does not use, so a commit needs to know  *)
(* which fields the request has filled in.                                 *)
(***************************************************************************)

\* The fields each request relies on when it commits.
FilledIn(t) ==
    /\ t.op \in {"publish", "update", "review", "mark"} => t.ver \in Versions
    /\ t.op \in {"publish", "create", "review", "mark"} => t.obj \in Objects
    /\ t.op = "update" /\ t.step = "commit" => t.validity \in Validity
    /\ t.op = "review" => t.arg \in Outcomes
    /\ t.op = "review" /\ t.arg = "approved" => t.body \in Bodies
    /\ t.op = "mark" => t.arg \in MarkedValidity

TypeInv ==
    /\ TypeOK
    /\ \A s \in Sessions : FilledIn(txn[s])
    /\ \A v \in Versions : owner[v] # None => body[v] \in Bodies

\* The facts about one transaction.
LEMMA IdleTyped == Idle \in Txn /\ FilledIn(Idle)
  BY DEF Idle, Txn, FilledIn

\* Replacing one transaction by a good one keeps all of them good.
LEMMA TxnReplaced ==
    ASSUME txn \in [Sessions -> Txn], \A s \in Sessions : FilledIn(txn[s]),
           NEW s \in Sessions, NEW t \in Txn, FilledIn(t), txn' = [txn EXCEPT ![s] = t]
    PROVE  txn' \in [Sessions -> Txn] /\ (\A r \in Sessions : FilledIn(txn'[r]))
  <1>1. txn' \in [Sessions -> Txn]
    OBVIOUS
  <1>2. \A r \in Sessions : txn'[r] = txn[r] \/ txn'[r] = t
    OBVIOUS
  <1>3. ASSUME NEW r \in Sessions PROVE FilledIn(txn'[r])
    <2>1. CASE txn'[r] = txn[r]  BY <2>1
    <2>2. CASE txn'[r] = t       BY <2>2
    <2> QED  BY <1>2, <2>1, <2>2
  <1> QED  BY <1>1, <1>3

\* The empty database is well typed and no session has a transaction.
LEMMA TypeInit == Init => TypeInv
  <1> SUFFICES ASSUME Init PROVE TypeInv  OBVIOUS
  <1>1. NoCase \in Case  BY DEF NoCase, Case
  <1>2. TypeOK
    BY <1>1, IdleTyped DEF Init, TypeOK, Lifecycle, Risk, Validity
  <1>3. \A s \in Sessions : FilledIn(txn[s])
    BY IdleTyped DEF Init
  <1> QED  BY <1>2, <1>3 DEF TypeInv, Init

\* Loading a version's row fills a transaction's columns with typed values and
\* moves neither its version nor what it knows of the object.
LEMMA LoadedTyped ==
    ASSUME TypeInv, NEW t \in Txn, t.ver \in Versions
    PROVE  /\ Loaded(t) \in Txn
           /\ Loaded(t).op = t.op /\ Loaded(t).step = t.step /\ Loaded(t).arg = t.arg
           /\ Loaded(t).ver = t.ver /\ Loaded(t).obj = t.obj
           /\ Loaded(t).current = t.current /\ Loaded(t).lifecycle = t.lifecycle
  BY ZenonT(60) DEF Loaded, TypeInv, TypeOK, Txn

\* The requests that are one action keep every column within its domain.
LEMMA ShortRequestsTyped ==
    ASSUME TypeInv,
           \/ \E o \in Objects : CreateObject(o) \/ DeprecateObject(o)
           \/ \E o \in Objects, v \in Versions : MarkVerified(o, v)
           \/ \E c \in Cases, left, right \in Versions : OpenContradiction(c, left, right)
           \/ \E c \in Cases, status \in CaseStatus : ResolveContradiction(c, status)
    PROVE  TypeInv'
  <1>1. ASSUME NEW o \in Objects, CreateObject(o) \/ DeprecateObject(o) PROVE TypeInv'
    BY <1>1 DEF TypeInv, TypeOK, CreateObject, DeprecateObject, Lifecycle, FilledIn
  <1>2. ASSUME NEW o \in Objects, NEW v \in Versions, MarkVerified(o, v) PROVE TypeInv'
    BY <1>2 DEF TypeInv, TypeOK, MarkVerified, Lifecycle, FilledIn
  <1>3. ASSUME NEW c \in Cases, NEW left \in Versions, NEW right \in Versions,
               OpenContradiction(c, left, right)
        PROVE  TypeInv'
    <2>1. [sides |-> {left, right}, status |-> "open"] \in Case
      BY DEF Case, CaseStatus
    <2> QED  BY <1>3, <2>1 DEF TypeInv, TypeOK, OpenContradiction, FilledIn
  <1>4. ASSUME NEW c \in Cases, NEW status \in CaseStatus, ResolveContradiction(c, status)
        PROVE  TypeInv'
    <2>1. cases \in [Cases -> Case] /\ cases' = [cases EXCEPT ![c].status = status]
      BY <1>4 DEF TypeInv, TypeOK, ResolveContradiction
    <2>2. [cases[c] EXCEPT !.status = status] \in Case
      BY <2>1 DEF Case
    <2>3. cases' = [cases EXCEPT ![c] = [cases[c] EXCEPT !.status = status]]
      BY <2>1
    <2>4. cases' \in [Cases -> Case]
      BY <2>1, <2>2, <2>3
    <2> QED  BY <1>4, <2>4 DEF TypeInv, TypeOK, ResolveContradiction, FilledIn
  <1> QED  BY <1>1, <1>2, <1>3, <1>4

\* The session has a new transaction record, and the rows are as before.
LoadedInto(s) ==
    \E t \in Txn : FilledIn(t) /\ txn' = [txn EXCEPT ![s] = t] /\ UNCHANGED rows

\* The steps that only load rows: everything but txn is unchanged.
LEMMA LoadsTyped ==
    ASSUME TypeInv, NEW s \in Sessions,
           \/ \E o \in Objects : CreateVersionLoad(s, o)
           \/ \E v \in Versions, op \in {"publish", "update"} : LoadObject(s, op, v)
           \/ UpdateLoadVersion(s)
           \/ PublishLoadVersion(s)
           \/ CheckReviews(s)
           \/ CheckContradictions(s)
           \/ \E v \in Versions, outcome \in SentOutcomes : ReviewLoad(s, v, outcome)
           \/ \E v \in Versions, status \in SentMarks \cap MarkedValidity : MarkLoad(s, v, status)
           \/ Rollback(s)
    PROVE  TypeInv'
  <1>1. SUFFICES LoadedInto(s)
    <2>1. TypeOK' /\ (\A r \in Sessions : FilledIn(txn'[r]))
      BY <1>1, TxnReplaced DEF LoadedInto, TypeInv, TypeOK, rows
    <2> QED  BY <1>1, <2>1 DEF LoadedInto, TypeInv, rows
  <1>2. txn[s] \in Txn /\ FilledIn(txn[s])
    BY DEF TypeInv, TypeOK
  <1>3. ASSUME NEW o \in Objects, CreateVersionLoad(s, o)
        PROVE  LoadedInto(s)
    <2>1. PICK n \in 1 .. Cardinality(Versions) + 1 :
             txn' = [txn EXCEPT ![s] = [Idle EXCEPT !.op = "create", !.step = "commit",
                                                    !.obj = o, !.number = n]]
      BY <1>3 DEF CreateVersionLoad
    <2>2. n \in Nat
      BY FS_CardinalityType, RegistryAssumption
    <2>3. [Idle EXCEPT !.op = "create", !.step = "commit", !.obj = o, !.number = n] \in Txn
      BY <2>2 DEF Idle, Txn, Operations, Steps
    <2>4. FilledIn([Idle EXCEPT !.op = "create", !.step = "commit", !.obj = o, !.number = n])
      BY DEF FilledIn, Idle
    <2> QED  BY <1>3, <2>1, <2>3, <2>4 DEF CreateVersionLoad, LoadedInto
  <1>4. ASSUME NEW v \in Versions, NEW op \in {"publish", "update"}, LoadObject(s, op, v)
        PROVE  LoadedInto(s)
    <2> DEFINE o == owner[v]
               c == current[o]
               t == [Idle EXCEPT !.op = op, !.step = "version", !.obj = o, !.ver = v,
                                 !.current = c, !.lifecycle = lifecycle[o],
                                 !.prior = IF c \in {None, v} THEN "none" ELSE validity[c],
                                 !.validity = IF c = v THEN validity[v] ELSE "none",
                                 !.risk = IF c = v THEN risk[v] ELSE "none",
                                 !.body = IF c = v THEN body[v] ELSE None]
    <2>1. txn' = [txn EXCEPT ![s] = t] /\ UNCHANGED rows
      BY <1>4 DEF LoadObject
    <2>2. o \in Objects /\ c \in Versions \cup {None} /\ lifecycle[o] \in Lifecycle
      BY <1>4 DEF LoadObject, TypeInv, TypeOK
    <2>3. t \in Txn
      <3>1. /\ (IF c \in {None, v} THEN "none" ELSE validity[c]) \in Validity \cup {"none"}
            /\ (IF c = v THEN validity[v] ELSE "none") \in Validity \cup {"none"}
            /\ (IF c = v THEN risk[v] ELSE "none") \in Risk \cup {"none"}
            /\ (IF c = v THEN body[v] ELSE None) \in Bodies \cup {None}
        BY <2>2 DEF TypeInv, TypeOK
      <3> HIDE DEF o, c
      <3> QED  BY <2>2, <3>1, ZenonT(60) DEF Idle, Txn, Operations, Steps
    <2>4. FilledIn(t)
      BY <2>2 DEF FilledIn, Idle
    <2> QED  BY <2>1, <2>3, <2>4 DEF LoadedInto
  <1>5. ASSUME UpdateLoadVersion(s) PROVE LoadedInto(s)
    <2> DEFINE t == [Loaded(txn[s]) EXCEPT !.step = "commit", !.obj = None, !.current = None,
                                           !.lifecycle = "none", !.prior = "none"]
    <2>1. txn' = [txn EXCEPT ![s] = t] /\ UNCHANGED rows
      BY <1>2, <1>5 DEF UpdateLoadVersion, TypeInv, TypeOK
    <2>2. txn[s].op = "update" /\ txn[s].ver \in Versions /\ txn[s].current # txn[s].ver
      BY <1>2, <1>5 DEF UpdateLoadVersion, AtStep, MayUpdate, FilledIn
    <2>3. Loaded(txn[s]) \in Txn /\ Loaded(txn[s]).op = "update"
          /\ Loaded(txn[s]).ver = txn[s].ver
      BY <1>2, <2>2, LoadedTyped
    <2>4. Loaded(txn[s]).validity \in Validity
      BY <1>2, <2>2 DEF Loaded, TypeInv, TypeOK, Txn
    <2>5. t \in Txn
      BY <2>3 DEF Txn, Steps
    <2>6. FilledIn(t)
      BY <2>2, <2>3, <2>4 DEF FilledIn, Txn
    <2> QED  BY <2>1, <2>5, <2>6 DEF LoadedInto
  <1>6. ASSUME PublishLoadVersion(s) PROVE LoadedInto(s)
    <2> DEFINE t == [Loaded(txn[s]) EXCEPT !.step = "reviews", !.body = None]
    <2>1. txn' = [txn EXCEPT ![s] = t] /\ UNCHANGED rows
      BY <1>6 DEF PublishLoadVersion
    <2>2. txn[s].op = "publish" /\ txn[s].ver \in Versions /\ txn[s].obj \in Objects
      BY <1>2, <1>6 DEF PublishLoadVersion, AtStep, FilledIn
    <2>3. /\ Loaded(txn[s]) \in Txn /\ Loaded(txn[s]).op = "publish"
          /\ Loaded(txn[s]).ver = txn[s].ver /\ Loaded(txn[s]).obj = txn[s].obj
      BY <1>2, <2>2, LoadedTyped
    <2>4. PICK u \in Txn : u = Loaded(txn[s])
      BY <2>3
    <2>5. [u EXCEPT !.step = "reviews", !.body = None] \in Txn
      BY ONLY u \in Txn, ZenonT(60) DEF Txn, Steps
    <2>6. t \in Txn
      BY ONLY <2>4, <2>5
    <2>7. FilledIn(t)
      BY <2>2, <2>3 DEF FilledIn, Txn
    <2> QED  BY <2>1, <2>6, <2>7 DEF LoadedInto
  <1>7. ASSUME CheckReviews(s) \/ CheckContradictions(s) PROVE LoadedInto(s)
    <2>1. PICK step \in Steps :
             txn' = [txn EXCEPT ![s] = [txn[s] EXCEPT !.step = step]] /\ UNCHANGED rows
      BY <1>2, <1>7 DEF CheckReviews, CheckContradictions, Steps, TypeInv, TypeOK
    <2>2. [txn[s] EXCEPT !.step = step] \in Txn
      BY <1>2 DEF Txn
    <2>3. FilledIn([txn[s] EXCEPT !.step = step])
      BY <1>2, <1>7 DEF FilledIn, Txn, CheckReviews, CheckContradictions, AtStep
    <2> QED  BY <2>1, <2>2, <2>3 DEF LoadedInto
  <1>8. ASSUME NEW v \in Versions, NEW outcome \in SentOutcomes, ReviewLoad(s, v, outcome)
        PROVE  LoadedInto(s)
    <2> DEFINE o == owner[v]
               t == [Idle EXCEPT
                       !.op = "review", !.step = "commit", !.obj = o, !.ver = v, !.arg = outcome,
                       !.lifecycle = IF outcome \in DOMAIN LifecycleOf THEN lifecycle[o] ELSE "none",
                       !.validity = IF outcome \in DOMAIN ValidityOf THEN validity[v] ELSE "none",
                       !.body = IF outcome = "approved" THEN body[v] ELSE None]
    <2>1. txn' = [txn EXCEPT ![s] = t] /\ UNCHANGED rows
      BY <1>8 DEF ReviewLoad
    <2>2. /\ o \in Objects /\ lifecycle[o] \in Lifecycle /\ body[v] \in Bodies
          /\ validity[v] \in Validity /\ outcome \in Outcomes
      BY <1>8, RequestAssumption DEF ReviewLoad, TypeInv, TypeOK
    <2>3. t \in Txn
      BY <2>2 DEF Idle, Txn, Operations, Steps
    <2>4. FilledIn(t)
      BY <2>2 DEF FilledIn, Idle
    <2> QED  BY <2>1, <2>3, <2>4 DEF LoadedInto
  <1>9. ASSUME NEW v \in Versions, NEW status \in SentMarks \cap MarkedValidity,
               MarkLoad(s, v, status)
        PROVE  LoadedInto(s)
    <2> DEFINE o == owner[v]
               withdrawn == status \in {"deprecated", "retracted"} /\ current[o] = v
               t == [Idle EXCEPT
                       !.op = "mark", !.step = "commit", !.obj = o, !.ver = v, !.arg = status,
                       !.lifecycle = IF withdrawn THEN lifecycle[o] ELSE "none",
                       !.validity = validity[v]]
    <2>1. txn' = [txn EXCEPT ![s] = t] /\ UNCHANGED rows
      BY <1>9 DEF MarkLoad
    <2>2. o \in Objects /\ lifecycle[o] \in Lifecycle /\ validity[v] \in Validity
      BY <1>9 DEF MarkLoad, TypeInv, TypeOK
    <2>3. t \in Txn
      BY <2>2 DEF Idle, Txn, Operations, Steps, MarkedValidity, Validity
    <2>4. FilledIn(t)
      BY <2>2 DEF FilledIn, Idle
    <2> QED  BY <2>1, <2>3, <2>4 DEF LoadedInto
  <1>10. ASSUME Rollback(s) PROVE LoadedInto(s)
    BY <1>10, IdleTyped DEF Rollback, LoadedInto
  <1> QED  BY <1>3, <1>4, <1>5, <1>6, <1>7, <1>8, <1>9, <1>10

\* The commits: rows change, and the session is idle again.
LEMMA CommitsTyped ==
    ASSUME TypeInv, NEW s \in Sessions,
           \/ \E v \in Versions, r \in Risk, b \in Bodies, val \in {"current"} \cup EditValidity :
                CreateVersionCommit(s, v, r, b, val)
           \/ \E r \in Risk, b \in Bodies, val \in EditValidity \cup {txn[s].validity} :
                UpdateCommit(s, r, b, val)
           \/ PublishCommit(s)
           \/ ReviewCommit(s)
           \/ MarkCommit(s)
    PROVE  TypeInv'
  <1>1. txn[s] \in Txn /\ FilledIn(txn[s])
    BY DEF TypeInv, TypeOK
  <1>2. txn' = [txn EXCEPT ![s] = Idle]
    BY DEF CreateVersionCommit, UpdateCommit, PublishCommit, ReviewCommit, MarkCommit
  <1>3. txn' \in [Sessions -> Txn] /\ (\A r \in Sessions : FilledIn(txn'[r]))
    BY <1>2, IdleTyped, TxnReplaced DEF TypeInv, TypeOK
  <1>4. ASSUME NEW v \in Versions, NEW r \in Risk, NEW b \in Bodies,
               NEW val \in {"current"} \cup EditValidity, CreateVersionCommit(s, v, r, b, val)
        PROVE  TypeInv'
    <2>1. /\ txn[s].obj \in Objects /\ txn[s].number \in Nat /\ val \in Validity
      BY <1>1, <1>4, RequestAssumption DEF CreateVersionCommit, AtStep, FilledIn, Txn, Validity
    <2>2. TypeOK'
      BY <1>3, <1>4, <2>1 DEF CreateVersionCommit, TypeInv, TypeOK
    <2>3. \A w \in Versions : owner'[w] # None => body'[w] \in Bodies
      BY <1>4, <2>1 DEF CreateVersionCommit, TypeInv, TypeOK
    <2> QED  BY <1>3, <2>2, <2>3 DEF TypeInv
  <1>5. ASSUME NEW r \in Risk, NEW b \in Bodies, NEW val \in EditValidity \cup {txn[s].validity},
               UpdateCommit(s, r, b, val)
        PROVE  TypeInv'
    <2>1. txn[s].ver \in Versions /\ val \in Validity
      BY <1>1, <1>5, RequestAssumption DEF UpdateCommit, AtStep, FilledIn
    <2>2. TypeOK'
      BY <1>3, <1>5, <2>1 DEF UpdateCommit, Written, TypeInv, TypeOK
    <2>3. \A w \in Versions : owner'[w] # None => body'[w] \in Bodies
      BY <1>5, <2>1 DEF UpdateCommit, Written, TypeInv, TypeOK
    <2> QED  BY <1>3, <2>2, <2>3 DEF TypeInv
  <1>6. ASSUME PublishCommit(s) PROVE TypeInv'
    <2>1. txn[s].ver \in Versions /\ txn[s].obj \in Objects
      BY <1>1, <1>6 DEF PublishCommit, AtStep, FilledIn
    <2>2. validity' \in [Versions -> Validity]
      BY <1>6 DEF PublishCommit, Superseding, Written, TypeInv, TypeOK, Validity
    <2>3. /\ current' \in [Objects -> Versions \cup {None}]
          /\ lifecycle' \in [Objects -> Lifecycle]
      BY <1>6, <2>1 DEF PublishCommit, Written, TypeInv, TypeOK, Lifecycle
    <2>4. outbox' \in Seq(Versions)
      BY <1>6, <2>1 DEF PublishCommit, Announce, TypeInv, TypeOK
    <2> QED  BY <1>3, <1>6, <2>2, <2>3, <2>4 DEF PublishCommit, TypeInv, TypeOK
  <1>7. ASSUME ReviewCommit(s) PROVE TypeInv'
    <2>1. /\ txn[s].ver \in Versions /\ txn[s].obj \in Objects
          /\ txn[s].arg = "approved" => txn[s].body \in Bodies
      BY <1>1, <1>7 DEF ReviewCommit, AtStep, FilledIn
    <2>2. approvals' \subseteq [version : Versions, body : Bodies]
      BY <1>7, <2>1 DEF ReviewCommit, TypeInv, TypeOK
    <2>3. lifecycle' \in [Objects -> Lifecycle]
      <3>1. \A a \in DOMAIN LifecycleOf : LifecycleOf[a] \in Lifecycle
        BY DEF LifecycleOf, Lifecycle
      <3> QED  BY <1>7, <2>1, <3>1 DEF ReviewCommit, Written, TypeInv, TypeOK
    <2>4. validity' \in [Versions -> Validity]
      <3>1. \A a \in DOMAIN ValidityOf : ValidityOf[a] \in Validity
        BY DEF ValidityOf, Validity
      <3> QED  BY <1>7, <2>1, <3>1 DEF ReviewCommit, Written, TypeInv, TypeOK
    <2> QED  BY <1>3, <1>7, <2>2, <2>3, <2>4 DEF ReviewCommit, TypeInv, TypeOK
  <1>8. ASSUME MarkCommit(s) PROVE TypeInv'
    <2>1. /\ txn[s].ver \in Versions /\ txn[s].obj \in Objects /\ txn[s].arg \in Validity
      BY <1>1, <1>8 DEF MarkCommit, AtStep, FilledIn, MarkedValidity, Validity
    <2>2. lifecycle' \in [Objects -> Lifecycle]
      BY <1>8, <2>1 DEF MarkCommit, LifecycleAfterMark, Written, TypeInv, TypeOK, Lifecycle
    <2>3. validity' \in [Versions -> Validity]
      BY <1>8, <2>1 DEF MarkCommit, Written, TypeInv, TypeOK
    <2> QED  BY <1>3, <1>8, <2>2, <2>3 DEF MarkCommit, TypeInv, TypeOK
  <1> QED  BY <1>4, <1>5, <1>6, <1>7, <1>8

\* Every step keeps the strengthened type invariant.
LEMMA TypeStep == TypeInv /\ [Next]_vars => TypeInv'
  <1> SUFFICES ASSUME TypeInv, [Next]_vars PROVE TypeInv'  OBVIOUS
  <1>1. CASE UNCHANGED vars
    BY <1>1 DEF vars, rows, TypeInv, TypeOK, FilledIn
  <1>2. CASE Next
    BY <1>2, ShortRequestsTyped, LoadsTyped, CommitsTyped DEF Next
  <1> QED  BY <1>1, <1>2

\* Every reachable state is well typed: no handler stores a value outside the
\* columns' enumerations, a dangling id or an empty version.
THEOREM TypeCorrect == Spec => []TypeOK
  <1>1. Spec => []TypeInv
    BY TypeInit, TypeStep, PTL DEF Spec
  <1>2. TypeInv => TypeOK
    BY DEF TypeInv
  <1> QED  BY <1>1, <1>2, PTL

\* The strengthened type invariant holds in every reachable state.
LEMMA TypeInvariant == Spec => []TypeInv
  BY TypeInit, TypeStep, PTL DEF Spec

-----------------------------------------------------------------------------
(***************************************************************************)
(* What is public was announced.  A publication decides on what it loaded, *)
(* and skips the update of current when it loaded the version it publishes *)
(* as the current one; that is harmless because an object that once had a  *)
(* current version always has one.                                         *)
(***************************************************************************)

\* What a publication under way knows for certain, however old its load is.
StillKnows(t) ==
    t.op = "publish" =>
        /\ owner[t.ver] = t.obj
        /\ t.current # None => current[t.obj] # None

CatalogInv ==
    /\ PublishedWasAnnounced
    /\ \A s \in Sessions : StillKnows(txn[s])

\* An appended event is announced, and so are all those before it.
LEMMA AnnouncedGrows ==
    ASSUME outbox \in Seq(Versions), NEW v \in Versions, outbox' = Append(outbox, v)
    PROVE  v \in Announced' /\ Announced \subseteq Announced'
  <1>1. /\ \A i \in DOMAIN outbox : i \in DOMAIN outbox' /\ outbox'[i] = outbox[i]
        /\ Len(outbox') \in DOMAIN outbox' /\ outbox'[Len(outbox')] = v
    OBVIOUS
  <1> QED  BY <1>1 DEF Announced

\* The steps that neither publish nor give a version its owner.
LEMMA NothingShown ==
    ASSUME TypeInv, CatalogInv, UNCHANGED <<current, owner, outbox>>,
           \A o \in Objects : lifecycle'[o] = "published" => lifecycle[o] = "published",
           \A s \in Sessions : StillKnows(txn[s]) => StillKnows(txn'[s])
    PROVE  CatalogInv'
  <1>1. PublishedWasAnnounced'
    BY DEF CatalogInv, PublishedWasAnnounced, Announced
  <1>2. ASSUME NEW s \in Sessions PROVE StillKnows(txn[s])'
    BY DEF CatalogInv, StillKnows
  <1> QED  BY <1>1, <1>2 DEF CatalogInv

\* A new record for one session, which is no publication or the same one.
LEMMA OtherTxn ==
    ASSUME TypeInv, NEW s \in Sessions, NEW t, txn' = [txn EXCEPT ![s] = t],
           t.op = "publish" =>
               txn[s].op = "publish" /\ t.ver = txn[s].ver /\ t.obj = txn[s].obj
                   /\ t.current = txn[s].current
    PROVE  \A r \in Sessions : StillKnows(txn[r]) => StillKnows(txn'[r])
  <1>1. ASSUME NEW r \in Sessions, r # s PROVE StillKnows(txn[r]) => StillKnows(txn'[r])
    BY <1>1 DEF TypeInv, TypeOK
  <1>2. txn'[s] = t
    BY DEF TypeInv, TypeOK
  <1>3. StillKnows(txn[s]) => StillKnows(txn'[s])
    BY <1>2 DEF StillKnows
  <1> QED  BY <1>1, <1>3

\* A review, a mark and a rollback can take an object out of the public, never
\* put it there, and they change the lifecycle of one object at most.
LEMMA WithdrawalsOnly ==
    ASSUME TypeInv, NEW s \in Sessions, ReviewCommit(s) \/ MarkCommit(s) \/ Rollback(s)
    PROVE  \/ UNCHANGED lifecycle
           \/ /\ txn[s].obj \in Objects
              /\ \E x \in Lifecycle \ {"published"} :
                   lifecycle' = [lifecycle EXCEPT ![txn[s].obj] = x]
  <1>1. txn[s] \in Txn /\ FilledIn(txn[s])
    BY DEF TypeInv, TypeOK
  <1>2. CASE ReviewCommit(s)
    <2>1. \A a \in DOMAIN LifecycleOf : LifecycleOf[a] \in Lifecycle \ {"published"}
      BY DEF LifecycleOf, Lifecycle
    <2> QED  BY <1>1, <1>2, <2>1 DEF ReviewCommit, AtStep, FilledIn, Written, TypeInv, TypeOK
  <1>3. CASE MarkCommit(s)
    BY <1>1, <1>3
    DEF MarkCommit, LifecycleAfterMark, AtStep, FilledIn, Written, TypeInv, TypeOK, Lifecycle
  <1>4. CASE Rollback(s)
    BY <1>4 DEF Rollback, rows
  <1> QED  BY <1>2, <1>3, <1>4

\* Every step keeps the announcement of what is shown and what a publication
\* under way knows of its object.
LEMMA CatalogStep == TypeInv /\ TypeInv' /\ CatalogInv /\ [Next]_vars => CatalogInv'
  <1> SUFFICES ASSUME TypeInv, TypeInv', CatalogInv, [Next]_vars PROVE CatalogInv'
    OBVIOUS
  <1>1. CASE UNCHANGED vars
    BY <1>1, NothingShown DEF vars, rows
  <1>2. ASSUME NEW o \in Objects, CreateObject(o) \/ DeprecateObject(o) PROVE CatalogInv'
    BY <1>2, NothingShown DEF CreateObject, DeprecateObject, TypeInv, TypeOK
  <1>3. ASSUME NEW o \in Objects, NEW v \in Versions, MarkVerified(o, v) PROVE CatalogInv'
    BY <1>3, NothingShown DEF MarkVerified, TypeInv, TypeOK
  <1>4. ASSUME NEW c \in Cases, NEW left \in Versions, NEW right \in Versions,
               OpenContradiction(c, left, right)
        PROVE  CatalogInv'
    BY <1>4, NothingShown DEF OpenContradiction
  <1>5. ASSUME NEW c \in Cases, NEW status \in CaseStatus, ResolveContradiction(c, status)
        PROVE  CatalogInv'
    BY <1>5, NothingShown DEF ResolveContradiction
  <1>6. ASSUME NEW s \in Sessions, NEW o \in Objects, CreateVersionLoad(s, o)
        PROVE  CatalogInv'
    <2>1. PICK n : txn' = [txn EXCEPT ![s] =
                             [Idle EXCEPT !.op = "create", !.step = "commit",
                                          !.obj = o, !.number = n]]
      BY <1>6 DEF CreateVersionLoad
    <2>2. \A r \in Sessions : StillKnows(txn[r]) => StillKnows(txn'[r])
      BY <2>1, OtherTxn DEF Idle
    <2> QED  BY <1>6, <2>2, NothingShown DEF CreateVersionLoad, rows
  <1>7. ASSUME NEW s \in Sessions, NEW v \in Versions, NEW r \in Risk, NEW b \in Bodies,
               NEW val \in {"current"} \cup EditValidity, CreateVersionCommit(s, v, r, b, val)
        PROVE  CatalogInv'
    <2>1. \A w \in Versions : owner[w] # None => owner'[w] = owner[w]
      BY <1>7 DEF CreateVersionCommit, TypeInv, TypeOK
    <2>2. PublishedWasAnnounced'
      BY <1>7, <2>1, RegistryAssumption
      DEF CreateVersionCommit, CatalogInv, PublishedWasAnnounced, Announced, TypeInv, TypeOK
    <2>3. ASSUME NEW q \in Sessions PROVE StillKnows(txn[q])'
      <3>1. txn'[q] = txn[q] \/ txn'[q] = Idle
        BY <1>7 DEF CreateVersionCommit, TypeInv, TypeOK
      <3>2. CASE txn'[q] = Idle
        BY <3>2 DEF StillKnows, Idle
      <3>3. CASE txn'[q] = txn[q]
        BY <1>7, <2>1, <3>3, RegistryAssumption
        DEF CreateVersionCommit, CatalogInv, StillKnows, TypeInv, FilledIn
      <3> QED  BY <3>1, <3>2, <3>3
    <2> QED  BY <2>2, <2>3 DEF CatalogInv
  <1>8. ASSUME NEW s \in Sessions, NEW v \in Versions, NEW op \in {"publish", "update"},
               LoadObject(s, op, v)
        PROVE  CatalogInv'
    <2>1. UNCHANGED rows
      BY <1>8 DEF LoadObject
    <2>2. /\ txn'[s].ver = v /\ txn'[s].obj = owner[v] /\ txn'[s].current = current[owner[v]]
      BY <1>8 DEF LoadObject, Idle, TypeInv, TypeOK
    <2>3. StillKnows(txn[s])'
      BY <2>1, <2>2 DEF StillKnows, rows
    <2>4. ASSUME NEW r \in Sessions, r # s PROVE StillKnows(txn[r])'
      BY <1>8, <2>1, <2>4 DEF LoadObject, CatalogInv, StillKnows, TypeInv, TypeOK, rows
    <2>5. PublishedWasAnnounced'
      BY <2>1 DEF CatalogInv, PublishedWasAnnounced, Announced, rows
    <2> QED  BY <2>3, <2>4, <2>5 DEF CatalogInv
  <1>9. ASSUME NEW s \in Sessions, UpdateLoadVersion(s) PROVE CatalogInv'
    <2>1. txn[s] \in Txn /\ txn[s].ver \in Versions /\ txn[s].op = "update"
      BY <1>9 DEF UpdateLoadVersion, AtStep, TypeInv, TypeOK, FilledIn
    <2>2. Loaded(txn[s]) \in Txn /\ Loaded(txn[s]).op = "update"
      BY <2>1, LoadedTyped
    <2> DEFINE t == [Loaded(txn[s]) EXCEPT !.step = "commit", !.obj = None, !.current = None,
                                           !.lifecycle = "none", !.prior = "none"]
    <2>3. txn' = [txn EXCEPT ![s] = t]
      BY <1>9 DEF UpdateLoadVersion, TypeInv, TypeOK
    <2>4. t.op = "update"
      BY <2>2 DEF Txn
    <2> HIDE DEF t
    <2>5. \A r \in Sessions : StillKnows(txn[r]) => StillKnows(txn'[r])
      BY <2>3, <2>4, OtherTxn
    <2> QED  BY <1>9, <2>5, NothingShown DEF UpdateLoadVersion, rows
  <1>10. ASSUME NEW s \in Sessions, NEW r \in Risk, NEW b \in Bodies,
                NEW val \in EditValidity \cup {txn[s].validity}, UpdateCommit(s, r, b, val)
         PROVE  CatalogInv'
    <2>1. \A q \in Sessions : StillKnows(txn[q]) => StillKnows(txn'[q])
      BY <1>10, OtherTxn DEF UpdateCommit, Idle
    <2> QED  BY <1>10, <2>1, NothingShown DEF UpdateCommit
  <1>11. ASSUME NEW s \in Sessions, PublishLoadVersion(s) PROVE CatalogInv'
    <2>1. txn[s] \in Txn /\ txn[s].ver \in Versions /\ txn[s].op = "publish"
      BY <1>11 DEF PublishLoadVersion, AtStep, TypeInv, TypeOK, FilledIn
    <2>2. /\ Loaded(txn[s]) \in Txn /\ Loaded(txn[s]).ver = txn[s].ver
          /\ Loaded(txn[s]).obj = txn[s].obj /\ Loaded(txn[s]).current = txn[s].current
      BY <2>1, LoadedTyped
    <2> DEFINE t == [Loaded(txn[s]) EXCEPT !.step = "reviews", !.body = None]
    <2>3. txn' = [txn EXCEPT ![s] = t]
      BY <1>11 DEF PublishLoadVersion
    <2>4. t.ver = txn[s].ver /\ t.obj = txn[s].obj /\ t.current = txn[s].current
      BY <2>2 DEF Txn
    <2> HIDE DEF t
    <2>5. \A r \in Sessions : StillKnows(txn[r]) => StillKnows(txn'[r])
      BY <2>1, <2>3, <2>4, OtherTxn
    <2> QED  BY <1>11, <2>5, NothingShown DEF PublishLoadVersion, rows
  <1>12. ASSUME NEW s \in Sessions, CheckReviews(s) \/ CheckContradictions(s) PROVE CatalogInv'
    <2>1. PICK step : txn' = [txn EXCEPT ![s] = [txn[s] EXCEPT !.step = step]]
      BY <1>12 DEF CheckReviews, CheckContradictions, TypeInv, TypeOK
    <2> DEFINE t == [txn[s] EXCEPT !.step = step]
    <2>2. t.op = txn[s].op /\ t.ver = txn[s].ver /\ t.obj = txn[s].obj
            /\ t.current = txn[s].current
      BY DEF TypeInv, TypeOK, Txn
    <2> HIDE DEF t
    <2>3. \A r \in Sessions : StillKnows(txn[r]) => StillKnows(txn'[r])
      BY <2>1, <2>2, OtherTxn DEF t
    <2> QED  BY <1>12, <2>3, NothingShown DEF CheckReviews, CheckContradictions, rows
  <1>13. ASSUME NEW s \in Sessions, PublishCommit(s) PROVE CatalogInv'
    <2> DEFINE t == txn[s]
    <2>1. /\ t \in Txn /\ t.op = "publish" /\ t.ver \in Versions /\ t.obj \in Objects
          /\ owner[t.ver] = t.obj /\ t.ver # None
          /\ t.current # None => current[t.obj] # None
      BY <1>13, RegistryAssumption
      DEF PublishCommit, AtStep, CatalogInv, StillKnows, TypeInv, TypeOK, FilledIn
    <2>2. t.ver \in Announced' /\ Announced \subseteq Announced'
      BY <1>13, <2>1, AnnouncedGrows DEF PublishCommit, Announce, TypeInv, TypeOK
    <2>3. /\ current'[t.obj] \in {t.ver, current[t.obj]} /\ current'[t.obj] # None
          /\ \A o \in Objects \ {t.obj} : current'[o] = current[o] /\ lifecycle'[o] = lifecycle[o]
      BY <1>13, <2>1 DEF PublishCommit, Written, TypeInv, TypeOK
    <2>4. PublishedWasAnnounced'
      BY <1>13, <2>1, <2>2, <2>3 DEF PublishCommit, CatalogInv, PublishedWasAnnounced
    <2>5. \A r \in Sessions : txn'[r] = txn[r] \/ txn'[r] = Idle
      BY <1>13 DEF PublishCommit, TypeInv, TypeOK
    <2>6. ASSUME NEW r \in Sessions PROVE StillKnows(txn[r])'
      <3>1. CASE txn'[r] = Idle
        BY <3>1 DEF StillKnows, Idle
      <3>2. CASE txn'[r] = txn[r]
        BY <1>13, <2>3, <3>2
        DEF PublishCommit, CatalogInv, StillKnows, TypeInv, FilledIn
      <3> QED  BY <2>5, <3>1, <3>2
    <2> QED  BY <2>4, <2>6 DEF CatalogInv
  <1>14. ASSUME NEW s \in Sessions, NEW v \in Versions, NEW outcome \in SentOutcomes,
                ReviewLoad(s, v, outcome)
         PROVE  CatalogInv'
    <2> DEFINE t == [Idle EXCEPT
                       !.op = "review", !.step = "commit", !.obj = owner[v], !.ver = v,
                       !.arg = outcome,
                       !.lifecycle = IF outcome \in DOMAIN LifecycleOf
                                       THEN lifecycle[owner[v]] ELSE "none",
                       !.validity = IF outcome \in DOMAIN ValidityOf THEN validity[v] ELSE "none",
                       !.body = IF outcome = "approved" THEN body[v] ELSE None]
    <2>1. txn' = [txn EXCEPT ![s] = t]
      BY <1>14 DEF ReviewLoad
    <2>2. t.op = "review"
      BY DEF Idle
    <2> HIDE DEF t
    <2>3. \A r \in Sessions : StillKnows(txn[r]) => StillKnows(txn'[r])
      BY <2>1, <2>2, OtherTxn
    <2> QED  BY <1>14, <2>3, NothingShown DEF ReviewLoad, rows
  <1>15. ASSUME NEW s \in Sessions, NEW v \in Versions,
                NEW status \in SentMarks \cap MarkedValidity, MarkLoad(s, v, status)
         PROVE  CatalogInv'
    <2> DEFINE t == [Idle EXCEPT
                       !.op = "mark", !.step = "commit", !.obj = owner[v], !.ver = v,
                       !.arg = status,
                       !.lifecycle = IF status \in {"deprecated", "retracted"}
                                          /\ current[owner[v]] = v
                                       THEN lifecycle[owner[v]] ELSE "none",
                       !.validity = validity[v]]
    <2>1. txn' = [txn EXCEPT ![s] = t]
      BY <1>15 DEF MarkLoad
    <2>2. t.op = "mark"
      BY DEF Idle
    <2> HIDE DEF t
    <2>3. \A r \in Sessions : StillKnows(txn[r]) => StillKnows(txn'[r])
      BY <2>1, <2>2, OtherTxn
    <2> QED  BY <1>15, <2>3, NothingShown DEF MarkLoad, rows
  <1>16. ASSUME NEW s \in Sessions, ReviewCommit(s) \/ MarkCommit(s) \/ Rollback(s)
         PROVE  CatalogInv'
    <2>1. /\ txn' = [txn EXCEPT ![s] = Idle]
          /\ UNCHANGED <<current, owner, outbox>>
      BY <1>16 DEF ReviewCommit, MarkCommit, Rollback, rows
    <2>2. \A o \in Objects : lifecycle'[o] = "published" => lifecycle[o] = "published"
      BY <1>16, WithdrawalsOnly DEF TypeInv, TypeOK
    <2>3. \A r \in Sessions : StillKnows(txn[r]) => StillKnows(txn'[r])
      BY <2>1, OtherTxn DEF Idle
    <2> QED  BY <2>1, <2>2, <2>3, NothingShown
  <1> QED
    BY <1>1, <1>2, <1>3, <1>4, <1>5, <1>6, <1>7, <1>8, <1>9, <1>10, <1>11, <1>12,
       <1>13, <1>14, <1>15, <1>16
    DEF Next

\* What is shown was announced in every reachable state.
LEMMA CatalogInvariant == Spec => []CatalogInv
  <1>1. Init => CatalogInv
    BY DEF Init, CatalogInv, PublishedWasAnnounced, StillKnows, Idle
  <1> QED  BY <1>1, TypeInvariant, CatalogStep, PTL DEF Spec

\* Nothing is public without a version of its own whose indexing was announced,
\* however publications, reviews, marks and edits of the object interleave.
THEOREM PublishedAlwaysAnnounced == Spec => []PublishedWasAnnounced
  <1>1. CatalogInv => PublishedWasAnnounced
    BY DEF CatalogInv
  <1> QED  BY <1>1, CatalogInvariant, PTL

-----------------------------------------------------------------------------
(***************************************************************************)
(* Refinement of Catalog.                                                  *)
(***************************************************************************)

\* Steps that neither publish nor change a lifecycle are stutters.
LEMMA StutterSeen ==
    ASSUME UNCHANGED <<lifecycle, current, outbox>>
    PROVE  UNCHANGED Public!vars
  BY DEF Public!vars

\* Steps that give an object another state than published take it out.
LEMMA WithdrawalSeen ==
    ASSUME TypeInv, UNCHANGED <<current, outbox>>, NEW o \in Objects,
           NEW x \in Lifecycle \ {"published"}, lifecycle' = [lifecycle EXCEPT ![o] = x]
    PROVE  [Public!Next]_(Public!vars)
  <1> DEFINE visible == [p \in Objects |-> lifecycle[p] = "published"]
  <1>1. \A p \in Objects :
           (lifecycle'[p] = "published") = (IF p = o THEN FALSE ELSE lifecycle[p] = "published")
    BY DEF TypeInv, TypeOK
  <1>2. visible' = [visible EXCEPT ![o] = FALSE]
    BY <1>1
  <1>3. CASE lifecycle[o] = "published"
    <2>1. Public!Withdraw(o)
      BY <1>2, <1>3 DEF Public!Withdraw
    <2> QED  BY <2>1 DEF Public!Next
  <1>4. CASE lifecycle[o] # "published"
    <2>1. \A p \in Objects : (lifecycle'[p] = "published") = (lifecycle[p] = "published")
      BY <1>1, <1>4
    <2>2. visible' = visible
      BY <2>1
    <2> QED  BY <2>2 DEF Public!vars
  <1> QED  BY <1>3, <1>4

\* The commit of a publication is a publication of the catalogue, even when one
\* of its UPDATEs is skipped.
LEMMA PublicationSeen ==
    ASSUME TypeInv, CatalogInv, CatalogInv', NEW s \in Sessions, PublishCommit(s)
    PROVE  Public!Next
  <1> DEFINE t == txn[s]
             visible == [p \in Objects |-> lifecycle[p] = "published"]
  <1>1. /\ t \in Txn /\ t.ver \in Versions /\ t.obj \in Objects
        /\ owner[t.ver] = t.obj /\ t.ver # None
    BY RegistryAssumption
    DEF PublishCommit, AtStep, CatalogInv, StillKnows, TypeInv, TypeOK, FilledIn
  <1>2. outbox' = Append(outbox, t.ver)
    BY DEF PublishCommit, Announce
  <1>3. current' \in {current, [current EXCEPT ![t.obj] = t.ver]}
    BY <1>1 DEF PublishCommit, Written, TypeInv, TypeOK
  <1>4. lifecycle' \in {lifecycle, [lifecycle EXCEPT ![t.obj] = "published"]}
    BY <1>1 DEF PublishCommit, Written, TypeInv, TypeOK
  <1>5. visible' \in {visible, [visible EXCEPT ![t.obj] = TRUE]}
    <2>1. CASE lifecycle' = lifecycle
      BY <2>1
    <2>2. CASE lifecycle' = [lifecycle EXCEPT ![t.obj] = "published"]
      <3>1. \A p \in Objects :
               (lifecycle'[p] = "published")
                   = (IF p = t.obj THEN TRUE ELSE lifecycle[p] = "published")
        BY <2>2 DEF TypeInv, TypeOK
      <3>2. visible' = [visible EXCEPT ![t.obj] = TRUE]
        BY <3>1
      <3> QED  BY <3>2
    <2> QED  BY <1>4, <2>1, <2>2
  <1>6. visible'[t.obj] => current'[t.obj] # None
    BY <1>1 DEF CatalogInv, PublishedWasAnnounced
  <1>7. \A p \in Objects \ {t.obj} : current[p] # t.ver
    BY <1>1 DEF CatalogInv, PublishedWasAnnounced
  <1>8. PICK o \in Objects, v \in Versions : o = t.obj /\ v = t.ver
    BY <1>1
  <1>9. Public!Publish(o, v)
    BY <1>2, <1>3, <1>5, <1>6, <1>7, <1>8 DEF Public!Publish
  <1> QED  BY <1>9 DEF Public!Next

\* What a step of the registry is to the catalogue.
Seen == [Public!Next]_(Public!vars)

\* Every step of the registry is a step or a stutter of the catalogue.
LEMMA PublicStep ==
    TypeInv /\ CatalogInv /\ CatalogInv' /\ [Next]_vars => Seen
  <1> SUFFICES ASSUME TypeInv, CatalogInv, CatalogInv', [Next]_vars
               PROVE  Seen
    OBVIOUS
  <1>1. CASE UNCHANGED vars
    BY <1>1, StutterSeen DEF vars, rows, Seen
  <1>2. ASSUME NEW o \in Objects, CreateObject(o) \/ DeprecateObject(o)
        PROVE  Seen
    BY <1>2, WithdrawalSeen DEF CreateObject, DeprecateObject, Lifecycle, Seen
  <1>3. ASSUME NEW o \in Objects, NEW v \in Versions, MarkVerified(o, v)
        PROVE  Seen
    BY <1>3, WithdrawalSeen DEF MarkVerified, Lifecycle, Seen
  <1>4. ASSUME NEW s \in Sessions, PublishCommit(s) PROVE Seen
    BY <1>4, PublicationSeen DEF Seen
  <1>5. ASSUME NEW s \in Sessions, ReviewCommit(s) \/ MarkCommit(s) \/ Rollback(s)
        PROVE  Seen
    <2>1. UNCHANGED <<current, outbox>>
      BY <1>5 DEF ReviewCommit, MarkCommit, Rollback, rows
    <2>2. CASE UNCHANGED lifecycle
      BY <2>1, <2>2, StutterSeen DEF Seen
    <2>3. CASE \E x \in Lifecycle \ {"published"} :
                   txn[s].obj \in Objects /\ lifecycle' = [lifecycle EXCEPT ![txn[s].obj] = x]
      BY <2>1, <2>3, WithdrawalSeen DEF Seen
    <2> QED  BY <1>5, <2>2, <2>3, WithdrawalsOnly
  <1>6. ASSUME NEW c \in Cases,
               \/ \E left, right \in Versions : OpenContradiction(c, left, right)
               \/ \E status \in CaseStatus : ResolveContradiction(c, status)
        PROVE  Seen
    BY <1>6, StutterSeen DEF OpenContradiction, ResolveContradiction, Seen
  <1>7. ASSUME NEW s \in Sessions, NEW v \in Versions,
               \/ \E r \in Risk, b \in Bodies, val \in {"current"} \cup EditValidity :
                    CreateVersionCommit(s, v, r, b, val)
               \/ \E op \in {"publish", "update"} : LoadObject(s, op, v)
               \/ \E outcome \in SentOutcomes : ReviewLoad(s, v, outcome)
               \/ \E status \in SentMarks \cap MarkedValidity : MarkLoad(s, v, status)
        PROVE  Seen
    BY <1>7, StutterSeen DEF CreateVersionCommit, LoadObject, ReviewLoad, MarkLoad, rows, Seen
  <1>8. ASSUME NEW s \in Sessions,
               \/ \E o \in Objects : CreateVersionLoad(s, o)
               \/ UpdateLoadVersion(s)
               \/ \E r \in Risk, b \in Bodies, val \in EditValidity \cup {txn[s].validity} :
                    UpdateCommit(s, r, b, val)
               \/ PublishLoadVersion(s)
               \/ CheckReviews(s)
               \/ CheckContradictions(s)
        PROVE  Seen
    BY <1>8, StutterSeen
    DEF CreateVersionLoad, UpdateLoadVersion, UpdateCommit, PublishLoadVersion, CheckReviews,
        CheckContradictions, rows, Seen
  <1> QED
    BY <1>1, <1>2, <1>3, <1>4, <1>5, <1>6, <1>7, <1>8 DEF Next

\* The registry implements the catalogue: readers never see anything but
\* announced publications and withdrawals, whatever requests run concurrently.
THEOREM RegistryImplementsCatalog == Spec => ImplementsCatalog
  <1>1. Init => Public!Init
    <2> SUFFICES ASSUME Init PROVE Public!Init  OBVIOUS
    <2>1. \A o \in Objects : (lifecycle[o] = "published") = FALSE
      BY DEF Init
    <2> QED  BY <2>1 DEF Init, Public!Init
  <1> QED
    BY <1>1, TypeInvariant, CatalogInvariant, PublicStep, PTL
    DEF Spec, Seen, ImplementsCatalog, Public!Spec
=============================================================================
