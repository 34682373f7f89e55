------------------------------ MODULE Registry ------------------------------
(***************************************************************************)
(* The registry, the publish gate and the review service: what a client of *)
(* the API can do to a context object, its versions, their reviews and     *)
(* contradiction cases (services/registry.py, publish_gate.py, review.py). *)
(*                                                                         *)
(* Every request runs in a database session of its own, at READ COMMITTED. *)
(* A handler first loads rows, then decides on what it loaded, then writes *)
(* in one commit; between its statements other sessions commit.  So a      *)
(* handler is a transaction txn[s] that moves from step to step, and its   *)
(* last step is the commit.  The ORM sends an UPDATE only for the columns  *)
(* whose value differs from the loaded one: Written below.  A transaction  *)
(* may also end with no effect at any step (Rollback): a failed check, a   *)
(* constraint, a dropped connection.                                       *)
(*                                                                         *)
(* A handler that reads nothing it decides on but rows that never change   *)
(* again, and writes at most one column, is a single action: whether its   *)
(* write is skipped (same value loaded) or sent, the handler behaves as if *)
(* it ran at the moment of its load or of its commit.                      *)
(***************************************************************************)
EXTENDS Integers, Sequences, FiniteSets

CONSTANTS
    Objects,        \* rows of context_objects that can be created, by slug
    Versions,       \* rows of context_object_versions that can be created
    Cases,          \* rows of contradiction_cases that can be created
    Sessions,       \* concurrent requests
    Bodies,         \* contents of a version (text and structured_data)
    UnsafeBodies,   \* those with neither safety_boundary nor escalation_guidance
    SafetyObjects,  \* objects of a type in SAFETY_BOUNDARY_REQUIRED_TYPES
    SentOutcomes,   \* review outcomes clients submit
    SentMarks,      \* which of mark_verified, mark_disputed, propose_deprecation they call
    EditValidity,   \* validity_status values clients send in PATCH requests
    MaxPublishes,   \* bound: publications in a behaviour
    None

ASSUME RegistryAssumption ==
    /\ UnsafeBodies \subseteq Bodies
    /\ SafetyObjects \subseteq Objects
    /\ IsFiniteSet(Versions)
    /\ MaxPublishes \in Nat
    /\ None \notin Objects \cup Versions \cup Bodies

VARIABLES
    lifecycle,  \* context_objects.lifecycle_state; "absent": no such row yet
    current,    \* context_objects.current_version_id
    owner,      \* context_object_versions.context_object_id; None: no row yet
    number,     \* context_object_versions.version_no
    risk,       \* context_object_versions.risk_band, the two classes the gate tells apart
    body,       \* the other columns of a version a PATCH may change
    validity,   \* context_object_versions.validity_status
    approvals,  \* APPROVED review_records, each with the body its reviewer had loaded
    cases,      \* contradiction_cases: the two versions and the status
    outbox,     \* the version.published rows of outbox_events, in id order
    txn         \* what each open session has loaded and does next

rows == <<lifecycle, current, owner, number, risk, body, validity, approvals, cases, outbox>>
vars == <<rows, txn>>

-----------------------------------------------------------------------------
(* The enumerations of domain/enums.py.  "in_review" and "archived" are    *)
(* written by no handler of these services.                                *)

Lifecycle == {"absent", "draft", "reviewed", "verified", "published", "deprecated"}
Validity == {"current", "superseded", "disputed", "deprecated", "retracted"}
Risk == {"low", "high"}
\* "rejected" stands for CHANGES_REQUESTED too: both only add the record.
Outcomes == {"approved", "verified", "deprecated", "disputed", "rejected"}
\* "resolved" stands for ACCEPTED_CONTEXTUAL and REJECTED too: all three settle the case.
CaseStatus == {"open", "triaged", "resolved"}

\* mark_disputed and propose_deprecation pass these two to mark_version_validity.
MarkedValidity == {"disputed", "deprecated"}

ASSUME RequestAssumption ==
    /\ EditValidity \subseteq Validity
    /\ SentOutcomes \subseteq Outcomes
    /\ SentMarks \subseteq MarkedValidity \cup {"verified"}

Unresolved == {"open", "triaged"}
\* Mutant: an approval publishes.
ApprovalPublishes ==
    [approved |-> "published", verified |-> "verified", deprecated |-> "deprecated"]

\* What a review outcome assigns to the object's and to the version's state.
LifecycleOf == [approved |-> "reviewed", verified |-> "verified", deprecated |-> "deprecated"]

\* Mutant: the outcome itself is stored as the version's status.
OutcomeStored == [approved |-> "approved", deprecated |-> "deprecated", disputed |-> "disputed"]

ValidityOf == [deprecated |-> "deprecated", disputed |-> "disputed"]

NoCase == [sides |-> {}, status |-> "none"]
Case == [sides : SUBSET Versions, status : CaseStatus \cup {"none"}]

Operations == {"publish", "update", "create", "review", "mark"}
Steps == {"version", "reviews", "contradictions", "commit"}

Idle == [op |-> "idle", step |-> "none", obj |-> None, ver |-> None, arg |-> "none",
         current |-> None, lifecycle |-> "none", prior |-> "none",
         validity |-> "none", risk |-> "none", body |-> None, number |-> 0]

Txn == [op : Operations \cup {"idle"}, step : Steps \cup {"none"},
        obj : Objects \cup {None}, ver : Versions \cup {None},
        arg : Outcomes \cup Validity \cup {"none"},
        current : Versions \cup {None}, lifecycle : Lifecycle \cup {"none"},
        prior : Validity \cup {"none"}, validity : Validity \cup {"none"},
        risk : Risk \cup {"none"}, body : Bodies \cup {None}, number : Nat]

TypeOK ==
    /\ lifecycle \in [Objects -> Lifecycle]
    /\ current \in [Objects -> Versions \cup {None}]
    /\ owner \in [Versions -> Objects \cup {None}]
    /\ number \in [Versions -> Nat]
    /\ risk \in [Versions -> Risk]
    /\ body \in [Versions -> Bodies \cup {None}]
    /\ validity \in [Versions -> Validity]
    /\ approvals \subseteq [version : Versions, body : Bodies]
    /\ cases \in [Cases -> Case]
    /\ outbox \in Seq(Versions)
    /\ txn \in [Sessions -> Txn]

-----------------------------------------------------------------------------
VersionsOf(o) == {v \in Versions : owner[v] = o}

\* n = max(version_no) + 1, which is 1 for the first version of o
IsNextNumber(o, n) ==
    /\ \A v \in VersionsOf(o) : number[v] < n
    /\ n = 1 \/ \E v \in VersionsOf(o) : number[v] = n - 1

\* The column after an UPDATE that sets `new`, where `loaded` was read and
\* `now` is what the row holds when the UPDATE runs.
Written(new, loaded, now) == IF new = loaded THEN now ELSE new

Approved(v) == \E r \in approvals : r.version = v

Contested(v) == \E c \in Cases : v \in cases[c].sides /\ cases[c].status \in Unresolved

\* SafetyBoundary: PublishGate's second check, on the version as loaded.
LacksBoundary(o, b) == o \in SafetyObjects /\ b \in UnsafeBodies

\* Mutant: the table without its unique constraint.
AnyNumber(o, n) == TRUE

\* The unique constraint (context_object_id, version_no)
NumberFree(o, n) == \A w \in VersionsOf(o) : number[w] # n

\* Mutant: the handler does not ask whether the version is the current one.
AnyVersionEditable(t) == TRUE

\* update_draft_version refuses the version that was current when it loaded the object.
MayUpdate(t) == t.current # t.ver

\* Mutant: the review query forgets to filter by outcome.
NoReviewNeeded(t) == TRUE

\* PublishGate's first check, on the risk band as loaded.
ReviewsAllow(t) == t.risk = "high" => Approved(t.ver)

\* Mutant: the publication is committed without its event.
NoEvent(v) == outbox

\* add_outbox_event, in the transaction of the publication
Announce(v) == Append(outbox, v)

\* Mutant: the object keeps its lifecycle state.
LifecycleKept(t) == lifecycle

\* Deprecating or retracting the version that is current deprecates its object:
\* only then has MarkLoad kept the object's lifecycle.
LifecycleAfterMark(t) ==
    IF t.lifecycle # "none"
      THEN [lifecycle EXCEPT ![t.obj] = Written("deprecated", t.lifecycle, @)]
      ELSE lifecycle

\* A session can serve a request that is one action.
SessionFree == \E s \in Sessions : txn[s] = Idle

AtStep(s, op, step) == txn[s].op = op /\ txn[s].step = step

Announced == {outbox[i] : i \in DOMAIN outbox}

-----------------------------------------------------------------------------
Init ==
    /\ lifecycle = [o \in Objects |-> "absent"]
    /\ current = [o \in Objects |-> None]
    /\ owner = [v \in Versions |-> None]
    /\ number = [v \in Versions |-> 0]
    /\ risk = [v \in Versions |-> "low"]
    /\ body = [v \in Versions |-> None]
    /\ validity = [v \in Versions |-> "current"]
    /\ approvals = {}
    /\ cases = [c \in Cases |-> NoCase]
    /\ outbox = <<>>
    /\ txn = [s \in Sessions |-> Idle]

(***************************************************************************)
(* Handlers that are one action.                                           *)
(***************************************************************************)

\* RegistryService.create_object: the slug must be new in its workspace.
CreateObject(o) ==
    /\ SessionFree
    /\ lifecycle[o] = "absent"
    /\ lifecycle' = [lifecycle EXCEPT ![o] = "draft"]
    /\ UNCHANGED <<current, owner, number, risk, body, validity, approvals, cases, outbox, txn>>

\* RegistryService.deprecate_object
DeprecateObject(o) ==
    /\ SessionFree
    /\ lifecycle[o] # "absent"
    /\ lifecycle' = [lifecycle EXCEPT ![o] = "deprecated"]
    /\ UNCHANGED <<current, owner, number, risk, body, validity, approvals, cases, outbox, txn>>

\* ReviewService.mark_verified: any version of the object will do.
MarkVerified(o, v) ==
    /\ SessionFree
    /\ "verified" \in SentMarks
    /\ owner[v] = o
    /\ lifecycle' = [lifecycle EXCEPT ![o] = "verified"]
    /\ UNCHANGED <<current, owner, number, risk, body, validity, approvals, cases, outbox, txn>>

\* ReviewService.open_contradiction
OpenContradiction(c, left, right) ==
    /\ SessionFree
    /\ cases[c] = NoCase
    /\ left # right
    /\ owner[left] # None /\ owner[right] # None
    /\ cases' = [cases EXCEPT ![c] = [sides |-> {left, right}, status |-> "open"]]
    /\ UNCHANGED <<lifecycle, current, owner, number, risk, body, validity, approvals, outbox, txn>>

\* ReviewService.resolve_contradiction: any status, from any status.
ResolveContradiction(c, status) ==
    /\ SessionFree
    /\ cases[c] # NoCase
    /\ cases' = [cases EXCEPT ![c].status = status]
    /\ UNCHANGED <<lifecycle, current, owner, number, risk, body, validity, approvals, outbox, txn>>

(***************************************************************************)
(* RegistryService.create_version: read the highest number, then insert.   *)
(* The insert fails on the unique constraint (object, version_no).         *)
(***************************************************************************)
CreateVersionLoad(s, o) ==
    /\ txn[s] = Idle
    /\ lifecycle[o] # "absent"
    /\ \E n \in 1 .. Cardinality(Versions) + 1 :
         /\ IsNextNumber(o, n)
         /\ txn' = [txn EXCEPT ![s] = [Idle EXCEPT !.op = "create", !.step = "commit",
                                                   !.obj = o, !.number = n]]
    /\ UNCHANGED rows

CreateVersionCommit(s, v, r, b, val) ==
    /\ AtStep(s, "create", "commit")
    /\ owner[v] = None
    /\ NumberFree(txn[s].obj, txn[s].number)
    /\ owner' = [owner EXCEPT ![v] = txn[s].obj]
    /\ number' = [number EXCEPT ![v] = txn[s].number]
    /\ risk' = [risk EXCEPT ![v] = r]
    /\ body' = [body EXCEPT ![v] = b]
    /\ validity' = [validity EXCEPT ![v] = val]
    /\ txn' = [txn EXCEPT ![s] = Idle]
    /\ UNCHANGED <<lifecycle, current, approvals, cases, outbox>>

(***************************************************************************)
(* publish_version and update_draft_version begin alike: one statement     *)
(* loads the object with its current version, the next one the object's    *)
(* other versions.  The current version keeps the values of the first.     *)
(***************************************************************************)
LoadObject(s, op, v) ==
    LET o == owner[v]
        c == current[o]
    IN  /\ txn[s] = Idle
        /\ o # None
        /\ txn' = [txn EXCEPT ![s] =
                     [Idle EXCEPT !.op = op, !.step = "version", !.obj = o, !.ver = v,
                                  !.current = c, !.lifecycle = lifecycle[o],
                                  !.prior = IF c \in {None, v} THEN "none" ELSE validity[c],
                                  !.validity = IF c = v THEN validity[v] ELSE "none",
                                  !.risk = IF c = v THEN risk[v] ELSE "none",
                                  !.body = IF c = v THEN body[v] ELSE None]]
        /\ UNCHANGED rows

\* The version's own row, unless it came with the object.
Loaded(t) ==
    IF t.current = t.ver THEN t
    ELSE [t EXCEPT !.validity = validity[t.ver], !.risk = risk[t.ver], !.body = body[t.ver]]

(***************************************************************************)
(* RegistryService.update_draft_version, after the load of the object: the *)
(* current version is refused, then a PATCH of any columns is written.     *)
(***************************************************************************)

UpdateLoadVersion(s) ==
    /\ AtStep(s, "update", "version")
    /\ MayUpdate(txn[s])
    /\ txn' = [txn EXCEPT ![s] = 
                 [Loaded(@) EXCEPT !.step = "commit", !.obj = None, !.current = None,
                                   !.lifecycle = "none", !.prior = "none"]]
    /\ UNCHANGED rows

UpdateCommit(s, r, b, val) ==
    LET t == txn[s]
    IN  /\ AtStep(s, "update", "commit")
        /\ risk' = [risk EXCEPT ![t.ver] = Written(r, t.risk, @)]
        /\ body' = [body EXCEPT ![t.ver] = Written(b, t.body, @)]
        /\ validity' = [validity EXCEPT ![t.ver] = Written(val, t.validity, @)]
        /\ txn' = [txn EXCEPT ![s] = Idle]
        /\ UNCHANGED <<lifecycle, current, owner, number, approvals, cases, outbox>>

(***************************************************************************)
(* RegistryService.publish_version, after the load of the object: the      *)
(* version, PublishGate.check with a query for reviews (only of a high-    *)
(* risk version) and one for contradictions, and the commit.  A blocked    *)
(* gate raises: the transaction can only roll back.                        *)
(***************************************************************************)
PublishLoadVersion(s) ==
    /\ AtStep(s, "publish", "version")
    /\ LET t == Loaded(txn[s])
       IN  /\ ~LacksBoundary(t.obj, t.body)
           /\ txn' = [txn EXCEPT ![s] = [t EXCEPT !.step = "reviews", !.body = None]]
    /\ UNCHANGED rows

CheckReviews(s) ==
    /\ AtStep(s, "publish", "reviews")
    /\ ReviewsAllow(txn[s])
    /\ txn' = [txn EXCEPT ![s].step = "contradictions"]
    /\ UNCHANGED rows

CheckContradictions(s) ==
    /\ AtStep(s, "publish", "contradictions")
    /\ ~Contested(txn[s].ver)
    /\ txn' = [txn EXCEPT ![s].step = "commit"]
    /\ UNCHANGED rows

\* Mutant: the prior version keeps its validity status.
SupersedeNothing(t) ==
    [validity EXCEPT ![t.ver] = Written("current", t.validity, @)]

\* The validity column after a publication: the version is CURRENT, the one
\* that was current when the object was loaded is SUPERSEDED.
Superseding(t) ==
    [v \in Versions |->
        IF v = t.ver THEN Written("current", t.validity, validity[v])
        ELSE IF v = t.current THEN Written("superseded", t.prior, validity[v])
        ELSE validity[v]]

PublishCommit(s) ==
    LET t == txn[s]
    IN  /\ AtStep(s, "publish", "commit")
        /\ Len(outbox) < MaxPublishes
        /\ validity' = Superseding(t)
        /\ current' = [current EXCEPT ![t.obj] = Written(t.ver, t.current, @)]
        /\ lifecycle' = [lifecycle EXCEPT ![t.obj] = Written("published", t.lifecycle, @)]
        /\ outbox' = Announce(t.ver)
        /\ txn' = [txn EXCEPT ![s] = Idle]
        /\ UNCHANGED <<owner, number, risk, body, approvals, cases>>

(***************************************************************************)
(* ReviewService.submit_review: the version is loaded with its object.     *)
(***************************************************************************)
ReviewLoad(s, v, outcome) ==
    LET o == owner[v]
    IN  /\ txn[s] = Idle
        /\ o # None
        /\ txn' = [txn EXCEPT ![s] =
             [Idle EXCEPT
                !.op = "review", !.step = "commit", !.obj = o, !.ver = v, !.arg = outcome,
                !.lifecycle = IF outcome \in DOMAIN LifecycleOf THEN lifecycle[o] ELSE "none",
                !.validity = IF outcome \in DOMAIN ValidityOf THEN validity[v] ELSE "none",
                !.body = IF outcome = "approved" THEN body[v] ELSE None]]
        /\ UNCHANGED rows

ReviewCommit(s) ==
    LET t == txn[s]
    IN  /\ AtStep(s, "review", "commit")
        /\ approvals' = IF t.arg = "approved"
                          THEN approvals \cup {[version |-> t.ver, body |-> t.body]}
                          ELSE approvals
        /\ lifecycle' = IF t.arg \in DOMAIN LifecycleOf
                          THEN [lifecycle EXCEPT ![t.obj] =
                                  Written(LifecycleOf[t.arg], t.lifecycle, @)]
                          ELSE lifecycle
        /\ validity' = IF t.arg \in DOMAIN ValidityOf
                         THEN [validity EXCEPT ![t.ver] =
                                 Written(ValidityOf[t.arg], t.validity, @)]
                         ELSE validity
        /\ txn' = [txn EXCEPT ![s] = Idle]
        /\ UNCHANGED <<current, owner, number, risk, body, cases, outbox>>

(***************************************************************************)
(* RegistryService.mark_version_validity: the version is loaded with its   *)
(* object; deprecating the current version deprecates the object.          *)
(***************************************************************************)
MarkLoad(s, v, status) ==
    LET o == owner[v]
        withdrawn == status \in {"deprecated", "retracted"} /\ current[o] = v
    IN  /\ txn[s] = Idle
        /\ o # None
        /\ txn' = [txn EXCEPT ![s] =
             [Idle EXCEPT
                !.op = "mark", !.step = "commit", !.obj = o, !.ver = v, !.arg = status,
                !.lifecycle = IF withdrawn THEN lifecycle[o] ELSE "none",
                !.validity = validity[v]]]
        /\ UNCHANGED rows

MarkCommit(s) ==
    LET t == txn[s]
    IN  /\ AtStep(s, "mark", "commit")
        /\ validity' = [validity EXCEPT ![t.ver] = Written(t.arg, t.validity, @)]
        /\ lifecycle' = LifecycleAfterMark(t)
        /\ txn' = [txn EXCEPT ![s] = Idle]
        /\ UNCHANGED <<current, owner, number, risk, body, approvals, cases, outbox>>

\* The session's transaction ends with no effect.
Rollback(s) ==
    /\ txn[s] # Idle
    /\ txn' = [txn EXCEPT ![s] = Idle]
    /\ UNCHANGED rows

-----------------------------------------------------------------------------
Next ==
    \/ \E o \in Objects : CreateObject(o) \/ DeprecateObject(o)
    \/ \E o \in Objects, v \in Versions : MarkVerified(o, v)
    \/ \E c \in Cases, left, right \in Versions : OpenContradiction(c, left, right)
    \/ \E c \in Cases, status \in CaseStatus : ResolveContradiction(c, status)
    \/ \E s \in Sessions :
         \/ \E o \in Objects : CreateVersionLoad(s, o)
         \/ \E v \in Versions, r \in Risk, b \in Bodies, val \in {"current"} \cup EditValidity :
              CreateVersionCommit(s, v, r, b, val)
         \/ \E v \in Versions, op \in {"publish", "update"} : LoadObject(s, op, v)
         \/ UpdateLoadVersion(s)
         \/ \E r \in Risk, b \in Bodies, val \in EditValidity \cup {txn[s].validity} :
              UpdateCommit(s, r, b, val)
         \/ PublishLoadVersion(s)
         \/ CheckReviews(s)
         \/ CheckContradictions(s)
         \/ PublishCommit(s)
         \/ \E v \in Versions, outcome \in SentOutcomes : ReviewLoad(s, v, outcome)
         \/ ReviewCommit(s)
         \/ \E v \in Versions, status \in SentMarks \cap MarkedValidity : MarkLoad(s, v, status)
         \/ MarkCommit(s)
         \/ Rollback(s)

Spec == Init /\ [][Next]_vars

-----------------------------------------------------------------------------
(***************************************************************************)
(* What holds whatever the interleaving of the sessions.                   *)
(***************************************************************************)

\* The versions of an object are numbered 1, 2, ..., n with no gap and no
\* repetition, although two create_version requests may compute the same
\* next number: the unique constraint makes one of them fail.
VersionNumbersGapless ==
    \A o \in Objects :
        {number[v] : v \in VersionsOf(o)} = 1 .. Cardinality(VersionsOf(o))

\* A published object has a current version, that version is one of its own,
\* and the event that makes the worker index it was queued: nothing becomes
\* public that search was never told of.
PublishedWasAnnounced ==
    \A o \in Objects :
        /\ lifecycle[o] = "published" => current[o] # None
        /\ current[o] # None => owner[current[o]] = o /\ current[o] \in Announced

\* Of the gate's checks the one for reviews cannot be undone while the
\* publication is under way: a version loaded as high-risk is still approved
\* when publish_version commits.
ApprovalOutlivesGate ==
    \A s \in Sessions :
        AtStep(s, "publish", "commit") => (txn[s].risk = "high" => Approved(txn[s].ver))

(***************************************************************************)
(* What holds when requests run one at a time.                             *)
(***************************************************************************)

\* Every publication passes the whole gate on the rows as they are at its
\* commit: boundary, approval of high risk, no open or triaged contradiction.
GateAtPublication ==
    [][outbox' # outbox =>
         LET v == outbox'[Len(outbox')]
         IN  /\ ~LacksBoundary(owner[v], body[v])
             /\ risk[v] = "high" => Approved(v)
             /\ ~Contested(v)]_vars

\* The content and the risk band of the current version never change: an edit
\* of what the public reads needs a new version.
CurrentIsImmutable ==
    [][\A v \in {current[o] : o \in Objects} \ {None} :
         current'[owner[v]] = v => risk'[v] = risk[v] /\ body'[v] = body[v]]_vars

\* What the public API shows is neither superseded nor withdrawn.
PublishedIsLive ==
    \A o \in Objects :
        lifecycle[o] = "published" =>
            validity[current[o]] \notin {"superseded", "deprecated", "retracted"}

\* A version that was published and has been replaced no longer claims to be
\* current, however publications and reviews of the versions alternate.
PriorSuperseded ==
    \A v \in Announced : current[owner[v]] # v => validity[v] # "current"

(***************************************************************************)
(* What the documents promise and the code does not keep.                  *)
(***************************************************************************)

\* A high-risk version of an object that was already published is only
\* published with the content its approval was given for: an edit sends it
\* back to review.
ReReviewOnEdit ==
    [][outbox' # outbox =>
         LET v == outbox'[Len(outbox')]
         IN  risk[v] = "high" /\ (\E w \in Announced \ {v} : owner[w] = owner[v])
               => [version |-> v, body |-> body[v]] \in approvals]_vars

\* The lifecycle only moves forward: a published object stays public until it
\* is deprecated.
PublishedStaysPublic ==
    [][\A o \in Objects :
         lifecycle[o] = "published" => lifecycle'[o] \in {"published", "deprecated"}]_vars

(***************************************************************************)
(* What readers of the public catalogue see of all this.                   *)
(***************************************************************************)
Public == INSTANCE Catalog WITH
            shown <- current,
            visible <- [o \in Objects |-> lifecycle[o] = "published"],
            announced <- outbox

\* Every behaviour of the registry, seen from outside, is one of the catalogue:
\* nothing but a publication makes an object public or changes what it shows.
ImplementsCatalog == Public!Spec
=============================================================================
