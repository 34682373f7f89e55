---------------------------- MODULE OutboxWorker ----------------------------
(***************************************************************************)
(* The outbox worker (cli/worker.py) with its two handlers: reindexing a   *)
(* published version (search/indexer.py) and embedding the segments of a   *)
(* reindexed one (services/embedding.py).                                  *)
(*                                                                         *)
(* A worker polls for the oldest unprocessed events, then takes them one   *)
(* at a time, each in a session of its own: it claims the row FOR UPDATE   *)
(* SKIP LOCKED, runs the handler, sets processed_at.  Both handlers commit *)
(* the session they are given, which releases the row lock before the      *)
(* event is marked: from then on another worker may claim the same event.  *)
(* A crash rolls the open transaction back; what was committed stays.      *)
(***************************************************************************)
EXTENDS Integers, Sequences, FiniteSets

CONSTANTS
    Versions,       \* versions that can be published
    Workers,        \* worker processes
    BatchSize,      \* events one poll returns
    MaxPublishes,   \* bound: version.published events
    MaxOthers,      \* bound: events of a type without a handler
    MaxEdits,       \* bound: edits of one version's text
    MaxEditors,     \* bound: versions loaded for an edit at once
    MaxFaults,      \* bound: crashes and failed calls of a working provider
    None

ASSUME WorkerAssumption ==
    /\ BatchSize \in Nat \ {0}
    /\ MaxPublishes \in Nat /\ MaxOthers \in Nat /\ MaxEdits \in Nat /\ MaxEditors \in Nat
    /\ MaxFaults \in Nat
    /\ None \notin Versions

VARIABLES
    text,       \* revision of each version's text
    shown,      \* the version last published
    released,   \* the revision of shown when it was last published
    loaded,     \* versions that a session has loaded for an edit
    events,     \* outbox_events in id order: type and version
    done,       \* ids of the events with processed_at set
    index,      \* content_segments of each version: the revision they were
                \* chunked from, the id of the version.reindexed event written
                \* with them (0: no segments), whether they are embedded
    provider,   \* embedding provider: no key, a key that works, one refused
    worker,     \* where each worker is
    faults      \* crashes and failed calls so far

vars == <<text, shown, released, loaded, events, done, index, provider, worker, faults>>

-----------------------------------------------------------------------------
Types == {"version.published", "version.reindexed", "version.updated", "other"}

\* Places where the worker's transaction holds the lock on its event's row.
Locking == {"dispatch", "delete", "insert", "embed", "store", "mark_locked"}

Rest == [at |-> "poll", batch |-> {}, event |-> 0, rev |-> 0, gen |-> 0]

Ids == DOMAIN events

Pending == Ids \ done

TypeOK ==
    /\ text \in [Versions -> 0 .. MaxEdits]
    /\ shown \in Versions \cup {None} /\ released \in 0 .. MaxEdits
    /\ loaded \subseteq Versions
    /\ events \in Seq([type : Types, version : Versions])
    /\ done \subseteq Ids
    /\ index \in [Versions -> [rev : 0 .. MaxEdits, gen : 0 .. Len(events), embedded : BOOLEAN]]
    /\ provider \in {"none", "working", "refused"}
    /\ worker \in [Workers -> [at : Locking \cup {"poll", "next", "mark"}, batch : SUBSET Nat,
                               event : Nat, rev : 0 .. MaxEdits, gen : Nat]]
    /\ faults \in 0 .. MaxFaults

Init ==
    /\ text = [v \in Versions |-> 0]
    /\ shown = None /\ released = 0 /\ loaded = {}
    /\ events = <<>>
    /\ done = {}
    /\ index = [v \in Versions |-> [rev |-> 0, gen |-> 0, embedded |-> FALSE]]
    /\ provider \in {"none", "working", "refused"}
    /\ worker = [w \in Workers |-> Rest]
    /\ faults = 0

-----------------------------------------------------------------------------
(* What the API does meanwhile: see Registry for the handlers.             *)

Events(type) == {e \in Ids : events[e].type = type}

\* Only a version that is not current is edited: what is tested is the object
\* as the session loaded it.
LoadEdit(v) ==
    /\ v # shown /\ v \notin loaded
    /\ text[v] < MaxEdits /\ Cardinality(loaded) < MaxEditors
    /\ loaded' = loaded \cup {v}
    /\ UNCHANGED <<text, shown, released, events, done, index, provider, worker, faults>>

\* The commit does not test it again, so the version may be shown by now.
CommitEdit(v) ==
    /\ v \in loaded
    /\ text' = [text EXCEPT ![v] = @ + 1]
    /\ loaded' = loaded \ {v}
    /\ events' = Append(events, [type |-> "version.updated", version |-> v])
    /\ UNCHANGED <<shown, released, done, index, provider, worker, faults>>

Publish(v) ==
    /\ Cardinality(Events("version.published")) < MaxPublishes
    /\ shown' = v /\ released' = text[v]
    /\ events' = Append(events, [type |-> "version.published", version |-> v])
    /\ UNCHANGED <<text, loaded, done, index, provider, worker, faults>>

\* Any other event: no handler is registered for it.
OtherEvent(v) ==
    /\ Cardinality(Events("other")) < MaxOthers
    /\ events' = Append(events, [type |-> "other", version |-> v])
    /\ UNCHANGED <<text, shown, released, loaded, done, index, provider, worker, faults>>

\* The operator replaces a refused key.
RepairKey ==
    /\ provider = "refused"
    /\ provider' = "working"
    /\ UNCHANGED <<text, shown, released, loaded, events, done, index, worker, faults>>

-----------------------------------------------------------------------------
(* The polling loop.                                                       *)

VersionOf(w) == events[worker[w].event].version

TypeOf(w) == events[worker[w].event].type

Locked(e) == \E w \in Workers : worker[w].event = e /\ worker[w].at \in Locking

Goto(w, at) == worker' = [worker EXCEPT ![w].at = at]

\* The worker drops its session and turns to the next event of the batch.
Leave(w) == [worker EXCEPT ![w] = [Rest EXCEPT !.at = "next", !.batch = worker[w].batch]]

\* The oldest BatchSize unprocessed events
Poll(w) ==
    /\ worker[w].at = "poll"
    /\ Pending # {}
    /\ worker' = [worker EXCEPT
         ![w].at = "next",
         ![w].batch = {e \in Pending : Cardinality({f \in Pending : f < e}) < BatchSize}]
    /\ UNCHANGED <<text, shown, released, loaded, events, done, index, provider, faults>>

\* Mutant: the select without FOR UPDATE SKIP LOCKED.
Unprocessed(e) == e \notin done

\* The claiming select returns the row: unprocessed, and locked by nobody.
Claimable(e) == e \notin done /\ ~Locked(e)

\* Mutant: the event is marked as processed as soon as it is claimed.
DoneOnceClaimed(e) == done \cup {e}

\* A claim marks nothing.
DoneAtClaim(e) == done

\* The event is claimed, or skipped when it is taken.
Claim(w) ==
    /\ worker[w].at = "next"
    /\ \E e \in worker[w].batch :
         /\ \A f \in worker[w].batch : e <= f
         /\ worker' = [worker EXCEPT
              ![w].batch = @ \ {e},
              ![w].event = IF Claimable(e) THEN e ELSE 0,
              ![w].at = IF Claimable(e) THEN "dispatch" ELSE "next"]
         /\ done' = DoneAtClaim(e)
    /\ UNCHANGED <<text, shown, released, loaded, events, index, provider, faults>>

EndBatch(w) ==
    /\ worker[w].at = "next" /\ worker[w].batch = {}
    /\ Goto(w, "poll")
    /\ UNCHANGED <<text, shown, released, loaded, events, done, index, provider, faults>>

\* No handler for the type, or nothing for it to do: straight to the mark,
\* still in the claiming transaction.
DispatchNothing(w) ==
    /\ worker[w].at = "dispatch"
    /\ \/ TypeOf(w) \in {"version.updated", "other"}
       \/ TypeOf(w) = "version.reindexed" /\ provider = "none"
       \/ TypeOf(w) = "version.reindexed" /\ index[VersionOf(w)].embedded
    /\ Goto(w, "mark_locked")
    /\ UNCHANGED <<text, shown, released, loaded, events, done, index, provider, faults>>

(* VersionIndexer.reindex_version: read the version, delete its segments,  *)
(* insert the new ones with their version.reindexed event, commit.         *)

ReadVersion(w) ==
    /\ worker[w].at = "dispatch" /\ TypeOf(w) = "version.published"
    /\ worker' = [worker EXCEPT ![w].at = "delete", ![w].rev = text[VersionOf(w)]]
    /\ UNCHANGED <<text, shown, released, loaded, events, done, index, provider, faults>>

\* The DELETE covers the segments committed by now; others stay hidden from it.
DeleteSegments(w) ==
    /\ worker[w].at = "delete"
    /\ worker' = [worker EXCEPT ![w].at = "insert", ![w].gen = index[VersionOf(w)].gen]
    /\ UNCHANGED <<text, shown, released, loaded, events, done, index, provider, faults>>

\* Mutant: a version that has segments keeps them.
OldSegments(w) ==
    [rev |-> IF worker[w].gen # 0 THEN index[VersionOf(w)].rev ELSE worker[w].rev,
     gen |-> Len(events) + 1, embedded |-> FALSE]

\* The new segments have no embedding yet.
NewSegments(w) == [rev |-> worker[w].rev, gen |-> Len(events) + 1, embedded |-> FALSE]

\* Mutant: the handler commits without queueing its event.
EventForgotten(w) == events

\* The segments are committed with their version.reindexed event.
WithReindexed(w) == Append(events, [type |-> "version.reindexed", version |-> VersionOf(w)])

\* The INSERT succeeds only if nobody put segments there since the DELETE:
\* (version, ordinal) is unique.
InsertSegments(w) ==
    /\ worker[w].at = "insert"
    /\ worker[w].gen = index[VersionOf(w)].gen
    /\ index' = [index EXCEPT ![VersionOf(w)] = NewSegments(w)]
    /\ events' = WithReindexed(w)
    /\ Goto(w, "mark")
    /\ UNCHANGED <<text, shown, released, loaded, done, provider, faults>>

(* EmbeddingService.embed_version: select the segments without embedding,  *)
(* await the provider, store the vectors, commit.                          *)

ReadSegments(w) ==
    /\ worker[w].at = "dispatch" /\ TypeOf(w) = "version.reindexed"
    /\ provider # "none" /\ ~index[VersionOf(w)].embedded
    /\ worker' = [worker EXCEPT ![w].at = "embed", ![w].gen = index[VersionOf(w)].gen]
    /\ UNCHANGED <<text, shown, released, loaded, events, done, index, provider, faults>>

CallProvider(w) ==
    /\ worker[w].at = "embed" /\ provider = "working"
    /\ Goto(w, "store")
    /\ UNCHANGED <<text, shown, released, loaded, events, done, index, provider, faults>>

StoreEmbeddings(w) ==
    /\ worker[w].at = "store"
    /\ worker[w].gen = index[VersionOf(w)].gen
    /\ index' = [index EXCEPT ![VersionOf(w)].embedded = TRUE]
    /\ Goto(w, "mark")
    /\ UNCHANGED <<text, shown, released, loaded, events, done, provider, faults>>

\* processed_at is set and committed.  Without the lock the UPDATE first waits
\* for a worker that has claimed the event since.
Mark(w) ==
    /\ \/ worker[w].at = "mark_locked"
       \/ worker[w].at = "mark" /\ ~Locked(worker[w].event)
    /\ done' = done \cup {worker[w].event}
    /\ worker' = Leave(w)
    /\ UNCHANGED <<text, shown, released, loaded, events, index, provider, faults>>

\* Mutant: a failed event is marked as processed.
DoneAfterFailure(w) == done \cup {worker[w].event}

\* A handler's exception leaves processed_at unset.
DoneUnlessFailed(w) == done

\* Mutant: the exception escapes the loop and ends the process.
LoopEnds(w) == [worker EXCEPT ![w] = [Rest EXCEPT !.at = "stopped"]]

\* The exception is caught, the session rolled back, the next event follows.
AfterFailure(w) == Leave(w)

\* The handler raises: the segments changed under it (IntegrityError on the
\* insert, StaleDataError on the update) or the provider refuses the key.
HandlerRaises(w) ==
    /\ \/ worker[w].at \in {"insert", "store"} /\ worker[w].gen # index[VersionOf(w)].gen
       \/ worker[w].at = "embed" /\ provider = "refused"
    /\ done' = DoneUnlessFailed(w)
    /\ worker' = AfterFailure(w)
    /\ UNCHANGED <<text, shown, released, loaded, events, index, provider, faults>>

\* A call of a working provider fails (timeout, rate limit).
ProviderFails(w) ==
    /\ worker[w].at = "embed" /\ provider = "working" /\ faults < MaxFaults
    /\ done' = DoneUnlessFailed(w)
    /\ worker' = AfterFailure(w)
    /\ faults' = faults + 1
    /\ UNCHANGED <<text, shown, released, loaded, events, index, provider>>

\* The process dies and is started again.
Crash(w) ==
    /\ worker[w] # Rest /\ faults < MaxFaults
    /\ worker' = [worker EXCEPT ![w] = Rest]
    /\ faults' = faults + 1
    /\ UNCHANGED <<text, shown, released, loaded, events, done, index, provider>>

-----------------------------------------------------------------------------
Work(w) ==
    \/ Poll(w) \/ Claim(w) \/ EndBatch(w) \/ DispatchNothing(w)
    \/ ReadVersion(w) \/ DeleteSegments(w) \/ InsertSegments(w)
    \/ ReadSegments(w) \/ CallProvider(w) \/ StoreEmbeddings(w)
    \/ Mark(w) \/ HandlerRaises(w)

Environment ==
    \/ \E v \in Versions : LoadEdit(v) \/ CommitEdit(v) \/ Publish(v) \/ OtherEvent(v)
    \/ RepairKey

Next ==
    \/ Environment
    \/ \E w \in Workers : Work(w) \/ ProviderFails(w) \/ Crash(w)

Spec == Init /\ [][Next]_vars

\* A worker's loop never stops by itself; after a crash its supervisor starts
\* the process again.  Clients and the operator owe nothing.
FairSpec == Spec /\ \A w \in Workers : WF_vars(Work(w))

-----------------------------------------------------------------------------
(* What holds for any number of workers.                                   *)

\* Two workers are never inside a handler for the same event before it commits.
SoleHandler ==
    \A w, x \in Workers :
        w # x /\ worker[w].at \in Locking /\ worker[x].at \in Locking
            => worker[w].event # worker[x].event

\* At least once: an event counts as processed only if the version it
\* announces was reindexed after the event was queued, whatever crashes,
\* conflicts and repeated deliveries there were.
ProcessedIsIndexed ==
    \A e \in done :
        events[e].type = "version.published" => index[events[e].version].gen > e

\* Segments still without embedding have their version.reindexed event among
\* the unprocessed ones: no failure or overtaking loses an embedding.
EmbeddingPending ==
    \A v \in Versions :
        index[v].gen # 0 /\ ~index[v].embedded /\ provider # "none" => index[v].gen \in Pending

(* What holds for one worker.                                              *)

\* Once the outbox is drained, search knows the text that was published, or a
\* later one: an edit that overtakes the publication is not announced as one.
FreshWhenSettled ==
    Pending = {} /\ shown # None => index[shown].rev >= released

PossibleIds ==
    1 .. 2 * MaxPublishes + MaxOthers + MaxFaults + MaxEdits * Cardinality(Versions)

\* Every publication is processed, even while the provider refuses the key, as
\* long as the events that cannot succeed do not fill a batch.
PublicationsProcessed ==
    \A e \in PossibleIds :
        (e \in Ids /\ events[e].type = "version.published") ~> (e \in done)

\* Once the key is good for ever, the events it held up are processed as well.
RetriedOnceFixed ==
    <>[](provider = "working") =>
        \A e \in PossibleIds : (e \in Ids) ~> (e \in done)
=============================================================================
