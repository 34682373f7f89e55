---------------------------- MODULE ServiceProofs ----------------------------
(***************************************************************************)
(* Proofs about the services beside the knowledge store: FileStore, for any*)
(* number of files and concurrent requests; Access, for any number of      *)
(* clients, keys and concurrent requests, any limits; and ResponseCache,   *)
(* for any keys, any lifetime of an entry and any limit.  With the graph,  *)
(* the ask and the ingest, whose proofs it extends, the types of them all. *)
(*                                                                         *)
(* Of the files StoresAgree alone is not inductive: that an upload cannot  *)
(* bring back bytes a delete has removed needs a key to be used by one     *)
(* upload only, and no delete to find the key before that upload's row is  *)
(* there.                                                                  *)
(***************************************************************************)
EXTENDS MCServices, KnowledgeProofs, AskProofs, IngestProofs

\* An upload owns its key until its row is written; the bytes are there before it.
Uploading(q) ==
    fileReq[q].op = "upload" =>
        /\ fileReq[q].file \in uploaded
        /\ fileReq[q].file \notin fileRows \cup doomed
        /\ fileReq[q].step = "row" => fileReq[q].file \in disk

\* A delete works on a key a delete has found, and the bytes go before the row.
Deleting(q) ==
    fileReq[q].op = "delete" =>
        /\ fileReq[q].file \in doomed
        /\ fileReq[q].step = "row" => fileReq[q].file \notin disk

\* No two uploads share a key.
KeysFresh ==
    \A q, r \in FileRequests :
        /\ q # r
        /\ fileReq[q].op = "upload" /\ fileReq[r].op = "upload"
        => fileReq[q].file # fileReq[r].file

FilesInv ==
    /\ FilesTypeOK
    /\ fileRows \subseteq uploaded /\ doomed \subseteq uploaded /\ removed \subseteq doomed
    /\ \A q \in FileRequests : Uploading(q) /\ Deleting(q)
    /\ KeysFresh
    /\ StoresAgree

-----------------------------------------------------------------------------
\* What a request may hold, and that the two stores differ by steps of requests.
LEMMA RequestForms ==
    ASSUME FilesInv, NEW q \in FileRequests
    PROVE  \/ fileReq[q] = Free
           \/ /\ fileReq[q].op \in {"upload", "delete"}
              /\ fileReq[q].file \in Files
              /\ fileReq[q].step \in {"bytes", "row"}
  BY DEF FilesInv, FilesTypeOK, FileRequest

\* Going on: from its bytes to its row, or to the end.
LEMMA Advanced ==
    ASSUME FilesInv, NEW q \in FileRequests, fileReq[q].op \in {"upload", "delete"}, Advance(q)
    PROVE  /\ fileReq' \in [FileRequests -> FileRequest]
           /\ \A r \in FileRequests : r # q => fileReq'[r] = fileReq[r]
           /\ \/ fileReq[q].step = "bytes" /\ fileReq'[q].op = fileReq[q].op
                 /\ fileReq'[q].file = fileReq[q].file /\ fileReq'[q].step = "row"
              \/ fileReq[q].step = "row" /\ fileReq'[q] = Free
  <1>1. fileReq \in [FileRequests -> FileRequest]
    BY DEF FilesInv, FilesTypeOK
  <1>2. fileReq[q] # Free
    BY DEF Free
  <1>3. CASE fileReq[q].step = "bytes"
    <2>1. fileReq' = [fileReq EXCEPT ![q] =
                      [op |-> fileReq[q].op, file |-> fileReq[q].file, step |-> "row"]]
      BY <1>1, <1>3 DEF Advance, FirstStep
    <2> QED  BY <1>1, <1>2, <1>3, <2>1, RequestForms DEF FileRequest
  <1>4. CASE fileReq[q].step = "row"
    <2>1. fileReq' = [fileReq EXCEPT ![q] = Free]
      BY <1>1, <1>4 DEF Advance, FirstStep
    <2> QED  BY <1>1, <1>4, <2>1 DEF FileRequest
  <1> QED  BY <1>2, <1>3, <1>4, RequestForms

\* Nothing is stored at the start.
LEMMA FilesStart == FilesInit => FilesInv
  <1> SUFFICES ASSUME FilesInit PROVE FilesInv
    OBVIOUS
  <1>1. \A q \in FileRequests : fileReq[q] = Free
    BY DEF FilesInit
  <1>2. FilesTypeOK
    BY DEF FilesInit, FilesTypeOK, FileRequest
  <1> QED  BY <1>1, <1>2 DEF FilesInit, FilesInv, Uploading, Deleting, KeysFresh, StoresAgree, Free

\* Beginning with a fresh key, or with the key of a row.
LEMMA Begun ==
    ASSUME FilesInv, NEW q \in FileRequests, NEW f \in Files, UploadBegin(q, f) \/ DeleteLoad(q, f)
    PROVE  FilesInv'
  <1>1. fileReq \in [FileRequests -> FileRequest]
    BY DEF FilesInv, FilesTypeOK
  <1>2. CASE UploadBegin(q, f)
    <2> DEFINE new == [op |-> "upload", file |-> f, step |-> "bytes"]
    <2>1. fileReq' = [fileReq EXCEPT ![q] = new] /\ new \in FileRequest
      BY <1>2 DEF UploadBegin, Begin, FirstStep, FileRequest
    <2>2. /\ fileReq'[q] = new /\ fileReq' \in [FileRequests -> FileRequest]
          /\ \A r \in FileRequests : r # q => fileReq'[r] = fileReq[r]
      BY <1>1, <2>1
    <2>3. f \notin uploaded \cup fileRows \cup doomed
      BY <1>2 DEF UploadBegin, FilesInv
    <2>4. \A r \in FileRequests : Uploading(r)' /\ Deleting(r)'
      BY <1>2, <2>2, <2>3 DEF UploadBegin, FilesInv, Uploading, Deleting
    <2>5. KeysFresh'
      BY <2>2, <2>3 DEF FilesInv, KeysFresh, Uploading
    <2> QED  BY <1>2, <2>2, <2>4, <2>5 DEF UploadBegin, FilesInv, FilesTypeOK, StoresAgree
  <1>3. CASE DeleteLoad(q, f)
    <2> DEFINE new == [op |-> "delete", file |-> f, step |-> "bytes"]
    <2>1. fileReq' = [fileReq EXCEPT ![q] = new] /\ new \in FileRequest
      BY <1>3 DEF DeleteLoad, Begin, FirstStep, FileRequest
    <2>2. /\ fileReq'[q] = new /\ fileReq' \in [FileRequests -> FileRequest]
          /\ \A r \in FileRequests : r # q => fileReq'[r] = fileReq[r]
      BY <1>1, <2>1
    <2>3. \A r \in FileRequests : Uploading(r)' /\ Deleting(r)'
      BY <1>3, <2>2 DEF DeleteLoad, FilesInv, Uploading, Deleting
    <2>4. KeysFresh'
      BY <2>2 DEF FilesInv, KeysFresh
    <2> QED  BY <1>3, <2>2, <2>3, <2>4 DEF DeleteLoad, FilesInv, FilesTypeOK, StoresAgree
  <1> QED  BY <1>2, <1>3

\* The steps of an upload: its key is nobody else's and no delete has found it.
LEMMA Uploaded ==
    ASSUME FilesInv, NEW q \in FileRequests, UploadPut(q) \/ UploadCommit(q)
    PROVE  FilesInv'
  <1> DEFINE f == fileReq[q].file
  <1>1. fileReq[q].op = "upload" /\ f \in uploaded /\ f \notin fileRows \cup doomed
    BY DEF UploadPut, UploadCommit, FilesInv, Uploading
  <1>2. f \in Files
    BY <1>1 DEF FilesInv, FilesTypeOK, FileRequest, Free
  <1>3. /\ fileReq' \in [FileRequests -> FileRequest]
        /\ \A r \in FileRequests : r # q => fileReq'[r] = fileReq[r]
        /\ \/ fileReq[q].step = "bytes" /\ fileReq'[q].op = "upload"
              /\ fileReq'[q].file = f /\ fileReq'[q].step = "row"
           \/ fileReq[q].step = "row" /\ fileReq'[q] = Free
    BY <1>1, Advanced DEF UploadPut, UploadCommit
  <1>4. KeysFresh'
    BY <1>1, <1>3 DEF FilesInv, KeysFresh, Free
  <1>5. \A r \in FileRequests : r # q /\ fileReq[r].op = "upload" => fileReq[r].file # f
    BY <1>1 DEF FilesInv, KeysFresh
  <1>6. \A r \in FileRequests : fileReq[r].op = "delete" => fileReq[r].file # f
    BY <1>1 DEF FilesInv, Deleting
  <1>7. CASE UploadPut(q)
    <2>1. \A r \in FileRequests : Uploading(r)' /\ Deleting(r)'
      BY <1>1, <1>3, <1>6, <1>7 DEF UploadPut, FilesInv, Uploading, Deleting, Free
    <2> QED  BY <1>1, <1>2, <1>3, <1>4, <1>7, <2>1 DEF UploadPut, FilesInv, FilesTypeOK, StoresAgree
  <1>8. CASE UploadCommit(q)
    <2>1. f \in disk /\ fileReq'[q] = Free
      BY <1>1, <1>3, <1>8 DEF UploadCommit, FilesInv, Uploading
    <2>2. \A r \in FileRequests : Uploading(r)' /\ Deleting(r)'
      BY <1>3, <1>5, <1>8, <2>1 DEF UploadCommit, FilesInv, Uploading, Deleting, Free
    <2> QED  BY <1>1, <1>2, <1>3, <1>4, <1>8, <2>1, <2>2 DEF UploadCommit, FilesInv, FilesTypeOK, StoresAgree
  <1> QED  BY <1>7, <1>8

\* The steps of a delete: no upload works on its key any more.
LEMMA Deleted ==
    ASSUME FilesInv, NEW q \in FileRequests, DeleteBytes(q) \/ DeleteCommit(q)
    PROVE  FilesInv'
  <1> DEFINE f == fileReq[q].file
  <1>1. fileReq[q].op = "delete" /\ f \in doomed
    BY DEF DeleteBytes, DeleteCommit, FilesInv, Deleting
  <1>2. f \in Files
    BY <1>1 DEF FilesInv, FilesTypeOK, FileRequest, Free
  <1>3. /\ fileReq' \in [FileRequests -> FileRequest]
        /\ \A r \in FileRequests : r # q => fileReq'[r] = fileReq[r]
        /\ \/ fileReq[q].step = "bytes" /\ fileReq'[q].op = "delete"
              /\ fileReq'[q].file = f /\ fileReq'[q].step = "row"
           \/ fileReq[q].step = "row" /\ fileReq'[q] = Free
    BY <1>1, Advanced DEF DeleteBytes, DeleteCommit
  <1>4. KeysFresh'
    BY <1>1, <1>3 DEF FilesInv, KeysFresh, Free
  <1>5. \A r \in FileRequests : fileReq[r].op = "upload" => fileReq[r].file # f
    BY <1>1 DEF FilesInv, Uploading
  <1>6. CASE DeleteBytes(q)
    <2>1. \A r \in FileRequests : Uploading(r)' /\ Deleting(r)'
      BY <1>1, <1>3, <1>5, <1>6 DEF DeleteBytes, FilesInv, Uploading, Deleting, Free
    <2> QED  BY <1>1, <1>2, <1>3, <1>4, <1>6, <2>1 DEF DeleteBytes, FilesInv, FilesTypeOK, StoresAgree
  <1>7. CASE DeleteCommit(q)
    <2>1. f \notin disk /\ fileReq'[q] = Free
      BY <1>1, <1>3, <1>7 DEF DeleteCommit, FilesInv, Deleting
    <2>2. \A r \in FileRequests : Uploading(r)' /\ Deleting(r)'
      BY <1>3, <1>7, <2>1 DEF DeleteCommit, FilesInv, Uploading, Deleting, Free
    <2> QED  BY <1>1, <1>2, <1>3, <1>4, <1>7, <2>1, <2>2 DEF DeleteCommit, FilesInv, FilesTypeOK, StoresAgree
  <1> QED  BY <1>6, <1>7

\* A request that ends early leaves what it did.
LEMMA Lost ==
    ASSUME FilesInv, NEW q \in FileRequests, RequestLost(q)
    PROVE  FilesInv'
  <1>1. fileReq' = [fileReq EXCEPT ![q] = Free] /\ fileReq \in [FileRequests -> FileRequest]
    BY DEF RequestLost, FilesInv, FilesTypeOK
  <1>2. /\ fileReq' \in [FileRequests -> FileRequest] /\ fileReq'[q] = Free
        /\ \A r \in FileRequests : r # q => fileReq'[r] = fileReq[r]
    BY <1>1 DEF FileRequest
  <1>3. \A r \in FileRequests : Uploading(r)' /\ Deleting(r)'
    BY <1>2 DEF RequestLost, FilesInv, Uploading, Deleting, Free
  <1>4. KeysFresh'
    BY <1>2 DEF FilesInv, KeysFresh, Free
  <1> QED  BY <1>2, <1>3, <1>4 DEF RequestLost, FilesInv, FilesTypeOK, StoresAgree

\* Every step keeps the invariant.
LEMMA FilesStep == FilesInv /\ [FilesNext]_fileVars => FilesInv'
  <1> SUFFICES ASSUME FilesInv, [FilesNext]_fileVars PROVE FilesInv'
    OBVIOUS
  <1>1. CASE UNCHANGED fileVars
    BY <1>1 DEF fileVars, FilesInv, FilesTypeOK, Uploading, Deleting, KeysFresh, StoresAgree
  <1>2. CASE FilesNext
    BY <1>2, Begun, Uploaded, Deleted, Lost DEF FilesNext
  <1> QED  BY <1>1, <1>2

\* A row's bytes are there until somebody asks for its deletion, and a deleted
\* row leaves none behind, however many requests race and are lost half way.
THEOREM StoresAlwaysAgree == FilesSpec => []StoresAgree
  <1>1. FilesInv => StoresAgree
    BY DEF FilesInv
  <1> QED  BY <1>1, FilesStart, FilesStep, PTL DEF FilesSpec

-----------------------------------------------------------------------------

Pairs == Clients \X Minutes

CallRow == [at : {"none", "limit", "auth"}, client : Clients \cup {"none"}, key : Keys \cup {NoKey},
            public : BOOLEAN, window : Minutes, dead : BOOLEAN]

\* What AccessTypeOK leaves open about open requests and histories.
Typed ==
    /\ AccessTypeOK
    /\ call \in [Calls -> CallRow]
    /\ admitted \in [Pairs -> Nat]

-----------------------------------------------------------------------------
(***************************************************************************)
(* A dead key stays dead: a revocation is never taken back, the clock never*)
(* runs backwards, and a rotation writes its new key to a fresh row.       *)
(***************************************************************************)

Dead(k) == keyRow[k].state = "revoked" \/ IsKeyExpired(k)

KeyInv ==
    /\ \A k \in Keys : keyRow[k].state = "absent" => keyRow[k].expires = 0
    /\ \A c \in Calls : call[c].dead => call[c].key \in Keys /\ Dead(call[c].key)
    /\ DeadKeyNeverServed

-----------------------------------------------------------------------------
(***************************************************************************)
(* The limit.  What was admitted in a window the worker may not delete yet *)
(* is in its count; a request still to be counted counts in such a window. *)
(***************************************************************************)

LimitInv ==
    /\ \A p \in Pairs : p[2] >= Cutoff => admitted[p] <= windows[p]
    /\ \A c \in Calls : call[c].at = "limit" => call[c].client \in Clients /\ call[c].window >= Cutoff
    /\ AdmittedWithinLimit

AccessInv == Typed /\ KeyInv /\ LimitInv

\* The numbers of the model.
LEMMA Numbers ==
    ASSUME Typed
    PROVE  /\ Limit \in Nat /\ Retention \in Nat /\ Lifetime \in Nat /\ Lifetime > 0 /\ Retention > 0
           /\ MaxMinute \in Nat /\ MaxCalls \in Nat /\ NoKey \notin Keys
           /\ minute \in 0..MaxMinute
  BY AccessAssumption DEF Typed, AccessTypeOK, Minutes

\* Nothing has happened yet.
LEMMA AccessStart == AccessInit => AccessInv
  <1> SUFFICES ASSUME AccessInit PROVE AccessInv
    OBVIOUS
  <1>1. MaxMinute \in Nat /\ MaxCalls \in Nat /\ Lifetime \in Nat /\ Limit \in Nat /\ Retention \in Nat
    BY AccessAssumption
  <1>2. AccessTypeOK
    <2>1. [state |-> "absent", expires |-> 0] \in KeyRow
      BY <1>1 DEF KeyRow
    <2>2. keyRow \in [Keys -> KeyRow]
      BY <2>1 DEF AccessInit
    <2>3. minute \in Minutes /\ windows \in [Clients \X Minutes -> 0..MaxCalls]
      BY <1>1 DEF AccessInit, Minutes
    <2> QED  BY <2>2, <2>3 DEF AccessInit, AccessTypeOK, Waiting
  <1>3. Waiting \in CallRow
    BY <1>1 DEF Waiting, CallRow, Minutes
  <1>4. Typed
    BY <1>2, <1>3 DEF AccessInit, Typed, Pairs
  <1>5. KeyInv
    BY DEF AccessInit, KeyInv, Waiting, DeadKeyNeverServed
  <1>6. LimitInv
    BY <1>1 DEF AccessInit, LimitInv, Pairs, Waiting, AdmittedWithinLimit
  <1> QED  BY <1>4, <1>5, <1>6 DEF AccessInv

-----------------------------------------------------------------------------
\* The rows of keys change: a dead key stays dead, no request moves.
LEMMA KeysChange ==
    ASSUME AccessInv, UNCHANGED <<minute, windows, call, admitted, servedDead>>,
           keyRow' \in [Keys -> KeyRow],
           \A k \in Keys : keyRow'[k].state = "absent" => keyRow'[k].expires = 0,
           \A k \in Keys : Dead(k) => Dead(k)'
    PROVE  AccessInv'
  <1>1. Typed'
    BY DEF AccessInv, Typed, AccessTypeOK
  <1>2. LimitInv'
    BY DEF AccessInv, LimitInv, Cutoff, AdmittedWithinLimit
  <1>3. KeyInv'
    BY DEF AccessInv, KeyInv, DeadKeyNeverServed
  <1> QED  BY <1>1, <1>2, <1>3 DEF AccessInv

\* The commands of the key tool.
LEMMA KeyTool ==
    ASSUME AccessInv, NEW k \in Keys, NEW ttl \in BOOLEAN,
           CreateKey(k, ttl) \/ RevokeKey(k) \/ \E old \in Keys : RotateKey(old, k, ttl)
    PROVE  AccessInv'
  <1>1. /\ minute \in 0..MaxMinute /\ MaxMinute \in Nat /\ Lifetime \in Nat /\ Lifetime > 0
        /\ keyRow \in [Keys -> KeyRow]
    BY Numbers DEF AccessInv, Typed, AccessTypeOK
  <1>2. CreatedAs(ttl) \in KeyRow /\ CreatedAs(ttl).state = "live"
    <2>1. minute + Lifetime \in 0..MaxMinute + Lifetime /\ 0 \in 0..MaxMinute + Lifetime
      BY <1>1
    <2> QED  BY <2>1 DEF CreatedAs, KeyRow
  <1>3. keyRow[k].state = "absent" => ~Dead(k)
    BY DEF AccessInv, KeyInv, Dead, IsKeyExpired
  <1>4. CASE CreateKey(k, ttl)
    <2>1. keyRow[k].state = "absent" /\ keyRow' = [keyRow EXCEPT ![k] = CreatedAs(ttl)]
      BY <1>4 DEF CreateKey, NewRow
    <2>2. /\ keyRow' \in [Keys -> KeyRow] /\ keyRow'[k] = CreatedAs(ttl)
          /\ \A j \in Keys : j # k => keyRow'[j] = keyRow[j]
      BY <1>1, <1>2, <2>1
    <2>3. UNCHANGED <<minute, windows, call, admitted, servedDead>>
      BY <1>4 DEF CreateKey
    <2>4. \A j \in Keys : Dead(j) => Dead(j)'
      BY <1>3, <2>1, <2>2, <2>3 DEF Dead, IsKeyExpired
    <2>5. \A j \in Keys : keyRow'[j].state = "absent" => keyRow'[j].expires = 0
      BY <1>2, <2>2 DEF AccessInv, KeyInv
    <2> QED  BY <2>2, <2>3, <2>4, <2>5, KeysChange
  <1>5. CASE RevokeKey(k)
    <2>1. keyRow' = [keyRow EXCEPT ![k].state = "revoked"]
      BY <1>5 DEF RevokeKey
    <2>2. /\ keyRow' \in [Keys -> KeyRow]
          /\ keyRow'[k].state = "revoked" /\ keyRow'[k].expires = keyRow[k].expires
          /\ \A j \in Keys : j # k => keyRow'[j] = keyRow[j]
      BY <1>1, <2>1 DEF KeyRow
    <2>3. UNCHANGED <<minute, windows, call, admitted, servedDead>>
      BY <1>5 DEF RevokeKey
    <2>4. \A j \in Keys : Dead(j) => Dead(j)'
      BY <2>2, <2>3 DEF Dead, IsKeyExpired
    <2>5. \A j \in Keys : keyRow'[j].state = "absent" => keyRow'[j].expires = 0
      BY <2>2 DEF AccessInv, KeyInv
    <2> QED  BY <2>2, <2>3, <2>4, <2>5, KeysChange
  <1>6. ASSUME NEW old \in Keys, RotateKey(old, k, ttl) PROVE AccessInv'
    <2>1. /\ keyRow[old].state # "absent" /\ keyRow[k].state = "absent"
          /\ keyRow' = [keyRow EXCEPT ![old].state = "revoked", ![k] = CreatedAs(ttl)]
      BY <1>6 DEF RotateKey, NewRow
    <2>2. /\ keyRow' \in [Keys -> KeyRow] /\ keyRow'[k] = CreatedAs(ttl)
          /\ keyRow'[old].state = "revoked" /\ keyRow'[old].expires = keyRow[old].expires
          /\ \A j \in Keys : j # k /\ j # old => keyRow'[j] = keyRow[j]
      BY <1>1, <1>2, <2>1 DEF KeyRow
    <2>3. UNCHANGED <<minute, windows, call, admitted, servedDead>>
      BY <1>6 DEF RotateKey
    <2>4. \A j \in Keys : Dead(j) => Dead(j)'
      BY <1>3, <2>1, <2>2, <2>3 DEF Dead, IsKeyExpired
    <2>5. \A j \in Keys : keyRow'[j].state = "absent" => keyRow'[j].expires = 0
      BY <1>2, <2>2 DEF AccessInv, KeyInv
    <2> QED  BY <2>2, <2>3, <2>4, <2>5, KeysChange
  <1> QED  BY <1>4, <1>5, <1>6

-----------------------------------------------------------------------------
\* One request moves to a good place and leaves keys and clock alone.
LEMMA CallMoves ==
    ASSUME AccessInv, NEW c \in Calls, NEW q \in CallRow, call' = [call EXCEPT ![c] = q],
           UNCHANGED <<minute, keyRow>>,
           q.dead => q.key \in Keys /\ Dead(q.key),
           q.at = "limit" => q.client \in Clients /\ q.window >= Cutoff
    PROVE  /\ call' \in [Calls -> CallRow]
           /\ \A d \in Calls : call'[d].dead => call'[d].key \in Keys /\ Dead(call'[d].key)
           /\ \A d \in Calls : call'[d].at = "limit" =>
                 call'[d].client \in Clients /\ call'[d].window >= Cutoff'
  <1>1. /\ call' \in [Calls -> CallRow] /\ call'[c] = q
        /\ \A d \in Calls : d # c => call'[d] = call[d]
    BY DEF AccessInv, Typed
  <1>2. Cutoff' = Cutoff
    BY DEF Cutoff
  <1> QED  BY <1>1, <1>2 DEF AccessInv, KeyInv, LimitInv

\* A new request: the clock it reads is inside the retention.
LEMMA Arrived ==
    ASSUME AccessInv, NEW c \in Calls, NEW client \in Clients, NEW k \in Keys \cup {NoKey},
           NEW public \in BOOLEAN, Arrive(c, client, k, public)
    PROVE  AccessInv'
  <1> DEFINE q == [at |-> IF public THEN "limit" ELSE "auth", client |-> client, key |-> k,
                   public |-> public, window |-> IF public THEN minute ELSE 0,
                   dead |-> k # NoKey /\ (keyRow[k].state = "revoked" \/ IsKeyExpired(k))]
  <1>1. /\ minute \in 0..MaxMinute /\ MaxMinute \in Nat /\ Retention \in Nat
        /\ 0 \in Minutes /\ minute \in Minutes
    BY Numbers DEF AccessInv, Minutes
  <1>2. (k # NoKey /\ (keyRow[k].state = "revoked" \/ IsKeyExpired(k))) \in BOOLEAN
    OBVIOUS
  <1>3. q \in CallRow
    BY <1>1, <1>2 DEF CallRow
  <1>4. q.at = "limit" => q.client \in Clients /\ q.window >= Cutoff
    BY <1>1 DEF Cutoff
  <1>5. q.dead => q.key \in Keys /\ Dead(q.key)
    BY DEF Dead
  <1>6. call' = [call EXCEPT ![c] = q] /\ UNCHANGED <<minute, keyRow, windows, admitted, servedDead>>
    BY DEF Arrive
  <1>7. /\ call' \in [Calls -> CallRow]
        /\ \A d \in Calls : call'[d].dead => call'[d].key \in Keys /\ Dead(call'[d].key)
        /\ \A d \in Calls : call'[d].at = "limit" =>
              call'[d].client \in Clients /\ call'[d].window >= Cutoff'
    BY <1>3, <1>4, <1>5, <1>6, CallMoves
  <1>8. Typed'
    BY <1>6, <1>7 DEF AccessInv, Typed, AccessTypeOK, CallRow
  <1>9. KeyInv'
    BY <1>6, <1>7 DEF AccessInv, KeyInv, Dead, IsKeyExpired, DeadKeyNeverServed
  <1>10. LimitInv'
    BY <1>6, <1>7 DEF AccessInv, LimitInv, Cutoff, AdmittedWithinLimit
  <1> QED  BY <1>8, <1>9, <1>10 DEF AccessInv

\* Counting a request: the count includes all that was admitted in its window.
LEMMA Counted ==
    ASSUME AccessInv, NEW c \in Calls, CountRequest(c)
    PROVE  AccessInv'
  <1> DEFINE q == call[c]
             p == <<q.client, q.window>>
             count == windows[p] + 1
             moved == [q EXCEPT !.at = "auth", !.window = 0]
  <1>1. /\ q \in CallRow /\ q.at = "limit" /\ q.client \in Clients /\ q.window >= Cutoff
        /\ q.window \in Minutes
    BY DEF AccessInv, Typed, CallRow, LimitInv, CountRequest
  <1>2. /\ minute \in Int /\ MaxMinute \in Nat /\ Limit \in Nat /\ MaxCalls \in Nat /\ 0 \in Minutes
        /\ Retention \in Nat
    BY Numbers DEF AccessInv, Minutes
  <1>3. p \in Pairs /\ p[2] = q.window
    BY <1>1 DEF Pairs
  <1>4. windows \in [Pairs -> 0..MaxCalls] /\ admitted \in [Pairs -> Nat] /\ call \in [Calls -> CallRow]
    BY DEF AccessInv, Typed, AccessTypeOK, Pairs
  <1>5. windows' = [windows EXCEPT ![p] = count] /\ count <= MaxCalls /\ UNCHANGED <<minute, keyRow, servedDead>>
    BY DEF CountRequest
  <1>6. /\ windows' \in [Pairs -> 0..MaxCalls] /\ windows'[p] = count
        /\ \A o \in Pairs : o # p => windows'[o] = windows[o]
    BY <1>2, <1>3, <1>4, <1>5
  <1>7. admitted[p] <= windows[p] /\ windows[p] \in Nat /\ admitted[p] \in Nat
    BY <1>1, <1>2, <1>3, <1>4 DEF AccessInv, LimitInv
  <1>8. CASE WithinLimit(count)
    <2>1. admitted' = [admitted EXCEPT ![p] = admitted[p] + 1]
      BY <1>8 DEF CountRequest
    <2>2. /\ admitted' \in [Pairs -> Nat] /\ admitted'[p] = admitted[p] + 1
          /\ \A o \in Pairs : o # p => admitted'[o] = admitted[o]
      BY <1>3, <1>4, <2>1
    <2>3. admitted'[p] <= windows'[p] /\ admitted'[p] <= Limit
      BY <1>2, <1>6, <1>7, <1>8, <2>2 DEF WithinLimit
    <2>4. /\ moved \in CallRow /\ moved.at = "auth"
          /\ moved.dead = q.dead /\ moved.key = q.key
      BY <1>1, <1>2 DEF CallRow
    <2>5. call' = [call EXCEPT ![c] = moved]
      BY <1>4, <1>8 DEF CountRequest
    <2>6. /\ call' \in [Calls -> CallRow]
          /\ \A d \in Calls : call'[d].dead => call'[d].key \in Keys /\ Dead(call'[d].key)
          /\ \A d \in Calls : call'[d].at = "limit" =>
                call'[d].client \in Clients /\ call'[d].window >= Cutoff'
      <3>1. moved.dead => moved.key \in Keys /\ Dead(moved.key)
        BY <2>4 DEF AccessInv, KeyInv
      <3> HIDE DEF moved
      <3> QED  BY <1>5, <2>4, <2>5, <3>1, CallMoves
    <2>7. Typed'
      BY <1>5, <1>6, <2>2, <2>6 DEF AccessInv, Typed, AccessTypeOK, Pairs, CallRow
    <2>8. KeyInv'
      BY <1>5, <2>6 DEF AccessInv, KeyInv, Dead, IsKeyExpired, DeadKeyNeverServed
    <2>9. LimitInv'
      BY <1>5, <1>6, <2>2, <2>3, <2>6 DEF AccessInv, LimitInv, Cutoff, AdmittedWithinLimit, Pairs
    <2> QED  BY <2>7, <2>8, <2>9 DEF AccessInv
  <1>9. CASE ~WithinLimit(count)
    <2>1. call' = [call EXCEPT ![c] = Waiting] /\ admitted' = admitted
      BY <1>9 DEF CountRequest
    <2>2. Waiting \in CallRow /\ Waiting.at = "none" /\ ~Waiting.dead
      BY <1>2 DEF Waiting, CallRow
    <2>3. /\ call' \in [Calls -> CallRow]
          /\ \A d \in Calls : call'[d].dead => call'[d].key \in Keys /\ Dead(call'[d].key)
          /\ \A d \in Calls : call'[d].at = "limit" =>
                call'[d].client \in Clients /\ call'[d].window >= Cutoff'
      BY <1>5, <2>1, <2>2, CallMoves
    <2>4. admitted'[p] <= windows'[p]
      BY <1>6, <1>7, <2>1
    <2>5. Typed'
      BY <1>5, <1>6, <2>1, <2>3 DEF AccessInv, Typed, AccessTypeOK, Pairs, CallRow
    <2>6. KeyInv'
      BY <1>5, <2>3 DEF AccessInv, KeyInv, Dead, IsKeyExpired, DeadKeyNeverServed
    <2>7. LimitInv'
      BY <1>5, <1>6, <2>1, <2>3, <2>4 DEF AccessInv, LimitInv, Cutoff, AdmittedWithinLimit
    <2> QED  BY <2>5, <2>6, <2>7 DEF AccessInv
  <1> QED  BY <1>8, <1>9

\* The dependency: a dead key does not resolve.
LEMMA Answered ==
    ASSUME AccessInv, NEW c \in Calls, Authenticate(c) \/ Refuse(c)
    PROVE  AccessInv'
  <1>1. call' = [call EXCEPT ![c] = Waiting] /\ UNCHANGED <<minute, keyRow, windows, admitted>>
    BY DEF Authenticate, Refuse
  <1>2. Waiting \in CallRow /\ Waiting.at = "none" /\ ~Waiting.dead
    BY Numbers DEF AccessInv, Waiting, CallRow, Minutes
  <1>3. /\ call' \in [Calls -> CallRow]
        /\ \A d \in Calls : call'[d].dead => call'[d].key \in Keys /\ Dead(call'[d].key)
        /\ \A d \in Calls : call'[d].at = "limit" =>
              call'[d].client \in Clients /\ call'[d].window >= Cutoff'
    BY <1>1, <1>2, CallMoves
  <1>4. servedDead' = FALSE
    <2>1. servedDead = FALSE
      BY DEF AccessInv, KeyInv, DeadKeyNeverServed, Typed, AccessTypeOK
    <2>2. CASE Refuse(c)
      BY <2>1, <2>2 DEF Refuse
    <2>3. CASE Authenticate(c)
      <3>1. ~call[c].dead
        <4> SUFFICES ASSUME call[c].dead PROVE FALSE
          OBVIOUS
        <4>1. call[c].key \in Keys /\ Dead(call[c].key)
          BY DEF AccessInv, KeyInv
        <4>2. ~ResolveApiKey(call[c].key)
          BY <4>1 DEF ResolveApiKey, Dead
        <4> QED  BY <2>3, <4>1, <4>2, AccessAssumption DEF Authenticate
      <3> QED  BY <2>1, <2>3, <3>1 DEF Authenticate
    <2> QED  BY <2>2, <2>3
  <1>5. Typed'
    BY <1>1, <1>3, <1>4 DEF AccessInv, Typed, AccessTypeOK, CallRow
  <1>6. KeyInv'
    BY <1>1, <1>3, <1>4 DEF AccessInv, KeyInv, Dead, IsKeyExpired, DeadKeyNeverServed
  <1>7. LimitInv'
    BY <1>1, <1>3 DEF AccessInv, LimitInv, Cutoff, AdmittedWithinLimit
  <1> QED  BY <1>5, <1>6, <1>7 DEF AccessInv

\* The worker deletes only windows nobody counts in any more.
LEMMA CleanedUp ==
    ASSUME AccessInv, Cleanup
    PROVE  AccessInv'
  <1>1. /\ UNCHANGED <<minute, keyRow, call, admitted, servedDead>>
        /\ windows' = [p \in Pairs |-> IF p[2] < Cutoff THEN 0 ELSE windows[p]]
    BY DEF Cleanup, Pairs
  <1>2. windows \in [Pairs -> 0..MaxCalls] /\ MaxCalls \in Nat
    BY Numbers DEF AccessInv, Typed, AccessTypeOK, Pairs
  <1>3. windows' \in [Pairs -> 0..MaxCalls]
    BY <1>1, <1>2
  <1>4. \A p \in Pairs : p[2] >= Cutoff => windows'[p] = windows[p]
    <2>1. Cutoff \in Int /\ \A p \in Pairs : p[2] \in Int
      BY Numbers DEF AccessInv, Cutoff, Pairs, Minutes
    <2> QED  BY <1>1, <2>1
  <1>5. Typed'
    BY <1>1, <1>3 DEF AccessInv, Typed, AccessTypeOK, Pairs
  <1>6. KeyInv'
    BY <1>1 DEF AccessInv, KeyInv, Dead, IsKeyExpired, DeadKeyNeverServed
  <1>7. LimitInv'
    BY <1>1, <1>4 DEF AccessInv, LimitInv, Cutoff, AdmittedWithinLimit
  <1> QED  BY <1>5, <1>6, <1>7 DEF AccessInv

\* Time passes: an expired key stays expired, windows grow old one by one.
LEMMA Ticked ==
    ASSUME AccessInv, Tick
    PROVE  AccessInv'
  <1>1. /\ minute \in 0..MaxMinute /\ MaxMinute \in Nat /\ Retention \in Nat /\ Lifetime \in Nat
        /\ minute < MaxMinute /\ minute' = minute + 1
        /\ UNCHANGED <<keyRow, windows, call, admitted, servedDead>>
    BY Numbers DEF AccessInv, Tick
  <1>2. Typed'
    BY <1>1 DEF AccessInv, Typed, AccessTypeOK, Minutes
  <1>3. KeyInv'
    <2>1. \A k \in Keys : keyRow[k].expires \in Nat
      BY <1>1 DEF AccessInv, Typed, AccessTypeOK, KeyRow
    <2>2. \A k \in Keys : Dead(k) => Dead(k)'
      BY <1>1, <2>1 DEF Dead, IsKeyExpired
    <2> QED  BY <1>1, <2>2 DEF AccessInv, KeyInv, DeadKeyNeverServed
  <1>4. LimitInv'
    <2>1. \A p \in Pairs : p[2] \in Int
      BY DEF Pairs, Minutes
    <2>2. \A p \in Pairs : p[2] >= Cutoff' => p[2] >= Cutoff
      BY <1>1, <2>1 DEF Cutoff
    <2>3. \A c \in Calls : call[c].at = "limit" => call[c].window >= Cutoff'
      BY <1>1 DEF Tick, Cutoff
    <2> QED  BY <1>1, <2>2, <2>3 DEF AccessInv, LimitInv, AdmittedWithinLimit
  <1> QED  BY <1>2, <1>3, <1>4 DEF AccessInv

-----------------------------------------------------------------------------
\* Every step keeps the invariant.
LEMMA AccessStep == AccessInv /\ [AccessNext]_accessVars => AccessInv'
  <1> SUFFICES ASSUME AccessInv, [AccessNext]_accessVars PROVE AccessInv'
    OBVIOUS
  <1>1. CASE UNCHANGED accessVars
    BY <1>1 DEF accessVars, AccessInv, Typed, AccessTypeOK, KeyInv, Dead, IsKeyExpired,
                DeadKeyNeverServed, LimitInv, Cutoff, AdmittedWithinLimit
  <1>2. CASE AccessNext
    BY <1>2, KeyTool, Arrived, Counted, Answered, CleanedUp, Ticked DEF AccessNext
  <1> QED  BY <1>1, <1>2

\* The invariant of all behaviours.
LEMMA AccessInvariant == AccessSpec => []AccessInv
  BY AccessStart, AccessStep, PTL DEF AccessSpec

\* A key that was revoked, rotated away or expired when a request came is not
\* served, however keys are rotated and the clock runs between the request's steps.
THEOREM DeadKeysRefused == AccessSpec => []DeadKeyNeverServed
  <1>1. AccessInv => DeadKeyNeverServed
    BY DEF AccessInv, KeyInv
  <1> QED  BY <1>1, AccessInvariant, PTL

\* No more requests of a client pass the middleware in a minute than the limit,
\* whatever requests race and whenever the worker cleans up.
THEOREM LimitHolds == AccessSpec => []AdmittedWithinLimit
  <1>1. AccessInv => AdmittedWithinLimit
    BY DEF AccessInv, LimitInv
  <1> QED  BY <1>1, AccessInvariant, PTL

-----------------------------------------------------------------------------
(* The response cache.                                                     *)

LEMMA CacheStart == CacheInit => CacheTypeOK
  BY CacheAssumption DEF CacheInit, CacheTypeOK, Cached

\* The clock stays within its bound, and no entry is newer than the clock.
LEMMA CacheTypes ==
    ASSUME CacheTypeOK, [CacheNext]_cacheVars
    PROVE  CacheTypeOK'
  <1>1. ASSUME clock' = clock, DOMAIN stamp' \subseteq Cached,
               \A k \in DOMAIN stamp' : stamp'[k] = stamp[k]
        PROVE  CacheTypeOK'
    <2>1. \A k \in DOMAIN stamp' : stamp'[k] \in 0..clock'
      BY <1>1, CacheAssumption DEF CacheTypeOK, Cached
    <2> QED  BY <1>1, <2>1 DEF CacheTypeOK, Cached
  <1>2. ASSUME NEW k, Get(k) PROVE CacheTypeOK'
    BY <1>1, <1>2 DEF Get, Without, Cached, CacheTypeOK
  <1>3. ASSUME NEW P, Invalidate(P) PROVE CacheTypeOK'
    BY <1>1, <1>3 DEF Invalidate, Without, Cached, CacheTypeOK
  <1>4. CASE CacheTick
    BY <1>4, CacheAssumption DEF CacheTick, CacheTypeOK, Cached
  <1>5. ASSUME NEW k \in CacheKeys, Set(k) PROVE CacheTypeOK'
    <2>1. PICK live : live = IF Cardinality(Cached) >= MaxEntries THEN EvictExpired(stamp) ELSE stamp
      OBVIOUS
    <2>2. DOMAIN live \subseteq Cached /\ \A x \in DOMAIN live : live[x] = stamp[x]
      BY <2>1 DEF EvictExpired, Without, Cached
    <2>3. PICK out : LET kept == Without(live, out)
                     IN  stamp' = [x \in DOMAIN kept \cup {k} |-> IF x = k THEN clock ELSE kept[x]]
      BY <1>5, <2>1 DEF Set
    <2>4. /\ DOMAIN stamp' \subseteq Cached \cup {k}
          /\ stamp'[k] = clock
          /\ \A x \in DOMAIN stamp' : x # k => x \in Cached /\ stamp'[x] = stamp[x]
      BY <2>2, <2>3 DEF Without
    <2>5. clock' = clock
      BY <1>5 DEF Set
    <2>6. clock \in 0..clock
      BY CacheAssumption DEF CacheTypeOK
    <2>7. \A x \in DOMAIN stamp' : stamp'[x] \in 0..clock'
      BY <2>4, <2>5, <2>6 DEF CacheTypeOK
    <2> QED  BY <2>4, <2>5, <2>7 DEF CacheTypeOK, Cached
  <1>6. CASE UNCHANGED cacheVars
    BY <1>1, <1>6 DEF cacheVars, Cached, CacheTypeOK
  <1> QED  BY <1>2, <1>3, <1>4, <1>5, <1>6 DEF CacheNext

-----------------------------------------------------------------------------
(***************************************************************************)
(* All the parts.  Each part keeps its own invariant while it runs, and    *)
(* what is at rest stays as it was.  The invariant of the graph holds of   *)
(* the behaviours that begin as that component does; the pipeline's of all *)
(* but those of a job by itself.                                           *)
(***************************************************************************)

ServeInv ==
    /\ KnowledgeTypeOK /\ (part = "knowledge" => KnowledgeInv)
    /\ FilesInv /\ AccessInv /\ CacheTypeOK /\ AskInv

IngestInv ==
    /\ SegmentationInv /\ JobsTypeOK
    /\ SeedTypes /\ PipelineTypeOK /\ (part # "jobs" => LoadInv)

\* The graph at rest.
LEMMA RestingTypes ==
    ASSUME status = [e \in Entities |-> "active"], rows \subseteq Row, KnowledgeAtRest
    PROVE  KnowledgeTypeOK
  <1>1. merge \in MergeRow /\ 0..Len(Statements) + 1 = 0..10
    BY NoMergeTyped, StatementNames DEF KnowledgeAtRest
  <1>2. attached \in [CiteRow -> Nat]
    BY DEF KnowledgeAtRest
  <1>3. late = {} /\ merged = {} /\ pending = <<>> /\ requests = 0
    BY DEF KnowledgeAtRest
  <1> QED  BY <1>1, <1>2, <1>3, KnowledgeAssumption DEF KnowledgeTypeOK, MergeRow

LEMMA PartsStart == Init => ServeInv /\ IngestInv
  <1> SUFFICES ASSUME Init PROVE ServeInv /\ IngestInv
    OBVIOUS
  <1>1. KnowledgeTypeOK /\ (part = "knowledge" => KnowledgeInv)
    <2>1. CASE part = "knowledge"
      <3>1. KnowledgeInit
        BY <2>1 DEF Init
      <3> QED  BY <3>1, KnowledgeStart DEF KnowledgeInv
    <2>2. CASE part # "knowledge"
      <3>1. /\ status = [e \in Entities |-> "active"] /\ KnowledgeAtRest
            /\ rows \in (IF part = "ask" THEN MCGraphs ELSE {{}})
        BY <2>2 DEF Init
      <3>2. rows \subseteq Row
        BY <3>1, GraphAssumption
      <3> QED  BY <2>2, <3>1, <3>2, RestingTypes
    <2> QED  BY <2>1, <2>2
  <1>2. FilesInv /\ AccessInv /\ CacheTypeOK /\ AskInv
    <2>1. FilesInit /\ AccessInit /\ CacheInit /\ AskInit
      BY DEF Init
    <2> QED  BY <2>1, FilesStart, AccessStart, CacheStart, AskInvInit
  <1>3. SegmentationInv
    <2>1. CASE part = "parse"
      BY <2>1, SegmentationStart DEF Init
    <2>2. CASE part # "parse"
      <3>1. document = <<>> /\ segments = {}
        BY <2>2 DEF Init
      <3> QED  BY <3>1 DEF SegmentationInv
    <2> QED  BY <2>1, <2>2
  <1>4. SeedTypes /\ SeedInv
    <2>1. SeedInit
      BY DEF Init
    <2> QED  BY <2>1, SeedStart, SeedTypesStart
  <1>5. CASE part = "jobs"
    <2>1. JobsInit /\ PipelineAtRest
      BY <1>5 DEF Init
    <2>2. JobsTypeOK
      BY <2>1, JobsStart
    <2>3. PipelineTypeOK
      BY <2>1, RestingProject
    <2> QED  BY <1>1, <1>2, <1>3, <1>4, <1>5, <2>2, <2>3 DEF ServeInv, IngestInv
  <1>6. CASE part # "jobs"
    <2>1. PipelineInit
      BY <1>6 DEF Init
    <2>2. PipelineInv /\ FilesOK(project)
      BY <2>1, PipelineInitInv
    <2>3. PipelineTypeOK /\ job \in JobRow /\ report = [r \in Reporters |-> Idle] /\ byHand = FALSE
      BY <2>1, <2>2 DEF PipelineInv, PipelineInit
    <2>4. JobsTypeOK
      BY <2>3 DEF JobsTypeOK
    <2> QED  BY <1>1, <1>2, <1>3, <1>4, <1>6, <2>2, <2>3, <2>4 DEF ServeInv, IngestInv, LoadInv
  <1> QED  BY <1>5, <1>6

\* What is at rest keeps its invariant.
LEMMA KnowledgeRests ==
    ASSUME KnowledgeTypeOK, UNCHANGED knowledgeVars
    PROVE  KnowledgeTypeOK'
  BY DEF KnowledgeTypeOK, knowledgeVars

LEMMA DirectoryRests ==
    ASSUME PipelineTypeOK, UNCHANGED commandVars
    PROVE  PipelineTypeOK'
  BY DEF PipelineTypeOK, commandVars

LEMMA JobRests ==
    ASSUME JobsTypeOK, UNCHANGED jobVars
    PROVE  JobsTypeOK'
  BY DEF JobsTypeOK, jobVars

LEMMA LoadRests ==
    ASSUME LoadInv, UNCHANGED <<commandVars, jobVars>>, SeedTypes', SeedInv'
    PROVE  LoadInv'
  <1>1. UNCHANGED <<project, last, commands, crashes, job>>
    BY DEF commandVars, jobVars
  <1>2. PipelineInv'
    BY <1>1, PipelineStutters DEF LoadInv
  <1> QED  BY <1>1, <1>2 DEF LoadInv, FilesOK

\* The services, whether one of them takes a step or none.
LEMMA Served ==
    ASSUME ServeInv, part' = part, Serve \/ UNCHANGED serviceVars
    PROVE  ServeInv'
  <1>1. /\ [FilesNext]_fileVars /\ [AccessNext]_accessVars /\ [CacheNext]_cacheVars /\ [AskNext]_askVars
        /\ [KnowledgeNext]_knowledgeVars
        /\ part # "knowledge" => UNCHANGED knowledgeVars
    BY DEF Serve, serviceVars
  <1>2. FilesInv' /\ AccessInv' /\ CacheTypeOK' /\ AskInv'
    BY <1>1, FilesStep, AccessStep, CacheTypes, AskInvStep DEF ServeInv
  <1>3. CASE part = "knowledge"
    <2>1. KnowledgeInv'
      BY <1>1, <1>3, KnowledgeStep DEF ServeInv
    <2> QED  BY <1>2, <1>3, <2>1 DEF ServeInv, KnowledgeInv
  <1>4. CASE part # "knowledge"
    <2>1. KnowledgeTypeOK'
      BY <1>1, <1>4, KnowledgeRests DEF ServeInv
    <2> QED  BY <1>2, <1>4, <2>1 DEF ServeInv
  <1> QED  BY <1>3, <1>4

\* The parts of the ingest, whether one of them takes a step or none.
LEMMA Ingested ==
    ASSUME IngestInv, part' = part, Ingest \/ UNCHANGED <<commandVars, seedVars, jobVars, segmentVars>>
    PROVE  IngestInv'
  <1>1. CASE part = "jobs"
    <2>1. [JobsNext]_jobVars /\ UNCHANGED <<commandVars, seedVars, segmentVars>>
      BY <1>1 DEF Ingest
    <2>2. JobsTypeOK'
      BY <2>1, JobsTyped DEF IngestInv
    <2>3. SeedTypes' /\ SegmentationInv' /\ PipelineTypeOK'
      BY <2>1, SeedTypesStep, SegmentationStep, DirectoryRests DEF IngestInv
    <2> QED  BY <1>1, <2>2, <2>3 DEF IngestInv
  <1>2. CASE part = "pipeline" /\ PipelineNext /\ UNCHANGED segmentVars
    <2>1. LoadInv'
      BY <1>2, LoadStep DEF IngestInv
    <2>2. UNCHANGED <<report, byHand>>
      BY <1>2, CommandsKeep DEF IngestInv, LoadInv, Leaves
    <2>3. JobsTypeOK'
      BY <2>1, <2>2 DEF IngestInv, LoadInv, PipelineInv, JobsTypeOK
    <2>4. SegmentationInv'
      BY <1>2, SegmentationStep DEF IngestInv
    <2> QED  BY <1>2, <2>1, <2>3, <2>4 DEF IngestInv, LoadInv, PipelineInv
  <1>3. CASE /\ part # "jobs" /\ UNCHANGED <<commandVars, jobVars>>
             /\ [SeedNext]_seedVars /\ [RunParse]_segmentVars
    <2>1. SegmentationInv' /\ SeedTypes' /\ SeedInv'
      BY <1>3, SegmentationStep, SeedTypesStep, SeedStep DEF IngestInv, LoadInv
    <2>2. LoadInv'
      BY <1>3, <2>1, LoadRests DEF IngestInv
    <2>3. JobsTypeOK' /\ PipelineTypeOK'
      BY <1>3, JobRests, DirectoryRests DEF IngestInv
    <2> QED  BY <1>3, <2>1, <2>2, <2>3 DEF IngestInv
  <1> QED  BY <1>1, <1>2, <1>3 DEF Ingest

\* Whichever part runs, every variable of every part keeps its type: rows name
\* nodes that the graph can have, a run is whole, a count of requests or spans is
\* a number, a file of the project is named by a slug and a job by its passes.
THEOREM ServicesTyped == Spec => []TypeOK
  <1>1. ServeInv /\ IngestInv /\ [Next]_allVars => (ServeInv /\ IngestInv)'
    <2> SUFFICES ASSUME ServeInv, IngestInv, [Next]_allVars
                 PROVE  ServeInv' /\ IngestInv'
      OBVIOUS
    <2>1. part' = part
      BY DEF Next, allVars
    <2>2. Serve \/ UNCHANGED serviceVars
      BY DEF Next, allVars
    <2>3. Ingest \/ UNCHANGED <<commandVars, seedVars, jobVars, segmentVars>>
      BY DEF Next, allVars
    <2> QED  BY <2>1, <2>2, <2>3, Served, Ingested
  <1>2. ServeInv /\ IngestInv => TypeOK
    <2> SUFFICES ASSUME ServeInv, IngestInv PROVE TypeOK
      OBVIOUS
    <2>1. KnowledgeTypeOK /\ FilesTypeOK /\ AccessTypeOK /\ CacheTypeOK
      BY DEF ServeInv, FilesInv, AccessInv, Typed
    <2>2. AskTypeOK
      BY AskInvTypes DEF ServeInv
    <2>3. SegmentationTypeOK
      BY SegmentationTypes DEF IngestInv
    <2>4. JobsTypeOK /\ PipelineTypeOK /\ SeedTypeOK
      BY DEF IngestInv, SeedTypes, DatabaseOK, SeedTypeOK
    <2> QED  BY <2>1, <2>2, <2>3, <2>4 DEF TypeOK
  <1> QED  BY <1>1, <1>2, PartsStart, PTL DEF Spec
=============================================================================
