----------------------------- MODULE FileStore -----------------------------
(***************************************************************************)
(* File attachments (api/routes/files.py, storage/adapters.py): the bytes  *)
(* are a file under a fresh key in the storage root, the metadata a row of *)
(* object_files.  The two stores share no transaction, so an upload and a  *)
(* delete are two steps each, and a request may be lost between them (the  *)
(* process dies, the commit fails, the version does not exist).  A type or *)
(* size that is refused leaves no trace and is not modelled.               *)
(***************************************************************************)
EXTENDS Naturals

CONSTANTS
    Files,          \* uploads: each has its own key, bytes and row
    FileRequests,   \* concurrent requests
    NoFile

ASSUME FileStoreAssumption == NoFile \notin Files

VARIABLES
    disk,       \* keys with bytes in the storage root
    fileRows,   \* keys with a committed row of object_files
    fileReq,    \* what each open request does next: op, file, step
    uploaded,   \* history: keys an upload has begun to use
    doomed,     \* history: keys a delete request has found
    removed     \* history: keys whose row a delete has removed

fileVars == <<disk, fileRows, fileReq, uploaded, doomed, removed>>

Free == [op |-> "none", file |-> NoFile, step |-> "none"]

FileRequest == {Free} \cup [op : {"upload", "delete"}, file : Files, step : {"bytes", "row"}]

\* Mutant: the row is written first, in an upload and in a delete.
RowFirst(op) == "row"

\* The bytes go first, in an upload and in a delete.
FirstStep(op) == "bytes"

Begin(q, op, f) ==
    /\ fileReq[q] = Free
    /\ fileReq' = [fileReq EXCEPT ![q] = [op |-> op, file |-> f, step |-> FirstStep(op)]]

\* A request goes on to its other step, or ends.
Advance(q) ==
    LET r == fileReq[q]
        other == IF r.step = "bytes" THEN "row" ELSE "bytes"
    IN  fileReq' = [fileReq EXCEPT ![q] =
            IF r.step = FirstStep(r.op) THEN [op |-> r.op, file |-> r.file, step |-> other] ELSE Free]

-----------------------------------------------------------------------------
\* The key is a new uuid: nobody else uses it.
UploadBegin(q, f) ==
    /\ f \notin uploaded
    /\ Begin(q, "upload", f)
    /\ uploaded' = uploaded \cup {f}
    /\ UNCHANGED <<disk, fileRows, doomed, removed>>

UploadPut(q) ==
    /\ fileReq[q].op = "upload" /\ fileReq[q].step = "bytes"
    /\ disk' = disk \cup {fileReq[q].file}
    /\ Advance(q)
    /\ UNCHANGED <<fileRows, uploaded, doomed, removed>>

UploadCommit(q) ==
    /\ fileReq[q].op = "upload" /\ fileReq[q].step = "row"
    /\ fileRows' = fileRows \cup {fileReq[q].file}
    /\ Advance(q)
    /\ UNCHANGED <<disk, uploaded, doomed, removed>>

\* 404 unless the row is there.
DeleteLoad(q, f) ==
    /\ f \in fileRows
    /\ Begin(q, "delete", f)
    /\ doomed' = doomed \cup {f}
    /\ UNCHANGED <<disk, fileRows, uploaded, removed>>

\* Bytes that are already gone are no error.
DeleteBytes(q) ==
    /\ fileReq[q].op = "delete" /\ fileReq[q].step = "bytes"
    /\ disk' = disk \ {fileReq[q].file}
    /\ Advance(q)
    /\ UNCHANGED <<fileRows, uploaded, doomed, removed>>

\* A row another delete has removed meanwhile is only a warning.
DeleteCommit(q) ==
    /\ fileReq[q].op = "delete" /\ fileReq[q].step = "row"
    /\ fileRows' = fileRows \ {fileReq[q].file}
    /\ removed' = removed \cup {fileReq[q].file}
    /\ Advance(q)
    /\ UNCHANGED <<disk, uploaded, doomed>>

\* The request ends without its remaining steps; what it did to disk stays.
RequestLost(q) ==
    /\ fileReq[q] # Free
    /\ fileReq' = [fileReq EXCEPT ![q] = Free]
    /\ UNCHANGED <<disk, fileRows, uploaded, doomed, removed>>

FilesInit ==
    /\ disk = {} /\ fileRows = {} /\ uploaded = {} /\ doomed = {} /\ removed = {}
    /\ fileReq = [q \in FileRequests |-> Free]

FilesNext ==
    \E q \in FileRequests :
        \/ \E f \in Files : UploadBegin(q, f) \/ DeleteLoad(q, f)
        \/ UploadPut(q) \/ UploadCommit(q)
        \/ DeleteBytes(q) \/ DeleteCommit(q)
        \/ RequestLost(q)

FilesSpec == FilesInit /\ [][FilesNext]_fileVars

-----------------------------------------------------------------------------
FilesTypeOK ==
    /\ disk \subseteq Files /\ fileRows \subseteq Files
    /\ uploaded \subseteq Files /\ doomed \subseteq Files /\ removed \subseteq Files
    /\ fileReq \in [FileRequests -> FileRequest]

\* A download that finds the row finds the bytes, unless somebody has asked for
\* the file to be deleted; and a file whose row is gone leaves no bytes behind,
\* whichever of its deletes was cut short and whichever came first.
StoresAgree ==
    /\ \A f \in fileRows : f \in disk \/ f \in doomed
    /\ \A f \in removed : f \notin disk /\ f \notin fileRows
=============================================================================
