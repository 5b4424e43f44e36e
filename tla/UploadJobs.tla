----------------------------- MODULE UploadJobs -----------------------------
(***************************************************************************)
(* The server side of the three resumable uploads of the admin pages: the  *)
(* product catalogue (services/product_catalog_transfer.go), the archive   *)
(* of SKU images (controllers/media_sku_archive.go) and the JSON file of   *)
(* eBay drafts (services/ebay_import_json_task.go).  A job is a row, a     *)
(* file of chunks beside it, and the handlers that are between the file    *)
(* and the row.  Of the catalogue's statuses, "queued" stands for ready    *)
(* and "running" for what follows the admin's decision to apply it.        *)
(***************************************************************************)
EXTENDS Integers, FiniteSets

CONSTANTS
    Kinds,     \* which of "catalog", "archive", "json" the instance runs
    Files,     \* files of one name and size, told apart by their content
    Sample,    \* of a file: the one that stands for all with its fingerprint
    Length,    \* chunks of a file
    MaxJobs,   \* bound: rows ever created
    Missing,   \* what no file wrote
    Blank      \* the fingerprint of a browser without crypto.subtle

ASSUME KindsAssumption == Kinds \subseteq {"catalog", "archive", "json"}
ASSUME SizesAssumption == Length \in Nat \ {0} /\ MaxJobs \in Nat
ASSUME ContentAssumption == Missing \notin Files /\ Blank \notin Files
ASSUME SampleAssumption == Sample \in [Files -> Files]

VARIABLES
    kind,       \* the upload this behaviour is about
    job,        \* rows: status, fingerprint, confirmed chunks; file is whose content it is
    disk,       \* the file of a job: of each chunk, the files its bytes came from
    admitted,   \* chunk handlers of the catalogue that read the row and will write the file
    writing,    \* chunk handlers that wrote the file and have not updated the row
    validating, \* complete handlers of the catalogue that are unpacking the archive
    cancels     \* cancel handlers that read the row and have not updated it

serverVars == <<kind, job, disk, admitted, writing, validating, cancels>>

Jobs == 1..MaxJobs
Chunks == 0..Length - 1
Statuses == {"none", "uploading", "queued", "running", "finished", "cancelled"}

Row == [status : Statuses, file : Files \cup {Missing}, print : Files \cup {Blank, Missing},
        uploaded : 0..Length]
NoRow == [status |-> "none", file |-> Missing, print |-> Missing, uploaded |-> 0]
Removed == [c \in Chunks |-> {Missing}]   \* no byte of it is there

ServerTypeOK ==
    /\ kind \in Kinds
    /\ job \in [Jobs -> Row]
    /\ disk \in [Jobs -> [Chunks -> (SUBSET (Files \cup {Missing})) \ {{}}]]
    /\ cancels \subseteq [job : Jobs, read : Statuses]

ServerInit ==
    /\ kind \in Kinds
    /\ job = [j \in Jobs |-> NoRow]
    /\ disk = [j \in Jobs |-> Removed]
    /\ admitted = {}
    /\ writing = {}
    /\ validating = {}
    /\ cancels = {}

Status(j) == job[j].status
InStatus(statuses) == {j \in Jobs : Status(j) \in statuses}
Live == {"uploading", "queued", "running"}
Newest(j, S) == j \in S /\ \A i \in S : i <= j
Fresh == CHOOSE j \in InStatus({"none"}) : \A i \in InStatus({"none"}) : j <= i
NewRow(file, print) == [status |-> "uploading", file |-> file, print |-> print, uploaded |-> 0]

-----------------------------------------------------------------------------
(* Creating or resuming a job.  first is the page's upload session, with    *)
(* its file and its fingerprint.                                            *)

MatchesByName(j, print) == TRUE   \* mutant: name and size are enough

(* Two browsers upload one file only if these agree; a fingerprint that is  *)
(* not known matches every file of that name and size.                      *)
Matches(j, print) ==
    \/ job[j].print = print
    \/ kind # "catalog" /\ job[j].print = Blank

(* StartProductCatalogUpload: a live job of this fingerprint, or a new row; *)
(* no lock covers the two.                                                  *)
CatalogCandidates(print) == {j \in InStatus(Live) : job[j].print = print}

(* An archive or JSON upload is resumed only while it is uploading.  A task *)
(* of eBay drafts without a fingerprint takes the one it is resumed with.   *)
Resume(j, print) ==
    /\ kind # "catalog"
    /\ Status(j) = "uploading" /\ Matches(j, print)
    /\ job' = [job EXCEPT ![j].print = IF kind = "json" THEN print ELSE @]
    /\ UNCHANGED disk

CreateBesideActive(j, file, print) ==   \* mutant: the active job is not looked for
    /\ j \in InStatus({"none"}) /\ j = Fresh
    /\ job' = [job EXCEPT ![j] = NewRow(file, print)]
    /\ UNCHANGED disk

(* One upload or import at a time.                                          *)
Create(j, file, print) ==
    /\ j \in InStatus({"none"}) /\ j = Fresh
    /\ kind # "catalog" => InStatus(Live) = {}
    /\ job' = [job EXCEPT ![j] = NewRow(file, print)]
    /\ UNCHANGED disk

(* The upload in the way is older than its time to live.  Its update, the   *)
(* removal of its file and the new row are one step here: the code does     *)
(* them under the mutex of the start handler.                               *)
ReplaceExpired(i, j, file, print) ==
    /\ kind # "catalog"
    /\ Status(i) = "uploading"
    /\ j \in InStatus({"none"}) /\ j = Fresh
    /\ job' = [job EXCEPT ![i].status = "cancelled", ![j] = NewRow(file, print)]
    /\ disk' = [disk EXCEPT ![i] = Removed]

Busy(print) == \E j \in InStatus(Live) : ~(Status(j) = "uploading" /\ Matches(j, print))

-----------------------------------------------------------------------------
(* Receiving a chunk.  r names the job, the chunk, and the file it is cut   *)
(* from.  Archives and JSON files are written under the job's lock.         *)

Locked(j) ==
    \/ kind # "catalog" /\ \E w \in writing : w.job = j
    \/ kind = "archive" /\ \E x \in cancels : x.job = j

(* The bytes of the chunk are those of the file: certain if all are the     *)
(* file's, and possible if they are another's, since files may agree in a   *)
(* chunk.                                                                   *)
AlreadyStored(r) == r.at < job[r.job].uploaded /\ Missing \notin disk[r.job][r.at]
Expected(r) == Status(r.job) = "uploading" /\ r.at = job[r.job].uploaded

(* UploadProductCatalogChunk holds no lock: what it read of the row may be  *)
(* out of date when it writes the file.                                     *)
AdmitChunk(r) ==
    /\ kind = "catalog" /\ Expected(r)
    /\ admitted' = admitted \cup {r}
    /\ UNCHANGED <<kind, job, disk, writing, validating, cancels>>

MayWrite(r) == IF kind = "catalog" THEN r \in admitted ELSE ~Locked(r.job) /\ Expected(r)

WriteChunk(r) ==
    /\ MayWrite(r)
    /\ disk' = [disk EXCEPT ![r.job][r.at] = {r.file}]
    /\ writing' = writing \cup {r}
    /\ admitted' = admitted \ {r}
    /\ UNCHANGED <<kind, job, validating, cancels>>

(* The write fails or the process dies in it: part of the chunk is written  *)
(* over what was there.                                                     *)
TearChunk(r) ==
    /\ MayWrite(r)
    /\ disk' = [disk EXCEPT ![r.job][r.at] = @ \cup {r.file}]
    /\ admitted' = admitted \ {r}
    /\ UNCHANGED <<kind, job, writing, validating, cancels>>

UpdateMatchesAlways(r) == TRUE   \* mutant: the update names the row only

(* The row is updated WHERE uploaded_bytes is still the chunk's offset; the *)
(* archive and JSON handlers also ask for status uploading.                 *)
UpdateMatches(r) ==
    /\ job[r.job].uploaded = r.at
    /\ kind # "catalog" => Status(r.job) = "uploading"

ConfirmChunk(r) ==
    /\ r \in writing
    /\ job' = IF UpdateMatches(r) THEN [job EXCEPT ![r.job].uploaded = r.at + 1] ELSE job
    /\ writing' = writing \ {r}
    /\ UNCHANGED <<kind, disk, admitted, validating, cancels>>

(* The file cannot be opened, the update fails, or the process dies first.  *)
ForgetChunk(r) ==
    /\ r \in admitted \cup writing
    /\ admitted' = admitted \ {r}
    /\ writing' = writing \ {r}
    /\ UNCHANGED <<kind, job, disk, validating, cancels>>

-----------------------------------------------------------------------------
(* Completing an upload. *)

Whole(j) ==
    /\ job[j].uploaded = Length
    /\ Missing \notin disk[j][Length - 1]

(* CompleteSKUImageArchive, CompleteEbayDraftJSONImportTask: under the lock.*)
Enqueue(j) ==
    /\ kind # "catalog"
    /\ ~Locked(j)
    /\ Status(j) = "uploading" /\ Whole(j)
    /\ job' = [job EXCEPT ![j].status = "queued"]
    /\ UNCHANGED <<kind, disk, admitted, writing, validating, cancels>>

(* CompleteProductCatalogUpload reads the row, unpacks the archive, which   *)
(* takes minutes, and then marks the job ready, whatever became of it.      *)
BeginValidation(v) ==
    /\ kind = "catalog"
    /\ Status(v.job) = "uploading" /\ Whole(v.job)
    /\ validating' = validating \cup {v}
    /\ UNCHANGED <<kind, job, disk, admitted, writing, cancels>>

MarkReady(v) ==
    /\ v \in validating
    /\ job' = [job EXCEPT ![v.job].status = "queued"]
    /\ validating' = validating \ {v}
    /\ UNCHANGED <<kind, disk, admitted, writing, cancels>>

FailValidation(v) ==
    /\ v \in validating
    /\ validating' = validating \ {v}
    /\ UNCHANGED <<kind, job, disk, admitted, writing, cancels>>

(* What a complete request is answered when it changes nothing: a queued    *)
(* job is fine for a catalogue that is ready and for a JSON task.           *)
AlreadyComplete(j) ==
    \/ kind = "catalog" /\ Status(j) = "queued"
    \/ kind = "json" /\ Status(j) \in {"queued", "running", "finished"}

-----------------------------------------------------------------------------
(* Cancelling, and the worker. *)

Cancellable(j) ==
    \/ kind = "archive" /\ Status(j) \in {"uploading", "queued"} /\ ~Locked(j)
    \/ kind = "json" /\ Status(j) \in Live
    \/ kind = "catalog" /\ Status(j) \in Live

(* Bound: one cancel under way.                                             *)
ReadForCancel(j) ==
    /\ Cancellable(j) /\ cancels = {}
    /\ cancels' = cancels \cup {[job |-> j, read |-> Status(j)]}
    /\ UNCHANGED <<kind, job, disk, admitted, writing, validating>>

CancelKeepingStatus(x) ==   \* mutant: the file goes, the row stays
    /\ x \in cancels
    /\ disk' = [disk EXCEPT ![x.job] = Removed]
    /\ cancels' = cancels \ {x}
    /\ UNCHANGED <<kind, job, admitted, writing, validating>>

(* The archive's update repeats the status that was read, the others do not;*)
(* the archive's file is removed even when the update matched nothing, the  *)
(* JSON file unless a worker had it, the catalogue's file never.            *)
Cancel(x) ==
    /\ x \in cancels
    /\ job' = IF kind = "archive" /\ Status(x.job) # x.read THEN job
              ELSE [job EXCEPT ![x.job].status = "cancelled"]
    /\ disk' = IF kind = "archive" \/ (kind = "json" /\ x.read # "running")
               THEN [disk EXCEPT ![x.job] = Removed] ELSE disk
    /\ cancels' = cancels \ {x}
    /\ UNCHANGED <<kind, admitted, writing, validating>>

WorkerTakes(j) ==
    /\ Status(j) = "queued"
    /\ job' = [job EXCEPT ![j].status = "running"]
    /\ UNCHANGED <<kind, disk, admitted, writing, validating, cancels>>

WorkerEnds(j) ==
    /\ Status(j) = "running"
    /\ job' = [job EXCEPT ![j].status = "finished"]
    /\ disk' = IF kind = "catalog" THEN disk ELSE [disk EXCEPT ![j] = Removed]
    /\ UNCHANGED <<kind, admitted, writing, validating, cancels>>

(* The backend stops and starts: its handlers are gone.  That a running job *)
(* is queued again is the worker's business.                                *)
RestartJobs ==
    /\ admitted' = {} /\ writing' = {} /\ validating' = {} /\ cancels' = {}
    /\ UNCHANGED <<kind, job, disk>>
=============================================================================
