----------------------------- MODULE ChunkUpload -----------------------------
(***************************************************************************)
(* Upload sessions of the admin's browser tabs against UploadJobs:         *)
(* BackupService.uploadProductCatalog, MediaService.uploadSKUImageArchive  *)
(* and EbayImportDraftService.startJSONImport.  A session creates or       *)
(* resumes a job, sends one chunk after the other with a few attempts per  *)
(* chunk, asks for the job's state when an attempt fails, and completes.   *)
(* A request the browser gave up on may still be on its way: the server    *)
(* handles it whenever it arrives.                                         *)
(***************************************************************************)
EXTENDS UploadJobs

CONSTANTS
    Tabs,       \* upload sessions
    Choices,    \* which file each of them uploads: a set of functions
    Attempts,   \* per chunk; 4 in the code
    Blind,      \* sessions whose browser has no crypto.subtle (plain HTTP)
    MaxUnderWay,\* bound: requests under way when another one is sent
    NoJob

ASSUME AttemptsAssumption == Attempts \in Nat \ {0}
ASSUME ChoicesAssumption == Choices \subseteq [Tabs -> Files]
ASSUME NoJobAssumption == NoJob \notin Jobs
ASSUME BlindAssumption == Blind \subseteq Tabs

VARIABLES
    tab,         \* per session: what it does, its file, its job, the offset it knows,
                 \* the chunk it sends and the attempt
    sent,        \* chunk requests the server has not handled yet
    completing   \* complete requests the server has not handled yet

uploadVars == <<serverVars, tab, sent, completing>>
browserVars == <<tab, sent, completing>>

Phases == {"idle", "creating", "next", "waiting", "completing", "done", "failed"}
Session == [pc : Phases, file : Files, job : Jobs \cup {NoJob}, offset : 0..Length,
            at : 0..Length, try : 0..Attempts]
Request == [tab : Tabs, job : Jobs, file : Files, at : Chunks, try : 1..Attempts]

UploadTypeOK ==
    /\ ServerTypeOK
    /\ tab \in [Tabs -> Session]
    /\ sent \cup admitted \cup writing \subseteq Request
    /\ validating \cup completing \subseteq [tab : Tabs, job : Jobs]

NewSession(file) == [pc |-> "idle", file |-> file, job |-> NoJob, offset |-> 0, at |-> 0, try |-> 0]

Init ==
    /\ ServerInit
    /\ \E file \in Choices : tab = [t \in Tabs |-> NewSession(file[t])]
    /\ sent = {}
    /\ completing = {}

(* buildJSONImportFingerprint and buildSKUArchiveFingerprint hash the name,  *)
(* the size and the first and last MiB; the catalogue's fingerprint is name,*)
(* size and time.  Files that differ elsewhere share one.                   *)
Fingerprint(t) == IF kind # "catalog" /\ t \in Blind THEN Blank ELSE Sample[tab[t].file]

(* The session goes on knowing offset n; what is local to a chunk, or to a  *)
(* session that is over, is forgotten.                                      *)
Goes(t, pc, n) ==
    tab' = [tab EXCEPT ![t] =
        IF pc \in {"done", "failed"} THEN [NewSession(@.file) EXCEPT !.pc = pc]
        ELSE IF pc = "next" THEN [@ EXCEPT !.pc = pc, !.offset = n, !.at = 0, !.try = 0]
        ELSE [@ EXCEPT !.pc = pc, !.offset = n]]
To(t, pc) == Goes(t, pc, tab[t].offset)

-----------------------------------------------------------------------------
(* Creating or resuming.  Failing to do so, or losing the answer, ends the  *)
(* session; what the server did stays.                                      *)

Started(t, j, n) ==
    \/ tab' = [tab EXCEPT ![t].pc = "next", ![t].job = j, ![t].offset = n]
    \/ To(t, "failed")

StartRefused(t) ==
    /\ tab[t].pc = "idle"
    /\ kind # "catalog" /\ Busy(Fingerprint(t))
    /\ To(t, "failed")
    /\ UNCHANGED <<serverVars, sent, completing>>

ResumeUpload(t, j) ==
    /\ tab[t].pc = "idle"
    /\ Resume(j, Fingerprint(t))
    /\ Started(t, j, job[j].uploaded)
    /\ UNCHANGED <<kind, admitted, writing, validating, cancels, sent, completing>>

StartUpload(t, j) ==
    /\ tab[t].pc = IF kind = "catalog" THEN "creating" ELSE "idle"
    /\ \/ Create(j, tab[t].file, Fingerprint(t))
       \/ \E i \in Jobs : ReplaceExpired(i, j, tab[t].file, Fingerprint(t))
    /\ Started(t, j, 0)
    /\ UNCHANGED <<kind, admitted, writing, validating, cancels, sent, completing>>

(* The catalogue's lookup, apart from the creation that may follow it.      *)
FindCatalogJob(t) ==
    /\ kind = "catalog" /\ tab[t].pc = "idle"
    /\ LET found == CatalogCandidates(Fingerprint(t))
       IN  \/ found = {} /\ To(t, "creating")
           \/ \E j \in Jobs : Newest(j, found) /\ Started(t, j, job[j].uploaded)
    /\ UNCHANGED <<serverVars, sent, completing>>

-----------------------------------------------------------------------------
(* One chunk *)

RoomForRequest == Cardinality(sent \cup admitted \cup writing)
                     + Cardinality(completing \cup validating) < MaxUnderWay

Send(t, at, try) ==
    /\ RoomForRequest
    /\ sent' = sent \cup {[tab |-> t, job |-> tab[t].job, file |-> tab[t].file,
                           at |-> at, try |-> try]}
    /\ tab' = [tab EXCEPT ![t].pc = "waiting", ![t].offset = at, ![t].at = at, ![t].try = try]
    /\ UNCHANGED <<serverVars, completing>>

SendChunk(t) ==
    /\ tab[t].pc = "next" /\ tab[t].offset < Length
    /\ Send(t, tab[t].offset, 1)

(* The answer reaches the session that still waits for it, or is lost.      *)
Waits(r) ==
    /\ tab[r.tab].pc = "waiting"
    /\ tab[r.tab].at = r.at /\ tab[r.tab].try = r.try

Answer(r, ok, n) ==
    \/ UNCHANGED tab
    \/ ok /\ n > r.at /\ Waits(r) /\ Goes(r.tab, "next", n)

ReceiveChunk(r) ==
    /\ r \in sent
    /\ sent' = sent \ {r}
    /\ \/ AdmitChunk(r) /\ UNCHANGED tab
       \/ kind # "catalog" /\ (WriteChunk(r) \/ TearChunk(r)) /\ UNCHANGED tab
       \/ /\ ~Locked(r.job) /\ ~Expected(r)
          /\ Answer(r, Status(r.job) = "uploading" /\ AlreadyStored(r), job[r.job].uploaded)
          /\ UNCHANGED serverVars
    /\ UNCHANGED completing

WriteAdmitted(r) == (WriteChunk(r) \/ TearChunk(r)) /\ UNCHANGED browserVars

(* The catalogue's handler does not look whether its update matched a row.  *)
StoreChunk(r) ==
    /\ ConfirmChunk(r)
    /\ Answer(r, UpdateMatches(r) \/ kind = "catalog", r.at + 1)
    /\ UNCHANGED <<sent, completing>>

LoseChunk(r) == ForgetChunk(r) /\ UNCHANGED browserVars

(* A request that never reaches the server.                                 *)
DropRequest(r) ==
    /\ r \in sent
    /\ sent' = sent \ {r}
    /\ UNCHANGED <<serverVars, tab, completing>>

(* The attempt failed, by an error, a timeout or a broken connection, and   *)
(* the session asks for the job's offset: the chunk is stored after all, or *)
(* the server is somewhere else.                                            *)
AskOffset(t) ==
    LET n == job[tab[t].job].uploaded
    IN  /\ tab[t].pc = "waiting" /\ n # tab[t].at
        /\ Goes(t, IF n > tab[t].at THEN "next" ELSE "failed", n)
        /\ UNCHANGED <<serverVars, sent, completing>>

(* The offset is still the chunk's, or cannot be had: the next attempt.     *)
SendAgain(t) ==
    /\ tab[t].pc = "waiting" /\ tab[t].try < Attempts
    /\ Send(t, tab[t].at, tab[t].try + 1)

GiveUp(t) ==
    /\ tab[t].pc = "waiting" /\ tab[t].try = Attempts
    /\ To(t, "failed")
    /\ UNCHANGED <<serverVars, sent, completing>>

-----------------------------------------------------------------------------
(* Completing *)

SendComplete(t) ==
    /\ tab[t].pc = "next" /\ tab[t].offset >= Length
    /\ RoomForRequest
    /\ To(t, "completing")
    /\ completing' = completing \cup {[tab |-> t, job |-> tab[t].job]}
    /\ UNCHANGED <<serverVars, sent>>

CompleteAnswer(t, ok) ==
    \/ UNCHANGED tab
    \/ ok /\ tab[t].pc = "completing" /\ To(t, "done")

ReceiveComplete(v) ==
    /\ v \in completing
    /\ completing' = completing \ {v}
    /\ \/ Enqueue(v.job) /\ CompleteAnswer(v.tab, TRUE)
       \/ BeginValidation(v) /\ UNCHANGED tab
       \/ /\ ~Locked(v.job) /\ ~(Status(v.job) = "uploading" /\ Whole(v.job))
          /\ CompleteAnswer(v.tab, AlreadyComplete(v.job))
          /\ UNCHANGED serverVars
    /\ UNCHANGED sent

EndValidation(v) ==
    /\ \/ MarkReady(v) /\ CompleteAnswer(v.tab, TRUE)
       \/ FailValidation(v) /\ UNCHANGED tab
    /\ UNCHANGED <<sent, completing>>

(* Completing failed or was not answered.                                   *)
CompleteFails(t) ==
    /\ tab[t].pc = "completing"
    /\ To(t, "failed")
    /\ UNCHANGED <<serverVars, sent, completing>>

ConfirmAny(t) ==   \* mutant: any task that can be read will do
    /\ kind = "json" /\ tab[t].pc = "completing"
    /\ To(t, "done")
    /\ UNCHANGED <<serverVars, sent, completing>>

(* "Resolve the durable state before showing a false upload failure": a JSON*)
(* session looks at its task before it believes that completing failed.     *)
Confirm(t) ==
    /\ kind = "json" /\ tab[t].pc = "completing"
    /\ Status(tab[t].job) # "uploading"
    /\ To(t, "done")
    /\ UNCHANGED <<serverVars, sent, completing>>

-----------------------------------------------------------------------------
Crash == RestartJobs /\ UNCHANGED browserVars

Server ==
    \/ \E r \in sent : ReceiveChunk(r) \/ DropRequest(r)
    \/ \E r \in admitted : WriteAdmitted(r)
    \/ \E r \in writing : StoreChunk(r)
    \/ \E r \in admitted \cup writing : LoseChunk(r)
    \/ \E v \in completing : ReceiveComplete(v)
    \/ \E v \in validating : EndValidation(v)
    \/ \E x \in cancels : Cancel(x) /\ UNCHANGED browserVars

Client(t) ==
    \/ SendChunk(t) \/ AskOffset(t) \/ SendAgain(t) \/ GiveUp(t)
    \/ SendComplete(t) \/ CompleteFails(t) \/ Confirm(t)

Admin ==
    \/ \E t \in Tabs : \/ StartRefused(t) \/ FindCatalogJob(t)
                       \/ \E j \in Jobs : ResumeUpload(t, j) \/ StartUpload(t, j)
    \/ \E j \in Jobs : ReadForCancel(j) /\ UNCHANGED browserVars

Worker == \E j \in Jobs : (WorkerTakes(j) \/ WorkerEnds(j)) /\ UNCHANGED browserVars

Next == Admin \/ Server \/ Worker \/ Crash \/ \E t \in Tabs : Client(t)

Spec == Init /\ [][Next]_uploadVars

-----------------------------------------------------------------------------
(* The files of a fingerprint.  A session cannot tell a job of one of them  *)
(* from a job of another, and continues it.                                 *)
Alike(f) == {g \in Files : Sample[g] = Sample[f]}
Contributors(j) == {tab[t].file : t \in Tabs} \cap Alike(job[j].file)

(* Every confirmed chunk of a job that is still needed is there whole, and  *)
(* all of it comes from files somebody uploads that share the fingerprint   *)
(* the job was created with - from one file, if no other of that            *)
(* fingerprint is chosen - whatever requests came late, twice or half.  An  *)
(* archive's running job is left out: a cancel that read "queued" deletes   *)
(* its file.                                                                *)
Kept(j) == kind = "catalog" \/ Status(j) \in {"uploading", "queued"}
           \/ (kind = "json" /\ Status(j) = "running")
ConfirmedIsStored ==
    \A j \in Jobs : Kept(j) =>
        \A c \in Chunks : c < job[j].uploaded => disk[j][c] \subseteq Contributors(j)

(* A session never believes in more chunks than the server has confirmed,   *)
(* although the catalogue's handler answers with an offset its update may   *)
(* not have written: what is skipped is stored.                             *)
OffsetIsConfirmed ==
    \A t \in Tabs : tab[t].job # NoJob => tab[t].offset <= job[tab[t].job].uploaded

(* What waits for the worker is whole, and no file of another fingerprint   *)
(* has a part in it: it is one file, if no two of one fingerprint are       *)
(* uploaded.                                                                *)
QueuedIsWhole ==
    \A j \in Jobs : Status(j) = "queued" =>
        \A c \in Chunks : disk[j][c] \subseteq Contributors(j)

(* Archives and JSON files: one upload or import at a time, whichever pages *)
(* start one.                                                               *)
OneLiveJob == kind # "catalog" => Cardinality(InStatus(Live)) <= 1

(* "File uploaded and background import started": a session that reports    *)
(* success has left its job with the server's worker. A JSON session, which *)
(* looks at its task again before it reports a failure, may also have found *)
(* it cancelled.                                                            *)
Accepted(j) == j \in InStatus({"queued", "running", "finished"})
SucceedsNow(t, j) == tab[t].pc # "done" /\ tab[t].job = j /\ tab'[t].pc = "done"
SuccessIsAnswered ==
    [][\A t \in Tabs, j \in Jobs : SucceedsNow(t, j) =>
          Accepted(j)' \/ (kind = "json" /\ Status(j) = "cancelled")]_uploadVars

(* Every job is an UploadedFile: File(j)!Spec, of every j.                  *)
Stage(status) == CASE status = "none" -> "closed"
                   [] status = "uploading" -> "open"
                   [] status = "queued" -> "sealed"
                   [] status \in {"running", "finished"} -> "taken"
                   [] status = "cancelled" -> "dropped"
File(j) == INSTANCE UploadedFile WITH
    stage <- Stage(Status(j)),
    owner <- job[j].file,
    content <- [c \in Chunks |-> IF c < job[j].uploaded THEN disk[j][c] \ {Missing} ELSE {}],
    unlocked <- kind = "catalog"
ImplementsUploadedFile ==
    /\ \A j \in Jobs : File(j)!Init
    /\ [][\A j \in Jobs : File(j)!Step]_uploadVars
=============================================================================
