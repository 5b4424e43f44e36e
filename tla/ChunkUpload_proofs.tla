-------------------------- MODULE ChunkUpload_proofs --------------------------
(***************************************************************************)
(* ChunkUpload, for any sessions, files, chunks, attempts, jobs and any    *)
(* fingerprint.  In every browser: no confirmed chunk has a hole, sessions *)
(* never get ahead of the server, one archive or JSON upload is live at a  *)
(* time, and success is not reported for nothing.  Where every browser     *)
(* computes fingerprints (Sighted): confirmed chunks come from files of    *)
(* the job's fingerprint, and the jobs are UploadedFiles.                  *)
(*                                                                         *)
(* The argument.  A session only ever uses a job of its own fingerprint,   *)
(* and the requests and handlers it started carry its file (SessionsOwn,   *)
(* RequestsOwn).  A handler that will write or has written a chunk stands  *)
(* at or below the confirmed offset (AdmittedStand, WritesStand), and what *)
(* was written is only written over by files of the same fingerprint, and  *)
(* removed from jobs only that nobody needs.  So the compare-and-set of    *)
(* the row can only confirm a chunk that is stored.                        *)
(***************************************************************************)
EXTENDS ChunkUpload, FiniteSetTheorems, TLAPS

Begun == {"next", "waiting", "completing"}
Over == {"done", "failed"}

(* Fingerprints are computed: always for a catalogue, for an archive or a   *)
(* JSON file if no browser lacks crypto.subtle.                             *)
Sighted == Blind = {} \/ kind = "catalog"
Same(f, g) == Sighted => Sample[f] = Sample[g]
Stands(print, f) == Sighted => print = Sample[f]

RowsKnown ==
    \A j \in Jobs : IF Status(j) = "none" THEN job[j] = NoRow
                    ELSE job[j].file \in Files /\ Stands(job[j].print, job[j].file)

(* A chunk is there, and comes from files of the job's fingerprint.         *)
Held(j, c) == \A f \in disk[j][c] : f \in Files /\ Same(f, job[j].file)
ConfirmedIsHeld == \A j \in Jobs : Kept(j) => \A c \in Chunks : c < job[j].uploaded => Held(j, c)

(* What a handler r of chunks carries is its job's. *)
Owned(r) == Status(r.job) # "none" /\ Same(r.file, job[r.job].file)

AdmittedStand ==
    \A r \in admitted : kind = "catalog" /\ Owned(r) /\ r.at <= job[r.job].uploaded
WritesStand ==
    \A r \in writing : /\ Owned(r) /\ r.at <= job[r.job].uploaded
                       /\ Kept(r.job) => Held(r.job, r.at)

(* A cancel of an archive that is still uploading or queued found it so.    *)
CancelsRead ==
    \A x \in cancels :
        /\ Status(x.job) # "none"
        /\ kind = "archive" =>
              /\ x.read \in {"uploading", "queued"}
              /\ Status(x.job) \in {"uploading", "queued"} => Status(x.job) = x.read

QueuedFull ==
    \A j \in Jobs : Status(j) \in {"queued", "running", "finished"} => job[j].uploaded = Length
ValidatingFull == \A v \in validating : kind = "catalog" /\ Status(v.job) # "none"
                                        /\ job[v.job].uploaded = Length
SingleLive == kind # "catalog" => \A i, j \in InStatus(Live) : i = j

ServerInv == /\ RowsKnown /\ AdmittedStand /\ WritesStand /\ CancelsRead /\ QueuedFull /\ ValidatingFull
             /\ SingleLive /\ ConfirmedIsHeld

PhaseOK(t) ==
    /\ tab[t].pc \in {"idle", "creating"} => tab[t].job = NoJob
    /\ tab[t].pc \in Begun => tab[t].job # NoJob
    /\ tab[t].pc = "waiting" => tab[t].at = tab[t].offset /\ tab[t].at < Length

SessionsOwn ==
    \A t \in Tabs : /\ PhaseOK(t)
                    /\ tab[t].job # NoJob => /\ Status(tab[t].job) # "none"
                                             /\ Same(job[tab[t].job].file, tab[t].file)

(* A request belongs to a session that uses its job, or is over. *)
Belongs(v) == tab[v.tab].pc \in Begun \cup Over
              /\ (tab[v.tab].job # NoJob => tab[v.tab].job = v.job)
RequestsOwn == /\ \A r \in sent \cup admitted \cup writing : Belongs(r)
               /\ \A r \in sent \cup admitted : r.file = tab[r.tab].file
               /\ \A r \in sent : Owned(r)
CompletesOwn == \A v \in completing \cup validating :
                    /\ Belongs(v) /\ tab[v.tab].pc \in {"completing"} \cup Over
                    /\ Status(v.job) # "none"

(* Every byte comes from a file that some session uploads. *)
Source(f) == f = Missing \/ \E t \in Tabs : f = tab[t].file
FromSessions == \A j \in Jobs, c \in Chunks : \A f \in disk[j][c] : Source(f)

ClientInv == SessionsOwn /\ RequestsOwn /\ CompletesOwn /\ FromSessions /\ OffsetIsConfirmed
UploadInv == UploadTypeOK /\ ServerInv /\ ClientInv

(* A job that is needed keeps its chunks, and a row that was not there has  *)
(* none.                                                                    *)
Keeps == \A j \in Jobs : Kept(j)' =>
            IF Status(j) = "none" THEN job'[j].uploaded = 0
            ELSE Kept(j) /\ disk'[j] = disk[j] /\ job'[j].uploaded = job[j].uploaded

(* What the handlers do to the rows: a job keeps its file, and its offset   *)
(* never goes back.                                                         *)
Grows == \A j \in Jobs : Status(j) # "none" =>
            Status(j)' # "none" /\ job'[j].file = job[j].file /\ job[j].uploaded <= job'[j].uploaded

-----------------------------------------------------------------------------
(* Types *)

(* Where the constants lie.                                                 *)
LEMMA Sizes == Length \in Nat /\ Length > 0 /\ Attempts \in Nat /\ Attempts > 0 /\ MaxJobs \in Nat
                 /\ Jobs \subseteq Nat /\ Chunks \subseteq Nat /\ Length - 1 \in Chunks
                 /\ 0 \in 0..Length /\ 0 \in 0..Attempts
  BY SizesAssumption, AttemptsAssumption DEF Jobs, Chunks

(* A new row, and a row with one field changed, are rows.                   *)
LEMMA RowEdits ==
    ASSUME NEW row \in Row
    PROVE  /\ \A s \in Statuses : [row EXCEPT !.status = s] \in Row
           /\ \A n \in 0..Length : [row EXCEPT !.uploaded = n] \in Row
           /\ \A p \in Files \cup {Blank} : [row EXCEPT !.print = p] \in Row
           /\ \A f \in Files, p \in Files \cup {Blank} : NewRow(f, p) \in Row
  BY Sizes DEF Row, NewRow, Statuses

(* The fingerprint of a session.                                            *)
LEMMA PrintType ==
    ASSUME UploadTypeOK, NEW t \in Tabs
    PROVE  tab[t].file \in Files /\ Fingerprint(t) \in Files \cup {Blank}
  BY SampleAssumption DEF UploadTypeOK, Session, Fingerprint

(* What Goes does to the session and to the others.                         *)
LEMMA GoesEffect ==
    ASSUME UploadTypeOK, NEW t \in Tabs, NEW pc \in Phases, NEW n \in 0..Length, Goes(t, pc, n)
    PROVE  /\ tab' \in [Tabs -> Session]
           /\ \A u \in Tabs : u # t => tab'[u] = tab[u]
           /\ tab'[t].pc = pc /\ tab'[t].file = tab[t].file
           /\ pc \in Over => tab'[t].job = NoJob
           /\ pc \notin Over => tab'[t].job = tab[t].job /\ tab'[t].offset = n
  <1>1. tab \in [Tabs -> Session] /\ tab[t] \in Session BY DEF UploadTypeOK
  <1>2. PICK s : /\ s \in Session /\ s.pc = pc /\ s.file = tab[t].file
                 /\ pc \in Over => s.job = NoJob
                 /\ pc \notin Over => s.job = tab[t].job /\ s.offset = n
                 /\ tab' = [tab EXCEPT ![t] = s]
    <2>1. CASE pc \in Over
      <3>1. tab' = [tab EXCEPT ![t] = [NewSession(tab[t].file) EXCEPT !.pc = pc]]
        BY <2>1 DEF Goes, Over, UploadTypeOK
      <3>2. [NewSession(tab[t].file) EXCEPT !.pc = pc] \in Session
        BY <1>1, Sizes DEF NewSession, Session
      <3> QED BY <2>1, <3>1, <3>2 DEF NewSession
    <2>2. CASE pc = "next"
      <3>1. tab' = [tab EXCEPT ![t] = [tab[t] EXCEPT !.pc = pc, !.offset = n, !.at = 0, !.try = 0]]
        BY <2>2 DEF Goes, UploadTypeOK
      <3>2. [tab[t] EXCEPT !.pc = pc, !.offset = n, !.at = 0, !.try = 0] \in Session
        BY <1>1, Sizes DEF Session
      <3> QED BY <1>1, <2>2, <3>1, <3>2 DEF Session, Over
    <2>3. CASE pc \notin Over /\ pc # "next"
      <3>1. tab' = [tab EXCEPT ![t] = [tab[t] EXCEPT !.pc = pc, !.offset = n]]
        BY <2>3 DEF Goes, Over, UploadTypeOK
      <3>2. [tab[t] EXCEPT !.pc = pc, !.offset = n] \in Session
        BY <1>1, Sizes DEF Session
      <3> QED BY <1>1, <2>3, <3>1, <3>2 DEF Session
    <2> QED BY <2>1, <2>2, <2>3
  <1>3. tab' = [tab EXCEPT ![t] = s] /\ s \in Session BY <1>2
  <1>4. tab' \in [Tabs -> Session] /\ tab'[t] = s BY <1>1, <1>3
  <1>5. \A u \in Tabs : u # t => tab'[u] = tab[u] BY <1>1, <1>3
  <1> QED BY <1>2, <1>4, <1>5

ServerTypes == ServerTypeOK /\ admitted \cup writing \subseteq Request /\ validating \subseteq [tab : Tabs, job : Jobs]

(* One row changes.                                                         *)
LEMMA OneRow ==
    ASSUME ServerTypes, NEW j \in Jobs, NEW row \in Row, job' = [job EXCEPT ![j] = row]
    PROVE  /\ job' \in [Jobs -> Row] /\ job'[j] = row
           /\ \A i \in Jobs : i # j => job'[i] = job[i]
  BY DEF ServerTypes, ServerTypeOK

(* What a handler stands on.                                                *)
LEMMA RequestTypes ==
    ASSUME ServerTypes
    PROVE  /\ \A r \in admitted \cup writing : r.job \in Jobs /\ r.at \in Chunks /\ r.file \in Files /\ r.tab \in Tabs
           /\ \A v \in validating : v.job \in Jobs
           /\ \A x \in cancels : x.job \in Jobs /\ x.read \in Statuses
           /\ \A j \in Jobs : job[j] \in Row /\ job[j].uploaded \in Nat /\ job[j].uploaded <= Length
  <1>1. \A j \in Jobs : job[j] \in Row BY DEF ServerTypes, ServerTypeOK
  <1>2. \A row \in Row : row.uploaded \in Nat /\ row.uploaded <= Length BY Sizes DEF Row
  <1>3. \A r \in admitted \cup writing : r \in Request BY DEF ServerTypes
  <1>4. \A r \in Request : r.job \in Jobs /\ r.at \in Chunks /\ r.file \in Files /\ r.tab \in Tabs BY DEF Request
  <1>5. \A v \in validating : v.job \in Jobs BY DEF ServerTypes
  <1>6. \A x \in cancels : x.job \in Jobs /\ x.read \in Statuses BY DEF ServerTypes, ServerTypeOK
  <1> QED BY <1>1, <1>2, <1>3, <1>4, <1>5, <1>6

(* The status of one row changes, among those an opened job can have.       *)
LEMMA StatusChanges ==
    ASSUME ServerTypes, ServerInv, NEW j \in Jobs, NEW s \in Statuses, s # "none",
           Status(j) # "none", job' = [job EXCEPT ![j].status = s], kind' = kind
    PROVE  /\ job' \in [Jobs -> Row] /\ RowsKnown' /\ Grows
           /\ Status(j)' = s /\ job'[j].uploaded = job[j].uploaded /\ job'[j].file = job[j].file
           /\ \A i \in Jobs : i # j => job'[i] = job[i]
  <1> DEFINE row == [job[j] EXCEPT !.status = s]
  <1>1. job[j] \in Row BY RequestTypes
  <1>2. row \in Row /\ row.status = s /\ row.file = job[j].file /\ row.print = job[j].print
        /\ row.uploaded = job[j].uploaded
    BY <1>1, RowEdits DEF Row
  <1>3. job' = [job EXCEPT ![j] = row] BY DEF ServerTypes, ServerTypeOK
  <1> HIDE DEF row
  <1>4. job' \in [Jobs -> Row] /\ job'[j] = row /\ \A i \in Jobs : i # j => job'[i] = job[i]
    BY <1>2, <1>3, OneRow
  <1>5. \A i \in Jobs : job[i].uploaded \in Nat BY RequestTypes
  <1>6. RowsKnown' BY <1>2, <1>4 DEF ServerInv, RowsKnown, Stands, Sighted, Status
  <1>7. Grows BY <1>2, <1>4, <1>5 DEF Grows, Status
  <1> QED BY <1>2, <1>4, <1>6, <1>7 DEF Status

-----------------------------------------------------------------------------
(* The server: every operation keeps its invariant, and rows grow. *)

(* Handlers stand where they stood while needed jobs keep their chunks.     *)
LEMMA StandingKeeps ==
    ASSUME ServerTypes, ServerTypes', ServerInv, kind' = kind, Grows, Keeps,
           admitted' \subseteq admitted, writing' \subseteq writing
    PROVE  AdmittedStand' /\ WritesStand' /\ ConfirmedIsHeld'
  <1>1. \A j \in Jobs : job[j].uploaded \in Nat /\ job'[j].uploaded \in Nat
    <2>1. \A j \in Jobs : job[j] \in Row /\ job'[j] \in Row BY DEF ServerTypes, ServerTypeOK
    <2> QED BY <2>1, Sizes DEF Row
  <1>2. \A r \in admitted \cup writing : r.job \in Jobs /\ r.at \in Chunks BY RequestTypes
  <1>3. ASSUME NEW r \in admitted \cup writing
        PROVE  Owned(r)' /\ r.at <= job'[r.job].uploaded
    <2>1. r.job \in Jobs /\ r.at \in Nat /\ Owned(r) /\ r.at <= job[r.job].uploaded
      BY <1>2, Sizes DEF ServerInv, AdmittedStand, WritesStand
    <2>2. Status(r.job)' # "none" /\ job'[r.job].file = job[r.job].file /\ job[r.job].uploaded <= job'[r.job].uploaded
      BY <2>1 DEF Grows, Owned
    <2>3. Owned(r)' BY <2>1, <2>2 DEF Owned, Same, Sighted
    <2> QED BY <1>1, <2>1, <2>2, <2>3
  <1>4. ASSUME NEW j \in Jobs, Status(j) # "none", Kept(j)', NEW c \in Chunks, Held(j, c)
        PROVE  Held(j, c)'
    <2>1. disk'[j] = disk[j] /\ job'[j].file = job[j].file BY <1>4 DEF Keeps, Grows
    <2> QED BY <1>4, <2>1 DEF Held, Same, Sighted
  <1>5. AdmittedStand' BY <1>3 DEF ServerInv, AdmittedStand
  <1>6. WritesStand'
    <2>1. SUFFICES ASSUME NEW r \in writing', Kept(r.job)' PROVE Held(r.job, r.at)'
      BY <1>3 DEF WritesStand
    <2>2. r \in writing /\ r.job \in Jobs /\ r.at \in Chunks /\ Status(r.job) # "none"
      BY <1>2 DEF ServerInv, WritesStand, Owned
    <2>3. Held(r.job, r.at) BY <2>1, <2>2 DEF Keeps, ServerInv, WritesStand
    <2> QED BY <1>4, <2>1, <2>2, <2>3
  <1>7. ConfirmedIsHeld'
    <2>1. SUFFICES ASSUME NEW j \in Jobs, Kept(j)', NEW c \in Chunks, c < job'[j].uploaded
                   PROVE  Held(j, c)'
      BY DEF ConfirmedIsHeld
    <2>2. Status(j) # "none"
      <3>1. c \in Nat BY Sizes
      <3> QED BY <2>1, <3>1 DEF Keeps
    <2>3. Kept(j) /\ job'[j].uploaded = job[j].uploaded BY <2>1, <2>2 DEF Keeps
    <2>4. Held(j, c) BY <2>1, <2>3 DEF ServerInv, ConfirmedIsHeld
    <2> QED BY <1>4, <2>1, <2>2, <2>4
  <1> QED BY <1>5, <1>6, <1>7

(* A status that changes does not take a job's chunks from it.              *)
LEMMA StatusStands ==
    ASSUME ServerTypes, ServerTypes', ServerInv, kind' = kind, Grows, NEW j \in Jobs,
           admitted' \subseteq admitted, writing' \subseteq writing,
           Status(j) # "none", job'[j].uploaded = job[j].uploaded,
           \A i \in Jobs : i # j => job'[i] = job[i] /\ disk'[i] = disk[i],
           Kept(j)' => Kept(j) /\ disk'[j] = disk[j]
    PROVE  AdmittedStand' /\ WritesStand' /\ ConfirmedIsHeld'
  <1>1. ASSUME NEW i \in Jobs, i # j, Kept(i)'
        PROVE  IF Status(i) = "none" THEN job'[i].uploaded = 0
               ELSE Kept(i) /\ disk'[i] = disk[i] /\ job'[i].uploaded = job[i].uploaded
    <2>1. job'[i] = job[i] /\ disk'[i] = disk[i] BY <1>1
    <2>2. CASE Status(i) = "none" BY <2>1, <2>2 DEF ServerInv, RowsKnown, NoRow
    <2>3. CASE Status(i) # "none" BY <1>1, <2>1, <2>3 DEF Kept, Status
    <2> QED BY <2>2, <2>3
  <1>2. Keeps BY <1>1 DEF Keeps
  <1> QED BY <1>2, StandingKeeps

(* Completing an archive or a JSON upload under the lock keeps the server's
   invariant: what is queued is whole. *)
LEMMA EnqueueKeeps ==
    ASSUME ServerTypes, ServerInv, NEW j \in Jobs, Enqueue(j)
    PROVE  ServerTypes' /\ ServerInv' /\ Grows
  <1>1. /\ kind # "catalog" /\ ~Locked(j) /\ Status(j) = "uploading" /\ job[j].uploaded = Length
        /\ job' = [job EXCEPT ![j].status = "queued"]
        /\ UNCHANGED <<kind, disk, admitted, writing, validating, cancels>>
    BY DEF Enqueue, Whole
  <1>2. /\ job' \in [Jobs -> Row] /\ RowsKnown' /\ Grows
        /\ Status(j)' = "queued" /\ job'[j].uploaded = job[j].uploaded /\ job'[j].file = job[j].file
        /\ \A i \in Jobs : i # j => job'[i] = job[i]
    BY <1>1, StatusChanges DEF Statuses
  <1>3. ServerTypes' BY <1>1, <1>2 DEF ServerTypes, ServerTypeOK
  <1>4. Kept(j) BY <1>1 DEF Kept
  <1>5. AdmittedStand' /\ WritesStand' /\ ConfirmedIsHeld' BY <1>1, <1>2, <1>3, <1>4, StatusStands
  <1>6. CancelsRead' BY <1>1, <1>2, RequestTypes DEF ServerInv, CancelsRead, Status, Locked
  <1>7. QueuedFull' BY <1>1, <1>2 DEF ServerInv, QueuedFull, Status
  <1>8. ValidatingFull' BY <1>1, <1>2, RequestTypes DEF ServerInv, ValidatingFull, Status
  <1>9. SingleLive' BY <1>1, <1>2 DEF ServerInv, SingleLive, InStatus, Live, Status
  <1> QED BY <1>2, <1>3, <1>5, <1>6, <1>7, <1>8, <1>9 DEF ServerInv

(* A catalogue whose unpacking begins is whole, and stays so. *)
LEMMA BeginValidationKeeps ==
    ASSUME ServerTypes, ServerInv, NEW v \in [tab : Tabs, job : Jobs], BeginValidation(v)
    PROVE  ServerTypes' /\ ServerInv' /\ Grows
  <1>1. v.job \in Jobs OBVIOUS
  <1>2. /\ kind = "catalog" /\ Status(v.job) = "uploading" /\ job[v.job].uploaded = Length
        /\ validating' = validating \cup {v} /\ UNCHANGED <<kind, job, disk, admitted, writing, cancels>>
    BY DEF BeginValidation, Whole
  <1>3. ServerTypes' BY <1>2 DEF ServerTypes, ServerTypeOK
  <1>4. ValidatingFull' BY <1>2 DEF ServerInv, ValidatingFull, Status
  <1>5. Grows BY <1>2, RequestTypes DEF Grows, Status
  <1>6. Kept(v.job) BY <1>2 DEF Kept
  <1>7. AdmittedStand' /\ WritesStand' /\ ConfirmedIsHeld' BY <1>1, <1>2, <1>3, <1>5, <1>6, StatusStands
  <1>8. RowsKnown' /\ CancelsRead' /\ QueuedFull' /\ SingleLive'
    BY <1>2 DEF ServerInv, RowsKnown, CancelsRead, QueuedFull, SingleLive, Stands, Sighted, InStatus, Status
  <1> QED BY <1>3, <1>4, <1>5, <1>7, <1>8 DEF ServerInv

(* The catalogue is marked ready although it may have been cancelled.       *)
LEMMA MarkReadyKeeps ==
    ASSUME ServerTypes, ServerInv, NEW v \in validating, MarkReady(v)
    PROVE  ServerTypes' /\ ServerInv' /\ Grows
  <1> DEFINE j == v.job
  <1>1. /\ j \in Jobs /\ kind = "catalog" /\ Status(j) # "none" /\ job[j].uploaded = Length
        /\ validating' = validating \ {v} /\ job' = [job EXCEPT ![j].status = "queued"]
        /\ UNCHANGED <<kind, disk, admitted, writing, cancels>>
    BY RequestTypes DEF MarkReady, ServerInv, ValidatingFull
  <1> HIDE DEF j
  <1>2. /\ job' \in [Jobs -> Row] /\ RowsKnown' /\ Grows
        /\ Status(j)' = "queued" /\ job'[j].uploaded = job[j].uploaded /\ job'[j].file = job[j].file
        /\ \A i \in Jobs : i # j => job'[i] = job[i]
    BY <1>1, StatusChanges DEF Statuses
  <1>3. ServerTypes' BY <1>1, <1>2 DEF ServerTypes, ServerTypeOK
  <1>4. Kept(j) BY <1>1 DEF Kept
  <1>5. AdmittedStand' /\ WritesStand' /\ ConfirmedIsHeld' BY <1>1, <1>2, <1>3, <1>4, StatusStands
  <1>6. CancelsRead' /\ SingleLive'
    BY <1>1, <1>2, RequestTypes DEF ServerInv, CancelsRead, SingleLive, Status
  <1>7. QueuedFull' BY <1>1, <1>2 DEF ServerInv, QueuedFull, Status
  <1>8. ValidatingFull' BY <1>1, <1>2, RequestTypes DEF ServerInv, ValidatingFull, Status
  <1> QED BY <1>2, <1>3, <1>5, <1>6, <1>7, <1>8 DEF ServerInv

(* Handlers that only leave, and cancels that only begin.                   *)
LEMMA ForgettingKeeps ==
    ASSUME ServerTypes, ServerInv, UNCHANGED <<kind, job, disk>>, admitted' \subseteq admitted,
           writing' \subseteq writing, validating' \subseteq validating,
           \/ cancels' \subseteq cancels
           \/ \E j \in Jobs : Cancellable(j) /\ cancels' = cancels \cup {[job |-> j, read |-> Status(j)]}
    PROVE  ServerTypes' /\ ServerInv' /\ Grows
  <1>1. Grows BY RequestTypes DEF Grows, Status
  <1>2. \A j \in Jobs : Status(j) \in Statuses BY RequestTypes DEF Status, Row
  <1>3. ServerTypes' BY <1>2 DEF ServerTypes, ServerTypeOK
  <1>4. RowsKnown' /\ QueuedFull' /\ SingleLive' /\ ValidatingFull'
    BY DEF ServerInv, RowsKnown, QueuedFull, SingleLive, ValidatingFull, Stands, Sighted, InStatus, Status
  <1>5. Keeps BY DEF ServerInv, RowsKnown, NoRow, Keeps, Kept, Status
  <1>6. AdmittedStand' /\ WritesStand' /\ ConfirmedIsHeld' BY <1>1, <1>3, <1>5, StandingKeeps
  <1>7. CancelsRead'
    <2>1. CASE cancels' \subseteq cancels
      BY <2>1 DEF ServerInv, CancelsRead, Status
    <2>2. ASSUME NEW j \in Jobs, Cancellable(j), cancels' = cancels \cup {[job |-> j, read |-> Status(j)]}
          PROVE  CancelsRead'
      <3>1. Status(j) # "none" /\ (kind = "archive" => Status(j) \in {"uploading", "queued"})
        BY <2>2 DEF Cancellable, Live
      <3> QED BY <2>2, <3>1 DEF ServerInv, CancelsRead, Status
    <2> QED BY <2>1, <2>2
  <1> QED BY <1>1, <1>3, <1>4, <1>6, <1>7 DEF ServerInv

(* A worker that takes a queued job touches neither file nor offset. *)
LEMMA WorkerTakesKeeps ==
    ASSUME ServerTypes, ServerInv, NEW j \in Jobs, WorkerTakes(j)
    PROVE  ServerTypes' /\ ServerInv' /\ Grows
  <1>1. /\ Status(j) = "queued" /\ job' = [job EXCEPT ![j].status = "running"]
        /\ UNCHANGED <<kind, disk, admitted, writing, validating, cancels>>
    BY DEF WorkerTakes
  <1>2. /\ job' \in [Jobs -> Row] /\ RowsKnown' /\ Grows
        /\ Status(j)' = "running" /\ job'[j].uploaded = job[j].uploaded /\ job'[j].file = job[j].file
        /\ \A i \in Jobs : i # j => job'[i] = job[i]
    BY <1>1, StatusChanges DEF Statuses
  <1>3. ServerTypes' BY <1>1, <1>2 DEF ServerTypes, ServerTypeOK
  <1>4. Kept(j) BY <1>1 DEF Kept
  <1>5. AdmittedStand' /\ WritesStand' /\ ConfirmedIsHeld' BY <1>1, <1>2, <1>3, <1>4, StatusStands
  <1>6. CancelsRead' BY <1>1, <1>2, RequestTypes DEF ServerInv, CancelsRead, Status
  <1>7. QueuedFull' BY <1>1, <1>2 DEF ServerInv, QueuedFull, Status
  <1>8. ValidatingFull' BY <1>1, <1>2, RequestTypes DEF ServerInv, ValidatingFull, Status
  <1>9. SingleLive' BY <1>1, <1>2 DEF ServerInv, SingleLive, InStatus, Live, Status
  <1> QED BY <1>2, <1>3, <1>5, <1>6, <1>7, <1>8, <1>9 DEF ServerInv

(* The file of one job is removed.                                          *)
LEMMA RemovalTypes ==
    ASSUME ServerTypes, NEW j \in Jobs, disk' = disk \/ disk' = [disk EXCEPT ![j] = Removed]
    PROVE  /\ disk' \in [Jobs -> [Chunks -> (SUBSET (Files \cup {Missing})) \ {{}}]]
           /\ \A i \in Jobs : i # j => disk'[i] = disk[i]
  <1>1. disk \in [Jobs -> [Chunks -> (SUBSET (Files \cup {Missing})) \ {{}}]] BY DEF ServerTypes, ServerTypeOK
  <1>2. Removed \in [Chunks -> (SUBSET (Files \cup {Missing})) \ {{}}] BY DEF Removed
  <1> QED BY <1>1, <1>2

(* A status that ends the job, and perhaps its file with it.                *)
LEMMA EndingKeeps ==
    ASSUME ServerTypes, ServerInv, NEW j \in Jobs, Status(j) # "none",
           NEW s \in {"finished", "cancelled"}, job' = [job EXCEPT ![j].status = s],
           s = "finished" => Status(j) = "running",
           \/ disk' = disk
           \/ kind # "catalog" /\ disk' = [disk EXCEPT ![j] = Removed],
           cancels' \subseteq cancels, UNCHANGED <<kind, admitted, writing, validating>>
    PROVE  ServerTypes' /\ ServerInv' /\ Grows
  <1>1. /\ disk' \in [Jobs -> [Chunks -> (SUBSET (Files \cup {Missing})) \ {{}}]]
        /\ \A i \in Jobs : i # j => disk'[i] = disk[i]
    BY RemovalTypes
  <1>2. /\ job' \in [Jobs -> Row] /\ RowsKnown' /\ Grows
        /\ Status(j)' = s /\ job'[j].uploaded = job[j].uploaded /\ job'[j].file = job[j].file
        /\ \A i \in Jobs : i # j => job'[i] = job[i]
    BY StatusChanges DEF Statuses
  <1>3. ServerTypes' BY <1>1, <1>2 DEF ServerTypes, ServerTypeOK
  <1>4. Kept(j)' => Kept(j) /\ disk'[j] = disk[j] BY <1>2 DEF Kept
  <1>5. AdmittedStand' /\ WritesStand' /\ ConfirmedIsHeld' BY <1>1, <1>2, <1>3, <1>4, StatusStands
  <1>6. CancelsRead' BY <1>2, RequestTypes DEF ServerInv, CancelsRead, Status
  <1>7. QueuedFull' BY <1>2 DEF ServerInv, QueuedFull, Status
  <1>8. ValidatingFull' BY <1>2, RequestTypes DEF ServerInv, ValidatingFull, Status
  <1>9. SingleLive' BY <1>2 DEF ServerInv, SingleLive, InStatus, Live, Status
  <1> QED BY <1>2, <1>3, <1>5, <1>6, <1>7, <1>8, <1>9 DEF ServerInv

(* A worker that ends may delete the file of a job nobody needs any more. *)
LEMMA WorkerEndsKeeps ==
    ASSUME ServerTypes, ServerInv, NEW j \in Jobs, WorkerEnds(j)
    PROVE  ServerTypes' /\ ServerInv' /\ Grows
  <1>1. cancels' = cancels BY DEF WorkerEnds
  <1> QED BY <1>1, EndingKeeps DEF WorkerEnds

(* A cancel that comes too late for an archive removes the file of a job    *)
(* that a worker has, or that is over.                                      *)
LEMMA LateCancelKeeps ==
    ASSUME ServerTypes, ServerInv, NEW x \in cancels, kind = "archive", Status(x.job) # x.read,
           job' = job, disk' = [disk EXCEPT ![x.job] = Removed], cancels' = cancels \ {x},
           UNCHANGED <<kind, admitted, writing, validating>>
    PROVE  ServerTypes' /\ ServerInv' /\ Grows
  <1>1. x.job \in Jobs /\ Status(x.job) \notin {"uploading", "queued"} /\ Status(x.job) # "none"
    BY RequestTypes DEF ServerInv, CancelsRead
  <1>2. /\ disk' \in [Jobs -> [Chunks -> (SUBSET (Files \cup {Missing})) \ {{}}]]
        /\ \A i \in Jobs : i # x.job => disk'[i] = disk[i]
    BY <1>1, RemovalTypes
  <1>3. ServerTypes' BY <1>2 DEF ServerTypes, ServerTypeOK
  <1>4. Grows BY RequestTypes DEF Grows, Status
  <1>5. ~Kept(x.job)' BY <1>1 DEF Kept, Status
  <1>6. AdmittedStand' /\ WritesStand' /\ ConfirmedIsHeld' BY <1>1, <1>2, <1>3, <1>4, <1>5, StatusStands
  <1>7. RowsKnown' /\ CancelsRead' /\ QueuedFull' /\ SingleLive' /\ ValidatingFull'
    BY DEF ServerInv, RowsKnown, CancelsRead, QueuedFull, SingleLive, ValidatingFull, Stands, Sighted,
           InStatus, Status
  <1> QED BY <1>3, <1>4, <1>6, <1>7 DEF ServerInv

(* A cancel, whatever status it read, takes no file from a job that is
   still needed. *)
LEMMA CancelKeeps ==
    ASSUME ServerTypes, ServerInv, NEW x \in cancels, Cancel(x)
    PROVE  ServerTypes' /\ ServerInv' /\ Grows
  <1>1. CASE kind = "archive" /\ Status(x.job) # x.read
    BY <1>1, LateCancelKeeps DEF Cancel
  <1>2. CASE ~(kind = "archive" /\ Status(x.job) # x.read)
    <2>1. x.job \in Jobs /\ Status(x.job) # "none" BY RequestTypes DEF ServerInv, CancelsRead
    <2>2. job' = [job EXCEPT ![x.job].status = "cancelled"] BY <1>2 DEF Cancel
    <2>3. disk' = disk \/ (kind # "catalog" /\ disk' = [disk EXCEPT ![x.job] = Removed])
      BY DEF Cancel
    <2>4. cancels' \subseteq cancels /\ UNCHANGED <<kind, admitted, writing, validating>> BY DEF Cancel
    <2> QED BY <2>1, <2>2, <2>3, <2>4, EndingKeeps
  <1> QED BY <1>1, <1>2

(* A handler of the catalogue that is let through stands at the offset. *)
LEMMA AdmitChunkKeeps ==
    ASSUME ServerTypes, ServerInv, NEW r \in Request, Owned(r), AdmitChunk(r)
    PROVE  ServerTypes' /\ ServerInv' /\ Grows
  <1>1. /\ r.job \in Jobs /\ r.at \in Nat /\ r.at = job[r.job].uploaded /\ kind = "catalog"
        /\ admitted' = admitted \cup {r} /\ UNCHANGED <<kind, job, disk, writing, validating, cancels>>
    BY Sizes DEF AdmitChunk, Request, Expected
  <1>2. ServerTypes' BY <1>1 DEF ServerTypes, ServerTypeOK
  <1>3. Grows BY <1>1, RequestTypes DEF Grows, Status
  <1>4. AdmittedStand' BY <1>1 DEF ServerInv, AdmittedStand, Owned, Same, Sighted, Status
  <1>5. WritesStand' /\ ConfirmedIsHeld'
    BY <1>1 DEF ServerInv, WritesStand, ConfirmedIsHeld, Held, Owned, Same, Sighted, Kept, Status
  <1>6. RowsKnown' /\ CancelsRead' /\ QueuedFull' /\ SingleLive' /\ ValidatingFull'
    BY <1>1 DEF ServerInv, RowsKnown, CancelsRead, QueuedFull, SingleLive, ValidatingFull, Stands, Sighted,
                InStatus, Status
  <1> QED BY <1>2, <1>3, <1>4, <1>5, <1>6 DEF ServerInv

(* Who may write the file carries its job's fingerprint, at a confirmed     *)
(* chunk or the next one: at a confirmed one only of a catalogue.           *)
LEMMA MayWriteStands ==
    ASSUME ServerTypes, ServerInv, NEW r \in Request, Owned(r), MayWrite(r)
    PROVE  /\ r.job \in Jobs /\ r.at \in Chunks /\ r.at \in Nat /\ r.file \in Files
           /\ r.at <= job[r.job].uploaded
           /\ kind = "catalog" \/ r.at = job[r.job].uploaded
  <1>1. r.job \in Jobs /\ r.at \in Chunks /\ r.at \in Nat /\ r.file \in Files BY Sizes DEF Request
  <1>2. CASE kind = "catalog" BY <1>1, <1>2 DEF MayWrite, ServerInv, AdmittedStand
  <1>3. CASE kind # "catalog" BY <1>1, <1>3 DEF MayWrite, Expected
  <1> QED BY <1>1, <1>2, <1>3

(* What is written, or torn, leaves every held chunk held: it comes from a  *)
(* file of the job's fingerprint.                                           *)
LEMMA PieceHeld ==
    ASSUME ServerTypes, ServerInv, NEW r \in Request, Owned(r), NEW piece,
           piece = {r.file} \/ piece = disk[r.job][r.at] \cup {r.file},
           disk' = [disk EXCEPT ![r.job][r.at] = piece], UNCHANGED <<kind, job>>
    PROVE  /\ disk' \in [Jobs -> [Chunks -> (SUBSET (Files \cup {Missing})) \ {{}}]]
           /\ \A i \in Jobs, c \in Chunks : Held(i, c) => Held(i, c)'
           /\ piece = {r.file} => Held(r.job, r.at)'
           /\ \A i \in Jobs, c \in Chunks : i # r.job \/ c # r.at => disk'[i][c] = disk[i][c]
           /\ disk'[r.job][r.at] = piece
  <1>1. disk \in [Jobs -> [Chunks -> (SUBSET (Files \cup {Missing})) \ {{}}]] BY DEF ServerTypes, ServerTypeOK
  <1>2. r.job \in Jobs /\ r.at \in Chunks /\ r.file \in Files BY DEF Request
  <1>3. disk[r.job][r.at] \in (SUBSET (Files \cup {Missing})) \ {{}} BY <1>1, <1>2
  <1>4. piece \in (SUBSET (Files \cup {Missing})) \ {{}} BY <1>2, <1>3
  <1>5. /\ disk' \in [Jobs -> [Chunks -> (SUBSET (Files \cup {Missing})) \ {{}}]]
        /\ disk'[r.job][r.at] = piece
        /\ \A i \in Jobs, c \in Chunks : i # r.job \/ c # r.at => disk'[i][c] = disk[i][c]
    BY <1>1, <1>2, <1>4
  <1>6. Same(r.file, job[r.job].file) BY DEF Owned
  <1>7. piece = {r.file} => Held(r.job, r.at)' BY <1>2, <1>5, <1>6 DEF Held, Same, Sighted
  <1>8. ASSUME NEW i \in Jobs, NEW c \in Chunks, Held(i, c) PROVE Held(i, c)'
    <2>1. CASE i # r.job \/ c # r.at BY <1>5, <1>8, <2>1 DEF Held, Same, Sighted
    <2>2. CASE i = r.job /\ c = r.at
      <3>1. \A f \in piece : f = r.file \/ f \in disk[i][c] BY <2>2
      <3>2. disk'[i][c] = piece BY <1>5, <2>2
      <3>3. \A f \in piece : f \in Files /\ Same(f, job[i].file) BY <1>2, <1>6, <1>8, <2>2, <3>1 DEF Held
      <3> QED BY <3>2, <3>3 DEF Held, Same, Sighted
    <2> QED BY <2>1, <2>2
  <1> QED BY <1>5, <1>7, <1>8

(* Handlers and confirmed chunks stand while held chunks stay held.         *)
LEMMA HeldStands ==
    ASSUME ServerTypes, ServerInv, UNCHANGED <<kind, job, validating, cancels>>,
           admitted' \subseteq admitted,
           \A i \in Jobs, c \in Chunks : Held(i, c) => Held(i, c)',
           \A w \in writing' : \/ w \in writing
                               \/ /\ w \in Request /\ Owned(w) /\ w.at <= job[w.job].uploaded
                                  /\ Held(w.job, w.at)'
    PROVE  ServerInv' /\ Grows
  <1>1. AdmittedStand' BY DEF ServerInv, AdmittedStand, Owned, Same, Sighted, Status
  <1>2. WritesStand'
    <2>1. SUFFICES ASSUME NEW w \in writing'
                   PROVE  Owned(w) /\ w.at <= job[w.job].uploaded /\ (Kept(w.job) => Held(w.job, w.at)')
      BY DEF WritesStand, Owned, Same, Sighted, Kept, Status
    <2>2. CASE w \in writing
      <3>1. w.job \in Jobs /\ w.at \in Chunks BY <2>2, RequestTypes
      <3> QED BY <2>2, <3>1 DEF ServerInv, WritesStand
    <2> QED BY <2>2
  <1>3. ConfirmedIsHeld'
    <2>1. SUFFICES ASSUME NEW i \in Jobs, Kept(i), NEW c \in Chunks, c < job[i].uploaded PROVE Held(i, c)'
      BY DEF ConfirmedIsHeld, Kept, Status
    <2> QED BY <2>1 DEF ServerInv, ConfirmedIsHeld
  <1>4. RowsKnown' /\ CancelsRead' /\ QueuedFull' /\ SingleLive' /\ ValidatingFull'
    BY DEF ServerInv, RowsKnown, CancelsRead, QueuedFull, SingleLive, ValidatingFull, Stands, Sighted,
           InStatus, Status
  <1>5. Grows BY RequestTypes DEF Grows, Status
  <1> QED BY <1>1, <1>2, <1>3, <1>4, <1>5 DEF ServerInv

(* What a handler writes stands beside what others have written.            *)
LEMMA WriteChunkKeeps ==
    ASSUME ServerTypes, ServerInv, NEW r \in Request, Owned(r), WriteChunk(r)
    PROVE  ServerTypes' /\ ServerInv' /\ Grows
  <1>1. /\ disk' = [disk EXCEPT ![r.job][r.at] = {r.file}] /\ writing' = writing \cup {r}
        /\ admitted' = admitted \ {r} /\ UNCHANGED <<kind, job, validating, cancels>>
    BY DEF WriteChunk
  <1>2. r.at <= job[r.job].uploaded BY MayWriteStands DEF WriteChunk
  <1>3. /\ disk' \in [Jobs -> [Chunks -> (SUBSET (Files \cup {Missing})) \ {{}}]]
        /\ \A i \in Jobs, c \in Chunks : Held(i, c) => Held(i, c)'
        /\ Held(r.job, r.at)'
    BY <1>1, PieceHeld
  <1>4. ServerTypes' BY <1>1, <1>3 DEF ServerTypes, ServerTypeOK
  <1>5. ServerInv' /\ Grows BY <1>1, <1>2, <1>3, HeldStands
  <1> QED BY <1>4, <1>5

(* A torn chunk tears no finished write: what is written over it is a piece *)
(* of the same fingerprint.                                                 *)
LEMMA TearChunkKeeps ==
    ASSUME ServerTypes, ServerInv, NEW r \in Request, Owned(r), TearChunk(r)
    PROVE  ServerTypes' /\ ServerInv' /\ Grows
  <1> DEFINE piece == disk[r.job][r.at] \cup {r.file}
  <1>1. /\ admitted' = admitted \ {r} /\ UNCHANGED <<kind, job, writing, validating, cancels>>
    BY DEF TearChunk
  <1>2. r.job \in Jobs /\ r.at \in Chunks BY DEF Request
  <1>3. disk \in [Jobs -> [Chunks -> (SUBSET (Files \cup {Missing})) \ {{}}]] BY DEF ServerTypes, ServerTypeOK
  <1>4. disk' = [disk EXCEPT ![r.job][r.at] = piece] BY <1>2, <1>3 DEF TearChunk
  <1>5. /\ disk' \in [Jobs -> [Chunks -> (SUBSET (Files \cup {Missing})) \ {{}}]]
        /\ \A i \in Jobs, c \in Chunks : Held(i, c) => Held(i, c)'
    BY <1>1, <1>4, PieceHeld
  <1>6. ServerTypes' BY <1>1, <1>5 DEF ServerTypes, ServerTypeOK
  <1>7. ServerInv' /\ Grows BY <1>1, <1>5, HeldStands
  <1> QED BY <1>6, <1>7

(* The offset grows by the chunk the handler stands on, which is stored.    *)
LEMMA ConfirmChunkKeeps ==
    ASSUME ServerTypes, ServerInv, NEW r \in writing, ConfirmChunk(r)
    PROVE  ServerTypes' /\ ServerInv' /\ Grows
  <1>1. CASE ~UpdateMatches(r)
    <2>1. UNCHANGED <<kind, job, disk>> /\ admitted' \subseteq admitted /\ writing' \subseteq writing /\ validating' \subseteq validating
          /\ cancels' \subseteq cancels /\ admitted' \subseteq admitted
      BY <1>1 DEF ConfirmChunk
    <2> QED BY <2>1, ForgettingKeeps
  <1>2. CASE UpdateMatches(r)
    <2> DEFINE j == r.job  row == [job[r.job] EXCEPT !.uploaded = r.at + 1]
    <2>1. /\ j \in Jobs /\ r.at \in Chunks /\ job[j].uploaded = r.at
          /\ Status(j) # "none" /\ Owned(r)
          /\ Kept(j) => Held(j, r.at)
          /\ kind # "catalog" => Status(j) = "uploading"
      BY <1>2, RequestTypes DEF UpdateMatches, ServerInv, WritesStand, Owned
    <2>2. /\ job' = [job EXCEPT ![j].uploaded = r.at + 1]
          /\ writing' = writing \ {r} /\ UNCHANGED <<kind, disk, admitted, validating, cancels>>
      BY <1>2 DEF ConfirmChunk
    <2>3. job' = [job EXCEPT ![j] = row] BY <2>1, <2>2 DEF ServerTypes, ServerTypeOK
    <2>4. r.at + 1 \in 0..Length BY <2>1, Sizes DEF Chunks
    <2>5. job[j] \in Row BY <2>1, RequestTypes
    <2>6. row \in Row /\ row.status = job[j].status /\ row.file = job[j].file /\ row.print = job[j].print
          /\ row.uploaded = r.at + 1
      BY <2>4, <2>5, RowEdits DEF Row
    <2> HIDE DEF row, j
    <2>7. job' \in [Jobs -> Row] /\ job'[j] = row /\ \A i \in Jobs : i # j => job'[i] = job[i]
      BY <2>1, <2>3, <2>6, OneRow
    <2>8. \A i \in Jobs : Status(i)' = Status(i) /\ job'[i].file = job[i].file /\ job'[i].print = job[i].print
      BY <2>6, <2>7 DEF Status
    <2>9. \A i \in Jobs : job[i].uploaded \in Nat /\ job[i].uploaded <= job'[i].uploaded
      BY <2>1, <2>6, <2>7, Sizes, RequestTypes
    <2>10. \A i \in Jobs : Kept(i)' <=> Kept(i) BY <2>2, <2>8 DEF Kept
    <2>11. ServerTypes' BY <2>2, <2>7 DEF ServerTypes, ServerTypeOK
    <2>12. RowsKnown'
      <3>1. SUFFICES ASSUME NEW i \in Jobs
                     PROVE  IF Status(i)' = "none" THEN job'[i] = NoRow
                            ELSE job'[i].file \in Files /\ Stands(job[i].print, job[i].file)
        BY <2>2, <2>8 DEF RowsKnown, Stands, Sighted
      <3>2. Status(i) = "none" => i # j BY <2>1
      <3> QED BY <2>7, <2>8, <3>2 DEF ServerInv, RowsKnown
    <2>13. \A i \in Jobs, c \in Chunks : Held(i, c)' <=> Held(i, c)
      BY <2>2, <2>8 DEF Held, Same, Sighted
    <2>14. WritesStand' /\ AdmittedStand'
      <3>1. ASSUME NEW w \in admitted \cup writing PROVE Owned(w)' /\ w.at <= job'[w.job].uploaded
        <4>1. w.job \in Jobs /\ w.at \in Nat BY RequestTypes, Sizes
        <4>2. Owned(w) /\ w.at <= job[w.job].uploaded BY DEF ServerInv, WritesStand, AdmittedStand
        <4>3. job'[w.job] \in Row BY <4>1, <2>7
        <4>4. job'[w.job].uploaded \in Nat BY <4>3, Sizes DEF Row
        <4>5. Owned(w)' BY <4>1, <4>2, <2>2, <2>8 DEF Owned, Same, Sighted
        <4> QED BY <4>1, <4>2, <4>4, <4>5, <2>9
      <3>2. ASSUME NEW w \in writing, Kept(w.job)' PROVE Held(w.job, w.at)'
        <4>1. w.job \in Jobs /\ w.at \in Chunks BY RequestTypes
        <4>2. Held(w.job, w.at) BY <3>2, <4>1, <2>10 DEF ServerInv, WritesStand
        <4> QED BY <4>1, <4>2, <2>13
      <3>3. kind' = kind /\ admitted' = admitted /\ writing' \subseteq writing BY <2>2
      <3>4. AdmittedStand' BY <3>1, <3>3 DEF ServerInv, AdmittedStand
      <3> QED BY <3>1, <3>2, <3>3, <3>4 DEF WritesStand
    <2>15. CancelsRead' /\ SingleLive'
      BY <2>2, <2>8, RequestTypes DEF ServerInv, CancelsRead, SingleLive, InStatus
    <2>16. QueuedFull' /\ ValidatingFull'
      <3>1. job[j].uploaded # Length BY <2>1, Sizes DEF Chunks
      <3> QED BY <2>1, <2>2, <2>7, <2>8, <3>1, RequestTypes DEF ServerInv, QueuedFull, ValidatingFull
    <2>17. ConfirmedIsHeld'
      <3>1. SUFFICES ASSUME NEW i \in Jobs, Kept(i), NEW c \in Chunks, c < job'[i].uploaded
                     PROVE  Held(i, c)
        BY <2>10, <2>13 DEF ConfirmedIsHeld
      <3>2. CASE c < job[i].uploaded BY <3>1, <3>2 DEF ServerInv, ConfirmedIsHeld
      <3>3. CASE ~(c < job[i].uploaded)
        <4>1. i = j /\ c = r.at BY <3>1, <3>3, <2>1, <2>6, <2>7, <2>9, Sizes
        <4> QED BY <4>1, <3>1, <2>1
      <3> QED BY <3>2, <3>3
    <2>18. Grows BY <2>8, <2>9 DEF Grows
    <2> QED BY <2>11, <2>12, <2>14, <2>15, <2>16, <2>17, <2>18 DEF ServerInv
  <1> QED BY <1>1, <1>2

(* A row that was not there.                                                *)
LEMMA NewRowAppears ==
    ASSUME ServerTypes, ServerInv, NEW j \in Jobs, Status(j) = "none", NEW file \in Files,
           NEW print \in Files \cup {Blank}, Stands(print, file), kind' = kind,
           job' = [job EXCEPT ![j] = NewRow(file, print)]
    PROVE  /\ job' \in [Jobs -> Row] /\ job'[j] = NewRow(file, print)
           /\ \A i \in Jobs : i # j => job'[i] = job[i]
           /\ RowsKnown' /\ Grows
  <1>1. job[j] \in Row BY RequestTypes
  <1>2. NewRow(file, print) \in Row BY <1>1, RowEdits
  <1>3. job' \in [Jobs -> Row] /\ job'[j] = NewRow(file, print) /\ \A i \in Jobs : i # j => job'[i] = job[i]
    BY <1>2, OneRow
  <1>4. RowsKnown' BY <1>3 DEF ServerInv, RowsKnown, Stands, Sighted, Status, NewRow
  <1>5. Grows BY <1>3, RequestTypes DEF Grows, Status
  <1> QED BY <1>3, <1>4, <1>5

(* A new row starts with an empty file and no confirmed chunk. *)
LEMMA CreateKeeps ==
    ASSUME ServerTypes, ServerInv, NEW j \in Jobs, NEW file \in Files,
           NEW print \in Files \cup {Blank}, Stands(print, file), Create(j, file, print),
           UNCHANGED <<kind, admitted, writing, validating, cancels>>
    PROVE  ServerTypes' /\ ServerInv' /\ Grows
  <1>1. Status(j) = "none" /\ (kind # "catalog" => InStatus(Live) = {})
        /\ job' = [job EXCEPT ![j] = NewRow(file, print)] /\ disk' = disk
    BY DEF Create, InStatus
  <1>2. /\ job' \in [Jobs -> Row] /\ job'[j] = NewRow(file, print)
        /\ \A i \in Jobs : i # j => job'[i] = job[i]
        /\ RowsKnown' /\ Grows
    BY <1>1, NewRowAppears
  <1>3. ServerTypes' BY <1>1, <1>2 DEF ServerTypes, ServerTypeOK
  <1>4. AdmittedStand' /\ WritesStand' /\ ConfirmedIsHeld'
    <2>1. ASSUME NEW i \in Jobs, Status(i) # "none" PROVE job'[i] = job[i] BY <1>1, <1>2, <2>1
    <2>2. ASSUME NEW i \in Jobs, Status(i) = "none" PROVE job'[i].uploaded = 0
      BY <1>2, <2>2 DEF ServerInv, RowsKnown, NewRow, NoRow
    <2>3. \A i \in Jobs : Status(i) # "none" /\ Kept(i)' => Kept(i) BY <2>1 DEF Kept, Status
    <2>4. Keeps BY <1>1, <2>1, <2>2, <2>3 DEF Keeps
    <2> QED BY <1>2, <1>3, <2>4, StandingKeeps
  <1>5. CancelsRead' BY <1>1, <1>2, RequestTypes DEF ServerInv, CancelsRead, Status
  <1>6. QueuedFull' BY <1>1, <1>2 DEF ServerInv, QueuedFull, Status, NewRow
  <1>7. ValidatingFull' BY <1>1, <1>2, RequestTypes DEF ServerInv, ValidatingFull, Status
  <1>8. SingleLive' BY <1>1, <1>2 DEF ServerInv, SingleLive, InStatus, Status
  <1> QED BY <1>2, <1>3, <1>4, <1>5, <1>6, <1>7, <1>8 DEF ServerInv

(* Replacing an expired upload drops its file together with its status. *)
LEMMA ReplaceExpiredKeeps ==
    ASSUME ServerTypes, ServerInv, NEW i \in Jobs, NEW j \in Jobs, NEW file \in Files,
           NEW print \in Files \cup {Blank}, Stands(print, file),
           ReplaceExpired(i, j, file, print), UNCHANGED <<kind, admitted, writing, validating, cancels>>
    PROVE  ServerTypes' /\ ServerInv' /\ Grows
  <1> DEFINE old == [job[i] EXCEPT !.status = "cancelled"]
  <1>1. /\ Status(j) = "none" /\ Status(i) = "uploading" /\ kind # "catalog" /\ i # j
        /\ disk' = [disk EXCEPT ![i] = Removed]
        /\ job' = [job EXCEPT ![i].status = "cancelled", ![j] = NewRow(file, print)]
    BY DEF ReplaceExpired, InStatus
  <1>2. job \in [Jobs -> Row] /\ job[i] \in Row BY DEF ServerTypes, ServerTypeOK
  <1>3. job' = [[job EXCEPT ![i] = old] EXCEPT ![j] = NewRow(file, print)] BY <1>1, <1>2
  <1>4. old \in Row /\ old.status = "cancelled" /\ old.file = job[i].file /\ old.print = job[i].print
        /\ old.uploaded = job[i].uploaded
    <2>1. "cancelled" \in Statuses BY DEF Statuses
    <2>2. old \in Row BY <1>2, <2>1, RowEdits
    <2> QED BY <1>2, <2>2 DEF Row
  <1> HIDE DEF old
  <1>5. NewRow(file, print) \in Row BY <1>2, RowEdits
  <1>6. /\ job' \in [Jobs -> Row] /\ job'[i] = old /\ job'[j] = NewRow(file, print)
        /\ \A k \in Jobs : k # i /\ k # j => job'[k] = job[k]
    BY <1>1, <1>2, <1>3, <1>4, <1>5
  <1>7. /\ disk' \in [Jobs -> [Chunks -> (SUBSET (Files \cup {Missing})) \ {{}}]]
        /\ \A k \in Jobs : k # i => disk'[k] = disk[k]
    BY <1>1, RemovalTypes
  <1>8. ServerTypes' BY <1>6, <1>7 DEF ServerTypes, ServerTypeOK
  <1>9. RowsKnown' BY <1>1, <1>4, <1>6 DEF ServerInv, RowsKnown, Stands, Sighted, Status, NewRow
  <1>10. Grows BY <1>1, <1>4, <1>6, RequestTypes DEF Grows, Status
  <1>11. AdmittedStand' /\ WritesStand' /\ ConfirmedIsHeld'
    <2>1. ASSUME NEW k \in Jobs, Kept(k)', Status(k) = "none" PROVE job'[k].uploaded = 0
      BY <1>1, <1>6, <2>1 DEF ServerInv, RowsKnown, NewRow, NoRow
    <2>2. ASSUME NEW k \in Jobs, Kept(k)', Status(k) # "none" PROVE k # i /\ k # j
      BY <1>1, <1>4, <1>6, <2>2 DEF Kept, Status
    <2>3. ASSUME NEW k \in Jobs, Kept(k)', Status(k) # "none"
          PROVE  Kept(k) /\ disk'[k] = disk[k] /\ job'[k].uploaded = job[k].uploaded
      BY <1>6, <1>7, <2>2, <2>3 DEF Kept, Status
    <2>4. Keeps BY <2>1, <2>3 DEF Keeps
    <2> QED BY <1>8, <1>10, <2>4, StandingKeeps
  <1>14. CancelsRead' BY <1>1, <1>4, <1>6, RequestTypes DEF ServerInv, CancelsRead, Status
  <1>15. QueuedFull' BY <1>4, <1>6 DEF ServerInv, QueuedFull, Status, NewRow
  <1>16. ValidatingFull' BY <1>1 DEF ServerInv, ValidatingFull
  <1>17. SingleLive' BY <1>1, <1>4, <1>6 DEF ServerInv, SingleLive, InStatus, Live, Status
  <1> QED BY <1>8, <1>9, <1>10, <1>11, <1>14, <1>15, <1>16, <1>17 DEF ServerInv

(* Resuming may at most change the fingerprint of a row, and is let through *)
(* only if the fingerprints agree.                                          *)
LEMMA ResumeKeeps ==
    ASSUME ServerTypes, ServerInv, NEW j \in Jobs, NEW file \in Files,
           NEW print \in Files \cup {Blank}, Stands(print, file), Resume(j, print),
           UNCHANGED <<kind, admitted, writing, validating, cancels>>
    PROVE  ServerTypes' /\ ServerInv' /\ Grows /\ Same(job[j].file, file)
  <1> DEFINE row == IF kind = "json" THEN [job[j] EXCEPT !.print = print] ELSE job[j]
  <1>1. Status(j) = "uploading" /\ disk' = disk /\ (job[j].print = print \/ job[j].print = Blank)
        /\ job' = [job EXCEPT ![j].print = IF kind = "json" THEN print ELSE @]
    BY DEF Resume, Matches
  <1>2. job[j].file \in Files /\ Stands(job[j].print, job[j].file) BY <1>1 DEF ServerInv, RowsKnown
  <1>3. Same(job[j].file, file) /\ Stands(print, job[j].file)
    <2>1. Sample[job[j].file] # Blank BY <1>2, SampleAssumption, ContentAssumption
    <2> QED BY <1>1, <1>2, <2>1 DEF Same, Stands
  <1>4. job \in [Jobs -> Row] /\ job[j] \in Row BY DEF ServerTypes, ServerTypeOK
  <1>5. job' = [job EXCEPT ![j] = row] BY <1>1, <1>4 DEF Row
  <1>6. row \in Row /\ row.status = job[j].status /\ row.file = job[j].file
        /\ row.uploaded = job[j].uploaded /\ row.print \in {job[j].print, print}
    BY <1>4, RowEdits DEF Row
  <1> HIDE DEF row
  <1>7. job' \in [Jobs -> Row] /\ job'[j] = row /\ \A i \in Jobs : i # j => job'[i] = job[i]
    BY <1>5, <1>6, OneRow
  <1>8. \A i \in Jobs : /\ Status(i)' = Status(i) /\ job'[i].file = job[i].file
                        /\ job'[i].uploaded = job[i].uploaded
    BY <1>6, <1>7 DEF Status
  <1>9. RowsKnown'
    BY <1>1, <1>2, <1>3, <1>6, <1>7 DEF ServerInv, RowsKnown, Stands, Sighted, Status
  <1>10. ServerTypes' BY <1>1, <1>7 DEF ServerTypes, ServerTypeOK
  <1>11. Grows BY <1>8, RequestTypes DEF Grows
  <1>12. CancelsRead' /\ ValidatingFull'
    BY <1>8, RequestTypes DEF ServerInv, CancelsRead, ValidatingFull
  <1>13. QueuedFull' /\ SingleLive' BY <1>8 DEF ServerInv, QueuedFull, SingleLive, InStatus
  <1>14. AdmittedStand' /\ WritesStand' /\ ConfirmedIsHeld'
    <2>1. Keeps BY <1>1, <1>8 DEF ServerInv, RowsKnown, NoRow, Keeps, Kept
    <2> QED BY <1>10, <1>11, <2>1, StandingKeeps
  <1> QED BY <1>3, <1>9, <1>10, <1>11, <1>12, <1>13, <1>14 DEF ServerInv

-----------------------------------------------------------------------------
(* The sessions. *)

(* A session stays with its file and its job, and knows no offset that is   *)
(* not confirmed.                                                           *)
Moves(u) ==
    /\ tab'[u] \in Session /\ tab'[u].file = tab[u].file
    /\ PhaseOK(u)'
    /\ tab'[u].job # NoJob =>
          /\ tab'[u].job = tab[u].job \/ tab[u].pc \in {"idle", "creating"}
          /\ job'[tab'[u].job].status # "none" /\ Same(job'[tab'[u].job].file, tab[u].file)
          /\ tab'[u].offset <= job'[tab'[u].job].uploaded
    /\ tab[u].pc \in Begun \cup Over => tab'[u].pc \in Begun \cup Over
    /\ tab[u].pc \in {"completing"} \cup Over => tab'[u].pc \in {"completing"} \cup Over

(* What a session can have on its way.                                      *)
SentBy(v) == tab[v.tab].pc \in Begun /\ v.job = tab[v.tab].job

(* What is written comes from a request. *)
Fed == \A j \in Jobs, c \in Chunks : \A f \in disk'[j][c] :
          f \in disk[j][c] \/ f = Missing \/ \E r \in sent \cup admitted : f = r.file

RequestsMove ==
    /\ \A r \in sent' : r \in sent \/ (r \in Request /\ SentBy(r) /\ r.file = tab[r.tab].file)
    /\ kind' = kind
    /\ admitted' \subseteq admitted \cup sent
    /\ writing' \subseteq writing \cup admitted \cup sent
    /\ \A v \in completing' : v \in completing \/ (/\ v \in [tab : Tabs, job : Jobs] /\ SentBy(v)
                                                   /\ tab'[v.tab].pc = "completing")
    /\ validating' \subseteq validating \cup completing
    /\ Fed

(* A file that is removed, or left alone, is fed by nobody.                 *)
LEMMA Unfed ==
    ASSUME ServerTypes, disk' = disk \/ \E j \in Jobs : disk' = [disk EXCEPT ![j] = Removed]
    PROVE  Fed
  <1>1. CASE disk' = disk BY <1>1 DEF Fed
  <1>2. ASSUME NEW j \in Jobs, disk' = [disk EXCEPT ![j] = Removed] PROVE Fed
    <2>1. disk'[j] = Removed BY <1>2 DEF ServerTypes, ServerTypeOK
    <2>2. \A i \in Jobs : i # j => disk'[i] = disk[i] BY <1>2, RemovalTypes
    <2>3. \A c \in Chunks : disk'[j][c] = {Missing} BY <2>1 DEF Removed
    <2> QED BY <2>2, <2>3 DEF Fed
  <1> QED BY <1>1, <1>2

(* Sizes of a session and of the rows, for arithmetic.                      *)
LEMMA SessionTypes ==
    ASSUME UploadTypeOK
    PROVE  /\ ServerTypes
           /\ \A u \in Tabs : tab[u] \in Session /\ tab[u].job \in Jobs \cup {NoJob}
                              /\ tab[u].offset \in 0..Length /\ tab[u].pc \in Phases /\ tab[u].file \in Files
           /\ sent \cup admitted \cup writing \subseteq Request
           /\ \A r \in sent \cup admitted \cup writing : r.tab \in Tabs /\ r.job \in Jobs /\ r.at \in Chunks
           /\ \A v \in completing \cup validating : v.tab \in Tabs /\ v.job \in Jobs
           /\ \A j \in Jobs : job[j] \in Row /\ job[j].uploaded \in Nat /\ job[j].uploaded \in 0..Length
  <1>1. ServerTypes BY DEF UploadTypeOK, ServerTypes
  <1>2. \A u \in Tabs : tab[u] \in Session BY DEF UploadTypeOK
  <1>3. \A s \in Session : s.job \in Jobs \cup {NoJob} /\ s.offset \in 0..Length /\ s.pc \in Phases /\ s.file \in Files
    BY DEF Session
  <1>4. sent \cup admitted \cup writing \subseteq Request BY DEF UploadTypeOK
  <1>5. \A r \in Request : r.tab \in Tabs /\ r.job \in Jobs /\ r.at \in Chunks BY DEF Request
  <1>6. \A v \in completing \cup validating : v.tab \in Tabs /\ v.job \in Jobs BY DEF UploadTypeOK
  <1>7. \A j \in Jobs : job[j] \in Row BY <1>1, RequestTypes
  <1>8. \A row \in Row : row.uploaded \in Nat /\ row.uploaded \in 0..Length BY Sizes DEF Row
  <1> QED BY <1>1, <1>2, <1>3, <1>4, <1>5, <1>6, <1>7, <1>8

(* A session that does nothing.                                             *)
LEMMA Stays ==
    ASSUME UploadInv, ServerTypes', Grows, NEW u \in Tabs, tab'[u] = tab[u]
    PROVE  Moves(u)
  <1>1. UploadTypeOK /\ SessionsOwn /\ OffsetIsConfirmed BY DEF UploadInv, ClientInv
  <1>2. tab[u] \in Session /\ tab[u].job \in Jobs \cup {NoJob} /\ tab[u].offset \in 0..Length
    BY <1>1, SessionTypes
  <1>3. PhaseOK(u) BY <1>1 DEF SessionsOwn
  <1>4. PhaseOK(u)' BY <1>3 DEF PhaseOK
  <1>5. ASSUME tab[u].job # NoJob
        PROVE  /\ job'[tab[u].job].status # "none" /\ Same(job'[tab[u].job].file, tab[u].file)
               /\ tab[u].offset <= job'[tab[u].job].uploaded
    <2>1. tab[u].job \in Jobs BY <1>2, <1>5
    <2>2. /\ Status(tab[u].job) # "none" /\ Same(job[tab[u].job].file, tab[u].file)
          /\ tab[u].offset <= job[tab[u].job].uploaded
      BY <1>1, <1>5 DEF SessionsOwn, OffsetIsConfirmed
    <2>3. job[tab[u].job].uploaded \in Nat BY <1>1, <2>1, SessionTypes
    <2>4. job'[tab[u].job] \in Row BY <2>1 DEF ServerTypes, ServerTypeOK
    <2>5. job'[tab[u].job].uploaded \in Nat BY <2>4, Sizes DEF Row
    <2>6. /\ job'[tab[u].job].status # "none" /\ job'[tab[u].job].file = job[tab[u].job].file
          /\ job[tab[u].job].uploaded <= job'[tab[u].job].uploaded
      BY <2>1, <2>2 DEF Grows, Status
    <2> QED BY <1>2, <2>2, <2>3, <2>5, <2>6
  <1> QED BY <1>2, <1>4, <1>5 DEF Moves

(* The parts together.                                                      *)
LEMMA Assemble ==
    ASSUME UploadInv, ServerTypes', ServerInv', Grows, tab' \in [Tabs -> Session],
           \A u \in Tabs : Moves(u), RequestsMove
    PROVE  UploadInv'
  <1>1. /\ UploadTypeOK /\ SessionsOwn /\ RequestsOwn /\ CompletesOwn /\ FromSessions /\ OffsetIsConfirmed
        /\ AdmittedStand /\ WritesStand
    BY DEF UploadInv, ClientInv, ServerInv
  <1>2. UploadTypeOK'
    <2>1. ServerTypeOK' /\ admitted' \cup writing' \subseteq Request /\ validating' \subseteq [tab : Tabs, job : Jobs]
      BY DEF ServerTypes
    <2>2. sent' \subseteq Request BY <1>1 DEF UploadTypeOK, RequestsMove
    <2>3. completing' \subseteq [tab : Tabs, job : Jobs] BY <1>1 DEF UploadTypeOK, RequestsMove
    <2> QED BY <2>1, <2>2, <2>3 DEF UploadTypeOK
  <1>3. SessionsOwn' /\ OffsetIsConfirmed'
    BY DEF Moves, SessionsOwn, OffsetIsConfirmed, Status, RequestsMove, Same, Sighted
  <1>4. \A u \in Tabs : /\ tab[u].pc \in Begun \cup Over => tab'[u].pc \in Begun \cup Over
                        /\ tab[u].pc \in Begun \cup Over /\ tab'[u].job # NoJob => tab'[u].job = tab[u].job
                        /\ tab[u].pc \in {"completing"} \cup Over => tab'[u].pc \in {"completing"} \cup Over
    BY DEF Moves, Begun, Over
  <1>5. \A v : (Belongs(v) \/ SentBy(v)) /\ v.tab \in Tabs => Belongs(v)' BY <1>4 DEF Belongs, SentBy
  <1>6. \A j \in Jobs : Status(j) # "none" => job'[j].status # "none" /\ job'[j].file = job[j].file
    BY DEF Grows, Status
  <1>7. \A u \in Tabs : tab[u].pc \in Begun => /\ tab[u].job \in Jobs /\ Status(tab[u].job) # "none"
                                               /\ Same(job[tab[u].job].file, tab[u].file)
    BY <1>1, SessionTypes DEF SessionsOwn, PhaseOK
  <1>8. RequestsOwn'
    <2>1. \A r \in sent : Belongs(r) /\ Owned(r) BY <1>1 DEF RequestsOwn
    <2>2. \A r \in sent' \cup admitted' \cup writing' : Belongs(r)'
      <3>1. \A r \in sent \cup admitted \cup writing : Belongs(r)'
        BY <1>1, <1>5, SessionTypes DEF RequestsOwn
      <3>2. \A r \in sent' : r \in sent \/ (r.tab \in Tabs /\ SentBy(r)) BY DEF RequestsMove, Request
      <3> QED BY <3>1, <3>2, <1>5 DEF RequestsMove
    <2>4. \A r \in sent' \cup admitted' : r.file = tab'[r.tab].file
      <3>1. \A r \in sent \cup admitted : r.file = tab[r.tab].file /\ r.tab \in Tabs
        BY <1>1, SessionTypes DEF RequestsOwn
      <3>2. \A r \in sent' \cup admitted' : r.file = tab[r.tab].file /\ r.tab \in Tabs
        BY <3>1 DEF RequestsMove, Request
      <3> QED BY <3>2 DEF Moves
    <2>3. \A r \in sent' : Owned(r)'
      <3>1. SUFFICES ASSUME NEW r \in sent' PROVE Owned(r)' OBVIOUS
      <3>2. CASE r \in sent BY <3>2, <2>1, <1>1, <1>6, SessionTypes DEF Owned, Status, RequestsMove, Same, Sighted
      <3>3. CASE r \in Request /\ SentBy(r) /\ r.file = tab[r.tab].file
        <4>1. r.tab \in Tabs BY <3>3 DEF Request
        <4> QED BY <3>3, <4>1, <1>6, <1>7 DEF Owned, Status, SentBy, RequestsMove, Same, Sighted
      <3> QED BY <3>2, <3>3 DEF RequestsMove
    <2> QED BY <2>2, <2>3, <2>4 DEF RequestsOwn
  <1>9. CompletesOwn'
    <2>1. SUFFICES ASSUME NEW v \in completing' \cup validating'
                   PROVE  Belongs(v)' /\ tab'[v.tab].pc \in {"completing"} \cup Over /\ job'[v.job].status # "none"
      BY DEF CompletesOwn, Status
    <2>2. CASE v \in completing \cup validating
      BY <2>2, <1>1, <1>4, <1>5, <1>6, SessionTypes DEF CompletesOwn
    <2>3. CASE v \in [tab : Tabs, job : Jobs] /\ SentBy(v) /\ tab'[v.tab].pc = "completing"
      <3>1. v.tab \in Tabs BY <2>3
      <3> QED BY <2>3, <3>1, <1>5, <1>6, <1>7 DEF SentBy
    <2> QED BY <2>2, <2>3 DEF RequestsMove
  <1>10. FromSessions'
    <2>1. \A f : Source(f) => Source(f)' BY DEF Source, Moves
    <2>2. \A r \in sent \cup admitted : Source(r.file)
      BY <1>1, SessionTypes DEF RequestsOwn, Source
    <2>3. SUFFICES ASSUME NEW j \in Jobs, NEW c \in Chunks, NEW f \in disk'[j][c] PROVE Source(f)
      BY <2>1 DEF FromSessions
    <2>4. f \in disk[j][c] \/ f = Missing \/ \E r \in sent \cup admitted : f = r.file
      BY DEF RequestsMove, Fed
    <2> QED BY <1>1, <2>2, <2>4 DEF FromSessions, Source
  <1> QED BY <1>2, <1>3, <1>8, <1>9, <1>10 DEF UploadInv, ClientInv

(* A handler that tells no session.                                         *)
LEMMA Quiet ==
    ASSUME UploadInv, ServerTypes', ServerInv', Grows, tab' = tab, RequestsMove
    PROVE  UploadInv'
  <1>1. tab' \in [Tabs -> Session] BY DEF UploadInv, UploadTypeOK
  <1>2. \A u \in Tabs : Moves(u) BY Stays
  <1> QED BY <1>1, <1>2, Assemble

(* The rows a session's job is among, after a step.                         *)
LEMMA OwnJob ==
    ASSUME UploadInv, Grows, NEW t \in Tabs, tab[t].job # NoJob
    PROVE  /\ tab[t].job \in Jobs /\ job'[tab[t].job].status # "none"
           /\ Same(job'[tab[t].job].file, tab[t].file)
           /\ tab[t].offset <= job[tab[t].job].uploaded
           /\ job[tab[t].job].uploaded <= job'[tab[t].job].uploaded
  BY SessionTypes DEF UploadInv, ClientInv, SessionsOwn, OffsetIsConfirmed, Grows, Status

(* A session ends, or goes on to an offset that is confirmed.               *)
LEMMA GoesMoves ==
    ASSUME UploadInv, ServerTypes', Grows, NEW t \in Tabs, NEW pc \in {"next", "completing"} \cup Over,
           NEW n \in 0..Length, Goes(t, pc, n),
           pc \notin Over => /\ tab[t].pc \in {"next", "waiting"}
                             /\ n <= job'[tab[t].job].uploaded
    PROVE  tab' \in [Tabs -> Session] /\ \A u \in Tabs : Moves(u)
  <1>1. UploadTypeOK /\ pc \in Phases BY DEF UploadInv, Phases, Over
  <1>2. /\ tab' \in [Tabs -> Session]
        /\ \A u \in Tabs : u # t => tab'[u] = tab[u]
        /\ tab'[t].pc = pc /\ tab'[t].file = tab[t].file
        /\ pc \in Over => tab'[t].job = NoJob
        /\ pc \notin Over => tab'[t].job = tab[t].job /\ tab'[t].offset = n
    BY <1>1, GoesEffect
  <1>3. \A u \in Tabs : u # t => Moves(u) BY <1>2, Stays
  <1>4. Moves(t)
    <2>1. CASE pc \in Over BY <1>2, <2>1 DEF Moves, PhaseOK, Over, Begun
    <2>2. CASE pc \notin Over
      <3>1. tab[t].job # NoJob BY <2>2 DEF UploadInv, ClientInv, SessionsOwn, PhaseOK, Begun
      <3> QED BY <1>2, <2>2, <3>1, OwnJob DEF Moves, PhaseOK, Over, Begun
    <2> QED BY <2>1, <2>2
  <1> QED BY <1>2, <1>3, <1>4

(* An answer tells a session no offset that is not confirmed.               *)
LEMMA AnswerMoves ==
    ASSUME UploadInv, ServerTypes', Grows, NEW r \in sent \cup admitted \cup writing, NEW ok, NEW n \in 0..Length,
           Answer(r, ok, n), ok /\ n > r.at => n <= job'[r.job].uploaded
    PROVE  tab' \in [Tabs -> Session] /\ \A u \in Tabs : Moves(u)
  <1>1. CASE tab' = tab
    <2>1. tab' \in [Tabs -> Session] BY <1>1 DEF UploadInv, UploadTypeOK
    <2> QED BY <1>1, <2>1, Stays
  <1>2. CASE ok /\ n > r.at /\ Waits(r) /\ Goes(r.tab, "next", n)
    <2>1. r.tab \in Tabs /\ tab[r.tab].pc = "waiting" BY <1>2, SessionTypes DEF Waits, UploadInv
    <2>2. tab[r.tab].job # NoJob BY <2>1 DEF UploadInv, ClientInv, SessionsOwn, PhaseOK, Begun
    <2>3. tab[r.tab].job = r.job BY <2>2 DEF UploadInv, ClientInv, RequestsOwn, Belongs
    <2> QED BY <1>2, <2>1, <2>3, GoesMoves DEF Over
  <1> QED BY <1>1, <1>2 DEF Answer

(* A complete request is answered to a session that ends.                   *)
LEMMA CompleteAnswerMoves ==
    ASSUME UploadInv, ServerTypes', Grows, NEW t \in Tabs, NEW ok, CompleteAnswer(t, ok)
    PROVE  tab' \in [Tabs -> Session] /\ \A u \in Tabs : Moves(u)
  <1>1. CASE tab' = tab
    <2>1. tab' \in [Tabs -> Session] BY <1>1 DEF UploadInv, UploadTypeOK
    <2> QED BY <1>1, <2>1, Stays
  <1>2. CASE To(t, "done")
    <2>1. tab[t].offset \in 0..Length BY SessionTypes DEF UploadInv
    <2> QED BY <1>2, <2>1, GoesMoves DEF To, Over
  <1> QED BY <1>1, <1>2 DEF CompleteAnswer

-----------------------------------------------------------------------------
(* The steps of the server *)

(* What is written of a chunk comes from its request.                       *)
LEMMA WritesMove ==
    ASSUME ServerTypes, ServerInv, NEW r \in Request, Owned(r), WriteChunk(r) \/ TearChunk(r),
           r \in sent \cup admitted, sent' \subseteq sent, completing' = completing
    PROVE  RequestsMove
  <1> DEFINE piece == IF WriteChunk(r) THEN {r.file} ELSE disk[r.job][r.at] \cup {r.file}
  <1>1. disk \in [Jobs -> [Chunks -> (SUBSET (Files \cup {Missing})) \ {{}}]] /\ r.job \in Jobs /\ r.at \in Chunks
    BY DEF ServerTypes, ServerTypeOK, Request
  <1>2. /\ admitted' \subseteq admitted /\ writing' \subseteq writing \cup {r}
        /\ UNCHANGED <<kind, job, validating, cancels>>
    BY DEF WriteChunk, TearChunk
  <1>3. disk' = [disk EXCEPT ![r.job][r.at] = piece] BY <1>1 DEF WriteChunk, TearChunk
  <1>4. \A f \in piece : f = r.file \/ f \in disk[r.job][r.at] OBVIOUS
  <1>5. piece = {r.file} \/ piece = disk[r.job][r.at] \cup {r.file} OBVIOUS
  <1> HIDE DEF piece
  <1>6. /\ disk'[r.job][r.at] = piece
        /\ \A i \in Jobs, c \in Chunks : i # r.job \/ c # r.at => disk'[i][c] = disk[i][c]
    BY <1>2, <1>3, <1>5, PieceHeld
  <1>7. Fed BY <1>4, <1>6 DEF Fed
  <1> QED BY <1>2, <1>7 DEF RequestsMove

(* Receiving a chunk request keeps the invariant of the composition. *)
LEMMA ReceiveChunkStep ==
    ASSUME UploadInv, NEW r \in sent, ReceiveChunk(r)
    PROVE  UploadInv'
  <1>1. ServerTypes /\ ServerInv /\ r \in Request /\ r.job \in Jobs /\ r.at \in Chunks
    BY SessionTypes DEF UploadInv
  <1>2. Owned(r) BY DEF UploadInv, ClientInv, RequestsOwn
  <1>3. sent' = sent \ {r} /\ completing' = completing BY DEF ReceiveChunk
  <1>4. CASE AdmitChunk(r) /\ UNCHANGED tab
    <2>1. ServerTypes' /\ ServerInv' /\ Grows BY <1>1, <1>2, <1>4, AdmitChunkKeeps
    <2>2. Fed BY <1>1, <1>4, Unfed DEF AdmitChunk
    <2>3. RequestsMove BY <1>3, <1>4, <2>2 DEF AdmitChunk, RequestsMove
    <2> QED BY <1>4, <2>1, <2>3, Quiet
  <1>5. CASE (WriteChunk(r) \/ TearChunk(r)) /\ UNCHANGED tab
    <2>1. ServerTypes' /\ ServerInv' /\ Grows BY <1>1, <1>2, <1>5, WriteChunkKeeps, TearChunkKeeps
    <2>2. RequestsMove BY <1>1, <1>2, <1>3, <1>5, WritesMove
    <2> QED BY <1>5, <2>1, <2>2, Quiet
  <1>6. ASSUME UNCHANGED serverVars,
               Answer(r, Status(r.job) = "uploading" /\ AlreadyStored(r), job[r.job].uploaded)
        PROVE  UploadInv'
    <2>1. UNCHANGED <<kind, job, disk>> /\ admitted' \subseteq admitted /\ writing' \subseteq writing /\ validating' \subseteq validating
          /\ cancels' \subseteq cancels
      BY <1>6 DEF serverVars
    <2>2. ServerTypes' /\ ServerInv' /\ Grows BY <1>1, <2>1, ForgettingKeeps
    <2>3. RequestsMove BY <1>3, <2>1 DEF RequestsMove, Fed
    <2>4. job[r.job].uploaded \in 0..Length /\ job[r.job].uploaded <= job'[r.job].uploaded
      BY <1>1, <2>1, SessionTypes DEF UploadInv
    <2>5. tab' \in [Tabs -> Session] /\ \A u \in Tabs : Moves(u)
      BY <1>6, <2>2, <2>4, AnswerMoves
    <2> QED BY <2>2, <2>3, <2>5, Assemble
  <1> QED BY <1>4, <1>5, <1>6 DEF ReceiveChunk

(* A handler of the catalogue that writes what it was let through for keeps *)
(* the invariant of the composition. *)
LEMMA WriteAdmittedStep ==
    ASSUME UploadInv, NEW r \in admitted, WriteAdmitted(r)
    PROVE  UploadInv'
  <1>1. ServerTypes /\ ServerInv /\ r \in Request BY SessionTypes DEF UploadInv
  <1>2. Owned(r) BY <1>1 DEF ServerInv, AdmittedStand
  <1>3. (WriteChunk(r) \/ TearChunk(r)) /\ UNCHANGED <<tab, sent, completing>>
    BY DEF WriteAdmitted, browserVars
  <1>4. ServerTypes' /\ ServerInv' /\ Grows BY <1>1, <1>2, <1>3, WriteChunkKeeps, TearChunkKeeps
  <1>5. RequestsMove BY <1>1, <1>2, <1>3, WritesMove
  <1> QED BY <1>3, <1>4, <1>5, Quiet

(* Updating the row after the write keeps the invariant: the session may
   go on only to an offset that is confirmed. *)
LEMMA StoreChunkStep ==
    ASSUME UploadInv, NEW r \in writing, StoreChunk(r)
    PROVE  UploadInv'
  <1>1. ServerTypes /\ ServerInv /\ r.job \in Jobs /\ r.at \in Chunks BY SessionTypes DEF UploadInv
  <1>2. ConfirmChunk(r) /\ sent' = sent /\ completing' = completing BY DEF StoreChunk
  <1>3. ServerTypes' /\ ServerInv' /\ Grows BY <1>1, <1>2, ConfirmChunkKeeps
  <1>4. RequestsMove BY <1>2 DEF RequestsMove, Fed, ConfirmChunk
  <1>5. r.at + 1 \in 0..Length BY <1>1, Sizes DEF Chunks
  <1>6. UpdateMatches(r) \/ kind = "catalog" => r.at + 1 <= job'[r.job].uploaded
    <2>1. r.at \in Nat /\ r.at <= job[r.job].uploaded /\ job[r.job].uploaded \in Nat
      BY <1>1, Sizes, RequestTypes DEF ServerInv, WritesStand
    <2>2. CASE UpdateMatches(r)
      <3>1. job' = [job EXCEPT ![r.job].uploaded = r.at + 1] BY <1>2, <2>2 DEF ConfirmChunk
      <3>2. job[r.job] \in Row /\ job \in [Jobs -> Row] BY <1>1 DEF ServerTypes, ServerTypeOK
      <3>3. job'[r.job].uploaded = r.at + 1 BY <1>1, <3>1, <3>2 DEF Row
      <3> QED BY <2>1, <3>3
    <2>3. CASE ~UpdateMatches(r) /\ kind = "catalog"
      <3>1. job' = job BY <1>2, <2>3 DEF ConfirmChunk
      <3>2. job[r.job].uploaded # r.at BY <2>3 DEF UpdateMatches
      <3> QED BY <2>1, <3>1, <3>2
    <2> QED BY <2>2, <2>3
  <1>7. Answer(r, UpdateMatches(r) \/ kind = "catalog", r.at + 1) BY DEF StoreChunk
  <1>8. tab' \in [Tabs -> Session] /\ \A u \in Tabs : Moves(u)
    BY <1>3, <1>5, <1>6, <1>7, AnswerMoves
  <1> QED BY <1>3, <1>4, <1>8, Assemble

(* Losing a request, before or after its write, keeps the invariant. *)
LEMMA LosingStep ==
    ASSUME UploadInv, UNCHANGED <<kind, job, disk, tab, completing>>, sent' \subseteq sent,
           admitted' \subseteq admitted, writing' \subseteq writing, validating' \subseteq validating,
           \/ cancels' \subseteq cancels
           \/ \E j \in Jobs : Cancellable(j) /\ cancels' = cancels \cup {[job |-> j, read |-> Status(j)]}
    PROVE  UploadInv'
  <1>1. ServerTypes /\ ServerInv BY SessionTypes DEF UploadInv
  <1>2. ServerTypes' /\ ServerInv' /\ Grows BY <1>1, ForgettingKeeps
  <1>3. RequestsMove BY DEF RequestsMove, Fed
  <1> QED BY <1>2, <1>3, Quiet

(* Receiving a complete request keeps the invariant. *)
LEMMA ReceiveCompleteStep ==
    ASSUME UploadInv, NEW v \in completing, ReceiveComplete(v)
    PROVE  UploadInv'
  <1>1. ServerTypes /\ ServerInv /\ v.job \in Jobs /\ v.tab \in Tabs /\ v \in [tab : Tabs, job : Jobs]
    BY SessionTypes DEF UploadInv, UploadTypeOK
  <1>2. completing' = completing \ {v} /\ sent' = sent BY DEF ReceiveComplete
  <1>3. CASE Enqueue(v.job) /\ CompleteAnswer(v.tab, TRUE)
    <2>1. ServerTypes' /\ ServerInv' /\ Grows BY <1>1, <1>3, EnqueueKeeps
    <2>2. RequestsMove BY <1>2, <1>3 DEF RequestsMove, Fed, Enqueue
    <2>3. tab' \in [Tabs -> Session] /\ \A u \in Tabs : Moves(u)
      BY <1>1, <1>3, <2>1, CompleteAnswerMoves
    <2> QED BY <2>1, <2>2, <2>3, Assemble
  <1>4. CASE BeginValidation(v) /\ UNCHANGED tab
    <2>1. ServerTypes' /\ ServerInv' /\ Grows BY <1>1, <1>4, BeginValidationKeeps
    <2>2. RequestsMove BY <1>2, <1>4 DEF RequestsMove, Fed, BeginValidation
    <2> QED BY <1>4, <2>1, <2>2, Quiet
  <1>5. CASE CompleteAnswer(v.tab, AlreadyComplete(v.job)) /\ UNCHANGED serverVars
    <2>1. UNCHANGED <<kind, job, disk>> /\ admitted' \subseteq admitted /\ writing' \subseteq writing /\ validating' \subseteq validating
          /\ cancels' \subseteq cancels
      BY <1>5 DEF serverVars
    <2>2. ServerTypes' /\ ServerInv' /\ Grows BY <1>1, <2>1, ForgettingKeeps
    <2>3. RequestsMove BY <1>2, <2>1 DEF RequestsMove, Fed
    <2>4. tab' \in [Tabs -> Session] /\ \A u \in Tabs : Moves(u)
      BY <1>1, <1>5, <2>2, CompleteAnswerMoves
    <2> QED BY <2>2, <2>3, <2>4, Assemble
  <1> QED BY <1>3, <1>4, <1>5 DEF ReceiveComplete

(* Ending the unpacking of a catalogue, well or badly, keeps the invariant. *)
LEMMA EndValidationStep ==
    ASSUME UploadInv, NEW v \in validating, EndValidation(v)
    PROVE  UploadInv'
  <1>1. ServerTypes /\ ServerInv /\ v.tab \in Tabs BY SessionTypes DEF UploadInv
  <1>2. CASE MarkReady(v) /\ CompleteAnswer(v.tab, TRUE)
    <2>1. ServerTypes' /\ ServerInv' /\ Grows BY <1>1, <1>2, MarkReadyKeeps
    <2>2. RequestsMove BY <1>2 DEF RequestsMove, Fed, MarkReady, EndValidation
    <2>3. tab' \in [Tabs -> Session] /\ \A u \in Tabs : Moves(u)
      BY <1>1, <1>2, <2>1, CompleteAnswerMoves
    <2> QED BY <2>1, <2>2, <2>3, Assemble
  <1>3. CASE FailValidation(v) /\ UNCHANGED tab
    BY <1>3, LosingStep DEF FailValidation, EndValidation
  <1> QED BY <1>2, <1>3 DEF EndValidation

(* A cancel under way keeps the invariant of the composition. *)
LEMMA CancelStep ==
    ASSUME UploadInv, NEW x \in cancels, Cancel(x), UNCHANGED browserVars
    PROVE  UploadInv'
  <1>1. ServerTypes /\ ServerInv BY SessionTypes DEF UploadInv
  <1>2. ServerTypes' /\ ServerInv' /\ Grows BY <1>1, CancelKeeps
  <1>3. x.job \in Jobs BY <1>1, RequestTypes
  <1>4. Fed BY <1>1, <1>3, Unfed DEF Cancel
  <1>5. RequestsMove BY <1>4 DEF RequestsMove, Cancel, browserVars
  <1> QED BY <1>2, <1>5, Quiet DEF browserVars

(* The worker keeps the invariant of the composition. *)
LEMMA WorkerStep ==
    ASSUME UploadInv, NEW j \in Jobs, WorkerTakes(j) \/ WorkerEnds(j), UNCHANGED browserVars
    PROVE  UploadInv'
  <1>1. ServerTypes /\ ServerInv BY SessionTypes DEF UploadInv
  <1>2. ServerTypes' /\ ServerInv' /\ Grows BY <1>1, WorkerTakesKeeps, WorkerEndsKeeps
  <1>3. Fed BY <1>1, Unfed DEF WorkerTakes, WorkerEnds
  <1>4. RequestsMove BY <1>3 DEF RequestsMove, WorkerTakes, WorkerEnds, browserVars
  <1> QED BY <1>2, <1>4, Quiet DEF browserVars

-----------------------------------------------------------------------------
(* The steps of a session *)

(* A step that only moves the session, or sends.                            *)
LEMMA OwnStep ==
    ASSUME UploadInv, UNCHANGED serverVars, RequestsMove, tab' \in [Tabs -> Session],
           ServerTypes' /\ Grows => \A u \in Tabs : Moves(u)
    PROVE  UploadInv'
  <1>1. ServerTypes /\ ServerInv BY SessionTypes DEF UploadInv
  <1>2. UNCHANGED <<kind, job, disk>> /\ admitted' \subseteq admitted /\ writing' \subseteq writing /\ validating' \subseteq validating
        /\ cancels' \subseteq cancels
    BY DEF serverVars
  <1>3. ServerTypes' /\ ServerInv' /\ Grows BY <1>1, <1>2, ForgettingKeeps
  <1> QED BY <1>3, Assemble

(* A session that ends, with success or without, keeps the invariant. *)
LEMMA SessionEndsStep ==
    ASSUME UploadInv, NEW t \in Tabs, NEW pc \in Over, To(t, pc), UNCHANGED <<serverVars, sent, completing>>
    PROVE  UploadInv'
  <1>1. ServerTypes /\ ServerInv BY SessionTypes DEF UploadInv
  <1>2. UNCHANGED <<kind, job, disk>> /\ admitted' \subseteq admitted /\ writing' \subseteq writing /\ validating' \subseteq validating
        /\ cancels' \subseteq cancels
    BY DEF serverVars
  <1>3. ServerTypes' /\ ServerInv' /\ Grows BY <1>1, <1>2, ForgettingKeeps
  <1>4. RequestsMove BY <1>2 DEF RequestsMove, Fed
  <1>5. tab[t].offset \in 0..Length BY SessionTypes DEF UploadInv
  <1>6. tab' \in [Tabs -> Session] /\ \A u \in Tabs : Moves(u)
    BY <1>3, <1>5, GoesMoves DEF To
  <1> QED BY <1>3, <1>4, <1>6, Assemble

(* A session that asks for the server's offset believes in confirmed chunks
   only. *)
LEMMA AskOffsetStep ==
    ASSUME UploadInv, NEW t \in Tabs, AskOffset(t)
    PROVE  UploadInv'
  <1>1. ServerTypes /\ ServerInv BY SessionTypes DEF UploadInv
  <1> DEFINE n == job[tab[t].job].uploaded
             pc == IF n > tab[t].at THEN "next" ELSE "failed"
  <1>2. tab[t].pc = "waiting" /\ Goes(t, pc, n) /\ UNCHANGED <<serverVars, sent, completing>>
    BY DEF AskOffset
  <1>3. UNCHANGED <<kind, job, disk>> /\ admitted' \subseteq admitted /\ writing' \subseteq writing /\ validating' \subseteq validating
        /\ cancels' \subseteq cancels
    BY <1>2 DEF serverVars
  <1>4. ServerTypes' /\ ServerInv' /\ Grows BY <1>1, <1>3, ForgettingKeeps
  <1>5. RequestsMove BY <1>2, <1>3 DEF RequestsMove, Fed
  <1>6. tab[t].job # NoJob BY <1>2 DEF UploadInv, ClientInv, SessionsOwn, PhaseOK, Begun
  <1>7. n \in 0..Length /\ n <= job'[tab[t].job].uploaded
    BY <1>4, <1>6, OwnJob, SessionTypes DEF UploadInv
  <1>8. pc \in {"next", "completing"} \cup Over BY DEF Over
  <1> HIDE DEF n, pc
  <1>9. tab' \in [Tabs -> Session] /\ \A u \in Tabs : Moves(u)
    BY <1>2, <1>4, <1>7, <1>8, GoesMoves
  <1> QED BY <1>4, <1>5, <1>9, Assemble

(* A request that is sent is one for the session's own file and job. *)
LEMMA SendStep ==
    ASSUME UploadInv, NEW t \in Tabs, NEW at \in Chunks, NEW try \in 1..Attempts, Send(t, at, try),
           tab[t].pc \in {"next", "waiting"}, at = tab[t].offset
    PROVE  UploadInv'
  <1> DEFINE s == [tab[t] EXCEPT !.pc = "waiting", !.offset = at, !.at = at, !.try = try]
             r == [tab |-> t, job |-> tab[t].job, file |-> tab[t].file, at |-> at, try |-> try]
  <1>1. ServerTypes /\ ServerInv /\ tab \in [Tabs -> Session] /\ tab[t] \in Session
    BY SessionTypes DEF UploadInv, UploadTypeOK
  <1>2. /\ sent' = sent \cup {r} /\ tab' = [tab EXCEPT ![t] = s]
        /\ UNCHANGED <<serverVars, completing>>
    BY <1>1 DEF Send
  <1>3. at \in 0..Length /\ at < Length /\ try \in 0..Attempts BY Sizes DEF Chunks
  <1>4. s \in Session /\ s.pc = "waiting" /\ s.offset = at /\ s.at = at /\ s.job = tab[t].job
        /\ s.file = tab[t].file
    BY <1>1, <1>3 DEF Session, Phases
  <1>5. tab[t].job # NoJob BY DEF UploadInv, ClientInv, SessionsOwn, PhaseOK, Begun
  <1>6. r \in Request
    <2>1. tab[t].job \in Jobs /\ tab[t].file \in Files BY <1>5, SessionTypes DEF UploadInv
    <2> QED BY <2>1 DEF Request
  <1>7. SentBy(r) /\ r.file = tab[r.tab].file BY DEF SentBy, Begun
  <1> HIDE DEF s, r
  <1>8. /\ tab' \in [Tabs -> Session] /\ tab'[t] = s
        /\ \A u \in Tabs : u # t => tab'[u] = tab[u]
    BY <1>1, <1>2, <1>4
  <1>9. RequestsMove BY <1>2, <1>6, <1>7 DEF RequestsMove, Fed, serverVars
  <1>10. ServerTypes' /\ Grows => \A u \in Tabs : Moves(u)
    <2>1. HAVE ServerTypes' /\ Grows
    <2>2. at <= job'[tab[t].job].uploaded
      <3>1. job' = job BY <1>2 DEF serverVars
      <3> QED BY <1>5, <2>1, <3>1, OwnJob
    <2>3. Moves(t)
      BY <1>4, <1>5, <1>8, <1>3, <2>1, <2>2, OwnJob DEF Moves, PhaseOK, Begun, Over
    <2> QED BY <1>8, <2>1, <2>3, Stays
  <1> QED BY <1>2, <1>8, <1>9, <1>10, OwnStep DEF serverVars

(* Asking to complete keeps the invariant. *)
LEMMA SendCompleteStep ==
    ASSUME UploadInv, NEW t \in Tabs, SendComplete(t)
    PROVE  UploadInv'
  <1>1. ServerTypes /\ ServerInv BY SessionTypes DEF UploadInv
  <1> DEFINE v == [tab |-> t, job |-> tab[t].job]
  <1>2. /\ tab[t].pc = "next" /\ Goes(t, "completing", tab[t].offset)
        /\ completing' = completing \cup {v} /\ UNCHANGED <<serverVars, sent>>
    BY DEF SendComplete, To
  <1>3. UNCHANGED <<kind, job, disk>> /\ admitted' \subseteq admitted /\ writing' \subseteq writing /\ validating' \subseteq validating
        /\ cancels' \subseteq cancels
    BY <1>2 DEF serverVars
  <1>4. ServerTypes' /\ ServerInv' /\ Grows BY <1>1, <1>3, ForgettingKeeps
  <1>5. tab[t].job # NoJob BY <1>2 DEF UploadInv, ClientInv, SessionsOwn, PhaseOK, Begun
  <1>6. tab[t].offset \in 0..Length /\ tab[t].job \in Jobs /\ UploadTypeOK
    BY <1>5, SessionTypes DEF UploadInv
  <1>7. tab[t].offset <= job'[tab[t].job].uploaded
    <2>1. job' = job BY <1>2 DEF serverVars
    <2> QED BY <1>4, <1>5, <2>1, OwnJob
  <1>8. tab' \in [Tabs -> Session] /\ \A u \in Tabs : Moves(u)
    BY <1>2, <1>4, <1>6, <1>7, GoesMoves DEF Over
  <1>9. v \in [tab : Tabs, job : Jobs] /\ SentBy(v) BY <1>2, <1>6 DEF SentBy, Begun
  <1>10. tab'[t].pc = "completing" BY <1>2, <1>6, GoesEffect DEF Phases
  <1>11. v.tab = t OBVIOUS
  <1> HIDE DEF v
  <1>12. RequestsMove BY <1>2, <1>3, <1>9, <1>10, <1>11 DEF RequestsMove, Fed
  <1> QED BY <1>4, <1>8, <1>12, Assemble

-----------------------------------------------------------------------------
(* Creating or resuming a job *)

(* A session that got its job goes on at an offset the row confirms, or has
   failed. *)
LEMMA StartedMoves ==
    ASSUME UploadInv, ServerTypes', Grows, NEW t \in Tabs, NEW j \in Jobs, NEW n \in 0..Length,
           tab[t].pc \in {"idle", "creating"}, Started(t, j, n),
           job'[j].status # "none", Same(job'[j].file, tab[t].file), n <= job'[j].uploaded
    PROVE  tab' \in [Tabs -> Session] /\ \A u \in Tabs : Moves(u)
  <1>1. CASE To(t, "failed")
    <2>1. tab[t].offset \in 0..Length BY SessionTypes DEF UploadInv
    <2> QED BY <1>1, <2>1, GoesMoves DEF To, Over
  <1>2. CASE tab' = [tab EXCEPT ![t].pc = "next", ![t].job = j, ![t].offset = n]
    <2> DEFINE s == [tab[t] EXCEPT !.pc = "next", !.job = j, !.offset = n]
    <2>1. tab \in [Tabs -> Session] /\ tab[t] \in Session BY DEF UploadInv, UploadTypeOK
    <2>2. tab' = [tab EXCEPT ![t] = s] BY <1>2, <2>1
    <2>3. s \in Session /\ s.pc = "next" /\ s.job = j /\ s.offset = n /\ s.file = tab[t].file
      BY <2>1 DEF Session, Phases
    <2> HIDE DEF s
    <2>4. tab' \in [Tabs -> Session] /\ tab'[t] = s /\ \A u \in Tabs : u # t => tab'[u] = tab[u]
      BY <2>1, <2>2, <2>3
    <2>5. Moves(t) BY <2>3, <2>4, NoJobAssumption DEF Moves, PhaseOK, Begun, Over
    <2> QED BY <2>4, <2>5, Stays
  <1> QED BY <1>1, <1>2 DEF Started

(* Where fingerprints are computed, a session's is its file's.              *)
LEMMA OwnPrint ==
    ASSUME NEW t \in Tabs
    PROVE  Stands(Fingerprint(t), tab[t].file)
  BY DEF Fingerprint, Stands, Sighted

(* Resuming an upload keeps the invariant: the fingerprints agree, so the
   files do. *)
LEMMA ResumeStep ==
    ASSUME UploadInv, NEW t \in Tabs, NEW j \in Jobs, ResumeUpload(t, j)
    PROVE  UploadInv'
  <1>1. /\ ServerTypes /\ ServerInv /\ tab[t].file \in Files
        /\ Fingerprint(t) \in Files \cup {Blank} /\ Stands(Fingerprint(t), tab[t].file)
    BY SessionTypes, PrintType, OwnPrint DEF UploadInv
  <1>2. /\ Resume(j, Fingerprint(t)) /\ Started(t, j, job[j].uploaded) /\ tab[t].pc = "idle"
        /\ UNCHANGED <<kind, admitted, writing, validating, cancels, sent, completing>>
    BY DEF ResumeUpload
  <1>3. ServerTypes' /\ ServerInv' /\ Grows /\ Same(job[j].file, tab[t].file)
    BY <1>1, <1>2, ResumeKeeps
  <1>4. Status(j) # "none" BY <1>2 DEF Resume
  <1>5. job'[j].status # "none" /\ Same(job'[j].file, tab[t].file) /\ job[j].uploaded <= job'[j].uploaded
    BY <1>3, <1>4 DEF Grows, Status
  <1>6. job[j].uploaded \in 0..Length BY SessionTypes DEF UploadInv
  <1>7. tab' \in [Tabs -> Session] /\ \A u \in Tabs : Moves(u)
    BY <1>2, <1>3, <1>5, <1>6, StartedMoves
  <1>8. RequestsMove BY <1>2 DEF RequestsMove, Fed, Resume
  <1> QED BY <1>3, <1>7, <1>8, Assemble

(* Creating a job, or replacing an expired one, keeps the invariant. *)
LEMMA StartStep ==
    ASSUME UploadInv, NEW t \in Tabs, NEW j \in Jobs, StartUpload(t, j)
    PROVE  UploadInv'
  <1> DEFINE file == tab[t].file  print == Fingerprint(t)
  <1>1. /\ ServerTypes /\ ServerInv /\ file \in Files
        /\ print \in Files \cup {Blank} /\ Stands(print, file)
    BY SessionTypes, PrintType, OwnPrint DEF UploadInv
  <1>2. /\ Started(t, j, 0) /\ tab[t].pc \in {"idle", "creating"}
        /\ Create(j, file, print) \/ \E i \in Jobs : ReplaceExpired(i, j, file, print)
        /\ UNCHANGED <<kind, admitted, writing, validating, cancels, sent, completing>>
    BY DEF StartUpload
  <1> HIDE DEF print
  <1>3. ServerTypes' /\ ServerInv' /\ Grows
    BY <1>1, <1>2, CreateKeeps, ReplaceExpiredKeeps
  <1>4. job'[j] = NewRow(file, print)
    <2>1. job \in [Jobs -> Row] BY <1>1 DEF ServerTypes, ServerTypeOK
    <2>2. CASE Create(j, file, print) BY <2>1, <2>2 DEF Create
    <2>3. ASSUME NEW i \in Jobs, ReplaceExpired(i, j, file, print) PROVE job'[j] = NewRow(file, print)
      BY <2>1, <2>3 DEF ReplaceExpired
    <2> QED BY <1>2, <2>2, <2>3
  <1>5. job'[j].status # "none" /\ Same(job'[j].file, file) /\ 0 <= job'[j].uploaded
    BY <1>4 DEF NewRow, Same
  <1>6. 0 \in 0..Length BY Sizes
  <1>7. tab' \in [Tabs -> Session] /\ \A u \in Tabs : Moves(u)
    BY <1>2, <1>3, <1>5, <1>6, StartedMoves
  <1>8. Fed BY <1>1, <1>2, Unfed DEF Create, ReplaceExpired
  <1>9. RequestsMove BY <1>2, <1>8 DEF RequestsMove
  <1> QED BY <1>3, <1>7, <1>9, Assemble

(* Finding a catalogue job by its fingerprint keeps the invariant. *)
LEMMA FindStep ==
    ASSUME UploadInv, NEW t \in Tabs, FindCatalogJob(t)
    PROVE  UploadInv'
  <1>1. ServerTypes /\ ServerInv /\ UploadTypeOK BY SessionTypes DEF UploadInv
  <1>2. UNCHANGED <<serverVars, sent, completing>> /\ tab[t].pc = "idle" BY DEF FindCatalogJob
  <1>3. UNCHANGED <<kind, job, disk>> /\ admitted' \subseteq admitted /\ writing' \subseteq writing /\ validating' \subseteq validating
        /\ cancels' \subseteq cancels
    BY <1>2 DEF serverVars
  <1>4. ServerTypes' /\ ServerInv' /\ Grows BY <1>1, <1>3, ForgettingKeeps
  <1>5. RequestsMove BY <1>2, <1>3 DEF RequestsMove, Fed
  <1>6. tab' \in [Tabs -> Session] /\ \A u \in Tabs : Moves(u)
    <2>1. CASE To(t, "creating")
      <3>1. tab[t].offset \in 0..Length BY <1>1, SessionTypes
      <3>2. tab' \in [Tabs -> Session] /\ tab'[t].pc = "creating" /\ tab'[t].file = tab[t].file
            /\ tab'[t].job = tab[t].job /\ \A u \in Tabs : u # t => tab'[u] = tab[u]
        BY <1>1, <2>1, <3>1, GoesEffect DEF To, Phases, Over
      <3>3. tab[t].job = NoJob BY <1>2 DEF UploadInv, ClientInv, SessionsOwn, PhaseOK
      <3>4. Moves(t) BY <1>2, <3>2, <3>3 DEF Moves, PhaseOK, Begun, Over
      <3> QED BY <1>4, <3>2, <3>4, Stays
    <2>2. ASSUME NEW j \in Jobs, j \in CatalogCandidates(Fingerprint(t)), Started(t, j, job[j].uploaded)
          PROVE  tab' \in [Tabs -> Session] /\ \A u \in Tabs : Moves(u)
      <3>1. Status(j) # "none" /\ job[j].print = Fingerprint(t)
        BY <2>2 DEF CatalogCandidates, InStatus, Live
      <3>2. Same(job[j].file, tab[t].file) BY <1>1, <3>1, OwnPrint DEF ServerInv, RowsKnown, Same, Stands
      <3>3. job[j].uploaded \in 0..Length /\ job[j].uploaded \in Nat BY <1>1, SessionTypes
      <3>4. job' = job BY <1>2 DEF serverVars
      <3> QED BY <1>2, <1>4, <2>2, <3>1, <3>2, <3>3, <3>4, StartedMoves DEF Status
    <2> QED BY <2>1, <2>2 DEF FindCatalogJob, Newest
  <1> QED BY <1>4, <1>5, <1>6, Assemble

-----------------------------------------------------------------------------
(* Every step keeps the invariant.                                          *)
LEMMA Inductive ==
    ASSUME UploadInv, [Next]_uploadVars
    PROVE  UploadInv'
  <1>1. CASE UNCHANGED uploadVars
    BY <1>1, LosingStep DEF uploadVars, serverVars
  <1>2. ASSUME NEW t \in Tabs, StartRefused(t) PROVE UploadInv'
    BY <1>2, SessionEndsStep DEF StartRefused, Over
  <1>3. ASSUME NEW t \in Tabs, NEW j \in Jobs, ResumeUpload(t, j) \/ StartUpload(t, j) PROVE UploadInv'
    BY <1>3, ResumeStep, StartStep
  <1>4. ASSUME NEW j \in Jobs, ReadForCancel(j), UNCHANGED browserVars PROVE UploadInv'
    BY <1>4, LosingStep DEF ReadForCancel, browserVars
  <1>5. CASE Server
    <2>1. ASSUME NEW r \in sent, ReceiveChunk(r) PROVE UploadInv' BY <2>1, ReceiveChunkStep
    <2>2. ASSUME NEW r \in sent, DropRequest(r) PROVE UploadInv'
      BY <2>2, LosingStep DEF DropRequest, serverVars
    <2>3. ASSUME NEW r \in writing, StoreChunk(r) PROVE UploadInv' BY <2>3, StoreChunkStep
    <2>4. ASSUME NEW r \in admitted \cup writing, LoseChunk(r) PROVE UploadInv'
      BY <2>4, LosingStep DEF LoseChunk, ForgetChunk, browserVars
    <2>8. ASSUME NEW r \in admitted, WriteAdmitted(r) PROVE UploadInv' BY <2>8, WriteAdmittedStep
    <2>5. ASSUME NEW v \in completing, ReceiveComplete(v) PROVE UploadInv' BY <2>5, ReceiveCompleteStep
    <2>6. ASSUME NEW v \in validating, EndValidation(v) PROVE UploadInv' BY <2>6, EndValidationStep
    <2>7. ASSUME NEW x \in cancels, Cancel(x), UNCHANGED browserVars PROVE UploadInv' BY <2>7, CancelStep
    <2> QED BY <1>5, <2>1, <2>2, <2>3, <2>4, <2>5, <2>6, <2>7, <2>8 DEF Server
  <1>6. CASE Worker BY <1>6, WorkerStep DEF Worker
  <1>7. CASE Crash
    BY <1>7, LosingStep DEF Crash, RestartJobs, browserVars
  <1>8. ASSUME NEW t \in Tabs, Client(t) PROVE UploadInv'
    <2>1. tab[t].pc = "next" => tab[t].offset \in Nat BY SessionTypes DEF UploadInv
    <2>2. tab[t].pc = "waiting" => tab[t].at = tab[t].offset /\ tab[t].at \in Chunks
      BY SessionTypes, Sizes DEF UploadInv, ClientInv, SessionsOwn, PhaseOK, Chunks
    <2>3. CASE SendChunk(t)
      <3>1. tab[t].offset \in Chunks BY <2>1, <2>3, Sizes DEF SendChunk, Chunks
      <3>2. 1 \in 1..Attempts BY Sizes
      <3> QED BY <2>3, <3>1, <3>2, SendStep DEF SendChunk
    <2>4. CASE SendAgain(t)
      <3>1. tab[t].try + 1 \in 1..Attempts
        <4>1. tab[t].try \in 0..Attempts /\ tab[t].try < Attempts
          BY <2>4, SessionTypes DEF UploadInv, Session, SendAgain
        <4> QED BY <4>1, Sizes
      <3> QED BY <2>2, <2>4, <3>1, SendStep DEF SendAgain
    <2>5. CASE AskOffset(t) BY <2>5, AskOffsetStep
    <2>6. CASE SendComplete(t) BY <2>6, SendCompleteStep
    <2>7. CASE GiveUp(t) \/ CompleteFails(t) \/ Confirm(t)
      BY <2>7, SessionEndsStep DEF GiveUp, CompleteFails, Confirm, Over
    <2> QED BY <1>8, <2>3, <2>4, <2>5, <2>6, <2>7 DEF Client
  <1>9. ASSUME NEW t \in Tabs, FindCatalogJob(t) PROVE UploadInv' BY <1>9, FindStep
  <1> QED BY <1>1, <1>2, <1>3, <1>4, <1>5, <1>6, <1>7, <1>8, <1>9 DEF Next, Admin

(* The initial states have it.                                              *)
LEMMA InitInv ==
    ASSUME Init
    PROVE  UploadInv
  <1>1. PICK file \in [Tabs -> Files] : tab = [t \in Tabs |-> NewSession(file[t])]
    BY ChoicesAssumption DEF Init
  <1>2. \A f \in Files : NewSession(f) \in Session
    BY Sizes DEF NewSession, Session, Phases
  <1>3. tab \in [Tabs -> Session] BY <1>1, <1>2
  <1>4. NoRow \in Row BY Sizes DEF NoRow, Row, Statuses
  <1>5. ServerTypeOK BY <1>4 DEF Init, ServerInit, ServerTypeOK, Removed
  <1>6. UploadTypeOK BY <1>3, <1>5 DEF Init, ServerInit, UploadTypeOK
  <1>7. \A j \in Jobs : job[j] = NoRow /\ Status(j) = "none" BY DEF Init, ServerInit, NoRow, Status
  <1>8. admitted = {} /\ writing = {} /\ validating = {} /\ cancels = {} /\ sent = {} /\ completing = {}
        /\ \A j \in Jobs, c \in Chunks : disk[j][c] = {Missing}
    BY DEF Init, ServerInit, Removed
  <1>9. ServerInv
    BY <1>7, <1>8, Sizes DEF ServerInv, RowsKnown, AdmittedStand, WritesStand, CancelsRead, QueuedFull,
                             ValidatingFull, SingleLive, InStatus, Live, ConfirmedIsHeld, NoRow
  <1>10. \A t \in Tabs : tab[t].job = NoJob /\ tab[t].pc = "idle" BY <1>1 DEF NewSession
  <1>11. ClientInv
    BY <1>8, <1>10 DEF ClientInv, SessionsOwn, PhaseOK, Begun, RequestsOwn, CompletesOwn, FromSessions,
                       Source, OffsetIsConfirmed
  <1> QED BY <1>6, <1>9, <1>11 DEF UploadInv

-----------------------------------------------------------------------------
(* The invariant, for all browsers.                                         *)
THEOREM UploadInvariant == Spec => []UploadInv
  <1>1. Init => UploadInv BY InitInv
  <1>2. UploadInv /\ [Next]_uploadVars => UploadInv' BY Inductive
  <1> QED BY <1>1, <1>2, PTL DEF Spec

(* Types.                                                                   *)
THEOREM UploadTyping == Spec => []UploadTypeOK
  <1>1. UploadInv => UploadTypeOK BY DEF UploadInv
  <1> QED BY <1>1, UploadInvariant, PTL

(* A chunk that is held comes from files of one fingerprint that sessions   *)
(* upload, and has no hole.                                                 *)
LEMMA HeldComesFrom ==
    ASSUME UploadInv, NEW j \in Jobs, NEW c \in Chunks, Held(j, c)
    PROVE  Missing \notin disk[j][c] /\ (Sighted => disk[j][c] \subseteq Contributors(j))
  <1>1. \A f \in disk[j][c] : f \in Files /\ Same(f, job[j].file) BY DEF Held
  <1>2. Missing \notin disk[j][c] BY <1>1, ContentAssumption
  <1>3. \A f \in disk[j][c] : \E t \in Tabs : f = tab[t].file
    BY <1>2 DEF UploadInv, ClientInv, FromSessions, Source
  <1>4. Sighted => \A f \in disk[j][c] : f \in Alike(job[j].file) BY <1>1 DEF Same, Alike
  <1> QED BY <1>2, <1>3, <1>4 DEF Contributors

(* Every confirmed chunk of a job that is still needed comes, whole, from   *)
(* files that sessions upload and that share the fingerprint the job was    *)
(* created with: a catalogue's always, an archive's or a JSON file's if     *)
(* every browser has crypto.subtle.                                         *)
THEOREM ChunksAreTheFile == Spec => [](Sighted => ConfirmedIsStored)
  <1>1. UploadInv => (Sighted => ConfirmedIsStored)
    BY HeldComesFrom DEF UploadInv, ServerInv, ConfirmedIsHeld, ConfirmedIsStored
  <1> QED BY <1>1, UploadInvariant, PTL

(* No session is ahead of the server.                                       *)
THEOREM SessionsFollow == Spec => []OffsetIsConfirmed
  <1>1. UploadInv => OffsetIsConfirmed BY DEF UploadInv, ClientInv
  <1> QED BY <1>1, UploadInvariant, PTL

(* Whatever the browser can tell of its files, no byte of a job that waits  *)
(* for the worker is missing: a session that skips a chunk, and a handler   *)
(* that confirms one, do so only when it is stored.                         *)
NoHoles == \A j \in Jobs : Status(j) = "queued" => \A c \in Chunks : Missing \notin disk[j][c]
LEMMA QueuedIsHeld ==
    ASSUME UploadInv, NEW j \in Jobs, Status(j) = "queued", NEW c \in Chunks
    PROVE  Held(j, c)
  <1>1. job[j].uploaded = Length /\ Kept(j) BY DEF UploadInv, ServerInv, QueuedFull, Kept
  <1>2. c < job[j].uploaded BY <1>1, Sizes DEF Chunks
  <1> QED BY <1>1, <1>2 DEF UploadInv, ServerInv, ConfirmedIsHeld

(* For every browser: what waits for the worker has no holes.               *)
THEOREM WorkersGetNoHoles == Spec => []NoHoles
  <1>1. UploadInv => NoHoles BY QueuedIsHeld, HeldComesFrom DEF NoHoles
  <1> QED BY <1>1, UploadInvariant, PTL

(* What waits for the worker is whole, and no file of another fingerprint   *)
(* has a part in it.                                                        *)
THEOREM WorkersGetWholeFiles == Spec => [](Sighted => QueuedIsWhole)
  <1>1. UploadInv => (Sighted => QueuedIsWhole)
    BY QueuedIsHeld, HeldComesFrom DEF QueuedIsWhole
  <1> QED BY <1>1, UploadInvariant, PTL

(* No two of the files that are uploaded now share a fingerprint: a premise *)
(* on the files, which the code cannot establish, since it hashes a sample. *)
ToldApart == \A t, u \in Tabs : Sample[tab[t].file] = Sample[tab[u].file] => tab[t].file = tab[u].file
OneFileQueued ==
    \A j \in Jobs : Status(j) = "queued" => \E f \in Files : \A c \in Chunks : disk[j][c] = {f}

(* Where that premise holds, what waits for the worker is one file, every   *)
(* chunk of it.                                                             *)
THEOREM WorkersGetOneFile == Spec => [](Sighted /\ ToldApart => OneFileQueued)
  <1>1. UploadInv => (Sighted /\ ToldApart => OneFileQueued)
    <2>1. SUFFICES ASSUME UploadInv, Sighted, ToldApart, NEW j \in Jobs, Status(j) = "queued"
                   PROVE  \E f \in Files : \A c \in Chunks : disk[j][c] = {f}
      BY DEF OneFileQueued
    <2>2. \A c \in Chunks : disk[j][c] \subseteq Contributors(j)
      BY <2>1, QueuedIsHeld, HeldComesFrom
    <2>3. \A f, g \in Contributors(j) : f = g /\ f \in Files BY <2>1 DEF Contributors, Alike, ToldApart
    <2>4. \A c \in Chunks : disk[j][c] # {} BY <2>1 DEF UploadInv, UploadTypeOK, ServerTypeOK
    <2>5. 0 \in Chunks BY Sizes DEF Chunks
    <2>6. PICK f : f \in disk[j][0] BY <2>4, <2>5
    <2>7. f \in Contributors(j) /\ f \in Files BY <2>2, <2>3, <2>5, <2>6
    <2>8. ASSUME NEW c \in Chunks PROVE disk[j][c] = {f}
      <3>1. \A g \in disk[j][c] : g = f BY <2>2, <2>3, <2>7
      <3> QED BY <2>4, <3>1
    <2> QED BY <2>7, <2>8
  <1> QED BY <1>1, UploadInvariant, PTL

(* One archive, or one JSON file, is uploaded or imported at a time.        *)
THEOREM OneAtATime == Spec => []OneLiveJob
  <1>1. UploadInv => OneLiveJob
    <2>1. SUFFICES ASSUME UploadInv, kind # "catalog"
                   PROVE  Cardinality(InStatus(Live)) <= 1
      BY DEF OneLiveJob
    <2>2. \A i, j \in InStatus(Live) : i = j BY <2>1 DEF UploadInv, ServerInv, SingleLive
    <2>3. CASE InStatus(Live) = {} BY <2>3, FS_EmptySet
    <2>4. ASSUME NEW i \in InStatus(Live) PROVE Cardinality(InStatus(Live)) <= 1
      <3>1. InStatus(Live) = {i} BY <2>2, <2>4
      <3>2. Cardinality({i}) = 1 BY FS_Singleton
      <3> QED BY <3>1, <3>2
    <2> QED BY <2>3, <2>4
  <1> QED BY <1>1, UploadInvariant, PTL

-----------------------------------------------------------------------------
(* Success is answered, or a JSON session found its task cancelled. *)

(* A step that tells no session that it is done.                            *)
LEMMA NotDone ==
    ASSUME UploadTypeOK, NEW t \in Tabs, NEW pc \in Phases, NEW n \in 0..Length, Goes(t, pc, n),
           pc # "done", NEW u \in Tabs, tab[u].pc # "done"
    PROVE  tab'[u].pc # "done"
  BY GoesEffect

(* Who is told is a session whose complete request the server handled.      *)
LEMMA DoneAnswered ==
    ASSUME UploadInv, NEW v \in completing \cup validating, CompleteAnswer(v.tab, TRUE),
           NEW t \in Tabs, NEW j \in Jobs, SucceedsNow(t, j)
    PROVE  v.job = j
  <1>1. CompleteAnswer(v.tab, TRUE) /\ tab' # tab BY DEF SucceedsNow
  <1>2. tab[v.tab].pc = "completing" /\ To(v.tab, "done") BY <1>1 DEF CompleteAnswer
  <1>3. v.tab \in Tabs /\ tab[v.tab].offset \in 0..Length /\ UploadTypeOK BY SessionTypes DEF UploadInv
  <1>4. v.tab = t BY <1>2, <1>3, GoesEffect DEF To, Phases, SucceedsNow
  <1>5. tab[t].job = j /\ j # NoJob BY NoJobAssumption DEF SucceedsNow
  <1> QED BY <1>4, <1>5 DEF UploadInv, ClientInv, CompletesOwn, Belongs

(* A started session is not done.                                           *)
LEMMA StartedNotDone ==
    ASSUME UploadInv, NEW t \in Tabs, NEW j \in Jobs, NEW n \in 0..Length, Started(t, j, n),
           NEW u \in Tabs, tab[u].pc # "done"
    PROVE  tab'[u].pc # "done"
  <1>1. UploadTypeOK /\ tab[t].offset \in 0..Length /\ tab \in [Tabs -> Session] /\ tab[t] \in Session
    BY SessionTypes DEF UploadInv, UploadTypeOK
  <1>2. CASE To(t, "failed") BY <1>1, <1>2, NotDone DEF To, Phases
  <1>3. CASE tab' = [tab EXCEPT ![t].pc = "next", ![t].job = j, ![t].offset = n]
    BY <1>1, <1>3 DEF Session
  <1> QED BY <1>2, <1>3 DEF Started

(* A step after which a session reports success left its job queued, or
   found a JSON task cancelled. *)
LEMMA SuccessStep ==
    ASSUME UploadInv, NEW t \in Tabs, NEW j \in Jobs, Next, SucceedsNow(t, j)
    PROVE  Accepted(j)' \/ (kind = "json" /\ Status(j) = "cancelled")
  <1>0. /\ UploadTypeOK /\ ServerTypes /\ tab \in [Tabs -> Session] /\ job \in [Jobs -> Row]
        /\ \A u \in Tabs : tab[u].offset \in 0..Length /\ tab[u].at \in 0..Length
        /\ \A i \in Jobs : job[i].uploaded \in 0..Length
    BY SessionTypes DEF UploadInv, UploadTypeOK, ServerTypeOK, Session
  <1>1. tab[t].pc # "done" /\ tab'[t].pc = "done" /\ tab[t].job = j BY DEF SucceedsNow
  <1>2. CASE UNCHANGED tab BY <1>1, <1>2
  <1>3. ASSUME NEW u \in Tabs, NEW pc \in Phases, NEW n \in 0..Length, Goes(u, pc, n), pc # "done"
        PROVE  FALSE
    BY <1>0, <1>1, <1>3, NotDone
  <1>4. CASE Worker \/ Crash BY <1>2, <1>4 DEF Worker, Crash, browserVars
  <1>5. CASE Admin
    <2>1. ASSUME NEW u \in Tabs, StartRefused(u) PROVE FALSE
      BY <1>0, <1>3, <2>1 DEF StartRefused, To, Phases
    <2>2. ASSUME NEW u \in Tabs, FindCatalogJob(u) PROVE FALSE
      <3>1. CASE To(u, "creating") BY <1>0, <1>3, <3>1 DEF To, Phases
      <3>2. ASSUME NEW i \in Jobs, Started(u, i, job[i].uploaded) PROVE FALSE
        BY <1>0, <1>1, <3>2, StartedNotDone
      <3> QED BY <2>2, <3>1, <3>2 DEF FindCatalogJob
    <2>3. ASSUME NEW u \in Tabs, NEW i \in Jobs, ResumeUpload(u, i) PROVE FALSE
      BY <1>0, <1>1, <2>3, StartedNotDone DEF ResumeUpload
    <2>4. ASSUME NEW u \in Tabs, NEW i \in Jobs, StartUpload(u, i) PROVE FALSE
      BY <1>1, <2>4, StartedNotDone, Sizes DEF StartUpload
    <2>5. ASSUME UNCHANGED browserVars PROVE FALSE BY <1>1, <2>5 DEF browserVars
    <2> QED BY <1>5, <2>1, <2>2, <2>3, <2>4, <2>5 DEF Admin
  <1>6. CASE Server
    <2>1. ASSUME NEW r \in sent \cup admitted \cup writing, NEW ok, NEW n \in 0..Length, Answer(r, ok, n) PROVE FALSE
      <3>1. r.tab \in Tabs BY <1>0, SessionTypes
      <3> QED BY <1>1, <1>3, <2>1, <3>1 DEF Answer, Phases
    <2>2. ASSUME NEW r \in sent, ReceiveChunk(r) PROVE FALSE
      <3>1. job[r.job].uploaded \in 0..Length BY <1>0, SessionTypes
      <3> QED BY <1>1, <2>1, <2>2, <3>1 DEF ReceiveChunk
    <2>3. ASSUME NEW r \in writing, StoreChunk(r) PROVE FALSE
      <3>1. r.at + 1 \in 0..Length BY <1>0, SessionTypes, Sizes DEF Chunks
      <3> QED BY <2>1, <2>3, <3>1 DEF StoreChunk
    <2>4. ASSUME NEW v \in completing \cup validating, CompleteAnswer(v.tab, TRUE),
                 Enqueue(v.job) \/ MarkReady(v)
          PROVE  Accepted(j)'
      <3>1. v.job = j BY <2>4, DoneAnswered
      <3>2. job' = [job EXCEPT ![j].status = "queued"] BY <2>4, <3>1 DEF Enqueue, MarkReady
      <3>3. job[j] \in Row BY <1>0
      <3>4. job'[j].status = "queued" BY <1>0, <3>2, <3>3 DEF Row
      <3> QED BY <3>4 DEF Accepted, InStatus, Status
    <2>5. ASSUME NEW v \in completing, CompleteAnswer(v.tab, AlreadyComplete(v.job)), UNCHANGED serverVars
          PROVE  Accepted(j)'
      <3>1. AlreadyComplete(v.job) BY <1>1, <2>5 DEF CompleteAnswer
      <3>2. CompleteAnswer(v.tab, TRUE) BY <2>5, <3>1 DEF CompleteAnswer
      <3>3. v.job = j BY <3>2, DoneAnswered
      <3> QED BY <2>5, <3>1, <3>3 DEF AlreadyComplete, Accepted, InStatus, Status, serverVars
    <2>6. ASSUME NEW v \in completing, ReceiveComplete(v) PROVE Accepted(j)'
      BY <1>1, <2>4, <2>5, <2>6 DEF ReceiveComplete
    <2>7. ASSUME NEW v \in validating, EndValidation(v) PROVE Accepted(j)'
      BY <1>1, <2>4, <2>7 DEF EndValidation
    <2>8. ASSUME NEW r \in sent, DropRequest(r) PROVE FALSE BY <1>1, <2>8 DEF DropRequest
    <2>9. ASSUME UNCHANGED browserVars PROVE FALSE BY <1>1, <2>9 DEF browserVars
    <2> QED BY <1>6, <2>2, <2>3, <2>6, <2>7, <2>8, <2>9 DEF Server, LoseChunk, WriteAdmitted
  <1>7. ASSUME NEW u \in Tabs, Client(u)
        PROVE  Accepted(j)' \/ (kind = "json" /\ Status(j) = "cancelled")
    <2>1. ASSUME NEW at, NEW try, Send(u, at, try) PROVE FALSE
      BY <1>0, <1>1, <2>1 DEF Send, Session
    <2>2. CASE SendChunk(u) \/ SendAgain(u) BY <2>1, <2>2 DEF SendChunk, SendAgain
    <2>3. CASE AskOffset(u)
      <3>1. tab[u].job # NoJob BY <2>3 DEF AskOffset, UploadInv, ClientInv, SessionsOwn, PhaseOK, Begun
      <3>2. job[tab[u].job].uploaded \in 0..Length BY <1>0, <3>1, SessionTypes
      <3> QED BY <1>3, <2>3, <3>2 DEF AskOffset, Phases
    <2>4. CASE GiveUp(u) \/ SendComplete(u) \/ CompleteFails(u)
      BY <1>0, <1>3, <2>4 DEF GiveUp, SendComplete, CompleteFails, To, Phases
    <2>5. CASE Confirm(u)
      <3>1. u = t
        <4>1. \A x \in Tabs : x # u => tab'[x] = tab[x]
          BY <1>0, <2>5, GoesEffect DEF Confirm, To, Phases
        <4> QED BY <1>1, <4>1
      <3>2. kind = "json" /\ Status(j) # "uploading" /\ job' = job
        BY <1>1, <2>5, <3>1 DEF Confirm, serverVars
      <3>3. Status(j) # "none"
        BY <1>1, NoJobAssumption DEF UploadInv, ClientInv, SessionsOwn
      <3>4. Status(j) \in Statuses BY <1>0 DEF Row, Status
      <3>5. Status(j)' = Status(j) BY <3>2 DEF Status
      <3> QED BY <3>2, <3>3, <3>4, <3>5 DEF Statuses, Accepted, InStatus
    <2> QED BY <1>7, <2>2, <2>3, <2>4, <2>5 DEF Client
  <1> QED BY <1>4, <1>5, <1>6, <1>7 DEF Next

(* A session that reports success has left its job with the worker, or found*)
(* its JSON task cancelled.                                                 *)
THEOREM SuccessHasACause == Spec => SuccessIsAnswered
  <1> DEFINE Caused == \A t \in Tabs, j \in Jobs : SucceedsNow(t, j) =>
                          Accepted(j)' \/ (kind = "json" /\ Status(j) = "cancelled")
  <1>1. UploadInv /\ [Next]_uploadVars => [Caused]_uploadVars BY SuccessStep
  <1>2. SuccessIsAnswered <=> [][Caused]_uploadVars BY DEF SuccessIsAnswered
  <1> HIDE DEF Caused
  <1> QED BY <1>1, <1>2, UploadInvariant, PTL DEF Spec

-----------------------------------------------------------------------------
(* The jobs are UploadedFiles. *)

ContentOf(j) == [c \in Chunks |-> IF c < job[j].uploaded THEN disk[j][c] \ {Missing} ELSE {}]

(* The names of the abstract state.                                         *)
LEMMA Stages ==
    /\ Stage("none") = "closed" /\ Stage("uploading") = "open" /\ Stage("queued") = "sealed"
    /\ Stage("running") = "taken" /\ Stage("finished") = "taken" /\ Stage("cancelled") = "dropped"
  BY DEF Stage

(* A row that is there has a stage of its own.                              *)
LEMMA OpenedStages ==
    ASSUME ServerTypes, NEW j \in Jobs, Status(j) # "none"
    PROVE  Stage(Status(j)) # "closed"
  <1>1. Status(j) \in Statuses BY RequestTypes DEF Row, Status
  <1> QED BY <1>1, Stages DEF Statuses

(* The content of a job whose offset stays.                                 *)
LEMMA ContentStays ==
    ASSUME ServerTypes, NEW j \in Jobs, job'[j].uploaded = job[j].uploaded
    PROVE  /\ (\A c \in Chunks : c < job[j].uploaded => disk'[j][c] = disk[j][c]) => ContentOf(j)' = ContentOf(j)
           /\ disk'[j] = Removed => ContentOf(j)' = File(j)!Nothing
  <1>1. (\A c \in Chunks : c < job[j].uploaded => disk'[j][c] = disk[j][c]) => ContentOf(j)' = ContentOf(j)
    BY DEF ContentOf
  <1>2. disk'[j] = Removed => ContentOf(j)' = File(j)!Nothing BY DEF ContentOf, Removed, File!Nothing, Chunks
  <1> QED BY <1>1, <1>2

(* Nothing of the job that matters changes.                                 *)
LEMMA FileStutters ==
    ASSUME ServerTypes, NEW j \in Jobs, kind' = kind, job'[j].status = job[j].status,
           job'[j].file = job[j].file, job'[j].uploaded = job[j].uploaded,
           \A c \in Chunks : c < job[j].uploaded => disk'[j][c] = disk[j][c]
    PROVE  File(j)!Step
  <1>1. Stage(Status(j))' = Stage(Status(j)) BY DEF Status, Stage
  <1>2. ContentOf(j)' = ContentOf(j) BY ContentStays
  <1> QED BY <1>1, <1>2 DEF File!Step, File!fileVars, ContentOf

(* Another job moved.                                                       *)
LEMMA OtherFiles ==
    ASSUME ServerTypes, kind' = kind, NEW j \in Jobs, job'[j] = job[j], disk'[j] = disk[j]
    PROVE  File(j)!Step
  BY FileStutters

(* The confirmed chunks of a job that is needed fill its file.              *)
LEMMA Filled ==
    ASSUME ServerTypes, ServerInv, NEW j \in Jobs, Kept(j)
    PROVE  File(j)!FilledTo(job[j].uploaded)
  <1>1. \A c \in Chunks : disk[j][c] # {} BY DEF ServerTypes, ServerTypeOK
  <1>2. \A c \in Chunks : c < job[j].uploaded => disk[j][c] \ {Missing} # {}
    BY <1>1, ContentAssumption DEF ServerInv, ConfirmedIsHeld, Held
  <1> QED BY <1>2 DEF File!FilledTo, Chunks

(* A job that becomes queued is an UploadedFile that is sealed.             *)
LEMMA SealMaps ==
    ASSUME ServerTypes, ServerInv, NEW j \in Jobs, Status(j) # "none", job[j].uploaded = Length, Kept(j),
           job' = [job EXCEPT ![j].status = "queued"], disk' = disk, kind' = kind
    PROVE  \A i \in Jobs : File(i)!Step
  <1>1. /\ Status(j)' = "queued" /\ job'[j].file = job[j].file /\ job'[j].uploaded = job[j].uploaded
        /\ \A i \in Jobs : i # j => job'[i] = job[i]
    BY StatusChanges DEF Statuses
  <1>2. ContentOf(j)' = ContentOf(j) BY <1>1, ContentStays
  <1>3. Stage(Status(j))' = "sealed" BY <1>1, Stages DEF Status
  <1>4. File(j)!FilledTo(Length) BY Filled
  <1>5. File(j)!Seal BY <1>1, <1>2, <1>3, <1>4, OpenedStages DEF File!Seal, ContentOf
  <1>6. File(j)!Step BY <1>5 DEF File!Step, File!Next
  <1> QED BY <1>1, <1>6, OtherFiles

(* A job the worker takes or ends is taken, a cancelled one dropped.        *)
LEMMA EndMaps ==
    ASSUME ServerTypes, ServerInv, NEW j \in Jobs, NEW s \in {"running", "finished", "cancelled"},
           Status(j) # "none", s # "cancelled" => Status(j) \in {"queued", "running"},
           job' = [job EXCEPT ![j].status = s],
           disk' = disk \/ disk' = [disk EXCEPT ![j] = Removed], kind' = kind
    PROVE  \A i \in Jobs : File(i)!Step
  <1>1. /\ Status(j)' = s /\ job'[j].file = job[j].file /\ job'[j].uploaded = job[j].uploaded
        /\ \A i \in Jobs : i # j => job'[i] = job[i]
    BY StatusChanges DEF Statuses
  <1>2. (disk'[j] = disk[j] \/ disk'[j] = Removed) /\ \A i \in Jobs : i # j => disk'[i] = disk[i]
    BY RemovalTypes DEF ServerTypes, ServerTypeOK
  <1>3. ContentOf(j)' \in {ContentOf(j), File(j)!Nothing} BY <1>1, <1>2, ContentStays
  <1>4. ASSUME s = "cancelled" PROVE File(j)!Step
    <2>1. Stage(Status(j))' = "dropped" BY <1>1, <1>4, Stages DEF Status
    <2>2. File(j)!Drop BY <1>1, <1>3, <2>1, OpenedStages DEF File!Drop, ContentOf
    <2> QED BY <2>2 DEF File!Step, File!Next
  <1>5. ASSUME s # "cancelled" PROVE File(j)!Step
    <2>1. Stage(Status(j))' = "taken" BY <1>1, <1>5, Stages DEF Status
    <2>2. Stage(Status(j)) \in {"sealed", "taken"} BY <1>5, Stages
    <2>3. File(j)!Take BY <1>1, <1>3, <2>1, <2>2 DEF File!Take, ContentOf
    <2> QED BY <2>3 DEF File!Step, File!Next
  <1>6. File(j)!Step BY <1>4, <1>5
  <1> QED BY <1>1, <1>2, <1>6, OtherFiles

(* A cancel that came too late takes the file of a job that is over.        *)
LEMMA LateCancelMaps ==
    ASSUME ServerTypes, NEW j \in Jobs, Status(j) \in {"running", "finished", "cancelled"},
           job' = job, disk' = [disk EXCEPT ![j] = Removed], kind' = kind
    PROVE  \A i \in Jobs : File(i)!Step
  <1>1. disk'[j] = Removed /\ \A i \in Jobs : i # j => disk'[i] = disk[i]
    BY RemovalTypes DEF ServerTypes, ServerTypeOK
  <1>2. ContentOf(j)' = File(j)!Nothing BY <1>1, ContentStays
  <1>3. Stage(Status(j))' = Stage(Status(j)) BY DEF Status
  <1>4. ASSUME Status(j) = "cancelled" PROVE File(j)!Step
    <2>1. File(j)!Drop BY <1>2, <1>3, <1>4, Stages DEF File!Drop, ContentOf
    <2> QED BY <2>1 DEF File!Step, File!Next
  <1>5. ASSUME Status(j) \in {"running", "finished"} PROVE File(j)!Step
    <2>1. File(j)!Take BY <1>2, <1>3, <1>5, Stages DEF File!Take, ContentOf
    <2> QED BY <2>1 DEF File!Step, File!Next
  <1>6. File(j)!Step BY <1>4, <1>5
  <1> QED BY <1>1, <1>6, OtherFiles

(* A held chunk is a piece of the job's file.                               *)
LEMMA HeldIsPiece ==
    ASSUME Sighted, ServerTypes, NEW j \in Jobs, NEW c \in Chunks, Held(j, c)
    PROVE  disk[j][c] \ {Missing} \in File(j)!Pieces(job[j].file)
  <1>1. disk[j][c] # {} BY DEF ServerTypes, ServerTypeOK
  <1>2. \A f \in disk[j][c] : f \in Files /\ Sample[f] = Sample[job[j].file] BY DEF Held, Same
  <1>3. disk[j][c] \ {Missing} = disk[j][c] BY <1>2, ContentAssumption
  <1> QED BY <1>1, <1>2, <1>3 DEF File!Pieces

(* The confirmed chunk is the next piece of the job's file.                 *)
LEMMA AppendMaps ==
    ASSUME Sighted, ServerTypes, ServerInv, NEW r \in writing, ConfirmChunk(r)
    PROVE  \A i \in Jobs : File(i)!Step
  <1>1. /\ r.job \in Jobs /\ r.at \in Chunks /\ job \in [Jobs -> Row] /\ job[r.job] \in Row
        /\ Owned(r) /\ (Kept(r.job) => Held(r.job, r.at))
        /\ disk' = disk /\ kind' = kind /\ Status(r.job) \in Statuses
    BY RequestTypes DEF ServerTypes, ServerTypeOK, ServerInv, WritesStand, ConfirmChunk, Row, Status
  <1>2. CASE ~UpdateMatches(r)
    <2>1. job' = job BY <1>2 DEF ConfirmChunk
    <2> QED BY <1>1, <2>1, OtherFiles
  <1>3. CASE UpdateMatches(r)
    <2> DEFINE j == r.job  n == r.at
    <2>1. /\ job[j].uploaded = n /\ job' = [job EXCEPT ![j].uploaded = n + 1]
          /\ Kept(j) /\ Status(j) \in {"uploading", "cancelled"}
      <3>1. job[j].uploaded # Length BY <1>1, <1>3, Sizes DEF UpdateMatches, Chunks
      <3> QED BY <1>1, <1>3, <3>1 DEF UpdateMatches, ConfirmChunk, Kept, Owned, Statuses, ServerInv, QueuedFull
    <2>2. j \in Jobs /\ n \in Chunks /\ Held(j, n) /\ job[j] \in Row BY <1>1, <2>1
    <2> HIDE DEF j, n
    <2>3. /\ job'[j].status = job[j].status /\ job'[j].file = job[j].file /\ job'[j].uploaded = n + 1
          /\ \A i \in Jobs : i # j => job'[i] = job[i]
      BY <1>1, <2>1, <2>2 DEF Row
    <2>4. File(j)!FilledTo(n) BY <2>1, <2>2, Filled
    <2> DEFINE piece == disk[j][n] \ {Missing}
    <2>5. piece \in File(j)!Pieces(job[j].file) BY <2>2, HeldIsPiece
    <2>6. ContentOf(j)' = [ContentOf(j) EXCEPT ![n] = piece]
      <3>1. \A c \in Chunks : c < n + 1 <=> c < n \/ c = n BY <2>2, Sizes
      <3>2. ASSUME NEW c \in Chunks PROVE ContentOf(j)'[c] = IF c = n THEN piece ELSE ContentOf(j)[c]
        BY <1>1, <2>1, <2>2, <2>3, <3>1 DEF ContentOf
      <3> QED BY <3>2 DEF ContentOf
    <2> HIDE DEF piece
    <2>7. Stage(Status(j)) \in {"open", "dropped"} /\ Stage(Status(j))' = Stage(Status(j))
      BY <2>1, <2>3, Stages DEF Status
    <2>8. File(j)!Write(n) BY <2>3, <2>5, <2>6, <2>7 DEF File!Write, ContentOf
    <2>9. File(j)!Append(n) BY <2>4, <2>7, <2>8 DEF File!Append
    <2>10. File(j)!Step BY <1>1, <2>2, <2>9 DEF File!Step, File!Next, Chunks
    <2> QED BY <1>1, <2>3, <2>10, OtherFiles
  <1> QED BY <1>2, <1>3

(* A write above the offset does not show; one below it, which only the     *)
(* catalogue's handlers make, replaces a piece by pieces like it.           *)
LEMMA WriteMaps ==
    ASSUME Sighted, ServerTypes, ServerInv, NEW r \in Request, Owned(r), WriteChunk(r) \/ TearChunk(r)
    PROVE  \A i \in Jobs : File(i)!Step
  <1> DEFINE piece == IF WriteChunk(r) THEN {r.file} ELSE disk[r.job][r.at] \cup {r.file}
  <1>1. /\ disk \in [Jobs -> [Chunks -> (SUBSET (Files \cup {Missing})) \ {{}}]] /\ r.job \in Jobs /\ r.at \in Chunks
        /\ r.at \in Nat /\ r.at <= job[r.job].uploaded /\ job[r.job].uploaded \in Nat
        /\ kind = "catalog" \/ r.at = job[r.job].uploaded
    BY MayWriteStands, RequestTypes DEF ServerTypes, ServerTypeOK, WriteChunk, TearChunk
  <1>2. job' = job /\ kind' = kind BY DEF WriteChunk, TearChunk
  <1>3. disk' = [disk EXCEPT ![r.job][r.at] = piece] BY <1>1 DEF WriteChunk, TearChunk
  <1>4. piece = {r.file} \/ piece = disk[r.job][r.at] \cup {r.file} OBVIOUS
  <1> HIDE DEF piece
  <1>5. /\ disk'[r.job][r.at] = piece /\ piece # {}
        /\ \A i \in Jobs, c \in Chunks : i # r.job \/ c # r.at => disk'[i][c] = disk[i][c]
        /\ Held(r.job, r.at) => Held(r.job, r.at)'
    BY <1>1, <1>2, <1>3, <1>4, PieceHeld
  <1>6. \A i \in Jobs : i # r.job => File(i)!Step BY <1>2, <1>5, FileStutters
  <1>7. File(r.job)!Step
    <2> DEFINE j == r.job  n == r.at  new == piece \ {Missing}
    <2>1. CASE n = job[j].uploaded
      <3>1. \A c \in Chunks : c < n => c # n BY <1>1, Sizes
      <3> QED BY <1>1, <1>2, <1>5, <2>1, <3>1, FileStutters
    <2>2. CASE n < job[j].uploaded
      <3>1. kind = "catalog" /\ Kept(j) BY <1>1, <2>2 DEF Kept
      <3>2. Held(j, n) BY <1>1, <2>2, <3>1 DEF ServerInv, ConfirmedIsHeld
      <3>3. \A f \in piece : f \in Files /\ Same(f, job[j].file)
        BY <1>2, <1>5, <3>2 DEF Held, Same, Sighted
      <3>4. new \in File(j)!Pieces(job[j].file)
        BY <1>5, <3>3, ContentAssumption DEF File!Pieces, Same
      <3>5. ContentOf(j)[n] # {}
        <4>1. disk[j][n] \ {Missing} \in File(j)!Pieces(job[j].file) BY <1>1, <3>2, HeldIsPiece
        <4> QED BY <1>1, <2>2, <4>1 DEF ContentOf, File!Pieces
      <3>6. ContentOf(j)' = [ContentOf(j) EXCEPT ![n] = new]
        <4>1. ASSUME NEW c \in Chunks PROVE ContentOf(j)'[c] = IF c = n THEN new ELSE ContentOf(j)[c]
          BY <1>1, <1>2, <1>5, <2>2 DEF ContentOf
        <4> QED BY <4>1 DEF ContentOf
      <3> HIDE DEF new
      <3>7. Stage(Status(j))' = Stage(Status(j)) BY <1>2 DEF Status
      <3>8. File(j)!Write(n) BY <1>2, <3>4, <3>6, <3>7 DEF File!Write, ContentOf
      <3>9. File(j)!Overwrite(n) BY <3>1, <3>5, <3>8 DEF File!Overwrite, ContentOf
      <3> QED BY <1>1, <1>2, <3>9 DEF File!Step, File!Next, Chunks
    <2> QED BY <1>1, <2>1, <2>2
  <1> QED BY <1>6, <1>7

(* A new row is an UploadedFile that is opened.                             *)
LEMMA NewFile ==
    ASSUME ServerTypes, ServerInv, NEW j \in Jobs, NEW file \in Files, NEW print, Status(j) = "none",
           job'[j] = NewRow(file, print), disk'[j] = disk[j], kind' = kind
    PROVE  File(j)!Step
  <1>1. job[j] = NoRow BY DEF ServerInv, RowsKnown
  <1>2. job'[j].status = "uploading" /\ job'[j].file = file /\ job'[j].uploaded = job[j].uploaded
    BY <1>1 DEF NewRow, NoRow
  <1>3. ContentOf(j)' = ContentOf(j) BY <1>2, ContentStays
  <1>4. Stage(Status(j)) = "closed" /\ Stage(Status(j))' = "open" BY <1>2, Stages DEF Status
  <1>5. File(j)!Open BY <1>2, <1>3, <1>4 DEF File!Open, ContentOf
  <1> QED BY <1>5 DEF File!Step, File!Next

(* A row created in place of an expired one: one file is dropped and one    *)
(* opened.                                                                  *)
LEMMA StartMaps ==
    ASSUME ServerTypes, ServerInv, NEW j \in Jobs, NEW file \in Files, NEW print, kind' = kind,
           Create(j, file, print) \/ \E i \in Jobs : ReplaceExpired(i, j, file, print)
    PROVE  \A k \in Jobs : File(k)!Step
  <1>1. job \in [Jobs -> Row] /\ disk \in [Jobs -> [Chunks -> (SUBSET (Files \cup {Missing})) \ {{}}]]
    BY DEF ServerTypes, ServerTypeOK
  <1>2. CASE Create(j, file, print)
    <2>1. /\ Status(j) = "none" /\ job'[j] = NewRow(file, print) /\ disk' = disk
          /\ \A k \in Jobs : k # j => job'[k] = job[k]
      BY <1>1, <1>2 DEF Create, InStatus
    <2> QED BY <2>1, NewFile, OtherFiles
  <1>3. ASSUME NEW i \in Jobs, ReplaceExpired(i, j, file, print) PROVE \A k \in Jobs : File(k)!Step
    <2>1. /\ Status(j) = "none" /\ Status(i) = "uploading" /\ i # j
          /\ disk' = [disk EXCEPT ![i] = Removed]
          /\ job' = [job EXCEPT ![i].status = "cancelled", ![j] = NewRow(file, print)]
      BY <1>3 DEF ReplaceExpired, InStatus
    <2>2. /\ job'[j] = NewRow(file, print) /\ job'[i] = [job[i] EXCEPT !.status = "cancelled"]
          /\ \A k \in Jobs : k # i /\ k # j => job'[k] = job[k]
      BY <1>1, <2>1
    <2>3. disk'[i] = Removed /\ \A k \in Jobs : k # i => disk'[k] = disk[k] BY <1>1, <2>1
    <2>4. job[i] \in Row BY <1>1
    <2>5. job'[i].status = "cancelled" /\ job'[i].file = job[i].file /\ job'[i].uploaded = job[i].uploaded
      BY <2>2, <2>4 DEF Row
    <2>6. Stage(Status(i)) = "open" /\ Stage(Status(i))' = "dropped" BY <2>1, <2>5, Stages DEF Status
    <2>7. ContentOf(i)' = File(i)!Nothing BY <2>3, <2>5, ContentStays
    <2>8. File(i)!Drop BY <2>5, <2>6, <2>7 DEF File!Drop, ContentOf
    <2>9. File(i)!Step BY <2>8 DEF File!Step, File!Next
    <2>10. File(j)!Step BY <2>1, <2>2, <2>3, NewFile
    <2> QED BY <2>2, <2>3, <2>9, <2>10, OtherFiles
  <1> QED BY <1>2, <1>3

(* Resuming gives a row at most another fingerprint.                        *)
LEMMA ResumeMaps ==
    ASSUME ServerTypes, NEW j \in Jobs, NEW print, Resume(j, print), kind' = kind
    PROVE  \A i \in Jobs : File(i)!Step
  <1>1. job \in [Jobs -> Row] /\ job[j] \in Row BY DEF ServerTypes, ServerTypeOK
  <1>2. disk' = disk /\ job' = [job EXCEPT ![j].print = IF kind = "json" THEN print ELSE @] BY DEF Resume
  <1>3. \A i \in Jobs : /\ job'[i].status = job[i].status /\ job'[i].file = job[i].file
                        /\ job'[i].uploaded = job[i].uploaded
    BY <1>1, <1>2 DEF Row
  <1> QED BY <1>2, <1>3, FileStutters

(* Every step of the composition is a step of every UploadedFile.           *)
LEMMA StepMaps ==
    ASSUME Sighted, UploadInv, [Next]_uploadVars
    PROVE  \A i \in Jobs : File(i)!Step
  <1>0. ServerTypes /\ ServerInv /\ UploadTypeOK BY SessionTypes DEF UploadInv
  <1>1. CASE UNCHANGED <<kind, job, disk>> BY <1>0, <1>1, OtherFiles
  <1>2. ASSUME NEW t \in Tabs, NEW j \in Jobs, ResumeUpload(t, j) PROVE \A i \in Jobs : File(i)!Step
    BY <1>0, <1>2, ResumeMaps DEF ResumeUpload
  <1>3. ASSUME NEW t \in Tabs, NEW j \in Jobs, StartUpload(t, j) PROVE \A i \in Jobs : File(i)!Step
    <2>1. tab[t].file \in Files BY <1>0, SessionTypes
    <2> QED BY <1>0, <1>3, <2>1, StartMaps DEF StartUpload
  <1>4. ASSUME NEW r \in sent \cup admitted, WriteChunk(r) \/ TearChunk(r) PROVE \A i \in Jobs : File(i)!Step
    <2>1. r \in Request BY <1>0, SessionTypes
    <2>2. Owned(r) BY DEF UploadInv, ClientInv, RequestsOwn, ServerInv, AdmittedStand
    <2> QED BY <1>0, <1>4, <2>1, <2>2, WriteMaps
  <1>5. ASSUME NEW r \in writing, ConfirmChunk(r) PROVE \A i \in Jobs : File(i)!Step
    BY <1>0, <1>5, AppendMaps
  <1>6. ASSUME NEW v \in completing, Enqueue(v.job) PROVE \A i \in Jobs : File(i)!Step
    <2>1. v.job \in Jobs BY <1>0, SessionTypes
    <2> QED BY <1>0, <1>6, <2>1, SealMaps DEF Enqueue, Whole, Kept
  <1>7. ASSUME NEW v \in validating, MarkReady(v) PROVE \A i \in Jobs : File(i)!Step
    <2>1. v.job \in Jobs /\ kind = "catalog" /\ Status(v.job) # "none" /\ job[v.job].uploaded = Length
      BY <1>0, SessionTypes DEF ServerInv, ValidatingFull
    <2> QED BY <1>0, <1>7, <2>1, SealMaps DEF MarkReady, Kept
  <1>8. ASSUME NEW x \in cancels, Cancel(x) PROVE \A i \in Jobs : File(i)!Step
    <2>1. /\ x.job \in Jobs /\ Status(x.job) \in Statuses /\ Status(x.job) # "none"
          /\ kind = "archive" /\ Status(x.job) # x.read => Status(x.job) \notin {"uploading", "queued"}
      BY <1>0, RequestTypes DEF ServerInv, CancelsRead, Row, Status
    <2>2. CASE kind = "archive" /\ Status(x.job) # x.read
      BY <1>0, <1>8, <2>1, <2>2, LateCancelMaps DEF Cancel, Statuses
    <2>3. CASE ~(kind = "archive" /\ Status(x.job) # x.read)
      BY <1>0, <1>8, <2>1, <2>3, EndMaps DEF Cancel
    <2> QED BY <2>2, <2>3
  <1>9. ASSUME NEW j \in Jobs, WorkerTakes(j) \/ WorkerEnds(j) PROVE \A i \in Jobs : File(i)!Step
    <2>1. disk' = disk \/ disk' = [disk EXCEPT ![j] = Removed] BY <1>9 DEF WorkerTakes, WorkerEnds
    <2> QED BY <1>0, <1>9, <2>1, EndMaps DEF WorkerTakes, WorkerEnds
  <1>10. CASE UNCHANGED uploadVars BY <1>1, <1>10 DEF uploadVars, serverVars
  <1>11. CASE Admin
    BY <1>1, <1>2, <1>3, <1>11 DEF Admin, StartRefused, FindCatalogJob, ReadForCancel, serverVars
  <1>12. CASE Server
    <2>1. ASSUME NEW r \in sent, ReceiveChunk(r) PROVE \A i \in Jobs : File(i)!Step
      BY <1>1, <1>4, <2>1 DEF ReceiveChunk, AdmitChunk, serverVars
    <2>2. ASSUME NEW v \in completing, ReceiveComplete(v) PROVE \A i \in Jobs : File(i)!Step
      BY <1>1, <1>6, <2>2 DEF ReceiveComplete, BeginValidation, serverVars
    <2>3. ASSUME NEW v \in validating, EndValidation(v) PROVE \A i \in Jobs : File(i)!Step
      BY <1>1, <1>7, <2>3 DEF EndValidation, FailValidation
    <2>4. ASSUME NEW r \in sent, DropRequest(r) PROVE \A i \in Jobs : File(i)!Step
      BY <1>1, <2>4 DEF DropRequest, serverVars
    <2>5. ASSUME NEW r \in admitted, WriteAdmitted(r) PROVE \A i \in Jobs : File(i)!Step
      BY <1>4, <2>5 DEF WriteAdmitted
    <2>6. ASSUME NEW r \in writing, StoreChunk(r) PROVE \A i \in Jobs : File(i)!Step
      BY <1>5, <2>6 DEF StoreChunk
    <2>7. ASSUME NEW r \in admitted \cup writing, LoseChunk(r) PROVE \A i \in Jobs : File(i)!Step
      BY <1>1, <2>7 DEF LoseChunk, ForgetChunk
    <2> QED BY <1>8, <1>12, <2>1, <2>2, <2>3, <2>4, <2>5, <2>6, <2>7 DEF Server
  <1>13. CASE Worker BY <1>9, <1>13 DEF Worker
  <1>14. CASE Crash BY <1>1, <1>14 DEF Crash, RestartJobs
  <1>15. ASSUME NEW t \in Tabs, Client(t) PROVE \A i \in Jobs : File(i)!Step
    BY <1>1, <1>15 DEF Client, SendChunk, SendAgain, Send, AskOffset, GiveUp, SendComplete,
                       CompleteFails, Confirm, serverVars
  <1> QED BY <1>10, <1>11, <1>12, <1>13, <1>14, <1>15 DEF Next

(* The initial states are initial states of every UploadedFile.             *)
LEMMA InitMaps ==
    ASSUME Init, NEW j \in Jobs
    PROVE  File(j)!Init
  <1>1. job[j] = NoRow /\ Status(j) = "none" BY DEF Init, ServerInit, NoRow, Status
  <1>2. Stage(Status(j)) = "closed" /\ job[j].file = Missing BY <1>1, Stages DEF NoRow
  <1>3. ContentOf(j) = File(j)!Nothing BY <1>1, Sizes DEF ContentOf, NoRow, File!Nothing, Chunks
  <1> QED BY <1>2, <1>3 DEF File!Init, ContentOf

(* Whatever the browsers, the network and the server's handlers do, the     *)
(* content of a job grows piece by piece, from files of the fingerprint it  *)
(* was created with, and is handed on only when it is whole: where every    *)
(* browser computes fingerprints.  Files that share a fingerprint share a   *)
(* job's pieces; WorkersGetOneFile is about files that do not.              *)
THEOREM JobsAreUploadedFiles ==
    ASSUME Blind = {} \/ Kinds = {"catalog"}
    PROVE  Spec => ImplementsUploadedFile
  <1> DEFINE Steps == \A j \in Jobs : File(j)!Step
             Inits == \A j \in Jobs : File(j)!Init
  <1>1. Init => Inits BY InitMaps
  <1>2. UploadInv /\ [Next]_uploadVars => Steps
    <2>1. UploadInv => Sighted BY DEF UploadInv, UploadTypeOK, ServerTypeOK, Sighted
    <2> QED BY <2>1, StepMaps
  <1>3. ImplementsUploadedFile <=> Inits /\ [][Steps]_uploadVars BY DEF ImplementsUploadedFile
  <1> HIDE DEF Steps, Inits
  <1> QED BY <1>1, <1>2, <1>3, UploadInvariant, PTL DEF Spec
=============================================================================
