----------------------------- MODULE AIJobRows -----------------------------
(***************************************************************************)
(* The rows of AI optimization jobs and what administrators do to them:    *)
(* ai_agent_seo_jobs, ai_agent_seo_job_items and the product columns a job *)
(* writes (backend/controllers/ai_seo_jobs.go, ai_seo_category_jobs.go,    *)
(* ai_seo_spec_jobs.go, ai_listing_jobs.go, ai_job_runtime.go and          *)
(* ai_product_identification_jobs.go).                                     *)
(*                                                                         *)
(* Job kinds.  "content" stands for the selection modes selected,          *)
(* auto_candidates and auto_failed; "draft" for specification research and *)
(* product identification, which write review rows only; "category" and    *)
(* "listing" for the modes of those names.  An unresolved item is a        *)
(* failed one here, a skipped one an optimized one.                        *)
(*                                                                         *)
(* Jobs are numbered in order of created_at.  A product keeps the last job *)
(* that wrote it.  worker_token values are drawn from Tokens, one per      *)
(* goroutine that may be alive.                                            *)
(***************************************************************************)
EXTENDS Integers, FiniteSets

CONSTANTS
    Jobs,          \* job rows, numbered from 1
    Products,      \* product ids
    Tokens,        \* worker tokens
    Kinds,         \* job kinds that administrators start
    MaxActive,     \* maxActiveAISEOJobs
    MaxResumes,    \* bound: resumes over the whole run
    Faults         \* database statements and settings that may fail

NoToken == 0
NoJob == 0

ASSUME RowsAssumption == /\ Jobs \subseteq Nat \ {NoJob}
                         /\ Tokens \subseteq Nat \ {NoToken}
                         /\ IsFiniteSet(Tokens) /\ IsFiniteSet(Products)
                         /\ Kinds \subseteq {"content", "category", "draft", "listing"}
                         /\ Faults \subseteq {"claim", "read", "finalize", "release"}

VARIABLES
    status,     \* ai_agent_seo_jobs.status; "none" before the insert
    token,      \* ai_agent_seo_jobs.worker_token
    kind,       \* ai_agent_seo_jobs.selection_mode
    processed,  \* ai_agent_seo_jobs.processed
    item,       \* status of the job's item for a product, "none" if it has no such item
    written,    \* the last job that wrote the product
    listing,    \* createListingJob between its checks and its insert
    ending,     \* EndSEOJob: "releasing" while it releases items, "cut" if it stopped there
    resumes     \* bound: resumes so far

rowVars == <<status, token, kind, processed, item, written>>
adminVars == <<listing, ending, resumes>>

Active == {"queued", "running", "paused"}
Closed == {"completed", "completed_with_errors", "cancelled", "failed"}
Pending == {"queued", "running"}
Finished == {"optimized", "failed"}

\* jobRequeuesRunningItemsOnResume; the same kinds sweep their items when they finish.
Requeues(k) == k # "content"

PendingIn(j, p) == item[j][p] \in Pending
ProductsOf(j) == {p \in Products : item[j][p] # "none"}

\* validateAISEOJobCapacity
HasCapacity == Cardinality({j \in Jobs : status[j] \in Active}) < MaxActive

\* ensureNoPendingAISEOProducts
NoPending(S) == \A j \in Jobs, p \in S : ~PendingIn(j, p)

NextJob(j) == status[j] = "none" /\ \A i \in Jobs : i < j => status[i] # "none"

Insert(j, k, S) ==
    /\ NextJob(j)
    /\ status' = [status EXCEPT ![j] = "queued"]
    /\ kind' = [kind EXCEPT ![j] = k]
    /\ item' = [item EXCEPT ![j] = [p \in Products |-> IF p \in S THEN "queued" ELSE "none"]]
    /\ UNCHANGED <<token, processed, written>>

-----------------------------------------------------------------------------
\* Mutant: only queued items keep a product out of the job.
CreateOverRunning(j, k, S) ==
    /\ k # "listing" /\ S # {}
    /\ HasCapacity /\ \A i \in Jobs, p \in S : item[i][p] # "queued"
    /\ Insert(j, k, S)
    /\ UNCHANGED adminVars

(* Creation.  All kinds but listing check and insert in one transaction     *)
(* under the lock of the settings row.                                      *)
CreateJob(j, k, S) ==
    /\ k # "listing" /\ S # {}
    /\ HasCapacity /\ NoPending(S)
    /\ Insert(j, k, S)
    /\ UNCHANGED adminVars

(* createListingJob lets go of the settings row before it looks for pending *)
(* items, and inserts in a transaction of its own.                          *)
ListingCheck(S) ==
    /\ "listing" \in Kinds /\ listing = {} /\ S # {}
    /\ HasCapacity /\ NoPending(S)
    /\ listing' = S
    /\ UNCHANGED <<rowVars, ending, resumes>>

ListingInsert(j) ==
    /\ listing # {}
    /\ Insert(j, "listing", listing)
    /\ listing' = {}
    /\ UNCHANGED <<ending, resumes>>

PauseSEOJob(j) ==
    /\ status[j] \in {"queued", "running"}
    /\ status' = [status EXCEPT ![j] = "paused"]
    /\ UNCHANGED <<token, kind, processed, item, written, adminVars>>

Requeued(items) == [p \in Products |-> IF items[p] = "running" THEN "queued" ELSE items[p]]

\* Mutant: every kind gives its running items back to the queue.
ResumeRequeueingAll(j) ==
    /\ status[j] = "paused" /\ resumes < MaxResumes
    /\ status' = [status EXCEPT ![j] = "queued"]
    /\ item' = [item EXCEPT ![j] = Requeued(item[j])]
    /\ resumes' = resumes + 1
    /\ UNCHANGED <<token, kind, processed, written, listing, ending>>

(* ResumeSEOJob keeps the old worker's token until the job is claimed.      *)
ResumeSEOJob(j) ==
    /\ status[j] = "paused" /\ resumes < MaxResumes
    /\ status' = [status EXCEPT ![j] = "queued"]
    /\ item' = IF Requeues(kind[j]) THEN [item EXCEPT ![j] = Requeued(item[j])] ELSE item
    /\ resumes' = resumes + 1
    /\ UNCHANGED <<token, kind, processed, written, listing, ending>>

EndSEOJob(j) ==
    /\ status[j] \in Active
    /\ status' = [status EXCEPT ![j] = "cancelled"]
    /\ ending' = [ending EXCEPT ![j] = "releasing"]
    /\ UNCHANGED <<token, kind, processed, item, written, listing, resumes>>

\* Mutant: items a worker has begun are not looked for.
UnreleasedQueued(j) == {p \in Products : item[j][p] = "queued"}

Unreleased(j) == {p \in Products : PendingIn(j, p)}

(* A batch of releaseEndedJobItems.  Which items it takes depends on their  *)
(* ids.  Items of an ended job never become pending again, so the query     *)
(* that finds none is one step with the last batch.                         *)
ReleaseItems(j) ==
    /\ ending[j] = "releasing"
    /\ \E S \in SUBSET Unreleased(j) :
          /\ S # {} \/ Unreleased(j) = {}
          /\ item' = [item EXCEPT ![j] = [p \in Products |-> IF p \in S THEN "cancelled" ELSE item[j][p]]]
          /\ ending' = IF S = Unreleased(j) THEN [ending EXCEPT ![j] = "no"] ELSE ending
    /\ UNCHANGED <<status, token, kind, processed, written, listing, resumes>>

(* A statement fails, perhaps after some batches.                           *)
ReleaseFails(j) ==
    /\ "release" \in Faults /\ ending[j] = "releasing"
    /\ ending' = [ending EXCEPT ![j] = "cut"]
    /\ UNCHANGED <<rowVars, listing, resumes>>

RowsInit ==
    /\ status = [j \in Jobs |-> "none"]
    /\ token = [j \in Jobs |-> NoToken]
    /\ kind = [j \in Jobs |-> "content"]
    /\ processed = [j \in Jobs |-> 0]
    /\ item = [j \in Jobs |-> [p \in Products |-> "none"]]
    /\ written = [p \in Products |-> NoJob]
    /\ listing = {}
    /\ ending = [j \in Jobs |-> "no"]
    /\ resumes = 0
=============================================================================
