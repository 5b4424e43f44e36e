------------------------------ MODULE AIJobs ------------------------------
(***************************************************************************)
(* The dispatcher and the workers of AI optimization jobs                  *)
(* (backend/controllers/ai_job_scheduler.go, the process functions of      *)
(* every job kind, ai_seo_progress.go and aiOptimizationJobSlots of        *)
(* ai_task_limiter.go), over the rows of AIJobRows.                        *)
(*                                                                         *)
(* A worker is the goroutine tree of runDispatchedAISEOJob: it streams the *)
(* queued items to at most Width item goroutines (lanes), waits for them   *)
(* and closes the job.  Several workers of one job may be alive: pausing   *)
(* stops nobody, it only makes the old worker's statements miss.           *)
(*                                                                         *)
(* Dispatch passes that wait for aiJobDispatchMu are one flag: a pass that *)
(* starts later sees all that the earlier wake-ups were about.  Taking a   *)
(* slot and claiming the job are one step, and so are the stream's hand-   *)
(* over of an item and its claim: what they read in between is read again  *)
(* by the claim.  Provider slots (aiTaskSlots) are module TaskGate.        *)
(***************************************************************************)
EXTENDS AIJobRows

CONSTANTS
    Limits,       \* values of max_concurrent_jobs
    Width,        \* item goroutines of a worker
    MaxRestarts   \* bound: restarts of the process over the whole run

ASSUME LimitsAssumption == Limits \subseteq Nat \ {0}

VARIABLES
    slots,      \* aiOptimizationJobSlots.active
    woken,      \* a dispatch goroutine waits for its turn
    pass,       \* the dispatch pass under way: the limit, and what is left of the queue it read
    phase,      \* how far the worker with a token is
    runs,       \* the job that worker runs
    handed,     \* products its stream is past
    lane,       \* its item goroutines
    restarts    \* bound: restarts so far

workerVars == <<phase, runs, handed, lane>>
dispatchVars == <<slots, woken, pass>>
vars == <<rowVars, adminVars, dispatchVars, workerVars, restarts>>

NoPass == [on |-> FALSE, limit |-> 0, queue |-> {}]

\* "asking" until the provider answers, "refused" when the final transaction
\* was, "applied" when it committed, "counting" before the job's counter.
Lanes == {"idle", "asking", "refused", "applied", "counting"}
Busy(t, p) == lane[t][p] # "idle"
Alive == {t \in Tokens : phase[t] # "off"}

\* The least token no goroutine holds stands for a new UUID.
Unused(t) == phase[t] = "off" /\ \A u \in Tokens : u < t => phase[u] # "off"

Queued == {j \in Jobs : status[j] = "queued"}

-----------------------------------------------------------------------------
(* The dispatcher.                                                          *)
PassBegin ==
    /\ woken /\ ~pass.on
    /\ woken' = FALSE
    /\ \E l \in Limits : pass' = [on |-> TRUE, limit |-> l, queue |-> Queued]
    /\ UNCHANGED <<rowVars, adminVars, slots, workerVars, restarts>>

PassEnd ==
    /\ pass.on /\ (pass.queue = {} \/ slots >= pass.limit)
    /\ pass' = NoPass
    /\ UNCHANGED <<rowVars, adminVars, slots, woken, workerVars, restarts>>

\* claimAIAgentSEOJob and go runDispatchedAISEOJob
Launch(j, t) ==
    /\ status[j] = "queued" /\ Unused(t)
    /\ status' = [status EXCEPT ![j] = "running"]
    /\ token' = [token EXCEPT ![j] = t]
    /\ phase' = [phase EXCEPT ![t] = "work"]
    /\ runs' = [runs EXCEPT ![t] = j]
    /\ UNCHANGED <<kind, processed, item, written, handed, lane>>

\* The next of the pass, oldest first.
Foremost(j) == j \in pass.queue /\ \A i \in pass.queue : j <= i

\* Mutant: a failed claim keeps the slot.
PassTakeLeaking ==
    /\ pass.on /\ slots < pass.limit
    /\ \E j \in Jobs :
          /\ Foremost(j)
          /\ pass' = [pass EXCEPT !.queue = @ \ {j}]
          /\ \/ \E t \in Tokens : Launch(j, t)
             \/ status[j] # "queued" /\ UNCHANGED <<rowVars, workerVars>>
    /\ slots' = slots + 1
    /\ UNCHANGED <<adminVars, woken, restarts>>

(* One turn of the loop: tryAcquire, then the claim, which may find the job *)
(* no longer queued and gives the slot back.                                *)
PassTake ==
    /\ pass.on /\ slots < pass.limit
    /\ \E j \in Jobs :
          /\ Foremost(j)
          /\ pass' = [pass EXCEPT !.queue = @ \ {j}]
          /\ \/ /\ \E t \in Tokens : Launch(j, t)
                /\ slots' = slots + 1
             \/ /\ status[j] # "queued"
                /\ UNCHANGED <<rowVars, workerVars, slots>>
    /\ UNCHANGED <<adminVars, woken, restarts>>

-----------------------------------------------------------------------------
(* A worker.                                                                *)
Current(t) == token[runs[t]] = t
IsRunning(t) == status[runs[t]] = "running" /\ Current(t)      \* isAISEOJobRunning
MayFinishItems(t) == status[runs[t]] \in {"running", "paused"} /\ Current(t)

\* What a worker's statement on its job's status leaves behind, under its fence.
CloseAs(t, s) ==
    /\ status' = IF IsRunning(t) THEN [status EXCEPT ![runs[t]] = s] ELSE status
    /\ phase' = [phase EXCEPT ![t] = "exit"]

ToHand(t) == {p \in Products \ handed[t] : item[runs[t]][p] = "queued"}

(* streamAISEOItems hands an item over, whose goroutine claims it.  The     *)
(* claim misses when the job is no longer this worker's, or fails.          *)
HandItem(t, p) ==
    /\ phase[t] = "work" /\ p \in ToHand(t)
    /\ Cardinality({q \in Products : Busy(t, q)}) < Width
    /\ handed' = [handed EXCEPT ![t] = @ \cup {p}]
    /\ \/ /\ IsRunning(t)
          /\ item' = [item EXCEPT ![runs[t]][p] = "running"]
          /\ lane' = [lane EXCEPT ![t][p] = "asking"]
       \/ /\ ~IsRunning(t) \/ "claim" \in Faults
          /\ UNCHANGED <<item, lane>>
    /\ UNCHANGED <<status, token, kind, processed, written, adminVars, dispatchVars,
                   phase, runs, restarts>>

Drained(t) == \A p \in Products : ~Busy(t, p)

\* The stream found nothing more, and wg.Wait returned.
AllHandled(t) == phase[t] = "work" /\ Drained(t) /\ (ToHand(t) = {} \/ ~IsRunning(t))

(* The AI configuration is missing before the first item, or the stream     *)
(* could not read the queue: "repair and resume".  A worker that could not  *)
(* even read its job fails it.                                              *)
GiveUp(t) ==
    /\ "read" \in Faults /\ phase[t] = "work" /\ Drained(t)
    /\ \/ CloseAs(t, "paused")
       \/ handed[t] = {} /\ CloseAs(t, "failed")
    /\ UNCHANGED <<token, kind, processed, item, written, adminVars, dispatchVars,
                   runs, handed, lane, restarts>>

FinalStatus(items) ==
    IF \E p \in Products : items[p] = "failed" THEN "completed_with_errors" ELSE "completed"

(* runAIAgentSEOJob of a content job: the items stay as they are.           *)
FinishContent(t) ==
    /\ AllHandled(t) /\ ~Requeues(kind[runs[t]])
    /\ CloseAs(t, FinalStatus(item[runs[t]]))
    /\ UNCHANGED <<token, kind, processed, item, written, adminVars, dispatchVars,
                   runs, handed, lane, restarts>>

Swept(items) == [p \in Products |-> IF items[p] \in Pending THEN "failed" ELSE items[p]]
CountFinished(items) == Cardinality({p \in Products : items[p] \in Finished})

\* Mutant: the sweep takes only what a goroutine left running.
FinalizeKeepingQueued(t) ==
    LET j == runs[t]
        swept == [p \in Products |-> IF item[j][p] = "running" THEN "failed" ELSE item[j][p]]
    IN  /\ AllHandled(t) /\ Requeues(kind[j])
        /\ item' = IF IsRunning(t) THEN [item EXCEPT ![j] = swept] ELSE item
        /\ processed' = IF IsRunning(t) THEN [processed EXCEPT ![j] = CountFinished(swept)] ELSE processed
        /\ CloseAs(t, FinalStatus(swept))
        /\ UNCHANGED <<token, kind, written, adminVars, dispatchVars, runs, handed, lane, restarts>>

(* finalizeDraftJob and finalizeListingJob: one transaction fails what is   *)
(* left, counts the items again and closes the job.                         *)
FinalizeJob(t) ==
    LET j == runs[t]
        swept == Swept(item[j])
    IN  /\ AllHandled(t) /\ Requeues(kind[j])
        /\ item' = IF IsRunning(t) THEN [item EXCEPT ![j] = swept] ELSE item
        /\ processed' = IF IsRunning(t) THEN [processed EXCEPT ![j] = CountFinished(swept)] ELSE processed
        /\ CloseAs(t, FinalStatus(swept))
        /\ UNCHANGED <<token, kind, written, adminVars, dispatchVars, runs, handed, lane, restarts>>

(* The transaction failed: "Could not finalize ..."                         *)
FinalizeFails(t) ==
    /\ "finalize" \in Faults
    /\ AllHandled(t) /\ Requeues(kind[runs[t]]) /\ IsRunning(t)
    /\ CloseAs(t, "failed")
    /\ UNCHANGED <<token, kind, processed, item, written, adminVars, dispatchVars,
                   runs, handed, lane, restarts>>

\* Mutant: nobody is told that a slot is free.
ExitSilently(t) ==
    /\ phase[t] = "exit"
    /\ phase' = [phase EXCEPT ![t] = "off"]
    /\ runs' = [runs EXCEPT ![t] = NoJob]
    /\ handed' = [handed EXCEPT ![t] = {}]
    /\ slots' = slots - 1
    /\ UNCHANGED <<rowVars, adminVars, woken, pass, lane, restarts>>

(* The deferred end of runDispatchedAISEOJob.                               *)
WorkerExits(t) ==
    /\ phase[t] = "exit"
    /\ phase' = [phase EXCEPT ![t] = "off"]
    /\ runs' = [runs EXCEPT ![t] = NoJob]
    /\ handed' = [handed EXCEPT ![t] = {}]
    /\ slots' = slots - 1
    /\ woken' = TRUE
    /\ UNCHANGED <<rowVars, adminVars, pass, lane, restarts>>

-----------------------------------------------------------------------------
(* An item goroutine, from the claim on.                                    *)

\* Mutant: the job's counter moves whether or not the item's row did.
FailCountingAlways(t, p) ==
    /\ \/ lane[t][p] \in {"asking", "refused"}
       \/ lane[t][p] = "applied" /\ kind[runs[t]] = "category"
    /\ item' = IF MayFinishItems(t) /\ item[runs[t]][p] = "running"
               THEN [item EXCEPT ![runs[t]][p] = "failed"] ELSE item
    /\ lane' = [lane EXCEPT ![t][p] = "counting"]
    /\ UNCHANGED <<status, token, kind, processed, written, adminVars, dispatchVars,
                   phase, runs, handed, restarts>>

\* The provider, or an earlier read, failed; the final transaction was refused;
\* or a category job could not repair the content of the product it filed:
\* failAIAgentSEOItem and its like.
FailItem(t, p) ==
    /\ \/ lane[t][p] \in {"asking", "refused"}
       \/ lane[t][p] = "applied" /\ kind[runs[t]] = "category"
    /\ IF MayFinishItems(t) /\ item[runs[t]][p] = "running"
       THEN /\ item' = [item EXCEPT ![runs[t]][p] = "failed"]
            /\ lane' = [lane EXCEPT ![t][p] = "counting"]
       ELSE /\ item' = item
            /\ lane' = [lane EXCEPT ![t][p] = "idle"]
    /\ UNCHANGED <<status, token, kind, processed, written, adminVars, dispatchVars,
                   phase, runs, handed, restarts>>

\* Mutant: the final transaction looks at the token only.
ApplyUnlessTaken(t, p) ==
    /\ lane[t][p] = "asking" /\ kind[runs[t]] # "draft"
    /\ IF Current(t)
       THEN /\ written' = [written EXCEPT ![p] = runs[t]]
            /\ lane' = [lane EXCEPT ![t][p] = "applied"]
       ELSE /\ written' = written
            /\ lane' = [lane EXCEPT ![t][p] = "refused"]
    /\ UNCHANGED <<status, token, kind, processed, item, adminVars, dispatchVars,
                   phase, runs, handed, restarts>>

(* The answer is good: the product is written in a transaction that locks   *)
(* the job row and looks at its status and token.                           *)
ApplyResult(t, p) ==
    /\ lane[t][p] = "asking" /\ kind[runs[t]] # "draft"
    /\ IF MayFinishItems(t)
       THEN /\ written' = [written EXCEPT ![p] = runs[t]]
            /\ lane' = [lane EXCEPT ![t][p] = "applied"]
       ELSE /\ written' = written
            /\ lane' = [lane EXCEPT ![t][p] = "refused"]
    /\ UNCHANGED <<status, token, kind, processed, item, adminVars, dispatchVars,
                   phase, runs, handed, restarts>>

(* A draft job stores its review row, which no fence guards; a listing job  *)
(* finds nothing to improve.                                                *)
LeaveProduct(t, p) ==
    /\ lane[t][p] = "asking" /\ kind[runs[t]] \in {"draft", "listing"}
    /\ lane' = [lane EXCEPT ![t][p] = "applied"]
    /\ UNCHANGED <<rowVars, adminVars, dispatchVars, phase, runs, handed, restarts>>

\* A content job's statement names the item only; the other kinds' is fenced.
RecordHits(t, p) ==
    \/ ~Requeues(kind[runs[t]])
    \/ MayFinishItems(t) /\ item[runs[t]][p] = "running"

RecordOptimized(t, p) ==
    /\ lane[t][p] = "applied"
    /\ IF RecordHits(t, p)
       THEN /\ item' = [item EXCEPT ![runs[t]][p] = "optimized"]
            /\ lane' = [lane EXCEPT ![t][p] = "counting"]
       ELSE /\ item' = item
            /\ lane' = [lane EXCEPT ![t][p] = "idle"]
    /\ UNCHANGED <<status, token, kind, processed, written, adminVars, dispatchVars,
                   phase, runs, handed, restarts>>

\* incrementAIAgentSEOJob: no fence
CountItem(t, p) ==
    /\ lane[t][p] = "counting"
    /\ processed' = [processed EXCEPT ![runs[t]] = @ + 1]
    /\ lane' = [lane EXCEPT ![t][p] = "idle"]
    /\ UNCHANGED <<status, token, kind, item, written, adminVars, dispatchVars,
                   phase, runs, handed, restarts>>

-----------------------------------------------------------------------------
(* The administrator's calls, each waking the dispatcher if the code does.  *)
Create == \E j \in Jobs, k \in Kinds, S \in SUBSET Products :
    CreateJob(j, k, S) /\ woken' = TRUE /\ UNCHANGED <<slots, pass, workerVars, restarts>>

CheckListing == \E S \in SUBSET Products :
    ListingCheck(S) /\ UNCHANGED <<dispatchVars, workerVars, restarts>>

InsertListing == \E j \in Jobs :
    ListingInsert(j) /\ woken' = TRUE /\ UNCHANGED <<slots, pass, workerVars, restarts>>

Pause(j) == PauseSEOJob(j) /\ UNCHANGED <<dispatchVars, workerVars, restarts>>

Resume(j) ==
    ResumeSEOJob(j) /\ woken' = TRUE /\ UNCHANGED <<slots, pass, workerVars, restarts>>

End(j) == EndSEOJob(j) /\ UNCHANGED <<dispatchVars, workerVars, restarts>>

Release(j) ==
    /\ ReleaseItems(j)
    /\ woken' = (woken \/ ending'[j] = "no")
    /\ UNCHANGED <<slots, pass, workerVars, restarts>>

ReleaseStops(j) == ReleaseFails(j) /\ UNCHANGED <<dispatchVars, workerVars, restarts>>

\* setGlobalAITaskLimit, after the setting was saved
SaveLimit ==
    /\ woken' = TRUE
    /\ UNCHANGED <<rowVars, adminVars, slots, pass, workerVars, restarts>>

\* What a restart leaves of the process: nothing.
ProcessGone ==
    /\ slots' = 0 /\ woken' = TRUE /\ pass' = NoPass
    /\ phase' = [t \in Tokens |-> "off"]
    /\ runs' = [t \in Tokens |-> NoJob]
    /\ handed' = [t \in Tokens |-> {}]
    /\ lane' = [t \in Tokens |-> [p \in Products |-> "idle"]]
    /\ listing' = {}
    /\ ending' = [j \in Jobs |-> IF ending[j] = "releasing" THEN "cut" ELSE ending[j]]

\* Mutant: jobs that were running are taken to be running still.
RestartTrustingStatus ==
    /\ restarts < MaxRestarts /\ restarts' = restarts + 1
    /\ ProcessGone
    /\ item' = [j \in Jobs |-> Requeued(item[j])]
    /\ UNCHANGED <<status, token, kind, processed, written, resumes>>

(* The process dies and comes back: ResumeAIAgentSEOJobs.                   *)
Restart ==
    /\ restarts < MaxRestarts /\ restarts' = restarts + 1
    /\ ProcessGone
    /\ item' = [j \in Jobs |-> Requeued(item[j])]
    /\ status' = [j \in Jobs |-> IF status[j] = "running" THEN "queued" ELSE status[j]]
    /\ token' = [j \in Jobs |-> IF status[j] = "running" THEN NoToken ELSE token[j]]
    /\ UNCHANGED <<kind, processed, written, resumes>>

-----------------------------------------------------------------------------
Dispatch == PassBegin \/ PassTake \/ PassEnd

Lane(t, p) ==
    \/ FailItem(t, p) \/ ApplyResult(t, p) \/ LeaveProduct(t, p)
    \/ RecordOptimized(t, p) \/ CountItem(t, p)

Worker(t) ==
    \/ \E p \in Products : HandItem(t, p)
    \/ GiveUp(t) \/ FinishContent(t) \/ FinalizeJob(t) \/ FinalizeFails(t) \/ WorkerExits(t)

Admin ==
    \/ Create \/ CheckListing \/ InsertListing \/ SaveLimit
    \/ \E j \in Jobs : Pause(j) \/ Resume(j) \/ End(j) \/ Release(j) \/ ReleaseStops(j)

Init ==
    /\ RowsInit
    /\ slots = 0 /\ woken = FALSE /\ pass = NoPass
    /\ phase = [t \in Tokens |-> "off"]
    /\ runs = [t \in Tokens |-> NoJob]
    /\ handed = [t \in Tokens |-> {}]
    /\ lane = [t \in Tokens |-> [p \in Products |-> "idle"]]
    /\ restarts = 0

Next ==
    \/ Dispatch \/ Admin \/ Restart
    \/ \E t \in Tokens : Worker(t) \/ \E p \in Products : Lane(t, p)

(* Goroutines are scheduled, and a provider request ends: its client has a  *)
(* timeout.                                                                 *)
Fairness ==
    /\ WF_vars(Dispatch)
    /\ \A t \in Tokens :
          /\ WF_vars(Worker(t))
          /\ \A p \in Products : WF_vars(Lane(t, p))

Spec == Init /\ [][Next]_vars
FairSpec == Spec /\ Fairness

-----------------------------------------------------------------------------
Phases == {"off", "work", "exit"}
ItemStatus == {"none", "cancelled"} \cup Pending \cup Finished

(* Type correctness of the rows, the dispatcher and the workers.            *)
JobsTypeOK ==
    /\ status \in [Jobs -> {"none"} \cup Active \cup Closed]
    /\ token \in [Jobs -> Tokens \cup {NoToken}]
    /\ kind \in [Jobs -> Kinds \cup {"content", "listing"}]
    /\ processed \in [Jobs -> Nat]
    /\ item \in [Jobs -> [Products -> ItemStatus]]
    /\ written \in [Products -> Jobs \cup {NoJob}]
    /\ listing \in SUBSET Products
    /\ ending \in [Jobs -> {"no", "releasing", "cut"}]
    /\ resumes \in Nat /\ restarts \in Nat
    /\ slots \in Int /\ woken \in BOOLEAN
    /\ pass \in [on : BOOLEAN, limit : Limits \cup {0}, queue : SUBSET Jobs]
    /\ phase \in [Tokens -> Phases]
    /\ runs \in [Tokens -> Jobs \cup {NoJob}]
    /\ handed \in [Tokens -> SUBSET Products]
    /\ lane \in [Tokens -> [Products -> Lanes]]

(* A slot is taken exactly as long as a worker lives, and a job that says   *)
(* it is running has a worker: the ceiling on slots is one on running jobs  *)
(* ("the ceiling holds however the job was created").                       *)
SlotPerRunningJob ==
    /\ slots = Cardinality(Alive)
    /\ \A j \in Jobs : status[j] = "running" =>
          \E t \in Alive : token[j] = t /\ runs[t] = j

(* "A resumed job and a previously-running worker cannot both send a        *)
(* request for the same product": of a content job.                         *)
AskedByOneWorker ==
    \A t, u \in Tokens, p \in Products :
        /\ t # u /\ runs[t] = runs[u]
        /\ lane[t][p] = "asking" /\ lane[u][p] = "asking"
        => Requeues(kind[runs[t]])

(* A product waits or is worked on in one job at a time, unless a listing   *)
(* job was created in the middle of the other's creation.                   *)
OneJobPerProduct ==
    \A i, j \in Jobs, p \in Products :
        i # j /\ PendingIn(i, p) /\ PendingIn(j, p) => "listing" \in {kind[i], kind[j]}

(* What End released stays released, whatever workers are under way: no     *)
(* item of an ended job is pending once the release is through.             *)
EndedIsReleased ==
    \A j \in Jobs, p \in Products :
        status[j] = "cancelled" /\ ending[j] = "no" => ~PendingIn(j, p)

(* "can never leave queued/running product IDs permanently excluded from    *)
(* later jobs": of the kinds whose closing transaction sweeps.              *)
SweptIsWhole ==
    \A j \in Jobs, p \in Products :
        /\ status[j] \in {"completed", "completed_with_errors"} /\ Requeues(kind[j])
        => ~PendingIn(j, p)

(* The same of every kind, as the documentation has it: what was sent when  *)
(* a job is paused is finished, what was not stays queued.                  *)
NothingLeftBehind ==
    \A j \in Jobs, p \in Products :
        status[j] \in {"completed", "completed_with_errors"} => ~PendingIn(j, p)

(* The progress of a content job counts an item at most once, and only one  *)
(* that is finished: restarts may lose counts, never add any.               *)
NeverOvercounted ==
    \A j \in Jobs : ~Requeues(kind[j]) =>
        processed[j] + Cardinality({x \in Tokens \X Products :
                                      runs[x[1]] = j /\ lane[x[1]][x[2]] = "counting"})
            <= CountFinished(item[j])

(* The result of an earlier job never overwrites that of a later one: an    *)
(* old worker's answer is dropped however late it comes.  Listing jobs are  *)
(* left out: they are created outside the lock, and two of their writes of  *)
(* a product's status pass no fence.                                        *)
NoStaleOverwrite ==
    [][\A p \in Products :
         LET old == written[p]
             new == written'[p]
         IN  old # new /\ old # NoJob /\ "listing" \notin {kind[old], kind[new]}
             => new > old]_vars

(* A queued job is started when a slot is free, "so nothing needs a restart *)
(* to be picked up", and a started one ends: every job is closed or paused. *)
JobsSettle ==
    \A j \in Jobs : status[j] \in {"queued", "running"} ~> status[j] \notin {"queued", "running"}
=============================================================================
