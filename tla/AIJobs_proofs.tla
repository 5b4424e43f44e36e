--------------------------- MODULE AIJobs_proofs ---------------------------
(***************************************************************************)
(* Theorems about AIJobs: for any number of jobs, products, workers and    *)
(* restarts, and whatever of Faults happens, slots and running jobs have   *)
(* their workers, no product is asked for twice by one content job or      *)
(* wanted by two jobs, a job that ends or completes releases its products, *)
(* and no late answer overwrites the result of a later job.                *)
(***************************************************************************)
EXTENDS AIJobs, FiniteSetTheorems, TLAPS

(* A worker has its job from the claim to its exit, which it reaches with   *)
(* its lanes empty and its job not running under its token.                 *)
Held == \A t \in Tokens :
    /\ phase[t] # "work" => \A p \in Products : lane[t][p] = "idle"
    /\ phase[t] # "off" => runs[t] \in Jobs /\ status[runs[t]] # "none"
    /\ phase[t] = "exit" => ~IsRunning(t)

Manned == \A j \in Jobs : status[j] = "running" =>
    token[j] \in Alive /\ runs[token[j]] = j

JobsInv == JobsTypeOK /\ Held /\ Manned

(* A content job's item leaves the queue once: its lane has it alone.       *)
AskedOnce == \A t \in Tokens, p \in Products :
    Busy(t, p) /\ ~Requeues(kind[runs[t]]) =>
        /\ item[runs[t]][p] # "queued"
        /\ \A u \in Tokens : u # t /\ runs[u] = runs[t] => ~Busy(u, p)

(* An ending is one of a cancelled job.                                     *)
EndingInv == \A j \in Jobs : ending[j] # "no" => status[j] = "cancelled"

(* What a worker asks for is pending as long as the fence lets it through.  *)
Fence == \A t \in Tokens, p \in Products :
    lane[t][p] = "asking" /\ Current(t) /\ status[runs[t]] \in Active => PendingIn(runs[t], p)

(* Jobs are created in their order, and who waits for a product was created *)
(* after whoever wrote it.                                                  *)
Succession ==
    /\ \A i, j \in Jobs : i < j /\ status[j] # "none" => status[i] # "none"
    /\ \A p \in Products : written[p] # NoJob => status[written[p]] # "none"
    /\ \A p \in Products, j \in Jobs :
          PendingIn(j, p) /\ written[p] # NoJob /\ "listing" \notin {kind[j], kind[written[p]]}
              => written[p] <= j

(* What every step but the insert of a job does to the rows: no item        *)
(* becomes pending, and a job is closed by a sweep or cancelled by a call   *)
(* that has yet to release its items.                                       *)
Whole(j) == \A p \in Products : ~PendingIn(j, p)
Done == {"completed", "completed_with_errors"}

RowFrame ==
    /\ kind' = kind
    /\ \A j \in Jobs :
          /\ status'[j] = "none" <=> status[j] = "none"
          /\ ending'[j] # "no" => status'[j] = "cancelled"
          /\ status'[j] = "cancelled" /\ ending'[j] = "no" =>
                (status[j] = "cancelled" /\ ending[j] = "no") \/ Whole(j)'
          /\ status'[j] \in Done /\ Requeues(kind[j]) => status[j] \in Done \/ Whole(j)'
    /\ \A j \in Jobs, p \in Products : item'[j][p] \in Pending => item[j][p] \in Pending

Inserts == \E j \in Jobs, k \in Kinds \cup {"content", "listing"}, S \in SUBSET Products :
    Insert(j, k, S) /\ (k # "listing" => NoPending(S)) /\ UNCHANGED <<ending, workerVars>>

(* What every step but the hand-over of an item does to lanes: none becomes *)
(* busy, and one that still passes the fence passed it before and has its   *)
(* item as it was.                                                          *)
LaneFrame ==
    \A t \in Tokens, p \in Products :
        /\ lane'[t][p] # "idle" =>
              /\ lane[t][p] # "idle" /\ runs'[t] = runs[t]
              /\ kind'[runs[t]] = kind[runs[t]]
              /\ ~Requeues(kind[runs[t]]) /\ item'[runs[t]][p] = "queued" => item[runs[t]][p] = "queued"
        /\ lane'[t][p] = "asking" /\ token'[runs[t]] = t /\ status'[runs[t]] \in Active =>
              /\ lane[t][p] = "asking" /\ Current(t) /\ status[runs[t]] \in Active
              /\ PendingIn(runs[t], p) => item'[runs[t]][p] \in Pending

-----------------------------------------------------------------------------
(* A count of items is a natural number.                                    *)
LEMMA CountFinishedNat == \A items : CountFinished(items) \in Nat
<1> SUFFICES ASSUME NEW items PROVE CountFinished(items) \in Nat
  OBVIOUS
<1>1. IsFiniteSet({p \in Products : items[p] \in Finished})
  BY RowsAssumption, FS_Subset
<1> QED BY <1>1, FS_CardinalityType DEF CountFinished

(* The invariant holds at the start.                                        *)
LEMMA InitJobs == Init => JobsInv
<1> SUFFICES ASSUME Init PROVE JobsInv
  OBVIOUS
<1>1. /\ status \in [Jobs -> {"none"} \cup Active \cup Closed] /\ token \in [Jobs -> Tokens \cup {NoToken}]
      /\ kind \in [Jobs -> Kinds \cup {"content", "listing"}] /\ processed \in [Jobs -> Nat]
      /\ item \in [Jobs -> [Products -> ItemStatus]] /\ written \in [Products -> Jobs \cup {NoJob}]
      /\ ending \in [Jobs -> {"no", "releasing", "cut"}]
  BY DEF Init, RowsInit, ItemStatus
<1>2. /\ phase \in [Tokens -> Phases] /\ runs \in [Tokens -> Jobs \cup {NoJob}]
      /\ handed \in [Tokens -> SUBSET Products] /\ lane \in [Tokens -> [Products -> Lanes]]
  BY DEF Init, Phases, Lanes
<1>3. pass \in [on : BOOLEAN, limit : Limits \cup {0}, queue : SUBSET Jobs] /\ listing \in SUBSET Products
  BY DEF Init, RowsInit, NoPass
<1>4. resumes \in Nat /\ restarts \in Nat /\ slots \in Int
  BY DEF Init, RowsInit
<1>5. woken \in BOOLEAN
  BY DEF Init
<1>6. JobsTypeOK
  BY <1>1, <1>2, <1>3, <1>4, <1>5 DEF JobsTypeOK
<1>7. Held /\ Manned
  BY DEF Init, RowsInit, Held, Manned
<1> QED BY <1>6, <1>7 DEF JobsInv

(* The statements that create a job.                                        *)
LEMMA InsertKeeps ==
    ASSUME JobsInv, NEW j \in Jobs, NEW k \in Kinds \cup {"content", "listing"}, NEW S \in SUBSET Products, Insert(j, k, S),
           UNCHANGED <<workerVars, slots, pass, restarts>>, woken' \in BOOLEAN,
           listing' \in SUBSET Products, UNCHANGED <<ending, resumes>>
    PROVE  JobsInv'
<1>1. JobsTypeOK'
  BY DEF JobsInv, JobsTypeOK, Insert, workerVars, Active, ItemStatus, Pending
<1>2. Held'
  BY DEF JobsInv, JobsTypeOK, Held, Insert, workerVars, NextJob, IsRunning, Current
<1>3. Manned'
  BY DEF JobsInv, JobsTypeOK, Manned, Insert, workerVars, Alive
<1> QED BY <1>1, <1>2, <1>3 DEF JobsInv

(* What the administrator changes of a job that exists.                     *)
LEMMA StatusKeeps ==
    ASSUME JobsInv, NEW j \in Jobs, NEW s \in {"queued", "paused", "cancelled"}, status[j] # "none",
           status' = [status EXCEPT ![j] = s],
           UNCHANGED <<token, workerVars>>
    PROVE  Held' /\ Manned' /\ status' \in [Jobs -> {"none"} \cup Active \cup Closed]
<1>1. Held'
  BY DEF JobsInv, JobsTypeOK, Held, workerVars, IsRunning, Current
<1>2. Manned'
  BY DEF JobsInv, JobsTypeOK, Manned, workerVars, Alive
<1>3. status' \in [Jobs -> {"none"} \cup Active \cup Closed]
  BY DEF JobsInv, JobsTypeOK, Active, Closed
<1> QED BY <1>1, <1>2, <1>3

(* What a resume or a restart gives back are items.                         *)
LEMMA RequeuedType ==
    \A items \in [Products -> ItemStatus] : Requeued(items) \in [Products -> ItemStatus]
BY DEF Requeued, ItemStatus, Pending, Finished

(* A release cancels pending items, and is over when none is left.          *)
LEMMA ReleaseEffect ==
    ASSUME JobsInv, NEW j \in Jobs, Release(j)
    PROVE  /\ UNCHANGED <<status, token, kind, processed, written, listing, resumes>>
           /\ UNCHANGED <<slots, pass, workerVars, restarts>> /\ woken' \in BOOLEAN
           /\ ending[j] = "releasing" /\ ending' \in [Jobs -> {"no", "releasing", "cut"}]
           /\ item' \in [Jobs -> [Products -> ItemStatus]]
           /\ \A i \in Jobs : i # j => item'[i] = item[i]
           /\ \A p \in Products : item'[j][p] = item[j][p] \/ (PendingIn(j, p) /\ item'[j][p] = "cancelled")
           /\ \A i \in Jobs :
                 ending'[i] = ending[i] \/ (i = j /\ \A p \in Products : item'[j][p] \notin Pending)
<1>1. PICK S \in SUBSET Unreleased(j) :
          /\ item' = [item EXCEPT ![j] = [p \in Products |-> IF p \in S THEN "cancelled" ELSE item[j][p]]]
          /\ ending' = IF S = Unreleased(j) THEN [ending EXCEPT ![j] = "no"] ELSE ending
  BY DEF Release, ReleaseItems
<1>2. /\ item \in [Jobs -> [Products -> ItemStatus]] /\ "cancelled" \in ItemStatus
      /\ ending \in [Jobs -> {"no", "releasing", "cut"}] /\ woken \in BOOLEAN
  BY DEF JobsInv, JobsTypeOK, ItemStatus
<1>3. [p \in Products |-> IF p \in S THEN "cancelled" ELSE item[j][p]] \in [Products -> ItemStatus]
  BY <1>2
<1>4. item' \in [Jobs -> [Products -> ItemStatus]] /\ \A i \in Jobs : i # j => item'[i] = item[i]
  BY <1>1, <1>2, <1>3
<1>5. \A p \in Products : item'[j][p] = IF p \in S THEN "cancelled" ELSE item[j][p]
  BY <1>1, <1>2
<1>6. \A p \in Products : item'[j][p] = item[j][p] \/ (PendingIn(j, p) /\ item'[j][p] = "cancelled")
  BY <1>5 DEF Unreleased
<1>7. /\ UNCHANGED <<status, token, kind, processed, written, listing, resumes>>
      /\ UNCHANGED <<slots, pass, workerVars, restarts>>
      /\ ending[j] = "releasing" /\ woken' = (woken \/ ending'[j] = "no")
  BY DEF Release, ReleaseItems
<1>8. ending' \in [Jobs -> {"no", "releasing", "cut"}] /\ woken' \in BOOLEAN
  BY <1>1, <1>2, <1>7
<1>9. ASSUME NEW i \in Jobs PROVE ending'[i] = ending[i] \/ (i = j /\ \A p \in Products : item'[j][p] \notin Pending)
  <2>1. CASE S = Unreleased(j)
    <3>1. \A p \in Products : item'[j][p] \notin Pending
      BY <1>5, <2>1 DEF Unreleased, PendingIn, Pending
    <3> QED BY <1>1, <1>2, <2>1, <3>1
  <2>2. CASE S # Unreleased(j)
    BY <1>1, <2>2
  <2> QED BY <2>1, <2>2
<1> QED BY <1>4, <1>6, <1>7, <1>8, <1>9

(* The administrator's calls keep workers and running jobs together.        *)
LEMMA AdminKeeps == ASSUME JobsInv, Admin PROVE JobsInv'
<1>1. CASE Create
  BY <1>1, InsertKeeps DEF Create, CreateJob, adminVars, JobsInv, JobsTypeOK
<1>2. CASE CheckListing
  BY <1>2 DEF CheckListing, ListingCheck, JobsInv, JobsTypeOK, Held, Manned, rowVars, dispatchVars,
              workerVars, IsRunning, Current, Alive
<1>3. CASE InsertListing
  BY <1>3, InsertKeeps DEF InsertListing, ListingInsert, JobsInv, JobsTypeOK
<1>4. CASE SaveLimit
  BY <1>4 DEF SaveLimit, JobsInv, JobsTypeOK, Held, Manned, rowVars, adminVars, workerVars, IsRunning, Current, Alive
<1>5. ASSUME NEW j \in Jobs, Pause(j) PROVE JobsInv'
  <2>1. Held' /\ Manned' /\ status' \in [Jobs -> {"none"} \cup Active \cup Closed]
    BY <1>5, StatusKeeps DEF Pause, PauseSEOJob
  <2> QED BY <1>5, <2>1 DEF Pause, PauseSEOJob, JobsInv, JobsTypeOK, adminVars, dispatchVars, workerVars
<1>6. ASSUME NEW j \in Jobs, Resume(j) PROVE JobsInv'
  <2>1. Held' /\ Manned' /\ status' \in [Jobs -> {"none"} \cup Active \cup Closed]
    BY <1>6, StatusKeeps DEF Resume, ResumeSEOJob
  <2>2. item' \in [Jobs -> [Products -> ItemStatus]]
    BY <1>6, RequeuedType DEF Resume, ResumeSEOJob, JobsInv, JobsTypeOK
  <2> QED BY <1>6, <2>1, <2>2 DEF Resume, ResumeSEOJob, JobsInv, JobsTypeOK, workerVars
<1>7. ASSUME NEW j \in Jobs, End(j) PROVE JobsInv'
  <2>1. Held' /\ Manned' /\ status' \in [Jobs -> {"none"} \cup Active \cup Closed]
    BY <1>7, StatusKeeps DEF End, EndSEOJob, Active
  <2> QED BY <1>7, <2>1 DEF End, EndSEOJob, JobsInv, JobsTypeOK, dispatchVars, workerVars
<1>8. ASSUME NEW j \in Jobs, Release(j) PROVE JobsInv'
  <2>1. JobsTypeOK'
    BY <1>8, ReleaseEffect DEF JobsInv, JobsTypeOK, rowVars, workerVars
  <2> QED BY <1>8, <2>1, ReleaseEffect DEF JobsInv, Held, Manned, workerVars, IsRunning, Current, Alive
<1>9. ASSUME NEW j \in Jobs, ReleaseStops(j) PROVE JobsInv'
  BY <1>9 DEF ReleaseStops, ReleaseFails, JobsInv, JobsTypeOK, Held, Manned, rowVars, dispatchVars, workerVars,
              IsRunning, Current, Alive
<1> QED BY <1>1, <1>2, <1>3, <1>4, <1>5, <1>6, <1>7, <1>8, <1>9 DEF Admin

-----------------------------------------------------------------------------
(* A claim gives its job a worker.                                          *)
LEMMA LaunchKeeps ==
    ASSUME JobsInv, NEW j \in Jobs, NEW t \in Tokens, Launch(j, t)
    PROVE  Held' /\ Manned'
<1>1. Held'
  BY DEF Launch, Unused, JobsInv, JobsTypeOK, Held, IsRunning, Current
<1>2. Manned'
  BY DEF Launch, Unused, JobsInv, JobsTypeOK, Manned, Alive
<1> QED BY <1>1, <1>2

(* So do the passes of the dispatcher.                                      *)
LEMMA DispatchKeeps == ASSUME JobsInv, Dispatch PROVE JobsInv'
<1>1. CASE PassBegin
  <2>1. pass' \in [on : BOOLEAN, limit : Limits \cup {0}, queue : SUBSET Jobs]
    BY <1>1 DEF PassBegin, Queued
  <2> QED BY <1>1, <2>1 DEF PassBegin, JobsInv, JobsTypeOK, Held, Manned, rowVars, adminVars, workerVars, IsRunning, Current, Alive
<1>2. CASE PassEnd
  BY <1>2 DEF PassEnd, NoPass, JobsInv, JobsTypeOK, Held, Manned, rowVars, adminVars, workerVars, IsRunning, Current, Alive
<1>3. CASE PassTake
  <2>1. PICK j \in Jobs :
            /\ pass' = [pass EXCEPT !.queue = @ \ {j}]
            /\ \/ (\E t \in Tokens : Launch(j, t)) /\ slots' = slots + 1
               \/ UNCHANGED <<rowVars, workerVars, slots>>
    BY <1>3 DEF PassTake
  <2>2. pass' \in [on : BOOLEAN, limit : Limits \cup {0}, queue : SUBSET Jobs]
    BY <2>1 DEF JobsInv, JobsTypeOK
  <2>3. CASE UNCHANGED <<rowVars, workerVars, slots>>
    BY <1>3, <2>2, <2>3 DEF PassTake, JobsInv, JobsTypeOK, Held, Manned, rowVars, adminVars, workerVars, IsRunning, Current, Alive
  <2>4. ASSUME NEW t \in Tokens, Launch(j, t), slots' = slots + 1 PROVE JobsInv'
    <3>1. JobsTypeOK'
      BY <1>3, <2>2, <2>4 DEF PassTake, Launch, JobsInv, JobsTypeOK, adminVars, Active, Phases
    <3> QED BY <2>4, <3>1, LaunchKeeps DEF JobsInv
  <2> QED BY <2>1, <2>3, <2>4
<1> QED BY <1>1, <1>2, <1>3 DEF Dispatch

-----------------------------------------------------------------------------
(* However a worker closes its job, it exits without it.                    *)
LEMMA CloseKeeps ==
    ASSUME JobsInv, NEW t \in Tokens, phase[t] = "work", Drained(t),
           NEW s \in Closed \cup {"paused"}, CloseAs(t, s), UNCHANGED <<token, runs, lane>>
    PROVE  /\ Held' /\ Manned'
           /\ status' \in [Jobs -> {"none"} \cup Active \cup Closed]
           /\ phase' \in [Tokens -> Phases]
<1>1. status' \in [Jobs -> {"none"} \cup Active \cup Closed] /\ phase' \in [Tokens -> Phases]
  BY DEF CloseAs, JobsInv, JobsTypeOK, Held, Active, Closed, Phases
<1>2. s # "running" /\ s # "none"
  BY DEF Closed
<1>3. Held'
  BY <1>2 DEF CloseAs, JobsInv, JobsTypeOK, Held, IsRunning, Current, Drained, Busy
<1>4. Manned'
  BY <1>2 DEF CloseAs, JobsInv, JobsTypeOK, Manned, IsRunning, Current, Alive
<1> QED BY <1>1, <1>3, <1>4

(* A final status closes.                                                   *)
LEMMA FinalStatusClosed == \A items : FinalStatus(items) \in Closed
BY DEF FinalStatus, Closed

(* What a sweep leaves are items.                                           *)
LEMMA SweptType == \A items \in [Products -> ItemStatus] : Swept(items) \in [Products -> ItemStatus]
BY DEF Swept, ItemStatus, Finished

(* One entry of a table of tables.                                          *)
LEMMA SetEntry ==
    ASSUME NEW D, NEW f, NEW V, f \in [D -> [Products -> V]], NEW d \in D, NEW p \in Products, NEW v \in V
    PROVE  [f EXCEPT ![d][p] = v] \in [D -> [Products -> V]]
OBVIOUS

(* One item.                                                                *)
LEMMA SetItem ==
    ASSUME item \in [Jobs -> [Products -> ItemStatus]], NEW j \in Jobs, NEW p \in Products, NEW s \in ItemStatus
    PROVE  [item EXCEPT ![j][p] = s] \in [Jobs -> [Products -> ItemStatus]]
BY SetEntry

(* One lane.                                                                *)
LEMMA SetLane ==
    ASSUME lane \in [Tokens -> [Products -> Lanes]], NEW t \in Tokens, NEW p \in Products, NEW s \in Lanes
    PROVE  [lane EXCEPT ![t][p] = s] \in [Tokens -> [Products -> Lanes]]
BY SetEntry

(* A worker closes its job before it leaves it.                             *)
LEMMA WorkerKeeps == ASSUME JobsInv, NEW t \in Tokens, Worker(t) PROVE JobsInv'
<1>1. ASSUME NEW p \in Products, HandItem(t, p) PROVE JobsInv'
  <2>4. runs[t] \in Jobs /\ phase[t] = "work" /\ "running" \in ItemStatus /\ "asking" \in Lanes
    BY <1>1 DEF HandItem, JobsInv, Held, ItemStatus, Pending, Lanes
  <2>6. /\ [item EXCEPT ![runs[t]][p] = "running"] \in [Jobs -> [Products -> ItemStatus]]
        /\ [lane EXCEPT ![t][p] = "asking"] \in [Tokens -> [Products -> Lanes]]
    BY <2>4, SetItem, SetLane DEF JobsInv, JobsTypeOK
  <2>7. /\ item' = item \/ item' = [item EXCEPT ![runs[t]][p] = "running"]
        /\ lane' = lane \/ lane' = [lane EXCEPT ![t][p] = "asking"]
    BY <1>1 DEF HandItem
  <2>1. /\ item' \in [Jobs -> [Products -> ItemStatus]]
        /\ lane' \in [Tokens -> [Products -> Lanes]]
    BY <2>6, <2>7 DEF JobsInv, JobsTypeOK
  <2>5. handed' \in [Tokens -> SUBSET Products]
    <3>1. handed \in [Tokens -> SUBSET Products] /\ handed' = [handed EXCEPT ![t] = handed[t] \cup {p}]
      BY <1>1 DEF HandItem, JobsInv, JobsTypeOK
    <3>2. handed[t] \cup {p} \in SUBSET Products
      BY <3>1
    <3> QED BY <3>1, <3>2
  <2>2. JobsTypeOK'
    BY <1>1, <2>1, <2>5 DEF HandItem, JobsInv, JobsTypeOK, adminVars, dispatchVars
  <2>8. UNCHANGED <<status, token, runs, phase>>
    BY <1>1 DEF HandItem
  <2>9. Held'
    <3>1. \A u \in Tokens : phase[u] # "work" => lane'[u] = lane[u]
      BY <2>4, <2>7 DEF JobsInv, JobsTypeOK
    <3> QED BY <2>8, <3>1 DEF JobsInv, Held, IsRunning, Current
  <2>3. Manned'
    BY <2>8 DEF JobsInv, Manned, Alive
  <2> QED BY <2>2, <2>3, <2>9 DEF JobsInv
<1>2. CASE GiveUp(t)
  <2>1. Held' /\ Manned' /\ status' \in [Jobs -> {"none"} \cup Active \cup Closed] /\ phase' \in [Tokens -> Phases]
    BY <1>2, CloseKeeps DEF GiveUp, Closed
  <2> QED BY <1>2, <2>1 DEF GiveUp, JobsInv, JobsTypeOK, adminVars, dispatchVars
<1>3. CASE FinishContent(t)
  <2>1. Held' /\ Manned' /\ status' \in [Jobs -> {"none"} \cup Active \cup Closed] /\ phase' \in [Tokens -> Phases]
    BY <1>3, CloseKeeps, FinalStatusClosed DEF FinishContent, AllHandled
  <2> QED BY <1>3, <2>1 DEF FinishContent, JobsInv, JobsTypeOK, adminVars, dispatchVars
<1>4. CASE FinalizeJob(t)
  <2>1. Held' /\ Manned' /\ status' \in [Jobs -> {"none"} \cup Active \cup Closed] /\ phase' \in [Tokens -> Phases]
    BY <1>4, CloseKeeps, FinalStatusClosed DEF FinalizeJob, AllHandled
  <2>2. runs[t] \in Jobs
    BY <1>4 DEF FinalizeJob, AllHandled, JobsInv, Held
  <2>3. item' \in [Jobs -> [Products -> ItemStatus]]
    BY <1>4, <2>2, SweptType DEF FinalizeJob, JobsInv, JobsTypeOK
  <2>4. processed' \in [Jobs -> Nat]
    BY <1>4, <2>2, CountFinishedNat DEF FinalizeJob, JobsInv, JobsTypeOK
  <2> QED BY <1>4, <2>1, <2>3, <2>4 DEF FinalizeJob, JobsInv, JobsTypeOK, adminVars, dispatchVars
<1>5. CASE FinalizeFails(t)
  <2>1. Held' /\ Manned' /\ status' \in [Jobs -> {"none"} \cup Active \cup Closed] /\ phase' \in [Tokens -> Phases]
    BY <1>5, CloseKeeps DEF FinalizeFails, AllHandled, Closed
  <2> QED BY <1>5, <2>1 DEF FinalizeFails, JobsInv, JobsTypeOK, adminVars, dispatchVars
<1>6. CASE WorkerExits(t)
  <2>1. JobsTypeOK'
    BY <1>6 DEF WorkerExits, JobsInv, JobsTypeOK, rowVars, adminVars, Phases
  <2>2. Held'
    BY <1>6 DEF WorkerExits, JobsInv, JobsTypeOK, Held, rowVars, IsRunning, Current
  <2>3. Manned'
    BY <1>6 DEF WorkerExits, JobsInv, JobsTypeOK, Held, Manned, rowVars, IsRunning, Current, Alive
  <2> QED BY <2>1, <2>2, <2>3 DEF JobsInv
<1> QED BY <1>1, <1>2, <1>3, <1>4, <1>5, <1>6 DEF Worker

(* An item goroutine changes its lane, its item, its product and a count.   *)
LEMMA LaneEffect ==
    ASSUME JobsInv, NEW t \in Tokens, NEW p \in Products, Lane(t, p)
    PROVE  /\ phase[t] = "work" /\ runs[t] \in Jobs /\ Busy(t, p)
           /\ \E s \in Lanes \ {"asking"} : lane' = [lane EXCEPT ![t][p] = s]
           /\ \/ item' = item
              \/ /\ \E s \in Finished : item' = [item EXCEPT ![runs[t]][p] = s]
                 /\ \/ ~Requeues(kind[runs[t]])
                    \/ MayFinishItems(t)
           /\ \/ written' = written
              \/ /\ written' = [written EXCEPT ![p] = runs[t]]
                 /\ lane[t][p] = "asking" /\ MayFinishItems(t)
           /\ \/ processed' = processed
              \/ processed' = [processed EXCEPT ![runs[t]] = @ + 1]
           /\ UNCHANGED <<status, token, kind, adminVars, dispatchVars, phase, runs, handed, restarts>>
<1> DEFINE Effect ==
        /\ \E s \in Lanes \ {"asking"} : lane' = [lane EXCEPT ![t][p] = s]
        /\ \/ item' = item
           \/ /\ \E s \in Finished : item' = [item EXCEPT ![runs[t]][p] = s]
              /\ \/ ~Requeues(kind[runs[t]])
                 \/ MayFinishItems(t)
        /\ \/ written' = written
           \/ /\ written' = [written EXCEPT ![p] = runs[t]]
              /\ lane[t][p] = "asking" /\ MayFinishItems(t)
        /\ \/ processed' = processed
           \/ processed' = [processed EXCEPT ![runs[t]] = @ + 1]
        /\ UNCHANGED <<status, token, kind, adminVars, dispatchVars, phase, runs, handed, restarts>>
<1>1. Busy(t, p)
  BY DEF Lane, FailItem, ApplyResult, LeaveProduct, RecordOptimized, CountItem, Busy
<1>2. phase[t] = "work" /\ runs[t] \in Jobs
  BY <1>1 DEF Busy, JobsInv, JobsTypeOK, Held, Phases
<1>3. ASSUME FailItem(t, p) PROVE Effect
  BY <1>3 DEF Effect, FailItem, Lanes, Finished
<1>4. ASSUME ApplyResult(t, p) PROVE Effect
  BY <1>4 DEF Effect, ApplyResult, Lanes
<1>5. ASSUME LeaveProduct(t, p) PROVE Effect
  BY <1>5 DEF Effect, LeaveProduct, Lanes, rowVars
<1>6. ASSUME RecordOptimized(t, p) PROVE Effect
  BY <1>6 DEF Effect, RecordOptimized, RecordHits, Lanes, Finished
<1>7. ASSUME CountItem(t, p) PROVE Effect
  BY <1>7 DEF Effect, CountItem, Lanes
<1>8. Effect
  BY <1>3, <1>4, <1>5, <1>6, <1>7 DEF Lane
<1> QED BY <1>1, <1>2, <1>8

(* Item goroutines leave workers and jobs as they are.                      *)
LEMMA LaneKeeps == ASSUME JobsInv, NEW t \in Tokens, NEW p \in Products, Lane(t, p) PROVE JobsInv'
<1>1. /\ phase[t] = "work" /\ runs[t] \in Jobs
      /\ UNCHANGED <<status, token, kind, adminVars, dispatchVars, phase, runs, handed, restarts>>
  BY LaneEffect
<1>2. PICK s \in Lanes : lane' = [lane EXCEPT ![t][p] = s]
  BY LaneEffect
<1>3. lane' \in [Tokens -> [Products -> Lanes]]
  BY <1>2, SetLane DEF JobsInv, JobsTypeOK
<1>4. item' \in [Jobs -> [Products -> ItemStatus]]
  <2>1. CASE item' = item
    BY <2>1 DEF JobsInv, JobsTypeOK
  <2>2. ASSUME NEW f \in Finished, item' = [item EXCEPT ![runs[t]][p] = f]
        PROVE  item' \in [Jobs -> [Products -> ItemStatus]]
    <3>1. f \in ItemStatus
      BY DEF ItemStatus
    <3>2. item \in [Jobs -> [Products -> ItemStatus]] /\ runs[t] \in Jobs
      BY <1>1 DEF JobsInv, JobsTypeOK
    <3>3. [item EXCEPT ![runs[t]][p] = f] \in [Jobs -> [Products -> ItemStatus]]
      BY <3>1, <3>2, SetItem
    <3> QED BY <2>2, <3>3
  <2>3. \/ item' = item
        \/ /\ \E f \in Finished : item' = [item EXCEPT ![runs[t]][p] = f]
           /\ \/ ~Requeues(kind[runs[t]])
              \/ MayFinishItems(t)
    BY LaneEffect
  <2> QED BY <2>1, <2>2, <2>3
<1>9. processed' = processed \/ processed' = [processed EXCEPT ![runs[t]] = @ + 1]
  BY LaneEffect
<1>10. written' = written \/ written' = [written EXCEPT ![p] = runs[t]]
  BY LaneEffect
<1>5. /\ processed' \in [Jobs -> Nat]
      /\ written' \in [Products -> Jobs \cup {NoJob}]
  BY <1>1, <1>9, <1>10 DEF JobsInv, JobsTypeOK
<1>6. JobsTypeOK'
  BY <1>1, <1>3, <1>4, <1>5 DEF JobsInv, JobsTypeOK, adminVars, dispatchVars
<1>7. Held'
  BY <1>1, <1>2 DEF JobsInv, JobsTypeOK, Held, IsRunning, Current
<1>8. Manned'
  BY <1>1 DEF JobsInv, Manned, Alive
<1> QED BY <1>6, <1>7, <1>8 DEF JobsInv

(* A restart leaves no worker and no running job.                           *)
LEMMA RestartKeeps == ASSUME JobsInv, Restart PROVE JobsInv'
<1>1. item' \in [Jobs -> [Products -> ItemStatus]]
  BY RequeuedType DEF Restart, JobsInv, JobsTypeOK
<1>2. /\ status' \in [Jobs -> {"none"} \cup Active \cup Closed] /\ token' \in [Jobs -> Tokens \cup {NoToken}]
      /\ ending' \in [Jobs -> {"no", "releasing", "cut"}]
  BY DEF Restart, ProcessGone, JobsInv, JobsTypeOK, Active
<1>3. /\ phase' \in [Tokens -> Phases] /\ runs' \in [Tokens -> Jobs \cup {NoJob}]
      /\ handed' \in [Tokens -> SUBSET Products] /\ lane' \in [Tokens -> [Products -> Lanes]]
  BY DEF Restart, ProcessGone, Phases, Lanes
<1>4. pass' \in [on : BOOLEAN, limit : Limits \cup {0}, queue : SUBSET Jobs] /\ listing' \in SUBSET Products
  BY DEF Restart, ProcessGone, NoPass
<1>5. woken' \in BOOLEAN
  BY DEF Restart, ProcessGone
<1>6. resumes' \in Nat /\ restarts' \in Nat /\ slots' \in Int
  BY DEF Restart, ProcessGone, JobsInv, JobsTypeOK
<1>7. JobsTypeOK'
  BY <1>1, <1>2, <1>3, <1>4, <1>5, <1>6 DEF Restart, JobsInv, JobsTypeOK
<1>8. Held' /\ Manned'
  BY <1>2 DEF Restart, ProcessGone, JobsInv, JobsTypeOK, Held, Manned
<1> QED BY <1>7, <1>8 DEF JobsInv

(* Every step keeps the invariant.                                          *)
LEMMA JobsStep == ASSUME JobsInv, [Next]_vars PROVE JobsInv'
<1>1. CASE UNCHANGED vars
  BY <1>1 DEF vars, rowVars, adminVars, dispatchVars, workerVars, JobsInv, JobsTypeOK, Held, Manned, IsRunning, Current, Alive
<1> QED BY <1>1, AdminKeeps, DispatchKeeps, WorkerKeeps, LaneKeeps, RestartKeeps DEF Next

(* Every state keeps its types, every worker its job and every running job  *)
(* its worker.                                                              *)
THEOREM JobsInvariant == Spec => []JobsInv
<1>1. Init => JobsInv
  BY InitJobs
<1>2. JobsInv /\ [Next]_vars => JobsInv'
  BY JobsStep
<1> QED BY <1>1, <1>2, PTL DEF Spec

(* Rows, dispatcher and workers keep their types.                           *)
THEOREM JobsTyping == Spec => []JobsTypeOK
<1>1. JobsInv => JobsTypeOK
  BY DEF JobsInv
<1> QED BY <1>1, JobsInvariant, PTL

-----------------------------------------------------------------------------
(* A step that leaves statuses and items alone.                             *)
LEMMA QuietRows ==
    ASSUME EndingInv, UNCHANGED <<status, kind, item, ending>> PROVE RowFrame
BY DEF EndingInv, RowFrame, Whole, PendingIn

(* The administrator inserts jobs, and cancels before he releases.          *)
LEMMA AdminRows == ASSUME JobsInv, EndingInv, Admin PROVE RowFrame \/ Inserts
<1>1. CASE Create
  BY <1>1 DEF Create, CreateJob, Inserts, adminVars
<1>2. CASE InsertListing
  <2>1. listing \in SUBSET Products
    BY DEF JobsInv, JobsTypeOK
  <2> QED BY <1>2, <2>1 DEF InsertListing, ListingInsert, Inserts
<1>3. CASE CheckListing \/ SaveLimit
  BY <1>3, QuietRows DEF CheckListing, ListingCheck, SaveLimit, rowVars, adminVars
<1>4. ASSUME NEW j \in Jobs, Pause(j) PROVE RowFrame
  BY <1>4 DEF Pause, PauseSEOJob, JobsInv, JobsTypeOK, EndingInv, RowFrame, Whole, PendingIn, adminVars, Done
<1>5. ASSUME NEW j \in Jobs, Resume(j) PROVE RowFrame
  BY <1>5 DEF Resume, ResumeSEOJob, Requeued, JobsInv, JobsTypeOK, EndingInv, RowFrame, Whole, PendingIn, Pending, Done
<1>6. ASSUME NEW j \in Jobs, End(j) PROVE RowFrame
  BY <1>6 DEF End, EndSEOJob, JobsInv, JobsTypeOK, EndingInv, RowFrame, Whole, PendingIn, Active, Done
<1>7. ASSUME NEW j \in Jobs, Release(j) PROVE RowFrame
  <2>1. status[j] = "cancelled"
    BY <1>7, ReleaseEffect DEF EndingInv
  <2>2. \A i \in Jobs, p \in Products : item'[i][p] \in Pending => item[i][p] \in Pending
    BY <1>7, ReleaseEffect DEF Pending
  <2>3. \A i \in Jobs : ending'[i] = ending[i] \/ (i = j /\ Whole(j)')
    BY <1>7, <2>2, ReleaseEffect DEF Whole, PendingIn
  <2> QED BY <1>7, <2>1, <2>2, <2>3, ReleaseEffect DEF EndingInv, RowFrame
<1>8. ASSUME NEW j \in Jobs, ReleaseStops(j) PROVE RowFrame
  BY <1>8 DEF ReleaseStops, ReleaseFails, rowVars, JobsInv, JobsTypeOK, EndingInv, RowFrame, Whole, PendingIn, Done
<1> QED BY <1>1, <1>2, <1>3, <1>4, <1>5, <1>6, <1>7, <1>8 DEF Admin

(* A claim leaves items alone.                                              *)
LEMMA DispatchRows == ASSUME JobsInv, EndingInv, Dispatch PROVE RowFrame
<1>1. CASE PassBegin \/ PassEnd
  BY <1>1, QuietRows DEF PassBegin, PassEnd, rowVars, adminVars
<1>2. CASE PassTake
  <2>1. UNCHANGED ending
    BY <1>2 DEF PassTake, adminVars
  <2>2. \/ UNCHANGED <<status, kind, item>>
        \/ \E j \in Jobs, t \in Tokens : Launch(j, t)
    BY <1>2 DEF PassTake, rowVars
  <2>3. ASSUME NEW j \in Jobs, NEW t \in Tokens, Launch(j, t) PROVE RowFrame
    BY <2>1, <2>3 DEF Launch, JobsInv, JobsTypeOK, EndingInv, RowFrame, Whole, PendingIn, Done
  <2> QED BY <2>1, <2>2, <2>3, QuietRows
<1> QED BY <1>1, <1>2 DEF Dispatch

(* A job that its worker closes is swept, or is not said to be completed,   *)
(* or is a content job.                                                     *)
LEMMA CloseRows ==
    ASSUME JobsInv, EndingInv, NEW t \in Tokens, phase[t] = "work", NEW s \in Closed \cup {"paused"}, s # "cancelled",
           CloseAs(t, s), UNCHANGED <<kind, ending>>,
           item' = item \/ item' = [item EXCEPT ![runs[t]] = Swept(item[runs[t]])],
           s \in Done /\ Requeues(kind[runs[t]]) /\ IsRunning(t) => item' = [item EXCEPT ![runs[t]] = Swept(item[runs[t]])]
    PROVE  RowFrame
<1>1. runs[t] \in Jobs /\ status \in [Jobs -> {"none"} \cup Active \cup Closed] /\ item \in [Jobs -> [Products -> ItemStatus]]
  BY DEF JobsInv, JobsTypeOK, Held
<1>2. s \notin {"none", "cancelled"}
  BY DEF Closed
<1>3. \A p \in Products : Swept(item[runs[t]])[p] \notin Pending
  BY DEF Swept, Pending
<1>4. \A j \in Jobs, p \in Products : item'[j][p] \in Pending => item'[j][p] = item[j][p]
  BY <1>1, <1>3
<1>5. \A j \in Jobs : status'[j] = IF j = runs[t] /\ IsRunning(t) THEN s ELSE status[j]
  BY <1>1 DEF CloseAs
<1>6. IsRunning(t) => status[runs[t]] = "running"
  BY DEF IsRunning
<1>7. ASSUME NEW j \in Jobs, status'[j] \in Done, Requeues(kind[j]) PROVE status[j] \in Done \/ Whole(j)'
  <2>1. CASE j = runs[t] /\ IsRunning(t)
    BY <1>1, <1>3, <1>5, <1>7, <2>1 DEF Whole, PendingIn
  <2> QED BY <1>5, <1>7, <2>1
<1>8. ASSUME NEW j \in Jobs
      PROVE  /\ status'[j] = "none" <=> status[j] = "none"
             /\ ending'[j] # "no" => status'[j] = "cancelled"
             /\ status'[j] = "cancelled" => status[j] = "cancelled"
  BY <1>2, <1>5, <1>6 DEF EndingInv
<1> QED BY <1>4, <1>7, <1>8 DEF RowFrame, Pending

(* A final status says that the job is completed.                           *)
LEMMA FinalStatusDone == \A items : FinalStatus(items) \in Done
BY DEF FinalStatus, Done

(* A worker sweeps what it completes.                                       *)
LEMMA WorkerRows == ASSUME JobsInv, EndingInv, NEW t \in Tokens, Worker(t) PROVE RowFrame
<1>1. ASSUME NEW p \in Products, HandItem(t, p) PROVE RowFrame
  <2>1. UNCHANGED <<status, kind, ending>>
    BY <1>1 DEF HandItem, adminVars
  <2>2. runs[t] \in Jobs /\ item[runs[t]][p] = "queued" /\ item \in [Jobs -> [Products -> ItemStatus]]
    BY <1>1 DEF HandItem, ToHand, JobsInv, JobsTypeOK, Held
  <2>3. item' = item \/ item' = [item EXCEPT ![runs[t]][p] = "running"]
    BY <1>1 DEF HandItem
  <2>4. \A j \in Jobs, q \in Products : item'[j][q] \in Pending => item[j][q] \in Pending
    BY <2>2, <2>3 DEF Pending
  <2> QED BY <2>1, <2>4 DEF RowFrame, EndingInv
<1>2. CASE GiveUp(t)
  BY <1>2, CloseRows DEF GiveUp, adminVars, Closed, Done
<1>3. CASE FinishContent(t)
  <2>1. FinalStatus(item[runs[t]]) \in Closed /\ FinalStatus(item[runs[t]]) # "cancelled"
    BY FinalStatusDone DEF Done, Closed
  <2> QED BY <1>3, <2>1, CloseRows DEF FinishContent, AllHandled, adminVars
<1>4. CASE FinalizeJob(t)
  <2>1. FinalStatus(Swept(item[runs[t]])) \in Closed /\ FinalStatus(Swept(item[runs[t]])) # "cancelled"
    BY FinalStatusDone DEF Done, Closed
  <2> QED BY <1>4, <2>1, CloseRows DEF FinalizeJob, AllHandled, adminVars
<1>5. CASE FinalizeFails(t)
  BY <1>5, CloseRows DEF FinalizeFails, AllHandled, adminVars, Closed, Done
<1>6. CASE WorkerExits(t)
  BY <1>6, QuietRows DEF WorkerExits, rowVars, adminVars
<1> QED BY <1>1, <1>2, <1>3, <1>4, <1>5, <1>6 DEF Worker

(* An item goroutine finishes items.                                        *)
LEMMA LaneRows == ASSUME JobsInv, EndingInv, NEW t \in Tokens, NEW p \in Products, Lane(t, p) PROVE RowFrame
<1>1. runs[t] \in Jobs /\ UNCHANGED <<status, kind, adminVars>>
  BY LaneEffect
<1>2. \/ item' = item
      \/ /\ \E s \in Finished : item' = [item EXCEPT ![runs[t]][p] = s]
         /\ \/ ~Requeues(kind[runs[t]])
            \/ MayFinishItems(t)
  BY LaneEffect
<1>3. item \in [Jobs -> [Products -> ItemStatus]]
  BY DEF JobsInv, JobsTypeOK
<1>4. ASSUME NEW s \in Finished, item' = [item EXCEPT ![runs[t]][p] = s] PROVE RowFrame
  <2>1. s \notin Pending
    BY DEF Finished, Pending
  <2>2. \A j \in Jobs, q \in Products : item'[j][q] \in Pending => item'[j][q] = item[j][q]
    BY <1>1, <1>3, <1>4, <2>1
  <2> QED BY <1>1, <2>2 DEF RowFrame, EndingInv, adminVars, Pending
<1>5. item' = item => RowFrame
  BY <1>1, QuietRows DEF adminVars
<1> QED BY <1>2, <1>4, <1>5

(* A restart gives running items back.                                      *)
LEMMA RestartRows == ASSUME JobsInv, EndingInv, Restart PROVE RowFrame
<1>1. \A j \in Jobs, p \in Products :
         item'[j][p] = IF item[j][p] = "running" THEN "queued" ELSE item[j][p]
  BY DEF Restart, Requeued
<1>2. \A j \in Jobs, p \in Products : item'[j][p] \in Pending => item[j][p] \in Pending
  BY <1>1 DEF Pending
<1>3. kind' = kind
  BY DEF Restart
<1>4. ASSUME NEW j \in Jobs
      PROVE  /\ status'[j] = IF status[j] = "running" THEN "queued" ELSE status[j]
             /\ ending'[j] = IF ending[j] = "releasing" THEN "cut" ELSE ending[j]
  BY DEF Restart, ProcessGone
<1> QED BY <1>2, <1>3, <1>4 DEF EndingInv, RowFrame, Done

(* Every step does one or the other.                                        *)
LEMMA RowsStep == ASSUME JobsInv, EndingInv, [Next]_vars PROVE RowFrame \/ Inserts
<1>1. CASE UNCHANGED vars
  BY <1>1, QuietRows DEF vars, rowVars, adminVars
<1> QED BY <1>1, AdminRows, DispatchRows, WorkerRows, LaneRows, RestartRows DEF Next

-----------------------------------------------------------------------------
(* A busy lane belongs to a worker that is at work on a job that exists.    *)
LEMMA BusyWorks ==
    ASSUME JobsInv, NEW t \in Tokens, NEW p \in Products, lane[t][p] # "idle"
    PROVE  phase[t] = "work" /\ runs[t] \in Jobs /\ status[runs[t]] # "none"
BY DEF JobsInv, JobsTypeOK, Held, Phases

(* A step that leaves fence, items and lanes alone.                         *)
LEMMA QuietLanes ==
    ASSUME UNCHANGED <<status, token, kind, item, runs, lane>> PROVE LaneFrame
BY DEF LaneFrame, Current, PendingIn

(* A change of status lets nobody through the fence.                        *)
LEMMA StatusLanes ==
    ASSUME JobsInv, NEW j \in Jobs, NEW s \in {"queued", "paused", "cancelled"}, status[j] \in Active,
           status' = [status EXCEPT ![j] = s], UNCHANGED <<token, kind, runs, lane>>,
           \A i \in Jobs, p \in Products :
               /\ item[i][p] \in Pending => item'[i][p] \in Pending
               /\ ~Requeues(kind[i]) => item'[i][p] = item[i][p]
    PROVE  LaneFrame
<1>1. \A i \in Jobs : status'[i] \in Active => status[i] \in Active
  BY DEF JobsInv, JobsTypeOK
<1> QED BY <1>1, BusyWorks DEF LaneFrame, Current, PendingIn

(* The administrator makes no lane busy.                                    *)
LEMMA AdminLanes == ASSUME JobsInv, EndingInv, Admin PROVE LaneFrame
<1>1. ASSUME NEW j \in Jobs, NEW k, NEW S, Insert(j, k, S), UNCHANGED workerVars PROVE LaneFrame
  <2>1. /\ status[j] = "none" /\ UNCHANGED <<token, runs, lane>>
        /\ \A i \in Jobs : i # j => status'[i] = status[i] /\ kind'[i] = kind[i] /\ item'[i] = item[i]
    BY <1>1 DEF Insert, NextJob, workerVars, JobsInv, JobsTypeOK
  <2> QED BY <2>1, BusyWorks DEF LaneFrame, Current, PendingIn
<1>2. CASE Create
  BY <1>1, <1>2 DEF Create, CreateJob
<1>3. CASE InsertListing
  BY <1>1, <1>3 DEF InsertListing, ListingInsert
<1>4. CASE CheckListing \/ SaveLimit
  BY <1>4, QuietLanes DEF CheckListing, ListingCheck, SaveLimit, rowVars, workerVars
<1>5. ASSUME NEW j \in Jobs, Pause(j) PROVE LaneFrame
  BY <1>5, StatusLanes DEF Pause, PauseSEOJob, workerVars, Active
<1>6. ASSUME NEW j \in Jobs, Resume(j) PROVE LaneFrame
  <2>1. \A i \in Jobs, p \in Products :
               /\ item[i][p] \in Pending => item'[i][p] \in Pending
               /\ ~Requeues(kind[i]) => item'[i][p] = item[i][p]
    BY <1>6 DEF Resume, ResumeSEOJob, Requeued, Pending, JobsInv, JobsTypeOK
  <2> QED BY <1>6, <2>1, StatusLanes DEF Resume, ResumeSEOJob, workerVars, Active
<1>7. ASSUME NEW j \in Jobs, End(j) PROVE LaneFrame
  BY <1>7, StatusLanes DEF End, EndSEOJob, workerVars
<1>8. ASSUME NEW j \in Jobs, Release(j) PROVE LaneFrame
  <2>1. /\ UNCHANGED <<status, token, kind, runs, lane>>
        /\ \A i \in Jobs : i # j => item'[i] = item[i]
        /\ \A p \in Products : item'[j][p] = "queued" => item[j][p] = "queued"
    BY <1>8, ReleaseEffect DEF workerVars
  <2>2. status[j] \notin Active
    BY <1>8, ReleaseEffect DEF EndingInv, Active
  <2> QED BY <2>1, <2>2, BusyWorks DEF LaneFrame, Current, PendingIn
<1>9. ASSUME NEW j \in Jobs, ReleaseStops(j) PROVE LaneFrame
  BY <1>9, QuietLanes DEF ReleaseStops, ReleaseFails, rowVars, workerVars
<1> QED BY <1>2, <1>3, <1>4, <1>5, <1>6, <1>7, <1>8, <1>9 DEF Admin

(* A claim lets the new worker through, which has no busy lane, and shuts   *)
(* out the old one.                                                         *)
LEMMA DispatchLanes == ASSUME JobsInv, Dispatch PROVE LaneFrame
<1>1. CASE PassBegin \/ PassEnd
  BY <1>1, QuietLanes DEF PassBegin, PassEnd, rowVars, workerVars
<1>2. CASE PassTake
  <2>1. \/ UNCHANGED <<status, token, kind, item, runs, lane>>
        \/ \E j \in Jobs, t \in Tokens : Launch(j, t)
    BY <1>2 DEF PassTake, rowVars, workerVars
  <2>2. ASSUME NEW j \in Jobs, NEW t \in Tokens, Launch(j, t) PROVE LaneFrame
    <3>1. phase[t] = "off" /\ UNCHANGED <<kind, item, lane>>
      BY <2>2 DEF Launch, Unused
    <3>2. \A u \in Tokens : u # t => runs'[u] = runs[u]
      BY <2>2 DEF Launch, JobsInv, JobsTypeOK
    <3>3. \A i \in Jobs : i # j => status'[i] = status[i] /\ token'[i] = token[i]
      BY <2>2 DEF Launch, JobsInv, JobsTypeOK
    <3>4. token'[j] = t
      BY <2>2 DEF Launch, JobsInv, JobsTypeOK
    <3> QED BY <3>1, <3>2, <3>3, <3>4, BusyWorks DEF LaneFrame, Current, PendingIn
  <2> QED BY <2>1, <2>2, QuietLanes
<1> QED BY <1>1, <1>2 DEF Dispatch

(* The fence is one worker's: who closes its job has no lane left, and no   *)
(* other worker of that job passes.                                         *)
LEMMA CloseLanes ==
    ASSUME JobsInv, NEW t \in Tokens, phase[t] = "work", Drained(t),
           NEW s, CloseAs(t, s), UNCHANGED <<token, kind, runs, lane>>,
           \/ item' = item
           \/ /\ IsRunning(t) /\ Requeues(kind[runs[t]])
              /\ item' = [item EXCEPT ![runs[t]] = Swept(item[runs[t]])]
    PROVE  LaneFrame
<1>1. \A i \in Jobs : (i = runs[t] /\ IsRunning(t)) \/ (status'[i] = status[i] /\ item'[i] = item[i])
  BY DEF CloseAs, JobsInv, JobsTypeOK, Held
<1>2. \A i \in Jobs : ~Requeues(kind[i]) => item'[i] = item[i]
  BY DEF JobsInv, JobsTypeOK, Held
<1>3. \A p \in Products : lane[t][p] = "idle"
  BY DEF Drained, Busy
<1>4. IsRunning(t) => token[runs[t]] = t
  BY DEF IsRunning, Current
<1> QED BY <1>1, <1>2, <1>3, <1>4, BusyWorks DEF LaneFrame, Current, PendingIn

(* A worker makes a lane busy by handing over an item only.                 *)
LEMMA WorkerLanes ==
    ASSUME JobsInv, NEW t \in Tokens, Worker(t) PROVE LaneFrame \/ \E p \in Products : HandItem(t, p)
<1>1. CASE GiveUp(t)
  BY <1>1, CloseLanes DEF GiveUp
<1>2. CASE FinishContent(t)
  BY <1>2, CloseLanes DEF FinishContent, AllHandled
<1>3. CASE FinalizeJob(t)
  BY <1>3, CloseLanes DEF FinalizeJob, AllHandled
<1>4. CASE FinalizeFails(t)
  BY <1>4, CloseLanes DEF FinalizeFails, AllHandled
<1>5. CASE WorkerExits(t)
  <2>1. /\ phase[t] # "work" /\ UNCHANGED <<status, token, kind, item, lane>>
        /\ \A u \in Tokens : u # t => runs'[u] = runs[u]
    BY <1>5 DEF WorkerExits, rowVars, JobsInv, JobsTypeOK
  <2> QED BY <2>1, BusyWorks DEF LaneFrame, Current, PendingIn
<1> QED BY <1>1, <1>2, <1>3, <1>4, <1>5 DEF Worker

(* An item goroutine writes its own item only; one of a content job has it  *)
(* alone, one of another kind holds the fence.                              *)
LEMMA LaneLanes ==
    ASSUME JobsInv, AskedOnce, NEW t \in Tokens, NEW p \in Products, Lane(t, p) PROVE LaneFrame
<1>1. /\ runs[t] \in Jobs /\ Busy(t, p)
      /\ UNCHANGED <<status, token, kind, runs>>
  BY LaneEffect
<1>2. PICK s \in Lanes \ {"asking"} : lane' = [lane EXCEPT ![t][p] = s]
  BY LaneEffect
<1>3. \/ item' = item
      \/ /\ \E f \in Finished : item' = [item EXCEPT ![runs[t]][p] = f]
         /\ \/ ~Requeues(kind[runs[t]])
            \/ MayFinishItems(t)
  BY LaneEffect
<1>4. item \in [Jobs -> [Products -> ItemStatus]] /\ lane \in [Tokens -> [Products -> Lanes]]
  BY DEF JobsInv, JobsTypeOK
<1>5. \A u \in Tokens, q \in Products :
         /\ u # t \/ q # p => lane'[u][q] = lane[u][q]
         /\ lane'[u][q] = "asking" => u # t \/ q # p
         /\ lane'[u][q] # "idle" => lane[u][q] # "idle"
  BY <1>1, <1>2, <1>4 DEF Busy
<1>6. \A i \in Jobs, q \in Products : i # runs[t] \/ q # p => item'[i][q] = item[i][q]
  <2>1. ASSUME NEW f, item' = [item EXCEPT ![runs[t]][p] = f], NEW i \in Jobs, NEW q \in Products,
               i # runs[t] \/ q # p
        PROVE  item'[i][q] = item[i][q]
    BY <1>1, <1>4, <2>1
  <2> QED BY <1>3, <2>1
<1>7. item'[runs[t]][p] = "queued" => item[runs[t]][p] = "queued"
  BY <1>1, <1>3, <1>4 DEF Finished
<1>8. item' = item \/ ~Requeues(kind[runs[t]]) \/ token[runs[t]] = t
  BY <1>3 DEF MayFinishItems, Current
<1>9. ~Requeues(kind[runs[t]]) => \A u \in Tokens : u # t /\ runs[u] = runs[t] => lane[u][p] = "idle"
  BY <1>1 DEF AskedOnce, Busy
<1>10. ASSUME NEW u \in Tokens, NEW q \in Products, lane'[u][q] = "asking", token'[runs[u]] = u,
              status'[runs[u]] \in Active
       PROVE  /\ lane[u][q] = "asking" /\ Current(u) /\ status[runs[u]] \in Active
              /\ PendingIn(runs[u], q) => item'[runs[u]][q] \in Pending
  <2>1. lane[u][q] = "asking" /\ Current(u) /\ status[runs[u]] \in Active
    BY <1>1, <1>5, <1>10 DEF Current
  <2>2. runs[u] \in Jobs
    BY <2>1, BusyWorks
  <2>3. item'[runs[u]][q] = item[runs[u]][q]
    BY <1>1, <1>5, <1>6, <1>8, <1>9, <1>10, <2>1, <2>2
  <2> QED BY <2>1, <2>3 DEF PendingIn
<1>11. ASSUME NEW u \in Tokens, NEW q \in Products, lane'[u][q] # "idle"
       PROVE  /\ lane[u][q] # "idle" /\ runs'[u] = runs[u]
              /\ kind'[runs[u]] = kind[runs[u]]
              /\ item'[runs[u]][q] = "queued" => item[runs[u]][q] = "queued"
  <2>1. lane[u][q] # "idle" /\ runs[u] \in Jobs
    BY <1>5, <1>11, BusyWorks
  <2> QED BY <1>1, <1>6, <1>7, <2>1
<1> QED BY <1>10, <1>11 DEF LaneFrame

(* Every step does one or the other.                                        *)
LEMMA LanesStep ==
    ASSUME JobsInv, AskedOnce, EndingInv, [Next]_vars
    PROVE  LaneFrame \/ \E t \in Tokens, p \in Products : HandItem(t, p)
<1>1. CASE UNCHANGED vars
  BY <1>1, QuietLanes DEF vars, rowVars, workerVars
<1>2. CASE Restart
  BY <1>2 DEF Restart, ProcessGone, LaneFrame
<1> QED BY <1>1, <1>2, AdminLanes, DispatchLanes, WorkerLanes, LaneLanes DEF Next

-----------------------------------------------------------------------------
RowsInv == EndingInv /\ OneJobPerProduct /\ EndedIsReleased /\ SweptIsWhole
LanesInv == AskedOnce /\ Fence
SafeInv == JobsInv /\ RowsInv /\ LanesInv /\ Succession

(* The invariants hold at the start.                                        *)
LEMMA InitSafe == Init => SafeInv
<1> SUFFICES ASSUME Init PROVE SafeInv
  OBVIOUS
<1>1. JobsInv
  BY InitJobs
<1>2. RowsInv
  BY DEF Init, RowsInit, RowsInv, EndingInv, OneJobPerProduct, EndedIsReleased, SweptIsWhole, PendingIn, Pending
<1>3. LanesInv
  BY DEF Init, LanesInv, AskedOnce, Fence, Busy
<1>4. Succession
  BY DEF Init, RowsInit, Succession
<1> QED BY <1>1, <1>2, <1>3, <1>4 DEF SafeInv

(* What the insert of a job leaves of the rows.                             *)
LEMMA InsertEffect ==
    ASSUME JobsInv, NEW j \in Jobs, NEW k, NEW S, Insert(j, k, S)
    PROVE  /\ status[j] = "none" /\ status'[j] = "queued" /\ kind'[j] = k
           /\ \A p \in Products : item'[j][p] \in Pending => p \in S
           /\ \A i \in Jobs : i # j => status'[i] = status[i] /\ kind'[i] = kind[i] /\ item'[i] = item[i]
           /\ \A i \in Jobs : i < j => status[i] # "none"
           /\ UNCHANGED written
BY DEF Insert, NextJob, JobsInv, JobsTypeOK, Pending

(* An insert that looked for pending products, or a step that makes none    *)
(* pending.                                                                 *)
LEMMA RowsKept == ASSUME JobsInv, RowsInv, [Next]_vars PROVE RowsInv'
<1>1. ASSUME RowFrame PROVE RowsInv'
  <2>1. EndingInv'
    BY <1>1 DEF RowFrame, EndingInv
  <2>2. OneJobPerProduct'
    BY <1>1 DEF RowFrame, RowsInv, OneJobPerProduct, PendingIn
  <2>3. EndedIsReleased'
    BY <1>1 DEF RowFrame, RowsInv, EndedIsReleased, PendingIn, Whole
  <2>4. SweptIsWhole'
    BY <1>1 DEF RowFrame, RowsInv, SweptIsWhole, PendingIn, Whole, Done
  <2> QED BY <2>1, <2>2, <2>3, <2>4 DEF RowsInv
<1>2. ASSUME NEW j \in Jobs, NEW k \in Kinds \cup {"content", "listing"}, NEW S \in SUBSET Products,
             Insert(j, k, S), k # "listing" => NoPending(S), UNCHANGED <<ending, workerVars>>
      PROVE  RowsInv'
  <2>1. /\ status[j] = "none" /\ status'[j] = "queued" /\ kind'[j] = k /\ ending' = ending
        /\ \A p \in Products : item'[j][p] \in Pending => p \in S
        /\ \A i \in Jobs : i # j => status'[i] = status[i] /\ kind'[i] = kind[i] /\ item'[i] = item[i]
    BY <1>2, InsertEffect
  <2>2. EndingInv'
    BY <2>1 DEF RowsInv, EndingInv
  <2>3. OneJobPerProduct'
    BY <1>2, <2>1 DEF RowsInv, OneJobPerProduct, PendingIn, NoPending
  <2>4. EndedIsReleased'
    BY <2>1 DEF RowsInv, EndedIsReleased, PendingIn
  <2>5. SweptIsWhole'
    BY <2>1 DEF RowsInv, SweptIsWhole, PendingIn
  <2> QED BY <2>2, <2>3, <2>4, <2>5 DEF RowsInv
<1>3. RowFrame \/ Inserts
  BY RowsStep DEF RowsInv
<1> QED BY <1>1, <1>2, <1>3 DEF Inserts

(* An item that is handed over was queued, and so nobody had it.            *)
LEMMA LanesKept == ASSUME JobsInv, RowsInv, LanesInv, [Next]_vars PROVE LanesInv'
<1>1. ASSUME LaneFrame PROVE LanesInv'
  <2>1. AskedOnce'
    BY <1>1 DEF LaneFrame, LanesInv, AskedOnce, Busy
  <2>2. Fence'
    BY <1>1 DEF LaneFrame, LanesInv, Fence, Current, PendingIn
  <2> QED BY <2>1, <2>2 DEF LanesInv
<1>2. ASSUME NEW t \in Tokens, NEW p \in Products, HandItem(t, p) PROVE LanesInv'
  <2>1. /\ runs[t] \in Jobs /\ item[runs[t]][p] = "queued"
        /\ item \in [Jobs -> [Products -> ItemStatus]] /\ lane \in [Tokens -> [Products -> Lanes]]
        /\ UNCHANGED <<status, token, kind, runs>>
    BY <1>2 DEF HandItem, ToHand, JobsInv, JobsTypeOK, Held
  <2>2. CASE UNCHANGED <<item, lane>>
    BY <2>1, <2>2, <1>1, QuietLanes
  <2>3. CASE item' = [item EXCEPT ![runs[t]][p] = "running"] /\ lane' = [lane EXCEPT ![t][p] = "asking"]
    <3>1. /\ item'[runs[t]][p] = "running" /\ lane'[t][p] = "asking"
          /\ \A i \in Jobs, q \in Products : i # runs[t] \/ q # p => item'[i][q] = item[i][q]
          /\ \A u \in Tokens, q \in Products : u # t \/ q # p => lane'[u][q] = lane[u][q]
      BY <2>1, <2>3
    <3>2. \A u \in Tokens, q \in Products : lane[u][q] # "idle" => runs[u] \in Jobs
      BY BusyWorks
    <3>3. ~Requeues(kind[runs[t]]) => \A u \in Tokens : runs[u] = runs[t] => lane[u][p] = "idle"
      BY <2>1 DEF LanesInv, AskedOnce, Busy
    <3>4. AskedOnce'
      BY <2>1, <3>1, <3>2, <3>3 DEF LanesInv, AskedOnce, Busy
    <3>5. Fence'
      BY <2>1, <3>1, <3>2 DEF LanesInv, Fence, Current, PendingIn, Pending
    <3> QED BY <3>4, <3>5 DEF LanesInv
  <2> QED BY <1>2, <2>2, <2>3 DEF HandItem
<1> QED BY <1>1, <1>2, LanesStep DEF RowsInv, LanesInv

(* A product is written by a worker that the fence lets through, and by     *)
(* nothing else.                                                            *)
Writes(t, p) ==
    /\ runs[t] \in Jobs /\ lane[t][p] = "asking" /\ MayFinishItems(t)
    /\ written' = [written EXCEPT ![p] = runs[t]]
    /\ UNCHANGED <<status, kind>>

LEMMA WrittenStep ==
    ASSUME JobsInv, [Next]_vars
    PROVE  UNCHANGED written \/ \E t \in Tokens, p \in Products : Writes(t, p)
<1>1. ASSUME NEW t \in Tokens, NEW p \in Products, Lane(t, p) PROVE UNCHANGED written \/ Writes(t, p)
  <2>1. \/ written' = written
        \/ /\ written' = [written EXCEPT ![p] = runs[t]]
           /\ lane[t][p] = "asking" /\ MayFinishItems(t)
    BY <1>1, LaneEffect
  <2>2. runs[t] \in Jobs /\ UNCHANGED <<status, kind>>
    BY <1>1, LaneEffect
  <2> QED BY <2>1, <2>2 DEF Writes
<1>2. Dispatch => UNCHANGED written
  BY DEF Dispatch, PassBegin, PassTake, PassEnd, Launch, rowVars
<1>3. ASSUME Admin PROVE UNCHANGED written
  BY <1>3 DEF Admin, Create, CreateJob, Insert, CheckListing, ListingCheck, InsertListing, ListingInsert, SaveLimit,
              Pause, PauseSEOJob, Resume, ResumeSEOJob, End, EndSEOJob, Release, ReleaseItems,
              ReleaseStops, ReleaseFails, rowVars
<1>4. ASSUME NEW t \in Tokens, Worker(t) PROVE UNCHANGED written
  BY <1>4 DEF Worker, HandItem, GiveUp, FinishContent, FinalizeJob, FinalizeFails, WorkerExits, rowVars
<1>5. Restart => UNCHANGED written
  BY DEF Restart
<1>6. UNCHANGED vars => UNCHANGED written
  BY DEF vars, rowVars
<1> QED BY <1>1, <1>2, <1>3, <1>4, <1>5, <1>6 DEF Next

(* Whoever writes a product still wants it, so that no job that wants it    *)
(* beside it, nor the one that wrote it before, is a later one.             *)
LEMMA WriterIsNewest ==
    ASSUME SafeInv, NEW t \in Tokens, NEW p \in Products, Writes(t, p)
    PROVE  /\ PendingIn(runs[t], p) /\ status[runs[t]] # "none"
           /\ written[p] # NoJob /\ "listing" \notin {kind[runs[t]], kind[written[p]]} => written[p] <= runs[t]
<1>1. PendingIn(runs[t], p)
  BY DEF SafeInv, LanesInv, Fence, Writes, MayFinishItems, Active
<1>2. status[runs[t]] # "none"
  BY DEF Writes, MayFinishItems
<1> QED BY <1>1, <1>2 DEF SafeInv, Succession, Writes

(* A new job is newer than whatever wrote a product.                        *)
LEMMA SuccessionKept == ASSUME SafeInv, [Next]_vars PROVE Succession'
<1>1. JobsInv /\ RowsInv /\ Succession /\ JobsTypeOK
  BY DEF SafeInv, JobsInv
<1>2. ASSUME RowFrame, UNCHANGED written PROVE Succession'
  BY <1>1, <1>2 DEF RowFrame, Succession, PendingIn, JobsTypeOK
<1>3. ASSUME RowFrame, NEW t \in Tokens, NEW p \in Products, Writes(t, p) PROVE Succession'
  <2>1. written'[p] = runs[t] /\ \A q \in Products : q # p => written'[q] = written[q]
    BY <1>1, <1>3 DEF Writes, JobsTypeOK
  <2>2. PendingIn(runs[t], p) /\ status[runs[t]] # "none" /\ runs[t] \in Jobs
    BY <1>3, WriterIsNewest DEF Writes
  <2>3. \A j \in Jobs : PendingIn(j, p) /\ "listing" \notin {kind[j], kind[runs[t]]} => j = runs[t]
    BY <1>1, <2>2 DEF RowsInv, OneJobPerProduct
  <2>4. Jobs \subseteq Nat
    BY RowsAssumption
  <2>5. kind' = kind /\ \A j \in Jobs : status'[j] = "none" <=> status[j] = "none"
    BY <1>3 DEF RowFrame
  <2>6. written \in [Products -> Jobs \cup {NoJob}]
    BY <1>1 DEF JobsTypeOK
  <2>7. \A i, j \in Jobs : i < j /\ status'[j] # "none" => status'[i] # "none"
    BY <1>1, <2>5 DEF Succession
  <2>8. \A q \in Products : written'[q] # NoJob => status'[written'[q]] # "none"
    BY <1>1, <2>1, <2>2, <2>5, <2>6 DEF Succession
  <2>9. ASSUME NEW q \in Products, NEW j \in Jobs, PendingIn(j, q)', written'[q] # NoJob,
               "listing" \notin {kind'[j], kind'[written'[q]]}
        PROVE  written'[q] <= j
    <3>1. PendingIn(j, q)
      BY <1>3, <2>9 DEF RowFrame, PendingIn
    <3>2. CASE q = p
      <4>1. j = runs[t]
        BY <2>1, <2>3, <2>5, <2>9, <3>1, <3>2
      <4> QED BY <2>1, <2>4, <3>2, <4>1
    <3> QED BY <1>1, <2>1, <2>5, <2>9, <3>1, <3>2 DEF Succession
  <2> QED BY <2>7, <2>8, <2>9 DEF Succession
<1>4. ASSUME NEW j \in Jobs, NEW k, NEW S, Insert(j, k, S) PROVE Succession'
  <2>1. /\ status[j] = "none" /\ status'[j] = "queued" /\ kind'[j] = k
        /\ \A i \in Jobs : i # j => status'[i] = status[i] /\ kind'[i] = kind[i] /\ item'[i] = item[i]
        /\ \A i \in Jobs : i < j => status[i] # "none"
        /\ UNCHANGED written
    BY <1>1, <1>4, InsertEffect
  <2>2. Jobs \subseteq Nat
    BY RowsAssumption
  <2>3. ASSUME NEW p \in Products, written[p] # NoJob
        PROVE  written[p] \in Jobs /\ written[p] # j /\ written[p] <= j
    <3>1. written[p] \in Jobs /\ status[written[p]] # "none"
      BY <1>1, <2>3 DEF Succession, JobsTypeOK
    <3>2. ~(j < written[p])
      BY <1>1, <2>1, <3>1 DEF Succession
    <3>3. written[p] # j
      BY <2>1, <3>1
    <3>4. j \in Nat /\ written[p] \in Nat
      BY <2>2, <3>1
    <3>5. written[p] <= j
      BY <3>2, <3>4
    <3> QED BY <3>1, <3>3, <3>5
  <2> QED BY <1>1, <2>1, <2>2, <2>3 DEF Succession, PendingIn
<1>5. RowFrame \/ Inserts
  BY <1>1, RowsStep DEF RowsInv
<1>6. UNCHANGED written \/ \E t \in Tokens, p \in Products : Writes(t, p)
  BY <1>1, WrittenStep
<1>7. Inserts => Succession'
  BY <1>4 DEF Inserts
<1> QED BY <1>2, <1>3, <1>5, <1>6, <1>7

(* Every step keeps the invariants.                                         *)
LEMMA SafeStep == ASSUME SafeInv, [Next]_vars PROVE SafeInv'
BY JobsStep, RowsKept, LanesKept, SuccessionKept DEF SafeInv

(* Rows, lanes and their order stay as the theorems below need them.        *)
THEOREM SafeInvariant == Spec => []SafeInv
<1>1. Init => SafeInv
  BY InitSafe
<1>2. SafeInv /\ [Next]_vars => SafeInv'
  BY SafeStep
<1> QED BY <1>1, <1>2, PTL DEF Spec

(* No product waits or is worked on in two jobs that were created under the *)
(* lock of the settings row.                                                *)
THEOREM OneJob == Spec => []OneJobPerProduct
<1>1. SafeInv => OneJobPerProduct
  BY DEF SafeInv, RowsInv
<1> QED BY <1>1, SafeInvariant, PTL

(* An ended job whose release went through holds no product back.           *)
THEOREM EndedReleases == Spec => []EndedIsReleased
<1>1. SafeInv => EndedIsReleased
  BY DEF SafeInv, RowsInv
<1> QED BY <1>1, SafeInvariant, PTL

(* A completed job of a kind that sweeps holds no product back.             *)
THEOREM CompletedReleases == Spec => []SweptIsWhole
<1>1. SafeInv => SweptIsWhole
  BY DEF SafeInv, RowsInv
<1> QED BY <1>1, SafeInvariant, PTL

(* No two workers ask for one product of a content job.                     *)
THEOREM AskedByOne == Spec => []AskedByOneWorker
<1>1. SafeInv => AskedByOneWorker
  BY DEF SafeInv, LanesInv, AskedOnce, AskedByOneWorker, Busy
<1> QED BY <1>1, SafeInvariant, PTL

(* A late answer never overwrites what a later job has written, listing     *)
(* jobs apart.                                                              *)
THEOREM LateAnswersDropped == Spec => NoStaleOverwrite
<1> DEFINE Step == \A p \in Products :
         LET old == written[p]
             new == written'[p]
         IN  old # new /\ old # NoJob /\ "listing" \notin {kind[old], kind[new]} => new > old
<1>1. ASSUME SafeInv, [Next]_vars PROVE Step
  <2>1. UNCHANGED written \/ \E t \in Tokens, p \in Products : Writes(t, p)
    BY <1>1, WrittenStep DEF SafeInv
  <2>2. ASSUME NEW t \in Tokens, NEW p \in Products, Writes(t, p) PROVE Step
    <3>1. /\ written[p] # NoJob /\ "listing" \notin {kind[runs[t]], kind[written[p]]} => written[p] <= runs[t]
          /\ runs[t] \in Jobs /\ written' = [written EXCEPT ![p] = runs[t]]
      BY <1>1, <2>2, WriterIsNewest DEF Writes
    <3>2. written \in [Products -> Jobs \cup {NoJob}] /\ Jobs \subseteq Nat
      BY <1>1, RowsAssumption DEF SafeInv, JobsInv, JobsTypeOK
    <3>3. written'[p] = runs[t] /\ \A q \in Products : q # p => written'[q] = written[q]
      BY <3>1, <3>2
    <3>4. ASSUME NEW q \in Products, written[q] # written'[q], written[q] # NoJob,
                 "listing" \notin {kind[written[q]], kind[written'[q]]}
          PROVE  written'[q] > written[q]
      <4>1. q = p /\ written[q] \in Nat /\ written'[q] \in Nat
        BY <3>1, <3>2, <3>3, <3>4
      <4> QED BY <3>1, <3>3, <3>4, <4>1
    <3> QED BY <3>4
  <2> QED BY <2>1, <2>2
<1>2. SafeInv /\ [Next]_vars => [Step]_vars
  BY <1>1
<1> QED BY <1>2, SafeInvariant, PTL DEF Spec, NoStaleOverwrite

-----------------------------------------------------------------------------
(* Slots.                                                                   *)
SlotsInv == slots = Cardinality(Alive)

(* There are finitely many workers.                                         *)
LEMMA AliveFinite == IsFiniteSet(Alive) /\ Cardinality(Alive) \in Nat
<1>1. IsFiniteSet(Alive)
  BY RowsAssumption, FS_Subset DEF Alive
<1> QED BY <1>1, FS_CardinalityType

(* A step that leaves slots and workers alone.                              *)
LEMMA SameSlots == ASSUME SlotsInv, UNCHANGED slots, Alive' = Alive PROVE SlotsInv'
BY DEF SlotsInv

(* A claim takes one slot for one worker.                                   *)
LEMMA SlotsLaunch ==
    ASSUME JobsInv, SlotsInv, NEW j \in Jobs, NEW t \in Tokens, Launch(j, t), slots' = slots + 1
    PROVE  SlotsInv'
<1>1. t \notin Alive /\ Alive' = Alive \cup {t}
  BY DEF Launch, Unused, Alive, JobsInv, JobsTypeOK
<1>2. Cardinality(Alive \cup {t}) = Cardinality(Alive) + 1
  BY <1>1, AliveFinite, FS_AddElement
<1>3. Cardinality(Alive') = Cardinality(Alive \cup {t})
  BY <1>1
<1> QED BY <1>2, <1>3 DEF SlotsInv

(* An exit gives one slot back for one worker.                              *)
LEMMA SlotsExit ==
    ASSUME JobsInv, SlotsInv, NEW t \in Tokens, WorkerExits(t) PROVE SlotsInv'
<1>1. t \in Alive /\ Alive' = Alive \ {t} /\ slots' = slots - 1
  BY DEF WorkerExits, Alive, JobsInv, JobsTypeOK
<1>2. Cardinality(Alive \ {t}) = Cardinality(Alive) - 1
  BY <1>1, AliveFinite, FS_RemoveElement
<1>3. Cardinality(Alive') = Cardinality(Alive \ {t})
  BY <1>1
<1> QED BY <1>1, <1>2, <1>3 DEF SlotsInv

(* Every step keeps slots and workers equal in number.                      *)
LEMMA SlotsStep == ASSUME JobsInv, SlotsInv, [Next]_vars PROVE SlotsInv'
<1>1. UNCHANGED <<slots, phase>> => SlotsInv'
  BY SameSlots DEF Alive
<1>2. CASE UNCHANGED vars
  BY <1>1, <1>2 DEF vars, dispatchVars, workerVars
<1>3. CASE Admin
  <2>1. UNCHANGED <<slots, phase>>
    BY <1>3 DEF Admin, Create, CheckListing, InsertListing, SaveLimit, Pause, Resume, End, Release, ReleaseStops,
                dispatchVars, workerVars
  <2> QED BY <1>1, <2>1
<1>4. CASE PassBegin \/ PassEnd
  BY <1>1, <1>4 DEF PassBegin, PassEnd, workerVars
<1>5. CASE PassTake
  <2>1. \/ \E j \in Jobs, t \in Tokens : Launch(j, t) /\ slots' = slots + 1
        \/ UNCHANGED <<slots, phase>>
    BY <1>5 DEF PassTake, workerVars
  <2> QED BY <1>1, <2>1, SlotsLaunch
<1>6. ASSUME NEW t \in Tokens, Worker(t) PROVE SlotsInv'
  <2>1. ASSUME NEW s, CloseAs(t, s), phase[t] = "work", UNCHANGED slots PROVE SlotsInv'
    <3>1. Alive' = Alive
      BY <2>1 DEF CloseAs, Alive, JobsInv, JobsTypeOK
    <3> QED BY <2>1, <3>1, SameSlots
  <2>2. ASSUME NEW p \in Products, HandItem(t, p) PROVE SlotsInv'
    BY <1>1, <2>2 DEF HandItem, dispatchVars
  <2>3. CASE GiveUp(t)
    BY <2>1, <2>3 DEF GiveUp, dispatchVars
  <2>4. CASE FinishContent(t)
    BY <2>1, <2>4 DEF FinishContent, AllHandled, dispatchVars
  <2>5. CASE FinalizeJob(t)
    BY <2>1, <2>5 DEF FinalizeJob, AllHandled, dispatchVars
  <2>6. CASE FinalizeFails(t)
    BY <2>1, <2>6 DEF FinalizeFails, AllHandled, dispatchVars
  <2> QED BY <1>6, <2>2, <2>3, <2>4, <2>5, <2>6, SlotsExit DEF Worker
<1>7. ASSUME NEW t \in Tokens, NEW p \in Products, Lane(t, p) PROVE SlotsInv'
  <2>1. UNCHANGED <<dispatchVars, phase>>
    BY <1>7, LaneEffect
  <2> QED BY <1>1, <2>1 DEF dispatchVars
<1>8. CASE Restart
  <2>1. Alive' = {} /\ slots' = 0
    BY <1>8 DEF Restart, ProcessGone, Alive
  <2> QED BY <2>1, FS_EmptySet DEF SlotsInv
<1> QED BY <1>2, <1>3, <1>4, <1>5, <1>6, <1>7, <1>8 DEF Next, Dispatch

(* A slot is held exactly as long as a worker lives, and every running job  *)
(* has one: no more jobs run than slots are taken, and none of them alone.  *)
THEOREM SlotsAreWorkers == Spec => []SlotPerRunningJob
<1>1. Init => SlotsInv
  <2>1. Init => Alive = {} /\ slots = 0
    BY DEF Init, Alive
  <2> QED BY <2>1, FS_EmptySet DEF SlotsInv
<1>2. JobsInv /\ SlotsInv /\ [Next]_vars => SlotsInv'
  BY SlotsStep
<1>3. JobsInv /\ SlotsInv => SlotPerRunningJob
  BY DEF JobsInv, Manned, SlotsInv, SlotPerRunningJob
<1> QED BY <1>1, <1>2, <1>3, JobsInvariant, PTL DEF Spec

-----------------------------------------------------------------------------
(* The progress of content jobs.                                            *)
Counting(j) == {x \in Tokens \X Products : runs[x[1]] = j /\ lane[x[1]][x[2]] = "counting"}
Counted(items) == {p \in Products : items[p] \in Finished}
Open == {"asking", "refused", "applied"}

(* The item of a lane that has not come to the counter is not finished, and *)
(* nothing is counted of a job before it exists.                            *)
Unfinished == \A t \in Tokens, p \in Products :
    lane[t][p] \in Open /\ ~Requeues(kind[runs[t]]) => item[runs[t]][p] \notin Finished

CountInv == /\ Unfinished /\ NeverOvercounted
            /\ \A j \in Jobs : status[j] = "none" => processed[j] = 0

(* What every step but one that finishes or counts an item of a content job *)
(* does to the progress of such jobs: nothing.                              *)
CountFrame ==
    /\ processed' = processed \/ \E j \in Jobs : Requeues(kind[j]) /\ status[j] # "none"
                                  /\ \A i \in Jobs : i # j => processed'[i] = processed[i]
    /\ \A i \in Jobs :
          /\ status'[i] = "none" => status[i] = "none"
          /\ status[i] # "none" =>
                /\ kind'[i] = kind[i]
                /\ ~Requeues(kind[i]) => \A p \in Products : item'[i][p] \in Finished <=> item[i][p] \in Finished
    /\ \A t \in Tokens, p \in Products : lane'[t][p] # "idle" =>
          /\ runs'[t] = runs[t]
          /\ \/ /\ lane[t][p] # "idle"
                /\ \/ lane'[t][p] = lane[t][p]
                   \/ lane'[t][p] \in Open /\ lane[t][p] \in Open
                   \/ Requeues(kind[runs[t]])
             \/ lane'[t][p] = "asking" /\ item'[runs[t]][p] = "running"

(* Finitely many lanes count finitely many items.                           *)
LEMMA FiniteCounts ==
    /\ \A j : IsFiniteSet(Counting(j)) /\ Cardinality(Counting(j)) \in Nat
    /\ \A items : IsFiniteSet(Counted(items)) /\ Cardinality(Counted(items)) \in Nat
<1>1. IsFiniteSet(Tokens \X Products)
  BY RowsAssumption, FS_Product
<1>2. \A j : Counting(j) \subseteq Tokens \X Products
  BY DEF Counting
<1>3. \A items : Counted(items) \subseteq Products
  BY DEF Counted
<1>4. (\A j : IsFiniteSet(Counting(j))) /\ \A items : IsFiniteSet(Counted(items))
  BY <1>1, <1>2, <1>3, RowsAssumption, FS_Subset
<1> QED BY <1>4, FS_CardinalityType

(* The property in the terms of the proof.                                  *)
LEMMA Overcounting ==
    NeverOvercounted <=> \A j \in Jobs : ~Requeues(kind[j]) =>
                            processed[j] + Cardinality(Counting(j)) <= Cardinality(Counted(item[j]))
BY DEF NeverOvercounted, Counting, Counted, CountFinished

(* No lane of a job that does not exist is busy.                            *)
LEMMA NothingCounted == ASSUME JobsInv, NEW j \in Jobs, status[j] = "none" PROVE Counting(j) = {}
BY BusyWorks DEF Counting

(* A step of the frame keeps the progress right.                            *)
LEMMA CountFrameKeeps == ASSUME JobsInv, CountInv, CountFrame PROVE CountInv'
<1> USE DEF CountFrame
<1>1. \A j \in Jobs : status'[j] = "none" => processed'[j] = 0
  BY DEF CountInv
<1>2. Unfinished'
  <2> SUFFICES ASSUME NEW t \in Tokens, NEW p \in Products, lane'[t][p] \in Open, ~Requeues(kind'[runs'[t]])
               PROVE  item'[runs'[t]][p] \notin Finished
    BY DEF Unfinished
  <2>1. /\ runs'[t] = runs[t]
        /\ \/ lane[t][p] # "idle" /\ (lane[t][p] \in Open \/ Requeues(kind[runs[t]]))
           \/ item'[runs[t]][p] = "running"
    BY DEF Open
  <2>2. CASE lane[t][p] # "idle" /\ (lane[t][p] \in Open \/ Requeues(kind[runs[t]]))
    <3>1. runs[t] \in Jobs /\ status[runs[t]] # "none"
      BY <2>2, BusyWorks
    <3> QED BY <2>1, <2>2, <3>1 DEF CountInv, Unfinished
  <2> QED BY <2>1, <2>2 DEF Finished
<1>3. ASSUME NEW j \in Jobs, ~Requeues(kind'[j])
      PROVE  Counting(j)' \subseteq Counting(j)
  <2> SUFFICES ASSUME NEW t \in Tokens, NEW p \in Products, runs'[t] = j, lane'[t][p] = "counting"
               PROVE  runs[t] = j /\ lane[t][p] = "counting"
    BY DEF Counting
  <2>1. /\ runs[t] = j /\ lane[t][p] # "idle"
        /\ lane[t][p] = "counting" \/ Requeues(kind[j])
    BY DEF Open
  <2>2. status[j] # "none"
    BY <2>1, BusyWorks
  <2> QED BY <2>1, <2>2, <1>3
<1>4. ASSUME NEW j \in Jobs, ~Requeues(kind'[j])
      PROVE  processed'[j] + Cardinality(Counting(j)') <= Cardinality(Counted(item[j])')
  <2>1. Cardinality(Counting(j)') \in Nat /\ Cardinality(Counted(item[j])') \in Nat
    <3>1. Counting(j)' \subseteq Counting(j)
      BY <1>3, <1>4
    <3>2. IsFiniteSet(Counting(j)')
      BY <3>1, FiniteCounts, FS_Subset
    <3>3. Counted(item[j])' \subseteq Products
      BY DEF Counted
    <3>4. IsFiniteSet(Counted(item[j])')
      BY <3>3, RowsAssumption, FS_Subset
    <3> QED BY <3>2, <3>4, FS_CardinalityType
  <2>2. CASE status[j] = "none"
    <3>1. processed'[j] = 0
      BY <2>2 DEF CountInv
    <3>2. Counting(j)' = {}
      BY <1>3, <1>4, <2>2, NothingCounted
    <3> QED BY <2>1, <3>1, <3>2, FS_EmptySet
  <2>3. CASE status[j] # "none"
    <3>1. kind'[j] = kind[j] /\ processed'[j] = processed[j]
      BY <1>4, <2>3
    <3>2. Counted(item[j])' = Counted(item[j])
      BY <1>4, <2>3 DEF Counted
    <3>3. Cardinality(Counting(j)') <= Cardinality(Counting(j))
      BY <1>3, <1>4, FiniteCounts, FS_Subset
    <3>4. processed[j] + Cardinality(Counting(j)) <= Cardinality(Counted(item[j]))
      BY <1>4, <3>1, Overcounting DEF CountInv
    <3>5. processed[j] \in Nat
      BY DEF JobsInv, JobsTypeOK
    <3>6. processed[j] + Cardinality(Counting(j)') <= Cardinality(Counted(item[j]))
      BY <2>1, <3>3, <3>4, <3>5, FiniteCounts
    <3> QED BY <3>1, <3>2, <3>6
  <2> QED BY <2>2, <2>3
<1>5. NeverOvercounted'
  BY <1>4 DEF NeverOvercounted, Counting, Counted, CountFinished
<1> QED BY <1>1, <1>2, <1>5 DEF CountInv

(* A step that leaves items, lanes and counts alone.                        *)
LEMMA QuietCounts ==
    ASSUME UNCHANGED <<processed, kind, item, lane, runs>>,
           \A i \in Jobs : status'[i] = "none" => status[i] = "none"
    PROVE  CountFrame
BY DEF CountFrame

(* The administrator finishes no item and counts none.                      *)
LEMMA AdminCounts == ASSUME JobsInv, Admin PROVE CountFrame
<1>1. ASSUME NEW j \in Jobs, NEW k, NEW S, Insert(j, k, S), UNCHANGED workerVars PROVE CountFrame
  <2>1. /\ status[j] = "none" /\ status'[j] = "queued" /\ UNCHANGED <<processed, runs, lane>>
        /\ \A i \in Jobs : i # j => status'[i] = status[i] /\ kind'[i] = kind[i] /\ item'[i] = item[i]
    BY <1>1 DEF Insert, NextJob, workerVars, JobsInv, JobsTypeOK
  <2> QED BY <2>1 DEF CountFrame
<1>2. CASE Create
  BY <1>1, <1>2 DEF Create, CreateJob
<1>3. CASE InsertListing
  BY <1>1, <1>3 DEF InsertListing, ListingInsert
<1>4. CASE CheckListing \/ SaveLimit
  BY <1>4, QuietCounts DEF CheckListing, ListingCheck, SaveLimit, rowVars, workerVars
<1>5. ASSUME NEW j \in Jobs, Pause(j) PROVE CountFrame
  BY <1>5, QuietCounts DEF Pause, PauseSEOJob, workerVars, JobsInv, JobsTypeOK
<1>6. ASSUME NEW j \in Jobs, Resume(j) PROVE CountFrame
  <2>1. UNCHANGED <<processed, kind, lane, runs>> /\ \A i \in Jobs : status'[i] = "none" => status[i] = "none"
    BY <1>6 DEF Resume, ResumeSEOJob, workerVars, JobsInv, JobsTypeOK
  <2>2. \A i \in Jobs : ~Requeues(kind[i]) => item'[i] = item[i]
    BY <1>6 DEF Resume, ResumeSEOJob, JobsInv, JobsTypeOK
  <2> QED BY <2>1, <2>2 DEF CountFrame
<1>7. ASSUME NEW j \in Jobs, End(j) PROVE CountFrame
  BY <1>7, QuietCounts DEF End, EndSEOJob, workerVars, JobsInv, JobsTypeOK
<1>8. ASSUME NEW j \in Jobs, Release(j) PROVE CountFrame
  <2>1. UNCHANGED <<status, processed, kind, lane, runs>>
    BY <1>8, ReleaseEffect DEF workerVars
  <2>2. \A i \in Jobs, p \in Products : item'[i][p] \in Finished <=> item[i][p] \in Finished
    BY <1>8, ReleaseEffect DEF PendingIn, Pending, Finished
  <2> QED BY <2>1, <2>2 DEF CountFrame
<1>9. ASSUME NEW j \in Jobs, ReleaseStops(j) PROVE CountFrame
  BY <1>9, QuietCounts DEF ReleaseStops, ReleaseFails, rowVars, workerVars
<1> QED BY <1>2, <1>3, <1>4, <1>5, <1>6, <1>7, <1>8, <1>9 DEF Admin

(* Nor does a claim.                                                        *)
LEMMA DispatchCounts == ASSUME JobsInv, Dispatch PROVE CountFrame
<1>1. CASE PassBegin \/ PassEnd
  BY <1>1, QuietCounts DEF PassBegin, PassEnd, rowVars, workerVars
<1>2. CASE PassTake
  <2>1. \/ UNCHANGED <<status, processed, kind, item, runs, lane>>
        \/ \E j \in Jobs, t \in Tokens : Launch(j, t)
    BY <1>2 DEF PassTake, rowVars, workerVars
  <2>2. ASSUME NEW j \in Jobs, NEW t \in Tokens, Launch(j, t) PROVE CountFrame
    <3>1. phase[t] = "off" /\ UNCHANGED <<processed, kind, item, lane>>
      BY <2>2 DEF Launch, Unused
    <3>2. \A u \in Tokens : u # t => runs'[u] = runs[u]
      BY <2>2 DEF Launch, JobsInv, JobsTypeOK
    <3>3. \A i \in Jobs : status'[i] = "none" => status[i] = "none"
      BY <2>2 DEF Launch, JobsInv, JobsTypeOK
    <3> QED BY <3>1, <3>2, <3>3, BusyWorks DEF CountFrame
  <2> QED BY <2>1, <2>2, QuietCounts
<1> QED BY <1>1, <1>2 DEF Dispatch

(* A worker counts anew only where it swept.                                *)
LEMMA WorkerCounts == ASSUME JobsInv, NEW t \in Tokens, Worker(t) PROVE CountFrame
<1>1. ASSUME NEW s, phase[t] = "work", s # "none", CloseAs(t, s) PROVE \A i \in Jobs : status'[i] = "none" => status[i] = "none"
  BY <1>1 DEF CloseAs, JobsInv, JobsTypeOK
<1>2. \A items : FinalStatus(items) # "none"
  BY DEF FinalStatus
<1>3. ASSUME NEW p \in Products, HandItem(t, p) PROVE CountFrame
  <2>1. /\ runs[t] \in Jobs /\ item[runs[t]][p] = "queued"
        /\ item \in [Jobs -> [Products -> ItemStatus]] /\ lane \in [Tokens -> [Products -> Lanes]]
        /\ UNCHANGED <<status, processed, kind, runs>>
    BY <1>3 DEF HandItem, ToHand, JobsInv, JobsTypeOK, Held
  <2>2. CASE UNCHANGED <<item, lane>>
    BY <2>1, <2>2, QuietCounts
  <2>3. CASE item' = [item EXCEPT ![runs[t]][p] = "running"] /\ lane' = [lane EXCEPT ![t][p] = "asking"]
    <3>1. /\ item'[runs[t]][p] = "running" /\ lane'[t][p] = "asking"
          /\ \A i \in Jobs, q \in Products : i # runs[t] \/ q # p => item'[i][q] = item[i][q]
          /\ \A u \in Tokens, q \in Products : u # t \/ q # p => lane'[u][q] = lane[u][q]
      BY <2>1, <2>3
    <3> QED BY <2>1, <3>1 DEF CountFrame, Finished
  <2> QED BY <1>3, <2>2, <2>3 DEF HandItem
<1>4. CASE GiveUp(t)
  BY <1>1, <1>4, QuietCounts DEF GiveUp
<1>5. CASE FinishContent(t)
  BY <1>1, <1>2, <1>5, QuietCounts DEF FinishContent, AllHandled
<1>6. CASE FinalizeFails(t)
  BY <1>1, <1>6, QuietCounts DEF FinalizeFails, AllHandled
<1>7. CASE FinalizeJob(t)
  <2>1. UNCHANGED <<kind, runs, lane>> /\ \A i \in Jobs : status'[i] = "none" => status[i] = "none"
    BY <1>1, <1>2, <1>7 DEF FinalizeJob, AllHandled
  <2>2. runs[t] \in Jobs /\ Requeues(kind[runs[t]]) /\ status[runs[t]] # "none"
    BY <1>7 DEF FinalizeJob, AllHandled, JobsInv, Held
  <2>3. \A i \in Jobs : i # runs[t] => item'[i] = item[i] /\ processed'[i] = processed[i]
    BY <1>7, <2>2 DEF FinalizeJob, JobsInv, JobsTypeOK
  <2> QED BY <2>1, <2>2, <2>3 DEF CountFrame
<1>8. CASE WorkerExits(t)
  <2>1. /\ phase[t] # "work" /\ UNCHANGED <<status, processed, kind, item, lane>>
        /\ \A u \in Tokens : u # t => runs'[u] = runs[u]
    BY <1>8 DEF WorkerExits, rowVars, JobsInv, JobsTypeOK
  <2> QED BY <2>1, BusyWorks DEF CountFrame
<1> QED BY <1>3, <1>4, <1>5, <1>6, <1>7, <1>8 DEF Worker

(* A restart forgets who was about to count.                                *)
LEMMA RestartCounts == ASSUME JobsInv, Restart PROVE CountFrame
<1>1. UNCHANGED <<processed, kind>> /\ \A t \in Tokens, p \in Products : lane'[t][p] = "idle"
  BY DEF Restart, ProcessGone
<1>2. \A i \in Jobs : status'[i] = IF status[i] = "running" THEN "queued" ELSE status[i]
  BY DEF Restart
<1>3. \A i \in Jobs, p \in Products : item'[i][p] = IF item[i][p] = "running" THEN "queued" ELSE item[i][p]
  BY DEF Restart, Requeued
<1> QED BY <1>1, <1>2, <1>3 DEF CountFrame, Finished

(* An item goroutine of a content job changes its item and its lane         *)
(* together, or counts what it changed.                                     *)
LEMMA LaneCounts ==
    ASSUME JobsInv, NEW t \in Tokens, NEW p \in Products, Lane(t, p)
    PROVE  \/ CountFrame
           \/ /\ ~Requeues(kind[runs[t]]) /\ lane[t][p] \in Open
              /\ lane' = [lane EXCEPT ![t][p] = "counting"] /\ processed' = processed
              /\ \E f \in Finished : item' = [item EXCEPT ![runs[t]][p] = f]
           \/ /\ ~Requeues(kind[runs[t]]) /\ lane[t][p] = "counting"
              /\ lane' = [lane EXCEPT ![t][p] = "idle"] /\ item' = item
              /\ processed' = [processed EXCEPT ![runs[t]] = @ + 1]
<1>1. /\ runs[t] \in Jobs /\ Busy(t, p) /\ UNCHANGED <<status, kind, runs>>
  BY LaneEffect
<1>2. status[runs[t]] # "none" /\ lane[t][p] # "idle"
  BY <1>1, BusyWorks DEF Busy
<1>3. /\ item \in [Jobs -> [Products -> ItemStatus]] /\ lane \in [Tokens -> [Products -> Lanes]]
      /\ processed \in [Jobs -> Nat]
  BY DEF JobsInv, JobsTypeOK
<1>4. PICK s : lane' = [lane EXCEPT ![t][p] = s]
  BY LaneEffect
<1>5. lane'[t][p] = s /\ \A u \in Tokens, q \in Products : u # t \/ q # p => lane'[u][q] = lane[u][q]
  BY <1>3, <1>4
<1>6. ASSUME item' = item, processed' = processed, s = "idle" \/ (s \in Open /\ lane[t][p] \in Open) PROVE CountFrame
  BY <1>1, <1>2, <1>5, <1>6 DEF CountFrame
<1>7. ASSUME Requeues(kind[runs[t]]) PROVE CountFrame
  <2>1. \/ item' = item
        \/ /\ \E f \in Finished : item' = [item EXCEPT ![runs[t]][p] = f]
           /\ \/ ~Requeues(kind[runs[t]])
              \/ MayFinishItems(t)
    BY LaneEffect
  <2>2. \A i \in Jobs : i # runs[t] => item'[i] = item[i]
    <3>1. ASSUME NEW f, item' = [item EXCEPT ![runs[t]][p] = f], NEW i \in Jobs, i # runs[t] PROVE item'[i] = item[i]
      BY <1>1, <1>3, <3>1
    <3> QED BY <2>1, <3>1
  <2>3. processed' = processed \/ processed' = [processed EXCEPT ![runs[t]] = @ + 1]
    BY LaneEffect
  <2>4. \A i \in Jobs : i # runs[t] => processed'[i] = processed[i]
    BY <1>1, <1>3, <2>3
  <2> QED BY <1>1, <1>2, <1>5, <1>7, <2>2, <2>4 DEF CountFrame
<1>8. ASSUME ~Requeues(kind[runs[t]]), FailItem(t, p)
      PROVE  \/ item' = item /\ processed' = processed /\ lane' = [lane EXCEPT ![t][p] = "idle"]
             \/ /\ lane[t][p] \in Open /\ lane' = [lane EXCEPT ![t][p] = "counting"] /\ processed' = processed
                /\ item' = [item EXCEPT ![runs[t]][p] = "failed"]
  BY <1>8 DEF FailItem, Open
<1>9. ASSUME ApplyResult(t, p)
      PROVE  /\ item' = item /\ processed' = processed /\ lane[t][p] \in Open
             /\ \E x \in Open : lane' = [lane EXCEPT ![t][p] = x]
  BY <1>9 DEF ApplyResult, Open
<1>10. ASSUME LeaveProduct(t, p)
      PROVE  /\ item' = item /\ processed' = processed /\ lane[t][p] \in Open
             /\ \E x \in Open : lane' = [lane EXCEPT ![t][p] = x]
  BY <1>10 DEF LeaveProduct, Open, rowVars
<1>11. ASSUME ~Requeues(kind[runs[t]]), RecordOptimized(t, p)
      PROVE  /\ lane[t][p] \in Open /\ lane' = [lane EXCEPT ![t][p] = "counting"] /\ processed' = processed
             /\ item' = [item EXCEPT ![runs[t]][p] = "optimized"]
  BY <1>11 DEF RecordOptimized, RecordHits, Open
<1>12. ASSUME CountItem(t, p)
      PROVE  /\ lane[t][p] = "counting" /\ lane' = [lane EXCEPT ![t][p] = "idle"] /\ item' = item
             /\ processed' = [processed EXCEPT ![runs[t]] = @ + 1]
  BY <1>12 DEF CountItem
<1>13. \A x : lane' = [lane EXCEPT ![t][p] = x] => s = x
  BY <1>3, <1>5
<1>14. "failed" \in Finished /\ "optimized" \in Finished
  BY DEF Finished
<1>15. CASE FailItem(t, p)
  BY <1>6, <1>7, <1>8, <1>13, <1>14, <1>15
<1>16. CASE ApplyResult(t, p)
  BY <1>6, <1>9, <1>13, <1>16
<1>17. CASE LeaveProduct(t, p)
  BY <1>6, <1>10, <1>13, <1>17
<1>18. CASE RecordOptimized(t, p)
  BY <1>7, <1>11, <1>14, <1>18
<1>19. CASE CountItem(t, p)
  BY <1>7, <1>12, <1>19
<1> QED BY <1>15, <1>16, <1>17, <1>18, <1>19 DEF Lane

(* An item finishes, and its lane comes to the counter.                     *)
LEMMA FinishCounts ==
    ASSUME JobsInv, AskedOnce, CountInv, NEW t \in Tokens, NEW p \in Products, runs[t] \in Jobs,
           ~Requeues(kind[runs[t]]), lane[t][p] \in Open, NEW f \in Finished,
           item' = [item EXCEPT ![runs[t]][p] = f], lane' = [lane EXCEPT ![t][p] = "counting"],
           UNCHANGED <<status, kind, runs, processed>>
    PROVE  CountInv'
<1> DEFINE j == runs[t]
<1>1. /\ item \in [Jobs -> [Products -> ItemStatus]] /\ lane \in [Tokens -> [Products -> Lanes]]
      /\ processed \in [Jobs -> Nat]
  BY DEF JobsInv, JobsTypeOK
<1>2. /\ item'[j][p] = f /\ lane'[t][p] = "counting"
      /\ \A i \in Jobs, q \in Products : i # j \/ q # p => item'[i][q] = item[i][q]
      /\ \A i \in Jobs : i # j => item'[i] = item[i]
      /\ \A u \in Tokens, q \in Products : u # t \/ q # p => lane'[u][q] = lane[u][q]
  BY <1>1
<1>3. item[j][p] \notin Finished
  BY DEF CountInv, Unfinished
<1>4. \A u \in Tokens : u # t /\ runs[u] = j => lane[u][p] = "idle"
  BY DEF AskedOnce, Busy, Open
<1>5. Unfinished'
  <2> SUFFICES ASSUME NEW u \in Tokens, NEW q \in Products, lane'[u][q] \in Open, ~Requeues(kind[runs[u]])
               PROVE  item'[runs[u]][q] \notin Finished
    BY DEF Unfinished
  <2>1. (u # t \/ q # p) /\ lane[u][q] \in Open
    BY <1>2 DEF Open
  <2>2. runs[u] \in Jobs
    BY <2>1, BusyWorks DEF Open
  <2>3. runs[u] # j \/ q # p
    BY <1>4, <2>1 DEF Open
  <2> QED BY <1>2, <2>1, <2>2, <2>3 DEF CountInv, Unfinished
<1>6. ASSUME NEW i \in Jobs, ~Requeues(kind[i])
      PROVE  processed[i] + Cardinality(Counting(i)') <= Cardinality(Counted(item[i])')
  <2>1. processed[i] + Cardinality(Counting(i)) <= Cardinality(Counted(item[i]))
    BY <1>6, Overcounting DEF CountInv
  <2>2. CASE i # j
    <3>1. Counting(i)' = Counting(i)
      BY <1>2, <2>2 DEF Counting
    <3>2. Counted(item[i])' = Counted(item[i])
      BY <1>2, <2>2 DEF Counted
    <3> QED BY <2>1, <3>1, <3>2
  <2>3. CASE i = j
    <3>1. <<t, p>> \notin Counting(i) /\ p \notin Counted(item[i])
      BY <1>3, <2>3 DEF Counting, Counted, Open
    <3>2. Counting(i)' = Counting(i) \cup {<<t, p>>}
      BY <1>2, <2>3 DEF Counting
    <3>3. Counted(item[i])' = Counted(item[i]) \cup {p}
      BY <1>2, <2>3 DEF Counted
    <3>4. Cardinality(Counting(i) \cup {<<t, p>>}) = Cardinality(Counting(i)) + 1
      BY <3>1, FiniteCounts, FS_AddElement
    <3>5. Cardinality(Counted(item[i]) \cup {p}) = Cardinality(Counted(item[i])) + 1
      BY <3>1, FiniteCounts, FS_AddElement
    <3>6. processed[i] \in Nat /\ Cardinality(Counting(i)) \in Nat /\ Cardinality(Counted(item[i])) \in Nat
      BY <1>1, FiniteCounts
    <3>7. processed[i] + (Cardinality(Counting(i)) + 1) <= Cardinality(Counted(item[i])) + 1
      BY <2>1, <3>6
    <3> QED BY <3>2, <3>3, <3>4, <3>5, <3>7
  <2> QED BY <2>2, <2>3
<1>7. NeverOvercounted'
  BY <1>6 DEF NeverOvercounted, Counting, Counted, CountFinished
<1> QED BY <1>5, <1>7 DEF CountInv

(* A lane counts the item it finished.                                      *)
LEMMA CountCounts ==
    ASSUME JobsInv, CountInv, NEW t \in Tokens, NEW p \in Products, runs[t] \in Jobs, status[runs[t]] # "none",
           lane[t][p] = "counting", lane' = [lane EXCEPT ![t][p] = "idle"],
           processed' = [processed EXCEPT ![runs[t]] = @ + 1],
           UNCHANGED <<status, kind, runs, item>>
    PROVE  CountInv'
<1> DEFINE j == runs[t]
<1>1. lane \in [Tokens -> [Products -> Lanes]] /\ processed \in [Jobs -> Nat]
  BY DEF JobsInv, JobsTypeOK
<1>2. /\ lane'[t][p] = "idle" /\ processed'[j] = processed[j] + 1
      /\ \A u \in Tokens, q \in Products : u # t \/ q # p => lane'[u][q] = lane[u][q]
      /\ \A i \in Jobs : i # j => processed'[i] = processed[i]
  BY <1>1
<1>3. Unfinished'
  BY <1>2 DEF CountInv, Unfinished, Open
<1>4. ASSUME NEW i \in Jobs, ~Requeues(kind[i])
      PROVE  processed'[i] + Cardinality(Counting(i)') <= Cardinality(Counted(item[i]))
  <2>1. processed[i] + Cardinality(Counting(i)) <= Cardinality(Counted(item[i]))
    BY <1>4, Overcounting DEF CountInv
  <2>2. CASE i # j
    <3>1. Counting(i)' = Counting(i)
      BY <1>2, <2>2 DEF Counting
    <3> QED BY <1>2, <2>1, <2>2, <3>1
  <2>3. CASE i = j
    <3>1. <<t, p>> \in Counting(i)
      BY <2>3 DEF Counting
    <3>2. Counting(i)' = Counting(i) \ {<<t, p>>}
      BY <1>2, <2>3 DEF Counting
    <3>3. Cardinality(Counting(i) \ {<<t, p>>}) = Cardinality(Counting(i)) - 1
      BY <3>1, FiniteCounts, FS_RemoveElement
    <3>4. processed[i] \in Nat /\ Cardinality(Counting(i)) \in Nat /\ Cardinality(Counted(item[i])) \in Nat
      BY <1>1, FiniteCounts
    <3>5. (processed[i] + 1) + (Cardinality(Counting(i)) - 1) <= Cardinality(Counted(item[i]))
      BY <2>1, <3>4
    <3> QED BY <1>2, <2>3, <3>2, <3>3, <3>5
  <2> QED BY <2>2, <2>3
<1>5. NeverOvercounted'
  BY <1>4 DEF NeverOvercounted, Counting, Counted, CountFinished
<1> QED BY <1>2, <1>3, <1>5 DEF CountInv

(* Every step keeps the progress right.                                     *)
LEMMA CountStep == ASSUME SafeInv, CountInv, [Next]_vars PROVE CountInv'
<1>1. JobsInv /\ AskedOnce
  BY DEF SafeInv, LanesInv
<1>2. CASE UNCHANGED vars
  <2>1. CountFrame
    BY <1>2, QuietCounts DEF vars, rowVars, workerVars
  <2> QED BY <1>1, <2>1, CountFrameKeeps
<1>3. ASSUME NEW t \in Tokens, NEW p \in Products, Lane(t, p) PROVE CountInv'
  <2>1. /\ runs[t] \in Jobs /\ Busy(t, p) /\ UNCHANGED <<status, kind, runs>>
    BY <1>1, <1>3, LaneEffect
  <2>2. status[runs[t]] # "none"
    BY <1>1, <2>1, BusyWorks DEF Busy
  <2>3. ASSUME ~Requeues(kind[runs[t]]), lane[t][p] \in Open, lane' = [lane EXCEPT ![t][p] = "counting"],
               processed' = processed, NEW f \in Finished, item' = [item EXCEPT ![runs[t]][p] = f]
        PROVE  CountInv'
    BY <1>1, <2>1, <2>3, FinishCounts
  <2>4. ASSUME lane[t][p] = "counting", lane' = [lane EXCEPT ![t][p] = "idle"], item' = item,
               processed' = [processed EXCEPT ![runs[t]] = @ + 1]
        PROVE  CountInv'
    BY <1>1, <2>1, <2>2, <2>4, CountCounts
  <2>5. CountFrame => CountInv'
    BY <1>1, CountFrameKeeps
  <2>6. \/ CountFrame
        \/ /\ ~Requeues(kind[runs[t]]) /\ lane[t][p] \in Open
           /\ lane' = [lane EXCEPT ![t][p] = "counting"] /\ processed' = processed
           /\ \E f \in Finished : item' = [item EXCEPT ![runs[t]][p] = f]
        \/ /\ ~Requeues(kind[runs[t]]) /\ lane[t][p] = "counting"
           /\ lane' = [lane EXCEPT ![t][p] = "idle"] /\ item' = item
           /\ processed' = [processed EXCEPT ![runs[t]] = @ + 1]
    BY <1>1, <1>3, LaneCounts
  <2> QED BY <2>3, <2>4, <2>5, <2>6
<1> QED BY <1>1, <1>2, <1>3, AdminCounts, DispatchCounts, WorkerCounts, RestartCounts, CountFrameKeeps DEF Next

(* The progress of a content job never counts more items than are finished. *)
THEOREM ProgressIsDone == Spec => []NeverOvercounted
<1>1. Init => CountInv
  <2> SUFFICES ASSUME Init PROVE CountInv
    OBVIOUS
  <2>1. Unfinished /\ \A j \in Jobs : processed[j] = 0 /\ Counting(j) = {}
    BY DEF Init, RowsInit, Unfinished, Counting, Open
  <2>2. \A j \in Jobs : Cardinality(Counting(j)) = 0
    BY <2>1, FS_EmptySet
  <2>3. NeverOvercounted
    <3>1. \A j \in Jobs : Cardinality(Counted(item[j])) \in Nat
      BY FiniteCounts
    <3>2. \A j \in Jobs : processed[j] + Cardinality(Counting(j)) <= Cardinality(Counted(item[j]))
      <4> SUFFICES ASSUME NEW j \in Jobs
                   PROVE  processed[j] + Cardinality(Counting(j)) <= Cardinality(Counted(item[j]))
        OBVIOUS
      <4>1. processed[j] = 0 /\ Cardinality(Counting(j)) = 0 /\ Cardinality(Counted(item[j])) \in Nat
        BY <2>1, <2>2, <3>1
      <4> QED BY <4>1
    <3> QED BY <3>2, Overcounting
  <2> QED BY <2>1, <2>3 DEF CountInv
<1>2. SafeInv /\ CountInv /\ [Next]_vars => CountInv'
  BY CountStep
<1>3. CountInv => NeverOvercounted
  BY DEF CountInv
<1> QED BY <1>1, <1>2, <1>3, SafeInvariant, PTL DEF Spec

-----------------------------------------------------------------------------
(* What a completed job leaves behind, as long as nobody resumes one.       *)

(* A queued job has no item that runs.  A worker that has its job has a lane*)
(* for every running item, and has claimed what its stream is past, unless  *)
(* the claim failed.  So that is all a completed job leaves pending.        *)
LeftInv ==
    /\ \A j \in Jobs, p \in Products :
          /\ status[j] = "queued" => item[j][p] # "running"
          /\ status[j] \in Done /\ item[j][p] \in Pending => "claim" \in Faults /\ item[j][p] = "queued"
    /\ \A t \in Tokens, p \in Products : phase[t] = "work" /\ IsRunning(t) =>
          /\ item[runs[t]][p] = "running" => lane[t][p] \in Open
          /\ item[runs[t]][p] = "queued" /\ p \in handed[t] => "claim" \in Faults
    /\ \A t \in Tokens : phase[t] = "off" => handed[t] = {}

(* A step that gives no worker a job, completes none and changes no item of *)
(* a job that runs.                                                         *)
LEMMA QuietLeft ==
    ASSUME JobsInv, LeftInv, UNCHANGED lane,
           \A j \in Jobs, p \in Products : status'[j] = "queued" => item'[j][p] # "running",
           \A j \in Jobs : status'[j] \in Done => status[j] \in Done /\ item'[j] = item[j],
           \A t \in Tokens : phase'[t] = "work" /\ status'[runs'[t]] = "running" /\ token'[runs'[t]] = t =>
               /\ phase[t] = "work" /\ IsRunning(t) /\ runs'[t] = runs[t] /\ handed'[t] = handed[t]
               /\ item'[runs[t]] = item[runs[t]],
           \A t \in Tokens : phase'[t] = "off" => handed'[t] = {}
    PROVE  LeftInv'
BY DEF LeftInv, IsRunning, Current

(* The administrator's calls but Resume.                                    *)
LEMMA AdminLeft ==
    ASSUME JobsInv, EndingInv, LeftInv, Admin, resumes' = resumes
    PROVE  LeftInv'
<1>1. \A t \in Tokens : phase[t] = "work" => runs[t] \in Jobs /\ status[runs[t]] # "none"
  BY DEF JobsInv, Held
<1>2. UNCHANGED workerVars
  BY DEF Admin, Create, CheckListing, InsertListing, SaveLimit, Pause, Resume, End, Release, ReleaseStops
<1>3. UNCHANGED <<phase, runs, handed, lane>> /\ \A t \in Tokens : phase[t] = "off" => handed[t] = {}
  BY <1>2 DEF workerVars, LeftInv
<1>4. ASSUME UNCHANGED <<status, token, item>> PROVE LeftInv'
  BY <1>3, <1>4 DEF LeftInv, IsRunning, Current
<1>5. ASSUME NEW j \in Jobs, NEW k, NEW S, Insert(j, k, S) PROVE LeftInv'
  <2>1. /\ status'[j] = "queued" /\ \A p \in Products : item'[j][p] # "running"
        /\ \A i \in Jobs : i # j => status'[i] = status[i] /\ item'[i] = item[i]
        /\ token' = token
    BY <1>5 DEF Insert, JobsInv, JobsTypeOK
  <2>2. \A i \in Jobs : status'[i] \in Done => status[i] \in Done /\ item'[i] = item[i]
    BY <2>1 DEF Done
  <2> QED BY <1>1, <1>3, <2>1, <2>2, QuietLeft DEF LeftInv, IsRunning, Current
<1>6. ASSUME NEW j \in Jobs, NEW x \in {"paused", "cancelled"}, status' = [status EXCEPT ![j] = x],
             UNCHANGED <<token, item>>
      PROVE  LeftInv'
  <2>1. \A i \in Jobs : status'[i] = status[i] \/ status'[i] = x
    BY <1>6 DEF JobsInv, JobsTypeOK
  <2>2. x \notin Done /\ x # "queued" /\ x # "running"
    BY DEF Done
  <2> QED BY <1>1, <1>3, <1>6, <2>1, <2>2, QuietLeft DEF LeftInv, IsRunning, Current
<1>7. CASE Create \/ InsertListing
  BY <1>5, <1>7 DEF Create, CreateJob, InsertListing, ListingInsert
<1>8. CASE CheckListing \/ SaveLimit
  BY <1>4, <1>8 DEF CheckListing, ListingCheck, SaveLimit, rowVars
<1>9. ASSUME NEW j \in Jobs, Pause(j) PROVE LeftInv'
  BY <1>6, <1>9 DEF Pause, PauseSEOJob
<1>10. ASSUME NEW j \in Jobs, Resume(j) PROVE LeftInv'
  <2>1. resumes \in Nat /\ resumes' = resumes + 1
    BY <1>10 DEF Resume, ResumeSEOJob, JobsInv, JobsTypeOK
  <2> QED BY <2>1
<1>11. ASSUME NEW j \in Jobs, End(j) PROVE LeftInv'
  BY <1>6, <1>11 DEF End, EndSEOJob
<1>12. ASSUME NEW j \in Jobs, Release(j) PROVE LeftInv'
  <2>1. /\ UNCHANGED <<status, token>> /\ \A i \in Jobs : i # j => item'[i] = item[i]
        /\ status[j] = "cancelled"
    BY <1>12, ReleaseEffect DEF EndingInv
  <2> QED BY <1>1, <1>3, <2>1, QuietLeft DEF LeftInv, IsRunning, Current, Done
<1>13. ASSUME NEW j \in Jobs, ReleaseStops(j) PROVE LeftInv'
  BY <1>4, <1>13 DEF ReleaseStops, ReleaseFails, rowVars
<1> QED BY <1>7, <1>8, <1>9, <1>10, <1>11, <1>12, <1>13 DEF Admin

(* A worker that is launched finds no running item and has handed nothing.  *)
LEMMA DispatchLeft == ASSUME JobsInv, LeftInv, Dispatch PROVE LeftInv'
<1>1. ASSUME UNCHANGED <<rowVars, workerVars>> PROVE LeftInv'
  BY <1>1 DEF LeftInv, IsRunning, Current, rowVars, workerVars
<1>2. ASSUME NEW j \in Jobs, NEW t \in Tokens, Launch(j, t) PROVE LeftInv'
  <2>1. /\ status[j] = "queued" /\ phase[t] = "off" /\ UNCHANGED <<item, handed, lane>>
        /\ status'[j] = "running" /\ token'[j] = t /\ phase'[t] = "work" /\ runs'[t] = j
        /\ \A i \in Jobs : i # j => status'[i] = status[i] /\ token'[i] = token[i]
        /\ \A u \in Tokens : u # t => phase'[u] = phase[u] /\ runs'[u] = runs[u]
    BY <1>2 DEF Launch, Unused, JobsInv, JobsTypeOK
  <2>2. \A p \in Products : item[j][p] # "running" /\ p \notin handed[t]
    BY <2>1 DEF LeftInv
  <2>3. \A i \in Jobs, p \in Products :
          /\ status'[i] = "queued" => item'[i][p] # "running"
          /\ status'[i] \in Done /\ item'[i][p] \in Pending => "claim" \in Faults /\ item'[i][p] = "queued"
    BY <2>1 DEF LeftInv, Done
  <2>4. ASSUME NEW u \in Tokens, u # t, phase[u] = "work", status'[runs[u]] = "running", token'[runs[u]] = u
        PROVE  IsRunning(u)
    <3>1. runs[u] \in Jobs
      BY <2>4 DEF JobsInv, Held
    <3> QED BY <2>1, <2>4, <3>1 DEF IsRunning, Current
  <2> QED BY <2>1, <2>2, <2>3, <2>4 DEF LeftInv, IsRunning, Current
<1>3. CASE PassBegin \/ PassEnd
  BY <1>1, <1>3 DEF PassBegin, PassEnd
<1>4. CASE PassTake
  BY <1>1, <1>2, <1>4 DEF PassTake
<1> QED BY <1>3, <1>4 DEF Dispatch

(* Closing a job, with what it leaves.                                      *)
LEMMA CloseLeft ==
    ASSUME JobsInv, LeftInv, NEW t \in Tokens, phase[t] = "work", NEW x, x \notin {"queued", "running"},
           CloseAs(t, x), UNCHANGED <<token, runs, handed, lane>>,
           \A j \in Jobs : (j = runs[t] /\ IsRunning(t)) \/ item'[j] = item[j],
           IsRunning(t) /\ x \in Done => \A p \in Products : item'[runs[t]][p] \in Pending =>
               "claim" \in Faults /\ item'[runs[t]][p] = "queued"
    PROVE  LeftInv'
<1>1. runs[t] \in Jobs
  BY DEF JobsInv, Held
<1>2. /\ phase'[t] = "exit" /\ \A u \in Tokens : u # t => phase'[u] = phase[u]
      /\ \A j \in Jobs : \/ j = runs[t] /\ IsRunning(t) /\ status'[j] = x
                         \/ status'[j] = status[j] /\ item'[j] = item[j]
  BY <1>1 DEF CloseAs, JobsInv, JobsTypeOK
<1>3. \A j \in Jobs, p \in Products :
          /\ status'[j] = "queued" => item'[j][p] # "running"
          /\ status'[j] \in Done /\ item'[j][p] \in Pending => "claim" \in Faults /\ item'[j][p] = "queued"
  BY <1>2 DEF LeftInv
<1>4. ASSUME NEW u \in Tokens, phase'[u] = "work", status'[runs[u]] = "running", token[runs[u]] = u
      PROVE  phase[u] = "work" /\ IsRunning(u) /\ item'[runs[u]] = item[runs[u]]
  <2>1. u # t /\ phase[u] = "work" /\ runs[u] \in Jobs
    BY <1>2, <1>4 DEF JobsInv, Held
  <2> QED BY <1>2, <1>4, <2>1 DEF IsRunning, Current
<1>5. \A u \in Tokens : phase'[u] = "off" => handed[u] = {}
  BY <1>2 DEF LeftInv
<1> QED BY <1>3, <1>4, <1>5 DEF LeftInv, IsRunning, Current

(* The stream claims what it is past; the close finds only failed claims.   *)
LEMMA WorkerLeft == ASSUME JobsInv, LeftInv, NEW t \in Tokens, Worker(t) PROVE LeftInv'
<1>1. \A items : FinalStatus(items) \notin {"queued", "running"}
  BY DEF FinalStatus
<1>2. ASSUME NEW p \in Products, HandItem(t, p) PROVE LeftInv'
  <2>1. /\ phase[t] = "work" /\ runs[t] \in Jobs /\ item[runs[t]][p] = "queued"
        /\ item \in [Jobs -> [Products -> ItemStatus]] /\ lane \in [Tokens -> [Products -> Lanes]]
        /\ UNCHANGED <<status, token, phase, runs>>
    BY <1>2 DEF HandItem, ToHand, JobsInv, JobsTypeOK, Held
  <2>2. handed'[t] = handed[t] \cup {p} /\ \A u \in Tokens : u # t => handed'[u] = handed[u]
    BY <1>2 DEF HandItem, JobsInv, JobsTypeOK
  <2>3. CASE UNCHANGED <<item, lane>> /\ (~IsRunning(t) \/ "claim" \in Faults)
    BY <2>1, <2>2, <2>3 DEF LeftInv, IsRunning, Current
  <2>4. CASE /\ IsRunning(t) /\ item' = [item EXCEPT ![runs[t]][p] = "running"]
             /\ lane' = [lane EXCEPT ![t][p] = "asking"]
    <3>1. /\ item'[runs[t]][p] = "running" /\ lane'[t][p] = "asking"
          /\ \A j \in Jobs, q \in Products : j # runs[t] \/ q # p => item'[j][q] = item[j][q]
          /\ \A u \in Tokens, q \in Products : u # t \/ q # p => lane'[u][q] = lane[u][q]
      BY <2>1, <2>4
    <3>2. \A j \in Jobs, q \in Products :
            /\ status[j] = "queued" => item'[j][q] # "running"
            /\ status[j] \in Done /\ item'[j][q] \in Pending => "claim" \in Faults /\ item'[j][q] = "queued"
      BY <2>4, <3>1 DEF LeftInv, IsRunning, Done
    <3>3. ASSUME NEW u \in Tokens, NEW q \in Products, phase[u] = "work", IsRunning(u)
          PROVE  /\ item'[runs[u]][q] = "running" => lane'[u][q] \in Open
                 /\ item'[runs[u]][q] = "queued" /\ q \in handed'[u] => "claim" \in Faults
      <4>1. runs[u] \in Jobs /\ (runs[u] = runs[t] => u = t)
        BY <2>4, <3>3 DEF JobsInv, Held, IsRunning, Current
      <4>2. CASE u = t /\ q = p
        BY <3>1, <4>2 DEF Open
      <4>3. CASE u # t \/ q # p
        BY <2>2, <3>1, <3>3, <4>1, <4>3 DEF LeftInv
      <4> QED BY <4>2, <4>3
    <3> QED BY <2>1, <2>2, <3>2, <3>3 DEF LeftInv, IsRunning, Current
  <2> QED BY <1>2, <2>3, <2>4 DEF HandItem
<1>3. CASE GiveUp(t)
  BY <1>3, CloseLeft DEF GiveUp, Done
<1>4. CASE FinalizeFails(t)
  BY <1>4, CloseLeft DEF FinalizeFails, AllHandled, Done
<1>5. CASE FinishContent(t)
  <2>1. phase[t] = "work" /\ CloseAs(t, FinalStatus(item[runs[t]])) /\ UNCHANGED <<token, item, runs, handed, lane>>
    BY <1>5 DEF FinishContent, AllHandled
  <2>2. ASSUME IsRunning(t), NEW p \in Products, item[runs[t]][p] \in Pending
        PROVE  "claim" \in Faults /\ item[runs[t]][p] = "queued"
    <3>1. ToHand(t) = {} /\ lane[t][p] = "idle"
      BY <1>5, <2>2 DEF FinishContent, AllHandled, Drained, Busy
    <3>2. item[runs[t]][p] # "running"
      BY <2>1, <2>2, <3>1 DEF LeftInv, Open
    <3>3. item[runs[t]][p] = "queued" /\ p \in handed[t]
      BY <2>2, <3>1, <3>2 DEF ToHand, Pending
    <3> QED BY <2>1, <2>2, <3>3 DEF LeftInv
  <2> QED BY <1>1, <2>1, <2>2, CloseLeft
<1>6. CASE FinalizeJob(t)
  <2> DEFINE swept == Swept(item[runs[t]])
  <2>1. /\ phase[t] = "work" /\ CloseAs(t, FinalStatus(swept)) /\ UNCHANGED <<token, runs, handed, lane>>
        /\ item' = IF IsRunning(t) THEN [item EXCEPT ![runs[t]] = swept] ELSE item
    BY <1>6 DEF FinalizeJob, AllHandled
  <2>2. \A p \in Products : swept[p] \notin Pending
    BY DEF Swept, Pending
  <2>3. runs[t] \in Jobs /\ item \in [Jobs -> [Products -> ItemStatus]]
    BY <2>1 DEF JobsInv, JobsTypeOK, Held
  <2> HIDE DEF swept
  <2>4. \A j \in Jobs : (j = runs[t] /\ IsRunning(t)) \/ item'[j] = item[j]
    BY <2>1, <2>3
  <2>5. IsRunning(t) => item'[runs[t]] = swept
    BY <2>1, <2>3
  <2> QED BY <1>1, <2>1, <2>2, <2>4, <2>5, CloseLeft
<1>7. CASE WorkerExits(t)
  <2>1. /\ phase[t] = "exit" /\ UNCHANGED <<status, token, item, lane>>
        /\ phase'[t] = "off" /\ handed'[t] = {}
        /\ \A u \in Tokens : u # t => phase'[u] = phase[u] /\ runs'[u] = runs[u] /\ handed'[u] = handed[u]
    BY <1>7 DEF WorkerExits, rowVars, JobsInv, JobsTypeOK
  <2>2. \A u \in Tokens : phase'[u] = "work" =>
            phase[u] = "work" /\ runs'[u] = runs[u] /\ handed'[u] = handed[u]
    BY <2>1
  <2>3. \A u \in Tokens : phase'[u] = "off" => handed'[u] = {}
    BY <2>1 DEF LeftInv
  <2> QED BY <2>1, <2>2, <2>3, QuietLeft DEF LeftInv, IsRunning, Current
<1> QED BY <1>2, <1>3, <1>4, <1>5, <1>6, <1>7 DEF Worker

(* The lane of a running item of a worker's own job stays open until the    *)
(* item is finished.                                                        *)
LEMMA LaneLeft ==
    ASSUME JobsInv, LeftInv, NEW t \in Tokens, NEW p \in Products, Lane(t, p) PROVE LeftInv'
<1>1. /\ phase[t] = "work" /\ runs[t] \in Jobs /\ Busy(t, p)
      /\ UNCHANGED <<status, token, phase, runs, handed>>
  BY LaneEffect
<1>2. PICK s \in Lanes : lane' = [lane EXCEPT ![t][p] = s]
  BY LaneEffect
<1>3. item' = item \/ \E f \in Finished : item' = [item EXCEPT ![runs[t]][p] = f]
  BY LaneEffect
<1>4. item \in [Jobs -> [Products -> ItemStatus]] /\ lane \in [Tokens -> [Products -> Lanes]]
  BY DEF JobsInv, JobsTypeOK
<1>5. lane'[t][p] = s /\ \A u \in Tokens, q \in Products : u # t \/ q # p => lane'[u][q] = lane[u][q]
  BY <1>2, <1>4
<1>6. \A j \in Jobs, q \in Products : item'[j][q] = item[j][q] \/ item'[j][q] \in Finished
  <2>1. ASSUME NEW f \in Finished, item' = [item EXCEPT ![runs[t]][p] = f], NEW j \in Jobs, NEW q \in Products
        PROVE  item'[j][q] = item[j][q] \/ item'[j][q] \in Finished
    BY <1>1, <1>4, <2>1
  <2> QED BY <1>3, <2>1
<1>7. ASSUME IsRunning(t), item'[runs[t]][p] = "running" PROVE s \in Open
  <2>1. item[runs[t]][p] = "running" /\ lane[t][p] \in Open
    BY <1>1, <1>6, <1>7 DEF LeftInv, Finished
  <2>2. \A f \in Finished : item' # [item EXCEPT ![runs[t]][p] = f]
    BY <1>1, <1>4, <1>7 DEF Finished
  <2>3. MayFinishItems(t)
    BY <1>7 DEF IsRunning, MayFinishItems
  <2>4. CASE FailItem(t, p)
    BY <2>1, <2>2, <2>3, <2>4 DEF FailItem, Finished
  <2>5. CASE RecordOptimized(t, p)
    BY <2>1, <2>2, <2>3, <2>5 DEF RecordOptimized, RecordHits, Finished
  <2>6. CASE CountItem(t, p)
    BY <2>1, <2>6 DEF CountItem, Open
  <2>7. CASE ApplyResult(t, p) \/ LeaveProduct(t, p)
    <3>1. PICK x \in Open : lane' = [lane EXCEPT ![t][p] = x]
      BY <2>7 DEF ApplyResult, LeaveProduct, Open
    <3>2. lane'[t][p] = x
      BY <1>4, <3>1
    <3> QED BY <1>5, <3>2
  <2> QED BY <2>4, <2>5, <2>6, <2>7 DEF Lane
<1>8. \A j \in Jobs, q \in Products :
        /\ status[j] = "queued" => item'[j][q] # "running"
        /\ status[j] \in Done /\ item'[j][q] \in Pending => "claim" \in Faults /\ item'[j][q] = "queued"
  BY <1>6 DEF LeftInv, Finished, Pending
<1>9. ASSUME NEW u \in Tokens, NEW q \in Products, phase[u] = "work", IsRunning(u)
      PROVE  /\ item'[runs[u]][q] = "running" => lane'[u][q] \in Open
             /\ item'[runs[u]][q] = "queued" /\ q \in handed[u] => "claim" \in Faults
  <2>1. runs[u] \in Jobs
    BY <1>9 DEF JobsInv, Held
  <2>2. item'[runs[u]][q] = "running" => lane[u][q] \in Open
    BY <1>6, <1>9, <2>1 DEF LeftInv, Finished
  <2>3. item'[runs[u]][q] = "queued" /\ q \in handed[u] => "claim" \in Faults
    BY <1>6, <1>9, <2>1 DEF LeftInv, Finished
  <2> QED BY <1>5, <1>7, <1>9, <2>2, <2>3
<1> QED BY <1>1, <1>8, <1>9 DEF LeftInv, IsRunning, Current

(* A restart gives every running item back, and no worker is left.          *)
LEMMA RestartLeft == ASSUME JobsInv, LeftInv, Restart PROVE LeftInv'
<1>1. /\ \A t \in Tokens : phase'[t] = "off" /\ handed'[t] = {}
      /\ \A j \in Jobs : status'[j] = IF status[j] = "running" THEN "queued" ELSE status[j]
      /\ \A j \in Jobs, p \in Products : item'[j][p] = IF item[j][p] = "running" THEN "queued" ELSE item[j][p]
  BY DEF Restart, ProcessGone, Requeued
<1>2. \A j \in Jobs, p \in Products :
        /\ status'[j] = "queued" => item'[j][p] # "running"
        /\ status'[j] \in Done /\ item'[j][p] \in Pending => "claim" \in Faults /\ item'[j][p] = "queued"
  BY <1>1 DEF LeftInv, Done, Pending
<1> QED BY <1>1, <1>2 DEF LeftInv

(* No step but Resume moves resumes.                                        *)
LEMMA ResumesGrow == ASSUME JobsInv, [Next]_vars PROVE resumes' = 0 => resumes = 0 /\ resumes' = resumes
<1>1. resumes \in Nat
  BY DEF JobsInv, JobsTypeOK
<1>2. ASSUME NEW j \in Jobs, Resume(j) PROVE resumes' = resumes + 1
  BY <1>2 DEF Resume, ResumeSEOJob
<1>3. resumes' = resumes \/ resumes' = resumes + 1
  <2>1. CASE Admin
    BY <1>2, <2>1 DEF Admin, Create, CreateJob, CheckListing, ListingCheck, InsertListing, ListingInsert,
          SaveLimit, Pause, PauseSEOJob, End, EndSEOJob, Release, ReleaseItems, ReleaseStops, ReleaseFails,
          adminVars
  <2>2. CASE Dispatch
    BY <2>2 DEF Dispatch, PassBegin, PassTake, PassEnd, adminVars
  <2>3. ASSUME NEW t \in Tokens, Worker(t) PROVE resumes' = resumes
    BY <2>3 DEF Worker, HandItem, GiveUp, FinishContent, FinalizeJob, FinalizeFails, WorkerExits, adminVars
  <2>4. ASSUME NEW t \in Tokens, NEW p \in Products, Lane(t, p) PROVE resumes' = resumes
    BY <2>4, LaneEffect DEF adminVars
  <2>5. CASE Restart
    BY <2>5 DEF Restart
  <2>6. CASE UNCHANGED vars
    BY <2>6 DEF vars, adminVars
  <2> QED BY <2>1, <2>2, <2>3, <2>4, <2>5, <2>6 DEF Next
<1> QED BY <1>1, <1>3

(* "can never leave queued/running product IDs permanently excluded from    *)
(* later jobs" is not so (see NothingLeftBehind), and this is all there is  *)
(* to it: without a resume, through pauses, ends, faults and restarts, a    *)
(* completed job leaves at most items whose claim failed, still queued.     *)
THEOREM LeftBehindByResumeOrClaim ==
    Spec => [](\A j \in Jobs, p \in Products : status[j] \in Done /\ PendingIn(j, p) =>
                  resumes > 0 \/ ("claim" \in Faults /\ item[j][p] = "queued"))
<1>1. Init => LeftInv
  BY DEF Init, RowsInit, LeftInv, Done
<1>2. SafeInv /\ (resumes = 0 => LeftInv) /\ [Next]_vars => (resumes = 0 => LeftInv)'
  <2> SUFFICES ASSUME SafeInv, resumes = 0 => LeftInv, [Next]_vars, resumes' = 0 PROVE LeftInv'
    OBVIOUS
  <2>1. JobsInv /\ EndingInv /\ LeftInv /\ resumes' = resumes
    BY ResumesGrow DEF SafeInv, RowsInv
  <2>2. CASE UNCHANGED vars
    BY <2>1, <2>2 DEF LeftInv, IsRunning, Current, vars, rowVars, workerVars
  <2> QED BY <2>1, <2>2, AdminLeft, DispatchLeft, WorkerLeft, LaneLeft, RestartLeft DEF Next
<1>3. SafeInv /\ (resumes = 0 => LeftInv) =>
        \A j \in Jobs, p \in Products : status[j] \in Done /\ PendingIn(j, p) =>
            resumes > 0 \/ ("claim" \in Faults /\ item[j][p] = "queued")
  <2> SUFFICES ASSUME SafeInv, resumes = 0 => LeftInv, NEW j \in Jobs, NEW p \in Products,
                      status[j] \in Done, PendingIn(j, p), ~(resumes > 0)
               PROVE  "claim" \in Faults /\ item[j][p] = "queued"
    OBVIOUS
  <2>1. resumes = 0
    BY DEF SafeInv, JobsInv, JobsTypeOK
  <2> QED BY <2>1 DEF LeftInv, PendingIn
<1> QED BY <1>1, <1>2, <1>3, SafeInvariant, PTL DEF Spec
=============================================================================
