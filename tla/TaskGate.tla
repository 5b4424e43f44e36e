------------------------------ MODULE TaskGate ------------------------------
(***************************************************************************)
(* The gate that bounds provider requests in flight: aiTaskSlots in        *)
(* controllers/ai_task_limiter.go, a counting semaphore whose limit follows*)
(* two settings an admin may change at any time.                           *)
(*                                                                         *)
(* A request reads the two settings with a query each, applies the limit   *)
(* they imply, and takes a slot or waits on a channel of its own.  The     *)
(* steps between two holds of the gate's mutex are the actions.  A channel *)
(* taken off the queue is sent to right after the mutex is given up and    *)
(* has room for that, so its owner counts as woken at once.                *)
(* acquireAITaskSlotForRequest passes context.Background(): the branch for *)
(* a context that is done is never taken.  tryAcquire and the other gate   *)
(* (aiOptimizationJobSlots, which has no waiters) belong to the scheduler. *)
(***************************************************************************)
EXTENDS Integers, FiniteSets, Sequences

CONSTANTS
    Requests,   \* provider requests; each takes one slot once
    Jobs,       \* values an admin gives max_concurrent_jobs
    Workers,    \* values an admin gives seo_job_concurrency
    ReadsFail   \* whether a query of the settings may fail

ASSUME RequestsAssumption == IsFiniteSet(Requests)
ASSUME SettingsAssumption == Jobs \subseteq 1..16 /\ Workers \subseteq 1..50
                              /\ ReadsFail \in BOOLEAN

VARIABLES
    jobs, workers,   \* the settings row
    limit, active,   \* the gate
    waiters,         \* the gate's queue, a channel named by the request waiting on it
    pc,              \* per request: its phase
    want,            \* per request: what it read, then the limit to apply, else 0
    admin            \* the phase of the admin's save, and the same of it

settings == <<jobs, workers>>
gate == <<limit, active, waiters>>
vars == <<settings, gate, pc, want, admin>>

-----------------------------------------------------------------------------
(* The limit that the settings imply. *)

DefaultJobs == 4
FallbackWorkers == 2

normalizedAITaskConcurrency(value) ==
    IF value < 1 THEN DefaultJobs ELSE IF value > 16 THEN 16 ELSE value

normalizedWorkers(value) ==
    IF value < 1 THEN FallbackWorkers ELSE IF value > 50 THEN 50 ELSE value

providerRequestLimitFor(j, w) ==
    LET product == (IF j < 1 THEN DefaultJobs ELSE j) * (IF w < 1 THEN FallbackWorkers ELSE w)
    IN  IF product < 1 THEN 1 ELSE IF product > 32 THEN 32 ELSE product

(* A query returns the row's value, or fails and falls back. *)
JobsRead ==
    {normalizedAITaskConcurrency(jobs)} \cup IF ReadsFail THEN {DefaultJobs} ELSE {}
WorkersRead ==
    {normalizedWorkers(workers)} \cup IF ReadsFail THEN {FallbackWorkers} ELSE {}

-----------------------------------------------------------------------------
Phases == {"idle", "jobs read", "apply", "ready", "waiting", "woken", "holding", "done"}

TypeOK ==
    /\ jobs \in Jobs
    /\ workers \in Workers
    /\ limit \in 1..32
    /\ active \in 0..Cardinality(Requests)
    /\ waiters \in Seq(Requests)
    /\ pc \in [Requests -> Phases]
    /\ want \in [Requests -> 0..32]
    /\ admin \in [pc : {"idle", "saved", "jobs read", "apply"}, want : 0..32]

Init ==
    /\ jobs \in Jobs
    /\ workers \in Workers
    /\ limit = DefaultJobs
    /\ active = 0
    /\ waiters = <<>>
    /\ pc = [r \in Requests |-> "idle"]
    /\ want = [r \in Requests |-> 0]
    /\ admin = [pc |-> "idle", want |-> 0]

InPhase(phase) == {r \in Requests : pc[r] = phase}
Queued == {waiters[i] : i \in DOMAIN waiters}

(* Wakes the requests in S after pc became next.                            *)
Woken(next, S) == [r \in Requests |-> IF r \in S THEN "woken" ELSE next[r]]

(* Mutant: raising the limit wakes nobody. *)
applyLimitSilently(value, next) ==
    /\ limit' = value
    /\ pc' = next
    /\ UNCHANGED waiters

(* applyLimit: everyone who waits is woken if a slot is free by the new limit. *)
applyLimit(value, next) ==
    /\ limit' = value
    /\ IF active < value
       THEN waiters' = <<>> /\ pc' = Woken(next, Queued)
       ELSE waiters' = waiters /\ pc' = next

-----------------------------------------------------------------------------
(* acquireAITaskSlotForRequest *)

ReadJobs(r) ==
    /\ pc[r] = "idle"
    /\ pc' = [pc EXCEPT ![r] = "jobs read"]
    /\ \E j \in JobsRead : want' = [want EXCEPT ![r] = j]
    /\ UNCHANGED <<settings, gate, admin>>

ReadWorkers(r) ==
    /\ pc[r] = "jobs read"
    /\ pc' = [pc EXCEPT ![r] = "apply"]
    /\ \E w \in WorkersRead : want' = [want EXCEPT ![r] = providerRequestLimitFor(@, w)]
    /\ UNCHANGED <<settings, gate, admin>>

Apply(r) ==
    /\ pc[r] = "apply"
    /\ applyLimit(want[r], [pc EXCEPT ![r] = "ready"])
    /\ want' = [want EXCEPT ![r] = 0]
    /\ UNCHANGED <<settings, active, admin>>

(* Mutant: a woken request trusts that the slot is still there. *)
TakeWhenWoken(r) ==
    /\ pc[r] \in {"ready", "woken"}
    /\ pc[r] = "ready" => active < limit
    /\ active' = active + 1
    /\ pc' = [pc EXCEPT ![r] = "holding"]
    /\ UNCHANGED <<settings, limit, waiters, want, admin>>

Take(r) ==
    /\ pc[r] \in {"ready", "woken"}
    /\ active < limit
    /\ active' = active + 1
    /\ pc' = [pc EXCEPT ![r] = "holding"]
    /\ UNCHANGED <<settings, limit, waiters, want, admin>>

(* No slot is free: a new channel joins the end of the queue. *)
Wait(r) ==
    /\ pc[r] \in {"ready", "woken"}
    /\ active >= limit
    /\ waiters' = Append(waiters, r)
    /\ pc' = [pc EXCEPT ![r] = "waiting"]
    /\ UNCHANGED <<settings, limit, active, want, admin>>

(* Mutant of release: nobody is woken.                                      *)
releaseWakingNobody(r) ==
    /\ pc[r] = "holding"
    /\ pc' = [pc EXCEPT ![r] = "done"]
    /\ active' = active - 1
    /\ UNCHANGED <<settings, limit, waiters, want, admin>>

(* The request is over: its slot goes back, and the first of the queue is   *)
(* woken if a slot is free now.                                             *)
release(r) ==
    LET left == IF active > 0 THEN active - 1 ELSE active
        hands == left < limit /\ waiters # <<>>
        after == [pc EXCEPT ![r] = "done"]
    IN  /\ pc[r] = "holding"
        /\ active' = left
        /\ waiters' = IF hands THEN Tail(waiters) ELSE waiters
        /\ pc' = IF hands THEN Woken(after, {Head(waiters)}) ELSE after
        /\ UNCHANGED <<settings, limit, want, admin>>

-----------------------------------------------------------------------------
(* The admin saves the settings; setGlobalAITaskLimit follows only when     *)
(* max_concurrent_jobs was among them, and reads both again.                *)

SaveWorkers ==
    /\ admin.pc = "idle"
    /\ workers' \in Workers
    /\ UNCHANGED <<jobs, gate, pc, want, admin>>

SaveJobs ==
    /\ admin.pc = "idle"
    /\ jobs' \in Jobs
    /\ workers' \in Workers
    /\ admin' = [admin EXCEPT !.pc = "saved"]
    /\ UNCHANGED <<gate, pc, want>>

AdminReadsJobs ==
    /\ admin.pc = "saved"
    /\ \E j \in JobsRead : admin' = [pc |-> "jobs read", want |-> j]
    /\ UNCHANGED <<settings, gate, pc, want>>

AdminReadsWorkers ==
    /\ admin.pc = "jobs read"
    /\ \E w \in WorkersRead :
          admin' = [pc |-> "apply", want |-> providerRequestLimitFor(admin.want, w)]
    /\ UNCHANGED <<settings, gate, pc, want>>

setGlobalAITaskLimit ==
    /\ admin.pc = "apply"
    /\ applyLimit(admin.want, pc)
    /\ admin' = [pc |-> "idle", want |-> 0]
    /\ UNCHANGED <<settings, active, want>>

-----------------------------------------------------------------------------
Step(r) == ReadJobs(r) \/ ReadWorkers(r) \/ Apply(r) \/ Take(r) \/ Wait(r) \/ release(r)

Next ==
    \/ \E r \in Requests : Step(r)
    \/ SaveWorkers \/ SaveJobs \/ AdminReadsJobs \/ AdminReadsWorkers \/ setGlobalAITaskLimit

Spec == Init /\ [][Next]_vars

(* The goroutine of a request that has begun is scheduled again and again,  *)
(* and provider requests end (they have a time limit).                      *)
FairSpec == Spec /\ \A r \in Requests : WF_vars(pc[r] # "idle" /\ Step(r))

-----------------------------------------------------------------------------
(* The queue holds the channel of every request that waits, once: nobody    *)
(* who waits was forgotten, and nobody is woken who no longer waits.        *)
QueueIsWaiting ==
    /\ Queued = InPhase("waiting")
    /\ \A i, j \in DOMAIN waiters : waiters[i] = waiters[j] => i = j

(* No wake-up is lost: while requests wait although slots are free, at      *)
(* least as many have been woken as there are free slots, so that "raising  *)
(* it must release tasks that are already waiting", and a release hands its *)
(* slot on.                                                                 *)
NoForgottenWaiter ==
    waiters # <<>> => Cardinality(InPhase("woken")) >= limit - active

(* "Waiters ... re-check the limit themselves, so lowering the limit while  *)
(* tasks are waiting can never over-admit": the gate is a semaphore.        *)
AbstractGate == INSTANCE Semaphore WITH
    Processes <- Requests, InitialLimit <- DefaultJobs, holders <- InPhase("holding")
ImplementsSemaphore == AbstractGate!Spec

(* Every request that begins is served, however others overtake it and      *)
(* whatever an admin does to the limit.                                     *)
EveryoneServed == \A r \in Requests : pc[r] = "jobs read" ~> pc[r] = "done"
=============================================================================
