--------------------------- MODULE TaskGate_proofs ---------------------------
(***************************************************************************)
(* Proofs about TaskGate, for any finite set of requests and any settings  *)
(* an admin may give.                                                      *)
(***************************************************************************)
EXTENDS TaskGate, FiniteSetTheorems, TLAPS

(* The inductive invariant: types, the limits read, the count of holders,   *)
(* and the two properties of the queue, which need each other.              *)
Types ==
    /\ jobs \in Jobs
    /\ workers \in Workers
    /\ limit \in 1..32
    /\ active \in Nat
    /\ waiters \in Seq(Requests)
    /\ pc \in [Requests -> Phases]
    /\ want \in [Requests -> 0..32]
    /\ admin \in [pc : {"idle", "saved", "jobs read", "apply"}, want : 0..32]

ReadLimits ==
    /\ \A r \in Requests : pc[r] = "apply" => want[r] # 0
    /\ admin.pc = "apply" => admin.want # 0

HoldersCounted == active = Cardinality(InPhase("holding"))

GateInv == Types /\ ReadLimits /\ HoldersCounted /\ QueueIsWaiting /\ NoForgottenWaiter

-----------------------------------------------------------------------------
(* The limit of providerRequestLimitFor is one the gate understands,        *)
(* whatever the settings row holds.                                         *)
THEOREM LimitInRange ==
    \A j, w \in Int : providerRequestLimitFor(j, w) \in 1..32
<1> SUFFICES ASSUME NEW j \in Int, NEW w \in Int
             PROVE  providerRequestLimitFor(j, w) \in 1..32
    OBVIOUS
<1> DEFINE a == IF j < 1 THEN DefaultJobs ELSE j
           b == IF w < 1 THEN FallbackWorkers ELSE w
           product == a * b
<1>1. a \in Int /\ b \in Int
    BY DEF DefaultJobs, FallbackWorkers
<1>2. product \in Int
    <2> HIDE DEF a, b
    <2> QED BY <1>1
<1>3. providerRequestLimitFor(j, w)
        = IF product < 1 THEN 1 ELSE IF product > 32 THEN 32 ELSE product
    BY DEF providerRequestLimitFor
<1> QED
    <2> HIDE DEF product
    <2> QED BY <1>2, <1>3

(* The settings a request or an admin reads.                                *)
LEMMA SettingsRead ==
    ASSUME Types
    PROVE  JobsRead \subseteq 1..16 /\ WorkersRead \subseteq 1..50
<1>1. jobs \in 1..16 /\ workers \in 1..50
    BY SettingsAssumption DEF Types
<1>2. normalizedAITaskConcurrency(jobs) = jobs /\ normalizedWorkers(workers) = workers
    BY <1>1 DEF normalizedAITaskConcurrency, normalizedWorkers
<1> QED BY <1>1, <1>2 DEF JobsRead, WorkersRead, DefaultJobs, FallbackWorkers

(* What appending to a queue does to the set of its members.                *)
LEMMA AppendMembers ==
    ASSUME NEW S, NEW s \in Seq(S), NEW e \in S,
           \A i \in DOMAIN s : s[i] # e,
           \A i, j \in DOMAIN s : s[i] = s[j] => i = j
    PROVE  LET t == Append(s, e)
           IN  /\ {t[i] : i \in DOMAIN t} = {s[i] : i \in DOMAIN s} \cup {e}
               /\ \A i, j \in DOMAIN t : t[i] = t[j] => i = j
<1> DEFINE t == Append(s, e)
<1>1. /\ t \in Seq(S)
      /\ Len(t) = Len(s) + 1
      /\ \A i \in 1..Len(s) : t[i] = s[i]
      /\ t[Len(s) + 1] = e
    OBVIOUS
<1>2. DOMAIN s = 1..Len(s) /\ DOMAIN t = 1..(Len(s) + 1) /\ Len(s) \in Nat
    BY <1>1
<1> HIDE DEF t
<1>3. {t[i] : i \in DOMAIN t} = {s[i] : i \in DOMAIN s} \cup {e}
    BY <1>1, <1>2
<1>4. \A i, j \in DOMAIN t : t[i] = t[j] => i = j
    <2> SUFFICES ASSUME NEW i \in 1..(Len(s) + 1), NEW j \in 1..(Len(s) + 1), t[i] = t[j]
                 PROVE  i = j
        BY <1>2
    <2>1. CASE i \in 1..Len(s) /\ j \in 1..Len(s)
        BY <2>1, <1>1, <1>2
    <2>2. CASE i = Len(s) + 1 /\ j \in 1..Len(s)
        BY <2>2, <1>1, <1>2
    <2>3. CASE j = Len(s) + 1 /\ i \in 1..Len(s)
        BY <2>3, <1>1, <1>2
    <2>4. CASE i = Len(s) + 1 /\ j = Len(s) + 1
        BY <2>4
    <2> QED BY <2>1, <2>2, <2>3, <2>4, <1>2
<1> QED BY <1>3, <1>4 DEF t

(* What taking the head off a queue does to the set of its members.         *)
LEMMA TailMembers ==
    ASSUME NEW S, NEW s \in Seq(S), s # <<>>,
           \A i, j \in DOMAIN s : s[i] = s[j] => i = j
    PROVE  LET t == Tail(s)
           IN  /\ t \in Seq(S)
               /\ Head(s) \in {s[i] : i \in DOMAIN s}
               /\ {t[i] : i \in DOMAIN t} = {s[i] : i \in DOMAIN s} \ {Head(s)}
               /\ \A i, j \in DOMAIN t : t[i] = t[j] => i = j
<1> DEFINE t == Tail(s)
<1>1. /\ t \in Seq(S)
      /\ Len(t) = Len(s) - 1
      /\ \A i \in 1..(Len(s) - 1) : t[i] = s[i + 1]
      /\ Head(s) = s[1]
      /\ Len(s) \in Nat \ {0}
    OBVIOUS
<1>2. DOMAIN s = 1..Len(s) /\ DOMAIN t = 1..(Len(s) - 1)
    BY <1>1
<1> HIDE DEF t
<1>3. Head(s) \in {s[i] : i \in DOMAIN s}
    BY <1>1, <1>2
<1>4. {t[i] : i \in DOMAIN t} \subseteq {s[i] : i \in DOMAIN s} \ {Head(s)}
    <2> SUFFICES ASSUME NEW i \in 1..(Len(s) - 1)
                 PROVE  t[i] \in {s[k] : k \in DOMAIN s} /\ t[i] # s[1]
        BY <1>1, <1>2
    <2>1. i + 1 \in DOMAIN s /\ i + 1 # 1 /\ 1 \in DOMAIN s
        BY <1>1, <1>2
    <2> QED BY <2>1, <1>1
<1>5. {s[i] : i \in DOMAIN s} \ {Head(s)} \subseteq {t[i] : i \in DOMAIN t}
    <2> SUFFICES ASSUME NEW k \in DOMAIN s, s[k] # s[1]
                 PROVE  \E i \in DOMAIN t : t[i] = s[k]
        BY <1>1
    <2>1. k - 1 \in DOMAIN t /\ t[k - 1] = s[(k - 1) + 1]
        BY <1>1, <1>2
    <2>2. (k - 1) + 1 = k
        BY <1>1, <1>2
    <2> QED BY <2>1, <2>2
<1>6. \A i, j \in DOMAIN t : t[i] = t[j] => i = j
    <2> SUFFICES ASSUME NEW i \in 1..(Len(s) - 1), NEW j \in 1..(Len(s) - 1), t[i] = t[j]
                 PROVE  i = j
        BY <1>2
    <2>1. i + 1 \in DOMAIN s /\ j + 1 \in DOMAIN s /\ s[i + 1] = s[j + 1]
        BY <1>1, <1>2
    <2>2. i + 1 = j + 1
        BY <2>1
    <2> QED BY <2>2
<1> QED BY <1>1, <1>3, <1>4, <1>5, <1>6 DEF t

(* Every set of requests is finite.                                         *)
LEMMA PhaseFinite ==
    ASSUME NEW f, NEW phase
    PROVE  LET S == {r \in Requests : f[r] = phase}
           IN  IsFiniteSet(S) /\ Cardinality(S) \in Nat
<1>1. {r \in Requests : f[r] = phase} \subseteq Requests
    OBVIOUS
<1>2. IsFiniteSet({r \in Requests : f[r] = phase})
    BY <1>1, RequestsAssumption, FS_Subset
<1> QED BY <1>2, FS_CardinalityType

(* The same of the sets of requests in a phase, now and after a step.       *)
LEMMA InPhaseFinite ==
    ASSUME NEW phase
    PROVE  /\ IsFiniteSet(InPhase(phase)) /\ Cardinality(InPhase(phase)) \in Nat
           /\ IsFiniteSet(InPhase(phase)') /\ Cardinality(InPhase(phase)') \in Nat
BY PhaseFinite DEF InPhase

-----------------------------------------------------------------------------
(* applyLimit keeps the count and the queue.                                *)
LEMMA ApplyLimitKeeps ==
    ASSUME GateInv, NEW value \in 1..32, NEW next \in [Requests -> Phases],
           \A q \in Requests : \A phase \in {"waiting", "woken", "holding"} :
               next[q] = phase <=> pc[q] = phase,
           applyLimit(value, next), active' = active
    PROVE  /\ limit' \in 1..32
           /\ waiters' \in Seq(Requests)
           /\ pc' \in [Requests -> Phases]
           /\ \A q \in Requests : pc'[q] = "apply" => next[q] = "apply"
           /\ HoldersCounted'
           /\ QueueIsWaiting'
           /\ NoForgottenWaiter'
           /\ InPhase("holding")' = InPhase("holding")
<1>1. limit' = value /\ Types /\ Queued = InPhase("waiting")
    BY DEF GateInv, applyLimit, QueueIsWaiting
<1>2. active = Cardinality(InPhase("holding"))
    BY DEF GateInv, HoldersCounted
<1>3. CASE active < value
    <2>1. waiters' = <<>> /\ pc' = Woken(next, Queued)
        BY <1>3 DEF applyLimit
    <2>2. pc' \in [Requests -> Phases]
        BY <2>1 DEF Woken, Phases
    <2>3. \A q \in Requests : pc'[q] = IF pc[q] = "waiting" THEN "woken" ELSE next[q]
        BY <2>1, <1>1 DEF Woken, InPhase
    <2>4. InPhase("holding")' = InPhase("holding")
        BY <2>3 DEF InPhase
    <2>5. InPhase("waiting")' = {}
        BY <2>3 DEF InPhase
    <2>6. Queued' = {}
        BY <2>1 DEF Queued
    <2>7. QueueIsWaiting'
        BY <2>1, <2>5, <2>6 DEF QueueIsWaiting
    <2>8. NoForgottenWaiter'
        BY <2>1 DEF NoForgottenWaiter
    <2>9. \A q \in Requests : pc'[q] = "apply" => next[q] = "apply"
        BY <2>3
    <2> QED BY <2>1, <2>2, <2>4, <2>7, <2>8, <2>9, <1>1, <1>2 DEF HoldersCounted
<1>4. CASE ~(active < value)
    <2>1. waiters' = waiters /\ pc' = next
        BY <1>4 DEF applyLimit
    <2>2. /\ InPhase("holding")' = InPhase("holding")
          /\ InPhase("waiting")' = InPhase("waiting")
        BY <2>1 DEF InPhase
    <2>3. QueueIsWaiting'
        BY <2>1, <2>2 DEF GateInv, QueueIsWaiting, Queued
    <2>4. NoForgottenWaiter'
        <3>1. Cardinality(InPhase("woken")') \in Nat
            BY InPhaseFinite
        <3>2. active \in Nat
            BY <1>1 DEF Types
        <3>3. value \in Int
            OBVIOUS
        <3>4. active >= value
            BY <3>2, <3>3, <1>4
        <3>5. active' = active
            OBVIOUS
        <3>6. Cardinality(InPhase("woken")') >= limit' - active'
            BY <3>1, <3>2, <3>3, <3>4, <3>5, <1>1
        <3> QED BY <3>6 DEF NoForgottenWaiter
    <2> QED BY <2>1, <2>2, <2>3, <2>4, <1>1, <1>2 DEF HoldersCounted, Types
<1> QED BY <1>3, <1>4

(* A step that neither touches the gate nor moves a request into or out of  *)
(* the phases the gate knows keeps the count and the queue.                 *)
LEMMA GateUntouched ==
    ASSUME GateInv, UNCHANGED gate,
           \A q \in Requests : \A phase \in {"waiting", "woken", "holding"} :
               pc'[q] = phase <=> pc[q] = phase
    PROVE  /\ HoldersCounted' /\ QueueIsWaiting' /\ NoForgottenWaiter'
           /\ InPhase("holding")' = InPhase("holding")
<1>1. /\ InPhase("holding")' = InPhase("holding")
      /\ InPhase("waiting")' = InPhase("waiting")
      /\ InPhase("woken")' = InPhase("woken")
    BY DEF InPhase
<1> QED BY <1>1 DEF GateInv, gate, HoldersCounted, QueueIsWaiting, NoForgottenWaiter, Queued

-----------------------------------------------------------------------------
(* The gate at the start.                                                   *)
LEMMA GateInvInit == Init => GateInv
<1> SUFFICES ASSUME Init
             PROVE  GateInv
    OBVIOUS
<1>1. Types
    BY DEF Init, Types, Phases, DefaultJobs
<1>2. ReadLimits
    BY DEF Init, ReadLimits
<1>3. InPhase("holding") = {} /\ InPhase("waiting") = {} /\ Queued = {}
    BY DEF Init, InPhase, Queued
<1>4. HoldersCounted
    BY <1>3, FS_EmptySet DEF Init, HoldersCounted
<1>5. QueueIsWaiting
    BY <1>3 DEF Init, QueueIsWaiting
<1>6. NoForgottenWaiter
    BY DEF Init, NoForgottenWaiter
<1> QED BY <1>1, <1>2, <1>4, <1>5, <1>6 DEF GateInv

(* Reading the two settings keeps the gate as it is.                        *)
LEMMA ReadJobsKeeps ==
    ASSUME GateInv, NEW r \in Requests, ReadJobs(r)
    PROVE  GateInv' /\ InPhase("holding")' = InPhase("holding")
<1>1. Types /\ ReadLimits
    BY DEF GateInv
<1>2. pc' = [pc EXCEPT ![r] = "jobs read"] /\ pc \in [Requests -> Phases] /\ pc[r] = "idle"
    BY <1>1 DEF ReadJobs, Types
<1>3. pc' \in [Requests -> Phases]
    BY <1>2 DEF Phases
<1>4. PICK j \in JobsRead : want' = [want EXCEPT ![r] = j]
    BY DEF ReadJobs
<1>5. j \in 0..32 /\ want \in [Requests -> 0..32]
    <2>1. want \in [Requests -> 0..32]
        BY <1>1 DEF Types
    <2>2. j \in 1..16
        BY <1>1, SettingsRead
    <2> QED BY <2>1, <2>2
<1>6. want' \in [Requests -> 0..32]
    BY <1>4, <1>5
<1>7. Types'
    BY <1>1, <1>3, <1>6 DEF Types, ReadJobs, settings, gate
<1>8. ReadLimits'
    BY <1>1, <1>2, <1>4, <1>5 DEF ReadLimits, ReadJobs
<1>9. \A q \in Requests : \A phase \in {"waiting", "woken", "holding"} :
          pc'[q] = phase <=> pc[q] = phase
    BY <1>2
<1>10. UNCHANGED gate
    BY DEF ReadJobs
<1> QED BY <1>7, <1>8, <1>9, <1>10, GateUntouched DEF GateInv

(* ReadWorkers computes a limit in range and leaves the gate alone.         *)
LEMMA ReadWorkersKeeps ==
    ASSUME GateInv, NEW r \in Requests, ReadWorkers(r)
    PROVE  GateInv' /\ InPhase("holding")' = InPhase("holding")
<1>1. Types /\ ReadLimits
    BY DEF GateInv
<1>2. pc' = [pc EXCEPT ![r] = "apply"] /\ pc \in [Requests -> Phases] /\ pc[r] = "jobs read"
    BY <1>1 DEF ReadWorkers, Types
<1>3. pc' \in [Requests -> Phases]
    BY <1>2 DEF Phases
<1>4. PICK w \in WorkersRead :
          want' = [want EXCEPT ![r] = providerRequestLimitFor(want[r], w)]
    BY DEF ReadWorkers
<1>5. w \in Int /\ want \in [Requests -> 0..32] /\ want[r] \in Int
    <2>1. want \in [Requests -> 0..32]
        BY <1>1 DEF Types
    <2>2. w \in 1..50
        BY <1>1, SettingsRead
    <2> QED BY <2>1, <2>2
<1>6. providerRequestLimitFor(want[r], w) \in 1..32
    BY <1>5, LimitInRange
<1>7. want' \in [Requests -> 0..32] /\ want'[r] # 0
    BY <1>4, <1>5, <1>6
<1>8. Types'
    BY <1>1, <1>3, <1>7 DEF Types, ReadWorkers, settings, gate
<1>9. ReadLimits'
    BY <1>1, <1>2, <1>4, <1>5, <1>7 DEF ReadLimits, ReadWorkers
<1>10. \A q \in Requests : \A phase \in {"waiting", "woken", "holding"} :
          pc'[q] = phase <=> pc[q] = phase
    BY <1>2
<1>11. UNCHANGED gate
    BY DEF ReadWorkers
<1> QED BY <1>8, <1>9, <1>10, <1>11, GateUntouched DEF GateInv

(* A request applies the limit it read.                                     *)
LEMMA ApplyKeeps ==
    ASSUME GateInv, NEW r \in Requests, Apply(r)
    PROVE  GateInv' /\ limit' \in 1..32 /\ InPhase("holding")' = InPhase("holding")
<1> DEFINE next == [pc EXCEPT ![r] = "ready"]
<1>1. Types /\ ReadLimits
    BY DEF GateInv
<1>2. pc[r] = "apply" /\ applyLimit(want[r], next) /\ active' = active
    BY DEF Apply
<1>3. want[r] \in 1..32 /\ want \in [Requests -> 0..32]
    <2>1. want \in [Requests -> 0..32]
        BY <1>1 DEF Types
    <2>2. want[r] # 0
        BY <1>1, <1>2 DEF ReadLimits
    <2> QED BY <2>1, <2>2
<1>4. next \in [Requests -> Phases]
    BY <1>1 DEF Types, Phases
<1>5. \A q \in Requests : \A phase \in {"waiting", "woken", "holding"} :
          next[q] = phase <=> pc[q] = phase
    BY <1>1, <1>2 DEF Types
<1>6. \A q \in Requests : next[q] = "apply" => q # r /\ pc[q] = "apply"
    BY <1>1 DEF Types
<1> HIDE DEF next
<1>7. /\ limit' \in 1..32
      /\ waiters' \in Seq(Requests)
      /\ pc' \in [Requests -> Phases]
      /\ \A q \in Requests : pc'[q] = "apply" => next[q] = "apply"
      /\ HoldersCounted'
      /\ QueueIsWaiting'
      /\ NoForgottenWaiter'
      /\ InPhase("holding")' = InPhase("holding")
    BY <1>2, <1>3, <1>4, <1>5, ApplyLimitKeeps
<1>8. want' = [want EXCEPT ![r] = 0]
    BY DEF Apply
<1>9. want' \in [Requests -> 0..32]
    BY <1>3, <1>8
<1>10. Types'
    BY <1>1, <1>2, <1>7, <1>9 DEF Types, Apply, settings
<1>11. ReadLimits'
    BY <1>1, <1>3, <1>6, <1>7, <1>8 DEF ReadLimits, Apply
<1> QED BY <1>7, <1>10, <1>11 DEF GateInv

(* Taking a slot: one holder more; at most one woken request fewer, for one *)
(* free slot fewer.                                                         *)
LEMMA TakeKeeps ==
    ASSUME GateInv, NEW r \in Requests, Take(r)
    PROVE  GateInv' /\ InPhase("holding")' = InPhase("holding") \cup {r}
                    /\ r \notin InPhase("holding")
                    /\ Cardinality(InPhase("holding")) < limit
<1>1. Types /\ ReadLimits /\ QueueIsWaiting /\ NoForgottenWaiter
      /\ active = Cardinality(InPhase("holding"))
    BY DEF GateInv, HoldersCounted
<1>2. /\ pc[r] \in {"ready", "woken"} /\ pc' = [pc EXCEPT ![r] = "holding"]
      /\ active < limit /\ active' = active + 1
      /\ UNCHANGED <<jobs, workers, limit, waiters, want, admin>>
    BY DEF Take, settings
<1>3. pc \in [Requests -> Phases] /\ active \in Nat /\ limit \in 1..32
    BY <1>1 DEF Types
<1>4. pc' \in [Requests -> Phases]
    BY <1>2, <1>3 DEF Phases
<1>5. Types'
    <2>1. active' \in Nat
        BY <1>2, <1>3
    <2> QED BY <2>1, <1>1, <1>2, <1>4 DEF Types
<1>6. ReadLimits'
    BY <1>1, <1>2, <1>3 DEF ReadLimits
<1>7. InPhase("holding")' = InPhase("holding") \cup {r} /\ r \notin InPhase("holding")
    BY <1>2, <1>3 DEF InPhase
<1>8. HoldersCounted'
    <2>1. Cardinality(InPhase("holding")') = Cardinality(InPhase("holding")) + 1
        BY <1>7, InPhaseFinite, FS_AddElement
    <2> QED BY <2>1, <1>1, <1>2 DEF HoldersCounted
<1>9. InPhase("waiting")' = InPhase("waiting")
    BY <1>2, <1>3 DEF InPhase
<1>10. QueueIsWaiting'
    BY <1>1, <1>2, <1>9 DEF QueueIsWaiting, Queued
<1>11. InPhase("woken")' = InPhase("woken") \ {r}
    BY <1>2, <1>3 DEF InPhase
<1>12. NoForgottenWaiter'
    <2>1. Cardinality(InPhase("woken")') >= Cardinality(InPhase("woken")) - 1
        <3>1. CASE r \in InPhase("woken")
            <4>1. Cardinality(InPhase("woken") \ {r}) = Cardinality(InPhase("woken")) - 1
                BY <3>1, InPhaseFinite, FS_RemoveElement
            <4> QED BY <4>1, <1>11, InPhaseFinite
        <3>2. CASE r \notin InPhase("woken")
            <4>1. InPhase("woken")' = InPhase("woken")
                BY <3>2, <1>11
            <4> QED BY <4>1, InPhaseFinite
        <3> QED BY <3>1, <3>2
    <2>2. Cardinality(InPhase("woken")) \in Nat /\ Cardinality(InPhase("woken")') \in Nat
        BY InPhaseFinite
    <2>3. waiters' # <<>> => Cardinality(InPhase("woken")) >= limit - active
        BY <1>1, <1>2 DEF NoForgottenWaiter
    <2>4. waiters' # <<>> => Cardinality(InPhase("woken")') >= limit' - active'
        BY <2>1, <2>2, <2>3, <1>2, <1>3
    <2> QED BY <2>4 DEF NoForgottenWaiter
<1>13. Cardinality(InPhase("holding")) < limit
    BY <1>1, <1>2
<1> QED BY <1>5, <1>6, <1>7, <1>8, <1>10, <1>12, <1>13 DEF GateInv

(* Joining the queue: no slot is free, so no wake-up is owed.               *)
LEMMA WaitKeeps ==
    ASSUME GateInv, NEW r \in Requests, Wait(r)
    PROVE  GateInv' /\ InPhase("holding")' = InPhase("holding")
<1>1. Types /\ ReadLimits /\ QueueIsWaiting /\ HoldersCounted
    BY DEF GateInv
<1>2. /\ pc[r] \in {"ready", "woken"} /\ pc' = [pc EXCEPT ![r] = "waiting"]
      /\ active >= limit /\ waiters' = Append(waiters, r)
      /\ UNCHANGED <<jobs, workers, limit, active, want, admin>>
    BY DEF Wait, settings
<1>3. pc \in [Requests -> Phases] /\ waiters \in Seq(Requests)
    BY <1>1 DEF Types
<1>4. limit \in Int /\ active \in Int
    <2>1. limit \in 1..32 /\ active \in Nat
        BY <1>1 DEF Types
    <2> QED BY <2>1
<1>5. pc' \in [Requests -> Phases] /\ waiters' \in Seq(Requests)
    <2>1. pc' \in [Requests -> Phases]
        BY <1>2, <1>3 DEF Phases
    <2>2. Append(waiters, r) \in Seq(Requests)
        BY <1>3
    <2> QED BY <2>1, <2>2, <1>2
<1>6. Types'
    BY <1>1, <1>2, <1>5 DEF Types
<1>7. ReadLimits'
    BY <1>1, <1>2, <1>3 DEF ReadLimits
<1>8. InPhase("holding")' = InPhase("holding")
    BY <1>2, <1>3 DEF InPhase
<1>9. HoldersCounted'
    BY <1>1, <1>2, <1>8 DEF HoldersCounted
<1>10. InPhase("waiting")' = InPhase("waiting") \cup {r} /\ r \notin InPhase("waiting")
    BY <1>2, <1>3 DEF InPhase
<1>11. QueueIsWaiting'
    <2>1. \A i, j \in DOMAIN waiters : waiters[i] = waiters[j] => i = j
        BY <1>1 DEF QueueIsWaiting
    <2>2. \A i \in DOMAIN waiters : waiters[i] # r
        BY <1>1, <1>10 DEF QueueIsWaiting, Queued
    <2>3. /\ {waiters'[i] : i \in DOMAIN waiters'} = {waiters[i] : i \in DOMAIN waiters} \cup {r}
          /\ \A i, j \in DOMAIN waiters' : waiters'[i] = waiters'[j] => i = j
        BY <2>1, <2>2, <1>2, <1>3, AppendMembers
    <2>4. Queued' = Queued \cup {r}
        BY <2>3 DEF Queued
    <2> QED BY <2>3, <2>4, <1>1, <1>10 DEF QueueIsWaiting
<1>12. NoForgottenWaiter'
    <2>1. Cardinality(InPhase("woken")') \in Nat
        BY InPhaseFinite
    <2>2. Cardinality(InPhase("woken")') >= limit' - active'
        BY <2>1, <1>2, <1>4
    <2> QED BY <2>2 DEF NoForgottenWaiter
<1> QED BY <1>6, <1>7, <1>8, <1>9, <1>11, <1>12 DEF GateInv

(* Giving a slot back: one holder fewer, and one woken request more if the  *)
(* slot is free by the limit of now and somebody waits for it.              *)
LEMMA ReleaseKeeps ==
    ASSUME GateInv, NEW r \in Requests, release(r)
    PROVE  GateInv' /\ InPhase("holding")' = InPhase("holding") \ {r}
                    /\ r \in InPhase("holding")
<1> DEFINE after == [pc EXCEPT ![r] = "done"]
           hands == active - 1 < limit /\ waiters # <<>>
<1>1. Types /\ ReadLimits /\ QueueIsWaiting /\ NoForgottenWaiter
      /\ active = Cardinality(InPhase("holding"))
    BY DEF GateInv, HoldersCounted
<1>2. pc \in [Requests -> Phases] /\ waiters \in Seq(Requests)
    BY <1>1 DEF Types
<1>3. limit \in Int /\ active \in Nat
    <2>1. limit \in 1..32 /\ active \in Nat
        BY <1>1 DEF Types
    <2> QED BY <2>1
<1>4. pc[r] = "holding" /\ r \in InPhase("holding")
    BY DEF release, InPhase
<1>5. active > 0 /\ Cardinality(InPhase("holding") \ {r}) = active - 1
    <2>1. Cardinality(InPhase("holding") \ {r}) = Cardinality(InPhase("holding")) - 1
        BY <1>4, InPhaseFinite, FS_RemoveElement
    <2>2. Cardinality(InPhase("holding") \ {r}) \in Nat
        BY InPhaseFinite, FS_RemoveElement, FS_CardinalityType
    <2> QED BY <2>1, <2>2, <1>1, <1>3
<1>6. /\ active' = active - 1
      /\ waiters' = IF hands THEN Tail(waiters) ELSE waiters
      /\ pc' = IF hands THEN Woken(after, {Head(waiters)}) ELSE after
      /\ UNCHANGED <<jobs, workers, limit, want, admin>>
    BY <1>5 DEF release, settings
<1>7. /\ waiters # <<>> => /\ Head(waiters) \in Queued
                           /\ Tail(waiters) \in Seq(Requests)
                           /\ {Tail(waiters)[i] : i \in DOMAIN Tail(waiters)}
                                  = Queued \ {Head(waiters)}
                           /\ \A i, j \in DOMAIN Tail(waiters) :
                                  Tail(waiters)[i] = Tail(waiters)[j] => i = j
    <2> SUFFICES ASSUME waiters # <<>>
                 PROVE  /\ Head(waiters) \in Queued
                        /\ Tail(waiters) \in Seq(Requests)
                        /\ {Tail(waiters)[i] : i \in DOMAIN Tail(waiters)}
                               = Queued \ {Head(waiters)}
                        /\ \A i, j \in DOMAIN Tail(waiters) :
                               Tail(waiters)[i] = Tail(waiters)[j] => i = j
        OBVIOUS
    <2>1. \A i, j \in DOMAIN waiters : waiters[i] = waiters[j] => i = j
        BY <1>1 DEF QueueIsWaiting
    <2>2. waiters \in Seq(Requests)
        BY <1>2
    <2>3. /\ Tail(waiters) \in Seq(Requests)
          /\ Head(waiters) \in {waiters[i] : i \in DOMAIN waiters}
          /\ {Tail(waiters)[i] : i \in DOMAIN Tail(waiters)}
                 = {waiters[i] : i \in DOMAIN waiters} \ {Head(waiters)}
          /\ \A i, j \in DOMAIN Tail(waiters) :
                 Tail(waiters)[i] = Tail(waiters)[j] => i = j
        BY <2>1, <2>2, TailMembers, Zenon
    <2> QED BY <2>3, Zenon DEF Queued
<1>8. Queued = InPhase("waiting")
    BY <1>1 DEF QueueIsWaiting
<1>9. CASE hands
    <2> DEFINE h == Head(waiters)
    <2>1. h \in Requests /\ pc[h] = "waiting" /\ h # r
        BY <1>4, <1>7, <1>8, <1>9 DEF InPhase
    <2>2. waiters' = Tail(waiters) /\ pc' = Woken(after, {h})
        BY <1>6, <1>9
    <2> HIDE DEF h
    <2>3. \A q \in Requests :
              pc'[q] = IF q = h THEN "woken" ELSE IF q = r THEN "done" ELSE pc[q]
        BY <2>2, <1>2 DEF Woken
    <2>4. pc' \in [Requests -> Phases]
        BY <2>2, <1>2 DEF Woken, Phases
    <2>5. Types'
        <3>1. waiters' \in Seq(Requests) /\ active' \in Nat
            BY <2>2, <1>3, <1>5, <1>6, <1>7, <1>9
        <3> QED BY <3>1, <2>4, <1>1, <1>6 DEF Types
    <2>6. ReadLimits'
        <3>1. \A q \in Requests : pc'[q] = "apply" => pc[q] = "apply"
            BY <2>3
        <3>2. want' = want /\ admin' = admin
            BY <1>6
        <3> QED BY <3>1, <3>2, <1>1 DEF ReadLimits
    <2>7. InPhase("holding")' = InPhase("holding") \ {r}
        BY <2>1, <2>3 DEF InPhase
    <2>8. InPhase("waiting")' = InPhase("waiting") \ {h}
        BY <2>3, <1>4 DEF InPhase
    <2>9. InPhase("woken")' = InPhase("woken") \cup {h} /\ h \notin InPhase("woken")
        BY <2>1, <2>3, <1>4 DEF InPhase
    <2>10. QueueIsWaiting'
        <3>1. Queued' = Queued \ {h}
            BY <2>2, <1>7, <1>9 DEF Queued, h
        <3>2. \A i, j \in DOMAIN waiters' : waiters'[i] = waiters'[j] => i = j
            BY <2>2, <1>7, <1>9
        <3> QED BY <3>1, <3>2, <2>8, <1>8 DEF QueueIsWaiting
    <2>11. NoForgottenWaiter'
        <3>1. Cardinality(InPhase("woken")') = Cardinality(InPhase("woken")) + 1
            BY <2>9, InPhaseFinite, FS_AddElement
        <3>2. Cardinality(InPhase("woken")) >= limit - active
            BY <1>1, <1>9 DEF NoForgottenWaiter
        <3>3. Cardinality(InPhase("woken")) \in Nat
            BY InPhaseFinite
        <3>4. Cardinality(InPhase("woken")') >= limit' - active'
            BY <3>1, <3>2, <3>3, <1>3, <1>6
        <3> QED BY <3>4 DEF NoForgottenWaiter
    <2> QED BY <2>5, <2>6, <2>7, <2>10, <2>11, <1>4, <1>5, <1>6 DEF GateInv, HoldersCounted
<1>10. CASE ~hands
    <2>1. waiters' = waiters /\ pc' = after
        BY <1>6, <1>10
    <2>2. \A q \in Requests : pc'[q] = IF q = r THEN "done" ELSE pc[q]
        BY <2>1, <1>2
    <2>3. pc' \in [Requests -> Phases]
        BY <2>1, <1>2 DEF Phases
    <2>4. Types'
        <3>1. waiters' \in Seq(Requests) /\ active' \in Nat
            BY <2>1, <1>2, <1>3, <1>5, <1>6
        <3> QED BY <3>1, <2>3, <1>1, <1>6 DEF Types
    <2>5. ReadLimits'
        <3>1. \A q \in Requests : pc'[q] = "apply" => pc[q] = "apply"
            BY <2>2
        <3>2. want' = want /\ admin' = admin
            BY <1>6
        <3> QED BY <3>1, <3>2, <1>1 DEF ReadLimits
    <2>6. InPhase("holding")' = InPhase("holding") \ {r}
        BY <2>2 DEF InPhase
    <2>7. InPhase("waiting")' = InPhase("waiting")
        BY <2>2, <1>4 DEF InPhase
    <2>8. QueueIsWaiting'
        BY <2>1, <2>7, <1>1 DEF QueueIsWaiting, Queued
    <2>9. NoForgottenWaiter'
        <3>1. Cardinality(InPhase("woken")') \in Nat
            BY InPhaseFinite
        <3>2. waiters' # <<>> => active' >= limit'
            BY <2>1, <1>3, <1>6, <1>10
        <3>3. waiters' # <<>> => Cardinality(InPhase("woken")') >= limit' - active'
            BY <3>1, <3>2, <1>3, <1>6
        <3> QED BY <3>3 DEF NoForgottenWaiter
    <2> QED BY <2>4, <2>5, <2>6, <2>8, <2>9, <1>4, <1>5, <1>6 DEF GateInv, HoldersCounted
<1> QED BY <1>9, <1>10

(* The admin's steps before the new limit is applied leave the gate alone.  *)
LEMMA AdminKeeps ==
    ASSUME GateInv, SaveWorkers \/ SaveJobs \/ AdminReadsJobs \/ AdminReadsWorkers
    PROVE  GateInv' /\ InPhase("holding")' = InPhase("holding")
<1>1. Types /\ ReadLimits
    BY DEF GateInv
<1>2. UNCHANGED <<gate, pc, want>>
    BY DEF SaveWorkers, SaveJobs, AdminReadsJobs, AdminReadsWorkers
<1>3. jobs' \in Jobs /\ workers' \in Workers
    BY <1>1 DEF Types, SaveWorkers, SaveJobs, AdminReadsJobs, AdminReadsWorkers, settings
<1>4. admin \in [pc : {"idle", "saved", "jobs read", "apply"}, want : 0..32]
    BY <1>1 DEF Types
<1>5. /\ admin' \in [pc : {"idle", "saved", "jobs read", "apply"}, want : 0..32]
      /\ admin'.pc = "apply" => admin'.want # 0
    <2>1. CASE SaveWorkers
        BY <2>1, <1>1, <1>4 DEF SaveWorkers, ReadLimits
    <2>2. CASE SaveJobs
        BY <2>2, <1>4 DEF SaveJobs
    <2>3. CASE AdminReadsJobs
        <3>1. PICK j \in JobsRead : admin' = [pc |-> "jobs read", want |-> j]
            BY <2>3 DEF AdminReadsJobs
        <3>2. j \in 1..16
            BY <1>1, SettingsRead
        <3>3. j \in 0..32
            BY <3>2
        <3> QED BY <3>1, <3>3
    <2>4. CASE AdminReadsWorkers
        <3>1. PICK w \in WorkersRead :
                 admin' = [pc |-> "apply", want |-> providerRequestLimitFor(admin.want, w)]
            BY <2>4 DEF AdminReadsWorkers
        <3>2. w \in 1..50 /\ admin.want \in 0..32
            BY <1>1, <1>4, SettingsRead
        <3>3. w \in Int /\ admin.want \in Int
            BY <3>2
        <3>4. providerRequestLimitFor(admin.want, w) \in 1..32
            BY <3>3, LimitInRange
        <3> HIDE DEF providerRequestLimitFor
        <3>5. /\ providerRequestLimitFor(admin.want, w) \in 0..32
              /\ providerRequestLimitFor(admin.want, w) # 0
            BY <3>4
        <3> QED BY <3>1, <3>5
    <2> QED BY <2>1, <2>2, <2>3, <2>4
<1>6. Types'
    BY <1>1, <1>2, <1>3, <1>5 DEF Types, gate
<1>7. ReadLimits'
    BY <1>1, <1>2, <1>5 DEF ReadLimits
<1> QED BY <1>2, <1>6, <1>7, GateUntouched DEF GateInv

(* The admin's new limit is applied.                                        *)
LEMMA SetLimitKeeps ==
    ASSUME GateInv, setGlobalAITaskLimit
    PROVE  GateInv' /\ limit' \in 1..32 /\ InPhase("holding")' = InPhase("holding")
<1>1. Types /\ ReadLimits
    BY DEF GateInv
<1>2. admin.pc = "apply" /\ applyLimit(admin.want, pc) /\ active' = active
    BY DEF setGlobalAITaskLimit
<1>3. admin.want \in 1..32
    <2>1. admin.want \in 0..32
        BY <1>1 DEF Types
    <2>2. admin.want # 0
        BY <1>1, <1>2 DEF ReadLimits
    <2> QED BY <2>1, <2>2
<1>4. pc \in [Requests -> Phases]
    BY <1>1 DEF Types
<1>5. /\ limit' \in 1..32
      /\ waiters' \in Seq(Requests)
      /\ pc' \in [Requests -> Phases]
      /\ \A q \in Requests : pc'[q] = "apply" => pc[q] = "apply"
      /\ HoldersCounted'
      /\ QueueIsWaiting'
      /\ NoForgottenWaiter'
      /\ InPhase("holding")' = InPhase("holding")
    BY <1>2, <1>3, <1>4, ApplyLimitKeeps
<1>6. admin' = [pc |-> "idle", want |-> 0]
    BY DEF setGlobalAITaskLimit
<1>7. admin' \in [pc : {"idle", "saved", "jobs read", "apply"}, want : 0..32]
    BY <1>6
<1>8. Types'
    BY <1>1, <1>2, <1>5, <1>7 DEF Types, setGlobalAITaskLimit, settings
<1>9. ReadLimits'
    BY <1>1, <1>5, <1>6 DEF ReadLimits, setGlobalAITaskLimit
<1> QED BY <1>5, <1>8, <1>9 DEF GateInv

(* Every step keeps the invariant, and is a step of the semaphore.          *)
LEMMA GateStep ==
    ASSUME GateInv, [Next]_vars
    PROVE  GateInv' /\ [AbstractGate!Next]_<<InPhase("holding"), limit>>
<1>0. Types
    BY DEF GateInv
<1>1. ASSUME NEW r \in Requests, Step(r)
      PROVE  GateInv' /\ [AbstractGate!Next]_<<InPhase("holding"), limit>>
    <2>1. CASE ReadJobs(r)
        BY <2>1, ReadJobsKeeps DEF ReadJobs, gate
    <2>2. CASE ReadWorkers(r)
        BY <2>2, ReadWorkersKeeps DEF ReadWorkers, gate
    <2>3. CASE Apply(r)
        <3>1. AbstractGate!Resize
            BY <2>3, ApplyKeeps DEF AbstractGate!Resize
        <3> QED BY <2>3, <3>1, ApplyKeeps DEF AbstractGate!Next
    <2>4. CASE Take(r)
        <3>1. GateInv' /\ InPhase("holding")' = InPhase("holding") \cup {r}
              /\ r \notin InPhase("holding")
              /\ Cardinality(InPhase("holding")) < limit
            BY <2>4, TakeKeeps
        <3>2. limit' = limit
            BY <2>4 DEF Take
        <3>3. AbstractGate!Enter(r)
            BY <3>1, <3>2, Zenon DEF AbstractGate!Enter, AbstractGate!Cardinality, Cardinality
        <3> QED BY <3>1, <3>3 DEF AbstractGate!Next
    <2>5. CASE Wait(r)
        BY <2>5, WaitKeeps DEF Wait
    <2>6. CASE release(r)
        <3>1. AbstractGate!Leave(r)
            BY <2>6, ReleaseKeeps DEF AbstractGate!Leave, release
        <3> QED BY <2>6, <3>1, ReleaseKeeps DEF AbstractGate!Next
    <2> QED BY <1>1, <2>1, <2>2, <2>3, <2>4, <2>5, <2>6 DEF Step
<1>2. CASE SaveWorkers \/ SaveJobs \/ AdminReadsJobs \/ AdminReadsWorkers
    BY <1>2, AdminKeeps DEF SaveWorkers, SaveJobs, AdminReadsJobs, AdminReadsWorkers, gate
<1>3. CASE setGlobalAITaskLimit
    <2>1. AbstractGate!Resize
        BY <1>3, SetLimitKeeps DEF AbstractGate!Resize
    <2> QED BY <1>3, <2>1, SetLimitKeeps DEF AbstractGate!Next
<1>4. CASE UNCHANGED vars
    <2>1. UNCHANGED <<jobs, workers, limit, active, waiters, pc, want, admin>>
        BY <1>4 DEF vars, settings, gate
    <2>2. InPhase("holding")' = InPhase("holding") /\ InPhase("waiting")' = InPhase("waiting")
          /\ InPhase("woken")' = InPhase("woken") /\ Queued' = Queued
        BY <2>1 DEF InPhase, Queued
    <2>3. Types' /\ ReadLimits'
        BY <2>1 DEF GateInv, Types, ReadLimits
    <2> QED BY <2>1, <2>2, <2>3
            DEF GateInv, HoldersCounted, QueueIsWaiting, NoForgottenWaiter
<1> QED BY <1>1, <1>2, <1>3, <1>4 DEF Next

(* Type correctness: no more slots are taken than there are requests, and   *)
(* the limit is always one the settings can imply.                          *)
THEOREM GateTyping == Spec => []TypeOK
<1>1. GateInv => TypeOK
    <2> SUFFICES ASSUME GateInv
                 PROVE  TypeOK
        OBVIOUS
    <2>1. active \in Nat /\ Cardinality(Requests) \in Nat /\ active <= Cardinality(Requests)
        <3>1. InPhase("holding") \subseteq Requests
            BY DEF InPhase
        <3>2. Cardinality(InPhase("holding")) <= Cardinality(Requests)
            BY <3>1, RequestsAssumption, FS_Subset
        <3>3. active = Cardinality(InPhase("holding"))
            BY DEF GateInv, HoldersCounted
        <3> QED BY <3>2, <3>3, RequestsAssumption, InPhaseFinite, FS_CardinalityType
    <2>2. active \in 0..Cardinality(Requests)
        BY <2>1
    <2> QED BY <2>2 DEF GateInv, Types, TypeOK
<1> QED BY <1>1, GateInvInit, GateStep, PTL DEF Spec

(* Nobody who waits is forgotten: the queue is exactly the set of waiting   *)
(* requests, and as long as it is not empty, at least as many requests have *)
(* been woken as slots are free.                                            *)
THEOREM NobodyForgotten == Spec => [](QueueIsWaiting /\ NoForgottenWaiter)
<1>1. GateInv => QueueIsWaiting /\ NoForgottenWaiter
    BY DEF GateInv
<1> QED BY <1>1, GateInvInit, GateStep, PTL DEF Spec

(* The gate is a semaphore with a changing limit: it lets a request in only *)
(* while fewer than the limit of that moment hold a slot.                   *)
THEOREM GateIsSemaphore == Spec => ImplementsSemaphore
<1>1. Init => AbstractGate!Init
    BY DEF Init, InPhase, AbstractGate!Init
<1>2. GateInv /\ [Next]_vars => [AbstractGate!Next]_<<InPhase("holding"), limit>>
    BY GateStep
<1> QED BY <1>1, <1>2, GateInvInit, GateStep, PTL
        DEF Spec, ImplementsSemaphore, AbstractGate!Spec
=============================================================================
