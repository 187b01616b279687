-------------------------- MODULE ControlPlaneProofs --------------------------
(* The control plane implements the executor lease: every step it takes is a  *)
(* step of ExecutorLease or leaves the lease alone, for any jobs, projects,   *)
(* loops and bounds.  What is proved of the lease then holds of the whole.    *)
EXTENDS ControlPlane, LeaseAndQueueProofs

\* An operation carries the generation its loop had when it started it.
OperationRows == [executor : Executors, generation : Generations \ {0},
                  key : OperationKeys, phase : Phases]

\* The refinement needs the lease's types, for the clock over an expired lease,
\* and the generation of every operation, for the renewal a lane makes.
LeaseInv == LeaseTypeOK /\ operations \subseteq OperationRows

\* Leaving a generation drops operations and adds none.
LEMMA LeaveKeepsOperations ==
  ASSUME NEW e \in Executors, Leave(e)
  PROVE  operations' \subseteq operations
BY DEF Leave

\* A loop starts an operation under the generation it works under.
LEMMA StartKeepsOperations ==
  ASSUME LeaseInv, NEW e \in Executors, NEW key \in OperationKeys, NEW phase \in Phases,
         acquired[e] # 0, Start(e, key, phase)
  PROVE  operations' \subseteq OperationRows
<1>1. acquired[e] \in Generations \ {0}
  BY DEF LeaseInv, LeaseTypeOK
<1>2. [executor |-> e, generation |-> acquired[e], key |-> key, phase |-> phase] \in OperationRows
  BY <1>1 DEF OperationRows
<1>3. QED
  BY <1>2 DEF LeaseInv, Start

\* A step of the lease, taken or stuttered, with operations that stay in shape.
Implements == [LeaseNext]_leaseVars /\ operations' \subseteq OperationRows

\* What leaves the lease and the operations alone implements the lease.
LEMMA UnchangedImplements ==
  ASSUME LeaseInv, UNCHANGED <<executorLease, acquired>>, operations' \subseteq operations
  PROVE  Implements
BY DEF LeaseInv, Implements, leaseVars

\* The owner's actions carry no fence and do not touch the lease.
LEMMA OwnerImplements ==
  ASSUME LeaseInv, OwnerNext
  PROVE  Implements
<1>1. UNCHANGED <<executorLease, acquired, operations>>
  BY DEF OwnerNext, QueueAdmission, RequeueAdmission, RetryFailedJob, AcceptApproval,
         RequestCancel, ConfigureQueue, loopVars
<1>2. QED
  BY <1>1, UnchangedImplements

\* The loop's own actions.
LEMMA LoopImplements ==
  ASSUME LeaseInv, LoopNext
  PROVE  Implements
<1> USE DEF LeaseInv, Implements
<1>1. PICK e \in Executors :
        \/ Acquire(e) \/ Heartbeat(e) \/ Lose(e) \/ Shutdown(e) \/ Crash(e)
        \/ \E j \in Jobs :
             \/ AdmitNext(e, j) \/ StartReconcile(e, j) \/ BeginDraining(e, j)
             \/ \E w \in Sightings : RefreshReleaseWorker(e, j, w)
             \/ ConfirmQueuedCancellation(e, j) \/ FinalizeRelease(e, j)
             \/ StatusMessageSent(e, j)
             \/ \E v \in Versions : SendStatus(e, j, v)
        \/ \E k \in EffectKeys : LeaseNextJobEffect(e, k)
  BY DEF LoopNext
<1>2. CASE Acquire(e)
  BY <1>2 DEF Acquire, LeaseNext
<1>3. CASE Heartbeat(e)
  BY <1>3 DEF Heartbeat, LeaseNext
<1>4. CASE Lose(e)
  BY <1>4, LeaveKeepsOperations DEF Lose, LeaseNext
<1>5. CASE Shutdown(e)
  BY <1>5, LeaveKeepsOperations DEF Shutdown, LeaseNext
<1>6. CASE Crash(e)
  BY <1>6 DEF Crash, LeaseNext
<1>7. ASSUME NEW j \in Jobs, StartReconcile(e, j)
      PROVE  Implements
  <2>1. ReconcileKey(j) \in OperationKeys /\ "running" \in Phases
    BY DEF OperationKeys, Phases
  <2>2. acquired[e] # 0 /\ Start(e, ReconcileKey(j), "running") /\ UNCHANGED <<executorLease, acquired>>
    BY <1>7 DEF StartReconcile
  <2>3. QED
    BY <2>1, <2>2, StartKeepsOperations DEF leaseVars
<1>8. ASSUME NEW k \in EffectKeys, LeaseNextJobEffect(e, k)
      PROVE  Implements
  <2>1. PICK phase \in Phases : Start(e, k, phase)
    BY <1>8 DEF LeaseNextJobEffect, Phases
  <2>2. acquired[e] # 0 /\ k \in OperationKeys /\ UNCHANGED <<executorLease, acquired>>
    BY <1>8 DEF LeaseNextJobEffect, OperationKeys
  <2>3. QED
    BY <2>1, <2>2, StartKeepsOperations DEF leaseVars
<1>9. ASSUME NEW j \in Jobs,
             \/ AdmitNext(e, j) \/ BeginDraining(e, j)
             \/ \E w \in Sightings : RefreshReleaseWorker(e, j, w)
             \/ ConfirmQueuedCancellation(e, j) \/ FinalizeRelease(e, j)
             \/ StatusMessageSent(e, j)
             \/ \E v \in Versions : SendStatus(e, j, v)
      PROVE  Implements
  <2>1. UNCHANGED <<executorLease, acquired, operations>>
    BY <1>9 DEF AdmitNext, BeginDraining, RefreshReleaseWorker, ConfirmQueuedCancellation,
                FinalizeRelease, StatusMessageSent, SendStatus, loopVars
  <2>2. QED
    BY <2>1, UnchangedImplements
<1>10. QED
  BY <1>1, <1>2, <1>3, <1>4, <1>5, <1>6, <1>7, <1>8, <1>9

\* A lane renews the executor lease only as its own loop would: under the
\* generation the loop still works under.
LEMMA RenewLaneImplements ==
  ASSUME LeaseInv, NEW o \in operations, RenewLane(o)
  PROVE  Implements
<1>1. o.executor \in Executors /\ o.generation # 0
  BY DEF LeaseInv, OperationRows
<1>2. /\ acquired[o.executor] = o.generation
      /\ IsExecutorLeaseCurrent(o.executor, o.generation)
      /\ executorLease' = [executorLease EXCEPT !.ttl = LeaseMs]
      /\ UNCHANGED <<acquired, operations>>
  BY DEF RenewLane, Fenced
<1>3. RenewExecutorLease(o.executor)
  BY <1>1, <1>2 DEF RenewExecutorLease
<1>4. QED
  BY <1>1, <1>2, <1>3 DEF Implements, LeaseNext, LeaseInv

\* Running operations and their collection.
LEMMA OperationImplements ==
  ASSUME LeaseInv, OperationNext
  PROVE  Implements
<1>1. PICK o \in operations :
        \/ RenewLane(o)
        \/ \E w \in Sightings : ObserveWorker(o, w)
        \/ ApplyExecutorJobEvent(o) \/ StopThread(o)
        \/ CompleteMergeSuccess(o) \/ FailLeasedMergeEffect(o) \/ StaleMergeEffect(o)
        \/ ReleaseUnknownMergeFence(o) \/ AdoptHeldClaims(o) \/ FinishOperation(o)
        \/ CollectLost(o) \/ CompleteEffect(o) \/ FailEffect(o) \/ DeadLetterEffect(o)
  BY DEF OperationNext
<1>2. CASE RenewLane(o)
  BY <1>2, RenewLaneImplements
<1>3. CASE \/ \E w \in Sightings : ObserveWorker(o, w)
           \/ ApplyExecutorJobEvent(o) \/ StopThread(o)
           \/ CompleteMergeSuccess(o) \/ FailLeasedMergeEffect(o) \/ StaleMergeEffect(o)
           \/ ReleaseUnknownMergeFence(o)
  <2>1. UNCHANGED <<executorLease, acquired, operations>>
    BY <1>3 DEF ObserveWorker, ApplyExecutorJobEvent, StopThread, CompleteMergeSuccess,
                FailLeasedMergeEffect, StaleMergeEffect, ReleaseUnknownMergeFence, loopVars
  <2>2. QED
    BY <2>1, UnchangedImplements
<1>4. CASE AdoptHeldClaims(o)
  <2>1. UNCHANGED <<executorLease, acquired>> /\ operations' \subseteq operations
    BY <1>4 DEF AdoptHeldClaims
  <2>2. QED
    BY <2>1, UnchangedImplements
<1>5. CASE FinishOperation(o)
  <2>1. UNCHANGED <<executorLease, acquired>>
    BY <1>5 DEF FinishOperation
  <2>2. [o EXCEPT !.phase = "ended"] \in OperationRows
    BY DEF LeaseInv, OperationRows, Phases
  <2>3. operations' \subseteq operations \cup {[o EXCEPT !.phase = "ended"]}
    BY <1>5 DEF FinishOperation
  <2>4. QED
    BY <2>1, <2>2, <2>3 DEF Implements, LeaseInv, leaseVars
<1>6. CASE CollectLost(o)
  <2>1. o.executor \in Executors
    BY DEF LeaseInv, OperationRows
  <2>2. LoseLease(o.executor) /\ Leave(o.executor)
    BY <1>6 DEF CollectLost
  <2>3. QED
    BY <2>1, <2>2, LeaveKeepsOperations DEF Implements, LeaseInv, LeaseNext
<1>7. CASE CompleteEffect(o) \/ FailEffect(o) \/ DeadLetterEffect(o)
  <2>1. UNCHANGED <<executorLease, acquired>> /\ operations' \subseteq operations
    BY <1>7 DEF CompleteEffect, FailEffect, DeadLetterEffect, Collects
  <2>2. QED
    BY <2>1, UnchangedImplements
<1>8. QED
  BY <1>1, <1>2, <1>3, <1>4, <1>5, <1>6, <1>7

\* The clock over every deadline is the lease's clock, or leaves an expired lease
\* expired.
LEMMA TickImplements ==
  ASSUME LeaseInv, Tick
  PROVE  Implements
<1>1. UNCHANGED <<acquired, operations>> /\ executorLease' = [executorLease EXCEPT !.ttl = Aged(@)]
  BY DEF Tick
<1>2. executorLease \in [owner : Owners, generation : Generations, ttl : 0 .. LeaseMs]
  BY DEF LeaseInv, LeaseTypeOK
<1>3. CASE executorLease.ttl > 0
  <2>1. LeaseTick
    BY <1>1, <1>3 DEF LeaseTick, Aged
  <2>2. QED
    BY <1>1, <2>1 DEF Implements, LeaseNext, LeaseInv
<1>4. CASE ~(executorLease.ttl > 0)
  <2>1. executorLease.ttl = 0
    BY <1>2, <1>4, LeaseAssumption
  <2>2. executorLease' = executorLease
    BY <1>1, <1>2, <2>1 DEF Aged
  <2>3. QED
    BY <1>1, <2>2 DEF Implements, LeaseInv, leaseVars
<1>5. QED
  BY <1>3, <1>4

\* Every step of the control plane implements the lease.
LEMMA StepImplements ==
  ASSUME LeaseInv, [Next]_vars
  PROVE  Implements
<1>1. CASE UNCHANGED vars
  BY <1>1, UnchangedImplements DEF vars
<1>2. QED
  BY <1>1, OwnerImplements, LoopImplements, OperationImplements, TickImplements DEF Next

\* The lease's types and the operations' generations, always.
LEMMA LeaseInvariant == Spec => []LeaseInv
<1>1. Init => LeaseInv
  BY LeaseTypeInit DEF Init, LeaseInv
<1>2. LeaseInv /\ [Next]_vars => LeaseInv'
  BY StepImplements, LeaseTypeStep DEF LeaseInv, Implements
<1>3. QED
  BY <1>1, <1>2, PTL DEF Spec

\* The control plane implements ExecutorLease: whatever the owner, the loops and
\* their operations do, the lease is only taken, renewed, lost, freed and aged as
\* its own specification says.
THEOREM ControlPlaneKeepsLease == Spec => KeepsLease
<1>1. Init => LeaseInit
  BY DEF Init
<1>2. LeaseInv /\ [Next]_vars => [LeaseNext]_leaseVars
  BY StepImplements DEF Implements
<1>3. QED
  BY <1>1, <1>2, LeaseInvariant, PTL DEF Spec, KeepsLease, LeaseSpec

\* So in the whole control plane a generation names one loop.
THEOREM ControlPlaneGenerationsNameOneLoop == Spec => []GenerationNamesOneLoop
BY ControlPlaneKeepsLease, GenerationsNameOneLoop, PTL DEF KeepsLease

-----------------------------------------------------------------------------
(* Slots.  The tables of jobs, admissions and claims, and the three invariants *)
(* that tie them together, are inductive by themselves.                        *)
JobRows == [state : JobStates, reason : BlockedReasons, resumeState : ResumeStates,
            cancelRequested : BOOLEAN, version : Versions, unsent : SUBSET Versions]
ClaimRows == [held : BOOLEAN, owner : Owners, generation : Generations, ttl : 0 .. LeaseMs]

\* The inductive invariant of the slots
SlotInv ==
    /\ AdmissionsTypeOK
    /\ job \in [Jobs -> JobRows]
    /\ claim \in [Jobs -> ClaimRows]
    /\ OccupiedIffClaimed
    /\ ActiveJobOccupiesSlot
    /\ CancelledNeverShips

\* The scheduler is told of exactly the projects that occupy a slot.
LEMMA ClaimedAreOccupied ==
  ASSUME OccupiedIffClaimed
  PROVE  ClaimedProjects = OccupiedProjects
<1>1. {k \in Jobs : claim[k].held} = Occupied
  BY DEF OccupiedIffClaimed, Occupied
<1>2. QED
  BY <1>1 DEF ClaimedProjects, OccupiedProjects

\* What the draining mark does to the slots: a step of the queue, or nothing.
LEMMA DrainedSlots ==
  ASSUME AdmissionsTypeOK, NEW j \in Jobs, NEW state,
         admission' = Drained(j, state), UNCHANGED <<nextSeq, cap, paused>>
  PROVE  /\ [AdmissionsNext]_admissionVars
         /\ \A i \in Jobs \ {j} : admission'[i] = admission[i]
         /\ \/ admission'[j].state = admission[j].state
            \/ /\ state \in ReleaseCandidates /\ admission[j].state = "admitted"
               /\ admission'[j].state = "draining"
         /\ ~(state \in ReleaseCandidates /\ admission'[j].state = "admitted")
<1>1. CASE state \in ReleaseCandidates /\ admission[j].state = "admitted"
  <2>1. MoveTo(j, "draining") /\ "draining" \in AdmissionStates
    BY <1>1 DEF Drained, MoveTo, AdmissionStates
  <2>2. Drain(j)
    BY <1>1, <2>1 DEF Drain
  <2>3. /\ admission'[j].state = "draining"
        /\ \A i \in Jobs \ {j} : admission'[i] = admission[i]
    BY <2>1, MoveToRows
  <2>4. AdmissionsNext
    BY <2>2 DEF AdmissionsNext
  <2>5. QED
    BY <1>1, <2>3, <2>4
<1>2. CASE ~(state \in ReleaseCandidates /\ admission[j].state = "admitted")
  <2>1. admission' = admission
    BY <1>2 DEF Drained
  <2>2. QED
    BY <1>2, <2>1 DEF admissionVars
<1>3. QED
  BY <1>1, <1>2

\* A step that leaves the queue alone is a stutter of it.
LEMMA QueueUnchanged ==
  ASSUME UNCHANGED <<admission, nextSeq, cap, paused>>
  PROVE  [AdmissionsNext]_admissionVars
BY DEF admissionVars

\* The owner's actions queue a job, drain it, or configure the queue.
LEMMA OwnerKeepsAdmissions ==
  ASSUME SlotInv, OwnerNext
  PROVE  [AdmissionsNext]_admissionVars
<1> USE DEF SlotInv
<1>1. ASSUME NEW j \in Jobs, QueueAdmission(j)
      PROVE  AdmissionsNext
  BY <1>1 DEF QueueAdmission, AdmissionsNext
<1>2. ASSUME NEW j \in Jobs, RequeueAdmission(j)
      PROVE  AdmissionsNext
  BY <1>2 DEF RequeueAdmission, AdmissionsNext
<1>3. ASSUME NEW j \in Jobs, RetryFailedJob(j)
      PROVE  [AdmissionsNext]_admissionVars
  <2>1. PICK m \in RetryMoves(j) : TransitionOver(effect, j, m)
    BY <1>3 DEF RetryFailedJob
  <2>2. admission' = Drained(j, m.state) /\ UNCHANGED <<nextSeq, cap, paused>>
    BY <1>3, <2>1 DEF RetryFailedJob, TransitionOver
  <2>3. QED
    BY <2>2, DrainedSlots
<1>4. ASSUME NEW j \in Jobs, AcceptApproval(j)
      PROVE  [AdmissionsNext]_admissionVars
  <2> DEFINE m == Move("merging", "none", "none", "merge", TRUE)
  <2>1. admission' = Drained(j, m.state) /\ UNCHANGED <<nextSeq, cap, paused>>
    BY <1>4 DEF AcceptApproval, TransitionOver
  <2>2. QED
    BY <2>1, DrainedSlots
<1>5. ASSUME NEW j \in Jobs, RequestCancel(j)
      PROVE  [AdmissionsNext]_admissionVars
  <2>1. admission' = admission \/ admission' = Drained(j, "cancelled")
    BY <1>5 DEF RequestCancel
  <2>2. UNCHANGED <<nextSeq, cap, paused>>
    BY <1>5 DEF RequestCancel
  <2>3. QED
    BY <2>1, <2>2, DrainedSlots, QueueUnchanged
<1>6. ASSUME ConfigureQueue
      PROVE  AdmissionsNext
  BY <1>6 DEF ConfigureQueue, AdmissionsNext
<1>7. QED
  BY <1>1, <1>2, <1>3, <1>4, <1>5, <1>6 DEF OwnerNext

\* A loop admits the job the scheduler of the queue would admit, drains what is
\* finished and releases what is drained.
LEMMA LoopKeepsAdmissions ==
  ASSUME SlotInv, LoopNext
  PROVE  [AdmissionsNext]_admissionVars
<1>1. PICK e \in Executors :
        \/ Acquire(e) \/ Heartbeat(e) \/ Lose(e) \/ Shutdown(e) \/ Crash(e)
        \/ \E j \in Jobs :
             \/ AdmitNext(e, j) \/ StartReconcile(e, j) \/ BeginDraining(e, j)
             \/ \E w \in Sightings : RefreshReleaseWorker(e, j, w)
             \/ ConfirmQueuedCancellation(e, j) \/ FinalizeRelease(e, j)
             \/ StatusMessageSent(e, j)
             \/ \E v \in Versions : SendStatus(e, j, v)
        \/ \E k \in EffectKeys : LeaseNextJobEffect(e, k)
  BY DEF LoopNext
<1>2. CASE Acquire(e) \/ Heartbeat(e) \/ Lose(e) \/ Shutdown(e) \/ Crash(e)
  BY <1>2, QueueUnchanged DEF Acquire, Heartbeat, Lose, Shutdown, Crash, durableVars
<1>3. ASSUME NEW j \in Jobs, AdmitNext(e, j)
      PROVE  AdmissionsNext
  <2>1. Admit(j)
    BY <1>3, ClaimedAreOccupied DEF AdmitNext, tryAdmit, Admit, SlotInv
  <2>2. QED
    BY <2>1 DEF AdmissionsNext
<1>4. ASSUME NEW j \in Jobs,
             \/ StartReconcile(e, j)
             \/ \E w \in Sightings : RefreshReleaseWorker(e, j, w)
             \/ ConfirmQueuedCancellation(e, j) \/ StatusMessageSent(e, j)
             \/ \E v \in Versions : SendStatus(e, j, v)
      PROVE  [AdmissionsNext]_admissionVars
  BY <1>4, QueueUnchanged DEF StartReconcile, RefreshReleaseWorker, ConfirmQueuedCancellation,
     StatusMessageSent, SendStatus, durableVars
<1>5. ASSUME NEW j \in Jobs, BeginDraining(e, j)
      PROVE  AdmissionsNext
  BY <1>5 DEF BeginDraining, AdmissionsNext
<1>6. ASSUME NEW j \in Jobs, FinalizeRelease(e, j)
      PROVE  AdmissionsNext
  BY <1>6 DEF FinalizeRelease, AdmissionsNext
<1>7. ASSUME NEW k \in EffectKeys, LeaseNextJobEffect(e, k)
      PROVE  [AdmissionsNext]_admissionVars
  BY <1>7, QueueUnchanged DEF LeaseNextJobEffect
<1>8. QED
  BY <1>1, <1>2, <1>3, <1>4, <1>5, <1>6, <1>7

\* Operations only drain, with the transition that ends their job.
LEMMA OperationKeepsAdmissions ==
  ASSUME SlotInv, LeaseInv, OperationNext
  PROVE  [AdmissionsNext]_admissionVars
<1> USE DEF SlotInv
<1>1. PICK o \in operations :
        \/ RenewLane(o)
        \/ \E w \in Sightings : ObserveWorker(o, w)
        \/ ApplyExecutorJobEvent(o) \/ StopThread(o)
        \/ CompleteMergeSuccess(o) \/ FailLeasedMergeEffect(o) \/ StaleMergeEffect(o)
        \/ ReleaseUnknownMergeFence(o) \/ AdoptHeldClaims(o) \/ FinishOperation(o)
        \/ CollectLost(o) \/ CompleteEffect(o) \/ FailEffect(o) \/ DeadLetterEffect(o)
  BY DEF OperationNext
<1>2. o.key[1] \in Jobs
  BY DEF LeaseInv, OperationRows, OperationKeys, EffectKeys, ReconcileKey
<1>3. CASE RenewLane(o) \/ (\E w \in Sightings : ObserveWorker(o, w))
           \/ FailLeasedMergeEffect(o) \/ StaleMergeEffect(o) \/ ReleaseUnknownMergeFence(o)
           \/ AdoptHeldClaims(o) \/ FinishOperation(o) \/ CollectLost(o)
           \/ CompleteEffect(o) \/ FailEffect(o) \/ DeadLetterEffect(o)
  BY <1>3, QueueUnchanged DEF RenewLane, ObserveWorker, FailLeasedMergeEffect, StaleMergeEffect,
     ReleaseUnknownMergeFence, AdoptHeldClaims, FinishOperation, CollectLost, CompleteEffect,
     FailEffect, DeadLetterEffect, durableVars
<1>4. CASE ApplyExecutorJobEvent(o) \/ StopThread(o) \/ CompleteMergeSuccess(o)
  <2>1. UNCHANGED <<nextSeq, cap, paused>>
    BY <1>4 DEF ApplyExecutorJobEvent, StopThread, CompleteMergeSuccess
  <2>2. admission' = admission \/ \E state : admission' = Drained(o.key[1], state)
    BY <1>4 DEF ApplyExecutorJobEvent, StopThread, CompleteMergeSuccess, TransitionOver, Swallow
  <2>3. QED
    BY <1>2, <2>1, <2>2, DrainedSlots, QueueUnchanged
<1>5. QED
  BY <1>1, <1>3, <1>4

\* Every step of the control plane is a step of the queue or leaves it alone.
LEMMA StepKeepsAdmissions ==
  ASSUME SlotInv, LeaseInv, [Next]_vars
  PROVE  [AdmissionsNext]_admissionVars
<1>1. CASE UNCHANGED vars
  BY <1>1, QueueUnchanged DEF vars
<1>2. CASE Tick
  BY <1>2, QueueUnchanged DEF Tick
<1>3. QED
  BY <1>1, <1>2, OwnerKeepsAdmissions, LoopKeepsAdmissions, OperationKeepsAdmissions DEF Next

-----------------------------------------------------------------------------
(* What a step does to a job.  Every move of the state machine, whoever makes  *)
(* it, writes one job row, that fits the slot the job has after the step, and  *)
(* at most one effect row, over rows of which at most one has been settled.    *)
EffectRows == [kind : EffectKinds, status : EffectStatus, owner : Owners,
               generation : Generations, ttl : 0 .. LeaseMs]
\* A job in these states is at work; rows of these kinds need its slot.
Active == {"working", "merging", "production"}
RunnableKinds == MergeKinds \cup {"production"}
MoveRows == [state : JobStates, reason : BlockedReasons, resumeState : ResumeStates,
             kind : EffectKinds, status : BOOLEAN]

\* What a slot asks of the job that has it
Fits(row, slot) ==
    /\ row.state \in Active => slot = "admitted"
    /\ slot = "draining" => row.state \in ReleaseCandidates
    /\ row.cancelRequested => row.state \notin {"production", "closed"}

\* One leased row ends or waits again, and keeps its kind.
SettlesOne(rows, k, row) ==
    /\ IsLeased(k)
    /\ row \in EffectRows
    /\ row.status \in {"pending", "done", "dead"} /\ row.generation = 0 /\ row.ttl = 0
    /\ row.kind = effect[k].kind \/ {row.kind, effect[k].kind} \subseteq MergeKinds
    /\ rows = [effect EXCEPT ![k] = row]

Settles(rows) == rows = effect \/ \E k \in EffectKeys, row \in EffectRows : SettlesOne(rows, k, row)

\* One job moves to the row r, over the effects rows, and emits one of the kind.
Moved(j, r, kind, rows) ==
    /\ r \in JobRows
    /\ job' = [job EXCEPT ![j] = r]
    /\ r.version = job[j].version \/ r.version = job[j].version + 1
    /\ Fits(r, admission'[j].state)
    /\ \A i \in Jobs \ {j} : admission'[i] = admission[i]
    /\ admission'[j].state = "released" => admission[j].state = "released"
    /\ kind \in EffectKinds
    /\ kind # "none" => r.version = job[j].version + 1
    /\ kind \in RunnableKinds => admission'[j].state = "admitted"
    /\ Settles(rows)
    /\ effect' = Emit(rows, j, job[j].version + 1, kind)

\* SlotInv in terms of Fits.
LEMMA SlotsFit ==
  ASSUME ActiveJobOccupiesSlot, CancelledNeverShips, NEW j \in Jobs
  PROVE  Fits(job[j], admission[j].state)
BY DEF ActiveJobOccupiesSlot, CancelledNeverShips, Fits, Active, isReleaseCandidate

\* The row of a job at its next version.
LEMMA BumpedRow ==
  ASSUME job \in [Jobs -> JobRows], NEW j \in Jobs, NEW status \in BOOLEAN,
         NEW n \in Nat \ {0}, Room(j, n)
  PROVE  /\ Bumped(j, status) \in JobRows
         /\ Bumped(j, status).version = job[j].version + 1
         /\ Bumped(j, status).state = job[j].state
         /\ Bumped(j, status).cancelRequested = job[j].cancelRequested
<1>1. job[j] \in JobRows
  OBVIOUS
<1>2. job[j].version \in Versions /\ job[j].version + 1 \in Versions
  BY <1>1, ControlPlaneAssumption DEF Room, Versions, JobRows
<1>3. (IF status THEN job[j].unsent \cup {job[j].version + 1} ELSE job[j].unsent) \in SUBSET Versions
  BY <1>1, <1>2 DEF JobRows
<1>4. QED
  BY <1>1, <1>2, <1>3 DEF Bumped, JobRows

\* The row of a job after a move.
LEMMA AfterRow ==
  ASSUME job \in [Jobs -> JobRows], NEW j \in Jobs, NEW m \in MoveRows, RoomFor(j, m)
  PROVE  /\ After(j, m) \in JobRows
         /\ After(j, m).version = job[j].version + 1
         /\ After(j, m).state = m.state
         /\ After(j, m).cancelRequested = job[j].cancelRequested
<1> DEFINE n == CASE m.state \in {"working", "merging"} -> 1 + Reserve
                  [] m.state = "production" -> 2
                  [] OTHER -> 1
<1>1. n \in Nat \ {0}
  BY ControlPlaneAssumption
<1>2. Room(j, n)
  BY DEF RoomFor
<1>3. m.status \in BOOLEAN
  BY DEF MoveRows
<1>4. /\ Bumped(j, m.status) \in JobRows
      /\ Bumped(j, m.status).version = job[j].version + 1
      /\ Bumped(j, m.status).cancelRequested = job[j].cancelRequested
  <2> HIDE DEF n
  <2> QED
    BY <1>1, <1>2, <1>3, BumpedRow
<1>5. m.state \in JobStates /\ m.reason \in BlockedReasons /\ m.resumeState \in ResumeStates
  BY DEF MoveRows
<1>6. QED
  BY <1>4, <1>5 DEF After, JobRows

\* A move the job's slot allows.
May(j, m) ==
    /\ m \in MoveRows
    /\ m.state \in Active => admission[j].state = "admitted"
    /\ admission[j].state = "draining" => m.state \in ReleaseCandidates
    /\ job[j].cancelRequested => m.state \notin {"production", "closed"}
    /\ m.kind \in RunnableKinds => m.state \in Active

\* persistJobTransition moves a job within its slot, with the draining mark or
\* without it.
LEMMA AdvanceMoves ==
  ASSUME SlotInv, NEW j \in Jobs, NEW m, May(j, m), NEW rows, Settles(rows),
         Advance(rows, j, m),
         admission' = admission \/ admission' = Drained(j, m.state),
         UNCHANGED <<nextSeq, cap, paused>>
  PROVE  \E r \in JobRows, kind \in EffectKinds : Moved(j, r, kind, rows)
<1> DEFINE r == After(j, m)
<1>1. m \in MoveRows /\ RoomFor(j, m) /\ job \in [Jobs -> JobRows]
  BY DEF May, Advance, SlotInv
<1>2. /\ r \in JobRows
      /\ r.version = job[j].version + 1
      /\ r.state = m.state
      /\ r.cancelRequested = job[j].cancelRequested
  BY <1>1, AfterRow
<1>3. /\ job' = [job EXCEPT ![j] = r]
      /\ effect' = Emit(rows, j, job[j].version + 1, m.kind)
  BY DEF Advance
<1> HIDE DEF r
<1>4. /\ \A i \in Jobs \ {j} : admission'[i] = admission[i]
      /\ \/ admission'[j].state = admission[j].state
         \/ m.state \in ReleaseCandidates /\ admission'[j].state = "draining"
  BY DrainedSlots DEF SlotInv
<1>5. m.kind \in EffectKinds
  BY <1>1 DEF MoveRows
<1>6. m.state \in Active => m.state \notin ReleaseCandidates
  BY DEF Active, ReleaseCandidates
<1>7. Fits(r, admission'[j].state)
  BY <1>2, <1>4, <1>6 DEF Fits, May
<1>8. m.kind \in RunnableKinds => admission'[j].state = "admitted"
  BY <1>4, <1>6 DEF May
<1>9. admission'[j].state = "released" => admission[j].state = "released"
  BY <1>4
<1>10. Moved(j, r, m.kind, rows)
  BY <1>2, <1>3, <1>4, <1>5, <1>7, <1>8, <1>9 DEF Moved
<1>11. QED
  BY <1>2, <1>5, <1>10

\* Some job moves; or else the slots fit the jobs as they are, and none is freed.
JobMoves ==
    \E j \in Jobs, r \in JobRows, kind \in EffectKinds : \E rows : Moved(j, r, kind, rows)
SlotsStillFit == \A i \in Jobs : Fits(job[i], admission'[i].state)
NothingReleased == \A i \in Jobs : admission'[i].state = "released" => admission[i].state = "released"

\* Every step moves a job, or leaves the jobs alone and touches effect rows in
\* one of these ways.
StepCases ==
    \/ JobMoves
    \/ /\ job' = job /\ SlotsStillFit
       /\ \/ NothingReleased /\ Settles(effect')
          \/ \E e \in Executors, k \in EffectKeys : LeaseNextJobEffect(e, k)
          \/ \E e \in Executors, j \in Jobs : FinalizeRelease(e, j)
          \/ Tick
          \/ \E o \in operations : RenewLane(o)

\* A step of the queue that occupies no slot, and no job changed: the slots fit.
LEMMA UntouchedCases ==
  ASSUME SlotInv, UNCHANGED <<job, admission>>
  PROVE  SlotsStillFit /\ NothingReleased
BY SlotsFit DEF SlotInv, SlotsStillFit, NothingReleased

\* A transition of job j with its draining mark.
LEMMA TransitionMoves ==
  ASSUME SlotInv, NEW j \in Jobs, NEW m, May(j, m), NEW rows, Settles(rows),
         TransitionOver(rows, j, m), UNCHANGED <<nextSeq, cap, paused>>
  PROVE  JobMoves
<1>1. Advance(rows, j, m) /\ admission' = Drained(j, m.state)
  BY DEF TransitionOver
<1>2. QED
  BY <1>1, AdvanceMoves DEF JobMoves

\* A transition of job j that leaves its admission to the release pass.
LEMMA AdvanceOnlyMoves ==
  ASSUME SlotInv, NEW j \in Jobs, NEW m, May(j, m), NEW rows, Settles(rows),
         Advance(rows, j, m), UNCHANGED <<admission, nextSeq, cap, paused>>
  PROVE  JobMoves
BY AdvanceMoves DEF JobMoves

\* A job row rewritten in its state, its slot and the effect rows left alone.
LEMMA RewrittenMoves ==
  ASSUME SlotInv, NEW j \in Jobs, NEW r \in JobRows,
         job' = [job EXCEPT ![j] = r],
         r.version = job[j].version \/ r.version = job[j].version + 1,
         r.state = job[j].state, r.cancelRequested = job[j].cancelRequested,
         UNCHANGED <<admission, effect>>
  PROVE  JobMoves
<1>1. Fits(job[j], admission[j].state)
  BY SlotsFit DEF SlotInv
<1>2. Fits(r, admission'[j].state)
  BY <1>1 DEF Fits
<1>3. effect' = Emit(effect, j, job[j].version + 1, "none") /\ Settles(effect)
  BY DEF Emit, Settles
<1>4. "none" \in EffectKinds /\ "none" \notin RunnableKinds
  BY DEF EffectKinds, RunnableKinds, MergeKinds
<1>5. Moved(j, r, "none", effect)
  BY <1>2, <1>3, <1>4 DEF Moved
<1>6. QED
  BY <1>4, <1>5 DEF JobMoves

\* An event swallowed by a requested cancellation.
LEMMA SwallowMoves ==
  ASSUME SlotInv, NEW j \in Jobs, NEW n \in Nat \ {0}, Room(j, n),
         job' = [job EXCEPT ![j] = Bumped(j, FALSE)], UNCHANGED <<admission, effect>>
  PROVE  JobMoves
BY BumpedRow, RewrittenMoves DEF SlotInv

\* The moves of the state machine have the shape of moves.
LEMMA MoveShapes ==
  ASSUME job \in [Jobs -> JobRows], NEW j \in Jobs
  PROVE  /\ NextStage \in MoveRows /\ Close \in MoveRows /\ NextProduction \in MoveRows
         /\ Cancel(j) \in MoveRows
         /\ \A reason \in BlockedReasons : Block(reason) \in MoveRows
         /\ job[j].state \in {"working", "merging"} => Fail(j) \in MoveRows
         /\ \A status \in BOOLEAN : Move("working", "none", "none", "stage", status) \in MoveRows
         /\ \A kind \in MergeKinds, status \in BOOLEAN :
              Move("merging", "none", "none", kind, status) \in MoveRows
<1> USE DEF MoveRows, Move, JobStates, BlockedReasons, ResumeStates, EffectKinds, MergeKinds
<1>1. job[j].resumeState \in ResumeStates
  BY DEF JobRows
<1>2. QED
  BY <1>1 DEF NextStage, Close, NextProduction, Cancel, Block, Fail

\* The owner's actions.
LEMMA OwnerCases ==
  ASSUME SlotInv, OwnerNext
  PROVE  StepCases
<1> USE DEF SlotInv
<1>1. ASSUME NEW j \in Jobs, NEW resumeEvent \in ResumeEvents, Enqueue(j, resumeEvent),
             admission[j].state \in {"none", "released"}, UNCHANGED <<job, effect>>
      PROVE  StepCases
  <2>1. /\ admission'[j] = [state |-> "queued", seq |-> nextSeq, resumeEvent |-> resumeEvent]
        /\ \A i \in Jobs \ {j} : admission'[i] = admission[i]
    BY <1>1, EnqueueRows
  <2>2. admission'[j].state = "queued"
    BY <2>1
  <2>3. \A i \in Jobs : Fits(job[i], admission[i].state)
    BY SlotsFit
  <2>4. Fits(job[j], "queued")
    BY <1>1, <2>3 DEF Fits
  <2>5. SlotsStillFit /\ NothingReleased
    BY <2>1, <2>2, <2>3, <2>4 DEF SlotsStillFit, NothingReleased
  <2>6. QED
    BY <1>1, <2>5 DEF StepCases, Settles
<1>2. ASSUME NEW j \in Jobs, QueueAdmission(j) \/ RequeueAdmission(j)
      PROVE  StepCases
  <2>1. \E resumeEvent \in ResumeEvents :
          Enqueue(j, resumeEvent) /\ admission[j].state \in {"none", "released"}
    BY <1>2 DEF QueueAdmission, RequeueAdmission, Queue, Requeue, ResumeEvents
  <2>2. UNCHANGED <<job, effect>>
    BY <1>2 DEF QueueAdmission, RequeueAdmission
  <2>3. QED
    BY <1>1, <2>1, <2>2
<1>3. ASSUME NEW j \in Jobs, RetryFailedJob(j)
      PROVE  StepCases
  <2>1. PICK m \in RetryMoves(j) : TransitionOver(effect, j, m)
    BY <1>3 DEF RetryFailedJob
  <2>2. admission[j].state = "admitted" /\ UNCHANGED <<nextSeq, cap, paused>>
    BY <1>3 DEF RetryFailedJob
  <2>3. m = NextStage \/ m = Move("merging", "none", "none", "unapproved_merge", FALSE)
    BY <2>1 DEF RetryMoves
  <2>4. m \in MoveRows
    BY <2>3, MoveShapes DEF MergeKinds
  <2>5. May(j, m)
    BY <2>2, <2>3, <2>4 DEF May, NextStage, Move, Active
  <2>6. QED
    BY <2>1, <2>2, <2>5, TransitionMoves DEF StepCases, Settles
<1>4. ASSUME NEW j \in Jobs, AcceptApproval(j)
      PROVE  StepCases
  <2> DEFINE m == Move("merging", "none", "none", "merge", TRUE)
  <2>1. job[j].state = "working" /\ TransitionOver(effect, j, m) /\ UNCHANGED <<nextSeq, cap, paused>>
    BY <1>4 DEF AcceptApproval
  <2>2. admission[j].state = "admitted"
    BY <2>1 DEF ActiveJobOccupiesSlot
  <2>3. m \in MoveRows
    BY MoveShapes DEF MergeKinds
  <2>4. May(j, m)
    BY <2>2, <2>3 DEF May, Move, Active
  <2> HIDE DEF m
  <2>5. QED
    BY <2>1, <2>4, TransitionMoves DEF StepCases, Settles
<1>5. ASSUME NEW j \in Jobs, RequestCancel(j)
      PROVE  StepCases
  <2>1. /\ job[j].state \notin {"cancelled", "production", "closed"}
        /\ UNCHANGED <<nextSeq, cap, paused>>
    BY <1>5 DEF RequestCancel
  <2>2. Fits(job[j], admission[j].state)
    BY SlotsFit
  <2>3. CASE /\ Room(j, 2)
             /\ job' = [job EXCEPT ![j] = [Bumped(j, ~job[j].cancelRequested) EXCEPT
                                               !.cancelRequested = TRUE]]
             /\ effect' = IF worker[j] = "active" /\ ~job[j].cancelRequested
                            THEN Emit(effect, j, job[j].version + 1, "stop_thread")
                            ELSE effect
             /\ UNCHANGED admission
    <3> DEFINE asked == ~job[j].cancelRequested
               row == Bumped(j, asked)
               r == [row EXCEPT !.cancelRequested = TRUE]
               kind == IF worker[j] = "active" /\ ~job[j].cancelRequested THEN "stop_thread" ELSE "none"
    <3>1. asked \in BOOLEAN /\ 2 \in Nat \ {0}
      OBVIOUS
    <3>2. row \in JobRows /\ row.version = job[j].version + 1 /\ row.state = job[j].state
      <4> HIDE DEF asked
      <4> QED
        BY <2>3, <3>1, BumpedRow
    <3> HIDE DEF row
    <3>3. r \in JobRows /\ r.version = job[j].version + 1 /\ r.state = job[j].state
      BY <3>2 DEF JobRows
    <3>4. job' = [job EXCEPT ![j] = r]
      BY <2>3 DEF row
    <3> HIDE DEF r, asked
    <3>5. kind \in EffectKinds /\ kind \notin RunnableKinds
      BY DEF EffectKinds, RunnableKinds, MergeKinds
    <3>6. effect' = Emit(effect, j, job[j].version + 1, kind)
      BY <2>3 DEF Emit
    <3> HIDE DEF kind
    <3>7. Fits(r, admission'[j].state)
      BY <2>1, <2>2, <2>3, <3>3 DEF Fits
    <3>8. Moved(j, r, kind, effect)
      BY <2>3, <3>3, <3>4, <3>5, <3>6, <3>7 DEF Moved, Settles
    <3>9. QED
      BY <3>3, <3>5, <3>8 DEF StepCases, JobMoves
  <2>4. CASE /\ Room(j, 1)
             /\ job' = [job EXCEPT ![j] = [After(j, Cancel(j)) EXCEPT !.cancelRequested = TRUE]]
             /\ admission' = Drained(j, "cancelled")
             /\ UNCHANGED effect
    <3> DEFINE row == After(j, Cancel(j))
               r == [row EXCEPT !.cancelRequested = TRUE]
    <3>1. Cancel(j) \in MoveRows /\ Cancel(j).state = "cancelled"
      BY MoveShapes DEF Cancel, Move
    <3>2. RoomFor(j, Cancel(j))
      BY <2>4, <3>1 DEF RoomFor
    <3>3. row \in JobRows /\ row.version = job[j].version + 1 /\ row.state = "cancelled"
      BY <3>1, <3>2, AfterRow
    <3> HIDE DEF row
    <3>4. r \in JobRows /\ r.version = job[j].version + 1 /\ r.state = "cancelled"
      BY <3>3 DEF JobRows
    <3>5. job' = [job EXCEPT ![j] = r]
      BY <2>4 DEF row
    <3> HIDE DEF r
    <3>6. /\ \A i \in Jobs \ {j} : admission'[i] = admission[i]
          /\ admission'[j].state = "released" => admission[j].state = "released"
      BY <2>1, <2>4, DrainedSlots
    <3>7. Fits(r, admission'[j].state)
      BY <3>4 DEF Fits, Active, ReleaseCandidates
    <3>8. effect' = Emit(effect, j, job[j].version + 1, "none")
      BY <2>4 DEF Emit
    <3>9. "none" \in EffectKinds /\ "none" \notin RunnableKinds
      BY DEF EffectKinds, RunnableKinds, MergeKinds
    <3>10. Moved(j, r, "none", effect)
      BY <3>4, <3>5, <3>6, <3>7, <3>8, <3>9 DEF Moved, Settles
    <3>11. QED
      BY <3>4, <3>9, <3>10 DEF StepCases, JobMoves
  <2>5. QED
    BY <1>5, <2>3, <2>4 DEF RequestCancel
<1>6. ASSUME ConfigureQueue
      PROVE  StepCases
  <2>1. UNCHANGED <<job, admission, effect>>
    BY <1>6 DEF ConfigureQueue, ConfigureCap, SetPaused
  <2>2. QED
    BY <2>1, UntouchedCases DEF StepCases, Settles
<1>7. QED
  BY <1>2, <1>3, <1>4, <1>5, <1>6 DEF OwnerNext

\* The loop's own actions.
LEMMA LoopCases ==
  ASSUME SlotInv, LoopNext
  PROVE  StepCases
<1> USE DEF SlotInv
<1>1. PICK e \in Executors :
        \/ Acquire(e) \/ Heartbeat(e) \/ Lose(e) \/ Shutdown(e) \/ Crash(e)
        \/ \E j \in Jobs :
             \/ AdmitNext(e, j) \/ StartReconcile(e, j) \/ BeginDraining(e, j)
             \/ \E w \in Sightings : RefreshReleaseWorker(e, j, w)
             \/ ConfirmQueuedCancellation(e, j) \/ FinalizeRelease(e, j)
             \/ StatusMessageSent(e, j)
             \/ \E v \in Versions : SendStatus(e, j, v)
        \/ \E k \in EffectKeys : LeaseNextJobEffect(e, k)
  BY DEF LoopNext
<1>2. ASSUME UNCHANGED <<job, admission, effect>>
      PROVE  StepCases
  BY <1>2, UntouchedCases DEF StepCases, Settles
<1>3. CASE Acquire(e) \/ Heartbeat(e) \/ Lose(e) \/ Shutdown(e) \/ Crash(e)
  BY <1>2, <1>3 DEF Acquire, Heartbeat, Lose, Shutdown, Crash, durableVars
<1>4. ASSUME NEW j \in Jobs, AdmitNext(e, j)
      PROVE  StepCases
  <2>1. /\ ~job[j].cancelRequested
        /\ CanResume(j, admission[j].resumeEvent)
        /\ MoveTo(j, "admitted") /\ "admitted" \in AdmissionStates
    BY <1>4 DEF AdmitNext, tryAdmit, AdmissionStates
  <2>2. PICK m \in ResumeMoves(j, admission[j].resumeEvent) : Advance(effect, j, m)
    BY <1>4 DEF AdmitNext, tryAdmit
  <2>3. admission[j].resumeEvent \in ResumeEvents
    BY DEF AdmissionsTypeOK
  <2>4. m = NextStage \/ m = Close \/ m = Move("merging", "none", "none", "unapproved_merge", FALSE)
    BY <2>2, <2>3 DEF ResumeMoves, RetryMoves, ResumeEvents
  <2>5. m \in MoveRows
    BY <2>4, MoveShapes DEF MergeKinds
  <2>6. RoomFor(j, m)
    BY <2>2 DEF Advance
  <2> DEFINE r == After(j, m)
  <2>7. /\ r \in JobRows /\ r.version = job[j].version + 1 /\ r.state = m.state
        /\ r.cancelRequested = job[j].cancelRequested
    BY <2>5, <2>6, AfterRow
  <2>8. /\ job' = [job EXCEPT ![j] = r]
        /\ effect' = Emit(effect, j, job[j].version + 1, m.kind)
    BY <2>2 DEF Advance
  <2> HIDE DEF r
  <2>9. /\ admission'[j].state = "admitted"
        /\ \A i \in Jobs \ {j} : admission'[i] = admission[i]
    BY <2>1, MoveToRows
  <2>10. Fits(r, admission'[j].state)
    BY <2>1, <2>7, <2>9 DEF Fits
  <2>11. m.kind \in EffectKinds
    BY <2>5 DEF MoveRows
  <2>12. Moved(j, r, m.kind, effect)
    BY <2>7, <2>8, <2>9, <2>10, <2>11 DEF Moved, Settles
  <2>13. QED
    BY <2>7, <2>11, <2>12 DEF StepCases, JobMoves
<1>5. ASSUME NEW j \in Jobs,
             StartReconcile(e, j) \/ \E w \in Sightings : RefreshReleaseWorker(e, j, w)
      PROVE  StepCases
  BY <1>2, <1>5 DEF StartReconcile, RefreshReleaseWorker, durableVars
<1>6. ASSUME NEW j \in Jobs, NEW state \in {"draining", "released"}, MoveTo(j, state),
             job[j].state \notin Active, state = "draining" => job[j].state \in ReleaseCandidates
      PROVE  SlotsStillFit /\ (state = "draining" => NothingReleased)
  <2>1. /\ admission'[j].state = state
        /\ \A i \in Jobs \ {j} : admission'[i] = admission[i]
    BY <1>6, MoveToRows DEF AdmissionStates
  <2>2. \A i \in Jobs : Fits(job[i], admission[i].state)
    BY SlotsFit
  <2>3. Fits(job[j], state)
    BY <1>6, <2>2 DEF Fits
  <2>4. QED
    BY <2>1, <2>2, <2>3 DEF SlotsStillFit, NothingReleased
<1>7. ASSUME NEW j \in Jobs, BeginDraining(e, j)
      PROVE  StepCases
  <2>1. /\ MoveTo(j, "draining") /\ admission[j].state = "admitted"
        /\ UNCHANGED <<job, effect>>
    BY <1>7 DEF BeginDraining, Drain
  <2>2. job[j].state \in ReleaseCandidates
    BY <1>7, <2>1 DEF BeginDraining, ReleaseCandidate, QueuedCancellation, isReleaseCandidate
  <2>3. job[j].state \notin Active
    BY <2>2 DEF Active, ReleaseCandidates
  <2>4. QED
    BY <1>6, <2>1, <2>2, <2>3 DEF StepCases, Settles
<1>8. ASSUME NEW j \in Jobs, ConfirmQueuedCancellation(e, j)
      PROVE  StepCases
  <2>1. Advance(effect, j, Cancel(j)) /\ UNCHANGED <<admission, nextSeq, cap, paused>>
    BY <1>8 DEF ConfirmQueuedCancellation
  <2>2. Cancel(j) \in MoveRows
    BY MoveShapes
  <2>3. May(j, Cancel(j))
    BY <2>2 DEF May, Cancel, Move, Active, ReleaseCandidates, RunnableKinds, MergeKinds
  <2>4. QED
    BY <2>1, <2>3, AdvanceOnlyMoves DEF StepCases, Settles
<1>9. ASSUME NEW j \in Jobs, FinalizeRelease(e, j)
      PROVE  StepCases
  <2>1. /\ MoveTo(j, "released") /\ admission[j].state \in {"queued", "draining"}
        /\ UNCHANGED job
    BY <1>9 DEF FinalizeRelease, Release
  <2>2. Fits(job[j], admission[j].state)
    BY SlotsFit
  <2>3. job[j].state \notin Active
    BY <2>1, <2>2 DEF Fits
  <2>4. SlotsStillFit
    BY <1>6, <2>1, <2>3
  <2>5. QED
    BY <1>9, <2>1, <2>4 DEF StepCases
<1>10. ASSUME NEW j \in Jobs, StatusMessageSent(e, j)
       PROVE  StepCases
  <2>1. Room(j, 2) /\ job' = [job EXCEPT ![j] = Bumped(j, FALSE)] /\ UNCHANGED <<admission, effect>>
    BY <1>10 DEF StatusMessageSent
  <2>2. 2 \in Nat \ {0}
    OBVIOUS
  <2>3. QED
    BY <2>1, <2>2, SwallowMoves DEF StepCases
<1>11. ASSUME NEW j \in Jobs, NEW v \in Versions, SendStatus(e, j, v)
       PROVE  StepCases
  <2> DEFINE r == [job[j] EXCEPT !.unsent = @ \ {v}]
  <2>1. job' = [job EXCEPT ![j] = r] /\ UNCHANGED <<admission, effect>>
    BY <1>11 DEF SendStatus
  <2>2. job[j] \in JobRows
    OBVIOUS
  <2>3. /\ r \in JobRows /\ r.version = job[j].version
        /\ r.state = job[j].state /\ r.cancelRequested = job[j].cancelRequested
    BY <2>2 DEF JobRows
  <2> HIDE DEF r
  <2>4. QED
    BY <2>1, <2>3, RewrittenMoves DEF StepCases
<1>12. ASSUME NEW k \in EffectKeys, LeaseNextJobEffect(e, k)
       PROVE  StepCases
  BY <1>12, UntouchedCases DEF LeaseNextJobEffect, StepCases
<1>13. QED
  BY <1>1, <1>3, <1>4, <1>5, <1>7, <1>8, <1>9, <1>10, <1>11, <1>12

\* The key of an operation that is not a reconciliation is an effect's.
LEMMA OperationKey ==
  ASSUME LeaseInv, NEW o \in operations
  PROVE  /\ o.key[1] \in Jobs
         /\ IsReconcile(o) \/ o.key \in EffectKeys
         /\ o.executor \in Executors /\ o.generation \in Generations \ {0} /\ o.phase \in Phases
<1>1. o \in OperationRows
  BY DEF LeaseInv
<1>2. QED
  BY <1>1 DEF OperationRows, OperationKeys, EffectKeys, ReconcileKey, IsReconcile

\* An operation settles at most the row it holds.
LEMMA SettledRow ==
  ASSUME LeaseInv, effect \in [EffectKeys -> EffectRows], NEW o \in operations,
         HoldsItsEffect(o), NEW status \in {"pending", "done", "dead"}
  PROVE  Settles(RowAs(o, Unleased(effect[o.key], status)))
<1>1. o.key \in EffectKeys /\ IsLeased(o.key)
  BY OperationKey DEF HoldsItsEffect, HoldsEffect
<1> DEFINE row == Unleased(effect[o.key], status)
<1>2. effect[o.key] \in EffectRows
  BY <1>1
<1>3. NoExecutor \in Owners /\ 0 \in Generations /\ 0 \in 0 .. LeaseMs /\ status \in EffectStatus
  BY LeaseAssumption DEF Owners, Generations, EffectStatus
<1>4. /\ row \in EffectRows /\ row.status = status /\ row.kind = effect[o.key].kind
      /\ row.generation = 0 /\ row.ttl = 0
  BY <1>2, <1>3 DEF Unleased, EffectRows
<1>5. RowAs(o, row) = [effect EXCEPT ![o.key] = row]
  BY DEF RowAs
<1> HIDE DEF row
<1>6. SettlesOne(RowAs(o, row), o.key, row)
  BY <1>1, <1>4, <1>5 DEF SettlesOne
<1>7. QED
  BY <1>1, <1>4, <1>6 DEF Settles, row

\* ... and a failed merge leaves it open without the approval.
LEMMA StrippedRow ==
  ASSUME LeaseInv, effect \in [EffectKeys -> EffectRows], NEW o \in operations, HoldsMerge(o)
  PROVE  Settles(RowAs(o, [Unleased(effect[o.key], "pending") EXCEPT !.kind = "unapproved_merge"]))
<1>1. o.key \in EffectKeys /\ IsLeased(o.key) /\ effect[o.key].kind = "merge"
  BY OperationKey DEF HoldsMerge, HoldsItsEffect, HoldsEffect, KindOf
<1> DEFINE row == [Unleased(effect[o.key], "pending") EXCEPT !.kind = "unapproved_merge"]
<1>2. effect[o.key] \in EffectRows
  BY <1>1
<1>3. NoExecutor \in Owners /\ 0 \in Generations /\ 0 \in 0 .. LeaseMs /\ "pending" \in EffectStatus
      /\ "unapproved_merge" \in EffectKinds
  BY LeaseAssumption DEF Owners, Generations, EffectStatus, EffectKinds, MergeKinds
<1>4. /\ row \in EffectRows /\ row.status = "pending" /\ row.kind = "unapproved_merge"
      /\ row.generation = 0 /\ row.ttl = 0
  BY <1>2, <1>3 DEF Unleased, EffectRows
<1>5. RowAs(o, row) = [effect EXCEPT ![o.key] = row]
  BY DEF RowAs
<1> HIDE DEF row
<1>6. SettlesOne(RowAs(o, row), o.key, row)
  BY <1>1, <1>4, <1>5 DEF SettlesOne, MergeKinds
<1>7. QED
  BY <1>1, <1>4, <1>6 DEF Settles, row

\* Running operations and their collection.
LEMMA OperationCases ==
  ASSUME SlotInv, LeaseInv, effect \in [EffectKeys -> EffectRows], OperationNext
  PROVE  StepCases
<1> USE DEF SlotInv
<1>1. PICK o \in operations :
        \/ RenewLane(o)
        \/ \E w \in Sightings : ObserveWorker(o, w)
        \/ ApplyExecutorJobEvent(o) \/ StopThread(o)
        \/ CompleteMergeSuccess(o) \/ FailLeasedMergeEffect(o) \/ StaleMergeEffect(o)
        \/ ReleaseUnknownMergeFence(o) \/ AdoptHeldClaims(o) \/ FinishOperation(o)
        \/ CollectLost(o) \/ CompleteEffect(o) \/ FailEffect(o) \/ DeadLetterEffect(o)
  BY DEF OperationNext
<1> DEFINE j == o.key[1]
<1>2. j \in Jobs
  BY OperationKey
<1> HIDE DEF j
<1>3. ASSUME UNCHANGED <<job, admission>>, Settles(effect')
      PROVE  StepCases
  BY <1>3, UntouchedCases DEF StepCases
<1>4. Settles(effect)
  BY DEF Settles
<1>5. Fits(job[j], admission[j].state)
  BY <1>2, SlotsFit
<1>6. CASE RenewLane(o)
  BY <1>6, UntouchedCases DEF RenewLane, StepCases
<1>7. CASE (\E w \in Sightings : ObserveWorker(o, w)) \/ AdoptHeldClaims(o)
           \/ FinishOperation(o) \/ CollectLost(o)
  BY <1>3, <1>4, <1>7 DEF ObserveWorker, AdoptHeldClaims, FinishOperation, CollectLost, durableVars
<1>8. CASE ApplyExecutorJobEvent(o)
  <2>1. /\ job[j].state \in {"working", "production"}
        /\ UNCHANGED <<nextSeq, cap, paused>>
        /\ job[j].cancelRequested => Swallow(j)
        /\ ~job[j].cancelRequested =>
             \E m \in IF job[j].state = "working" THEN StageMoves(j) ELSE ProductionMoves :
                TransitionOver(effect, j, m)
    BY <1>8 DEF ApplyExecutorJobEvent, j
  <2>2. CASE job[j].cancelRequested
    <3>1. Swallow(j) /\ 2 \in Nat \ {0}
      BY <2>1, <2>2
    <3>2. JobMoves
      BY <1>2, <3>1, SwallowMoves DEF Swallow
    <3>3. QED
      BY <3>2 DEF StepCases
  <2>3. CASE ~job[j].cancelRequested
    <3>1. PICK m \in IF job[j].state = "working" THEN StageMoves(j) ELSE ProductionMoves :
            TransitionOver(effect, j, m)
      BY <2>1, <2>3
    <3>2. admission[j].state = "admitted"
      BY <1>5, <2>1 DEF Fits, Active
    <3>3. m \in MoveRows
      <4>1. CASE job[j].state = "working"
        BY <1>2, <3>1, <4>1, MoveShapes DEF StageMoves, BlockedReasons
      <4>2. CASE job[j].state # "working"
        BY <1>2, <3>1, <4>2, MoveShapes DEF ProductionMoves
      <4>3. QED
        BY <4>1, <4>2
    <3>4. May(j, m)
      <4>1. m.kind \in RunnableKinds => m.state \in Active
        BY <3>1 DEF StageMoves, ProductionMoves, NextStage, Fail, Block, Close, NextProduction,
                    Move, RunnableKinds, MergeKinds, Active
      <4>2. QED
        BY <2>3, <3>2, <3>3, <4>1 DEF May
    <3>5. JobMoves
      BY <1>2, <1>4, <2>1, <3>1, <3>4, TransitionMoves
    <3>6. QED
      BY <3>5 DEF StepCases
  <2>4. QED
    BY <2>2, <2>3
<1>9. CASE StopThread(o)
  <2> DEFINE m == IF worker[j] = "settled" THEN Cancel(j) ELSE Block("cancellation_unconfirmed")
  <2>1. TransitionOver(effect, j, m) /\ UNCHANGED <<nextSeq, cap, paused>>
    BY <1>9 DEF StopThread, j
  <2>2. m \in MoveRows
    BY <1>2, MoveShapes DEF BlockedReasons
  <2>3. May(j, m)
    BY <2>2 DEF May, Cancel, Block, Move, Active, ReleaseCandidates, RunnableKinds, MergeKinds
  <2> HIDE DEF m
  <2>4. QED
    BY <1>2, <1>4, <2>1, <2>3, TransitionMoves DEF StepCases
<1>10. ASSUME NEW m, NEW rows, May(j, m), Settles(rows), Advance(rows, j, m),
              UNCHANGED <<admission, nextSeq, cap, paused>>
       PROVE  StepCases
  BY <1>2, <1>10, AdvanceOnlyMoves DEF StepCases
<1>11. /\ May(j, Cancel(j)) /\ (~job[j].cancelRequested => May(j, Close))
       /\ (job[j].state = "merging" => May(j, Fail(j)))
       /\ (job[j].state = "merging" => May(j, Move("working", "none", "none", "stage", TRUE)))
       /\ (job[j].state \in Active /\ ~job[j].cancelRequested => May(j, NextProduction))
  <2>1. /\ Cancel(j) \in MoveRows /\ Close \in MoveRows /\ NextProduction \in MoveRows
        /\ Move("working", "none", "none", "stage", TRUE) \in MoveRows
        /\ job[j].state = "merging" => Fail(j) \in MoveRows
    BY <1>2, MoveShapes
  <2>2. QED
    BY <1>5, <2>1 DEF May, Fits, Cancel, Close, Fail, NextProduction, Move, Active,
                      ReleaseCandidates, RunnableKinds, MergeKinds
<1>12. CASE CompleteMergeSuccess(o)
  <2> DEFINE rows == RowAs(o, Unleased(effect[o.key], "done"))
  <2>1. /\ HoldsItsEffect(o) /\ job[j].state = "merging" /\ ~job[j].cancelRequested
        /\ UNCHANGED <<nextSeq, cap, paused>>
    BY <1>12 DEF CompleteMergeSuccess, HoldsMerge, IsMerging, MergeIsAccepted, j
  <2>2. PICK m \in ProductionMoves : TransitionOver(rows, j, m)
    BY <1>12 DEF CompleteMergeSuccess, j
  <2>3. Settles(rows)
    BY <2>1, SettledRow
  <2> HIDE DEF rows
  <2>4. May(j, m)
    BY <1>11, <2>1, <2>2 DEF ProductionMoves, Active
  <2>5. QED
    BY <1>2, <2>1, <2>2, <2>3, <2>4, TransitionMoves DEF StepCases
<1>13. CASE FailLeasedMergeEffect(o)
  <2> DEFINE rows == RowAs(o, [Unleased(effect[o.key], "pending") EXCEPT !.kind = "unapproved_merge"])
             m == IF job[j].cancelRequested THEN Cancel(j) ELSE Fail(j)
  <2>1. HoldsMerge(o) /\ UNCHANGED <<admission, nextSeq, cap, paused>>
    BY <1>13 DEF FailLeasedMergeEffect
  <2>2. Settles(rows)
    BY <2>1, StrippedRow
  <2>3. \/ job[j].state = "merging" /\ Advance(rows, j, m)
        \/ effect' = rows /\ UNCHANGED job
    BY <1>13 DEF FailLeasedMergeEffect, IsMerging, j
  <2> HIDE DEF rows
  <2>4. job[j].state = "merging" => May(j, m)
    BY <1>11
  <2> HIDE DEF m
  <2>5. QED
    BY <1>3, <1>10, <2>1, <2>2, <2>3, <2>4
<1>14. CASE StaleMergeEffect(o)
  <2> DEFINE rows == RowAs(o, Unleased(effect[o.key], "done"))
             m == IF job[j].cancelRequested THEN Cancel(j)
                  ELSE Move("working", "none", "none", "stage", TRUE)
  <2>1. HoldsItsEffect(o) /\ job[j].state = "merging" /\ UNCHANGED <<admission, nextSeq, cap, paused>>
    BY <1>14 DEF StaleMergeEffect, HoldsMerge, IsMerging, j
  <2>2. Settles(rows)
    BY <2>1, SettledRow
  <2>3. Advance(rows, j, m)
    BY <1>14 DEF StaleMergeEffect, j
  <2> HIDE DEF rows
  <2>4. May(j, m)
    BY <1>11, <2>1
  <2> HIDE DEF m
  <2>5. QED
    BY <1>10, <2>1, <2>2, <2>3, <2>4
<1>15. CASE ReleaseUnknownMergeFence(o)
  <2> DEFINE rows == RowAs(o, Unleased(effect[o.key], "pending"))
  <2>1. HoldsItsEffect(o) /\ UNCHANGED <<admission, nextSeq, cap, paused>>
    BY <1>15 DEF ReleaseUnknownMergeFence, HoldsMerge
  <2>2. Settles(rows)
    BY <2>1, SettledRow
  <2>3. \/ Advance(rows, j, Cancel(j))
        \/ effect' = rows /\ UNCHANGED job
    BY <1>15 DEF ReleaseUnknownMergeFence, j
  <2> HIDE DEF rows
  <2>4. QED
    BY <1>3, <1>10, <1>11, <2>1, <2>2, <2>3
<1>16. CASE CompleteEffect(o) \/ FailEffect(o)
  <2>1. HoldsItsEffect(o) /\ UNCHANGED <<job, admission>>
    BY <1>16 DEF CompleteEffect, FailEffect, Collects
  <2>2. \/ effect' = RowAs(o, Unleased(effect[o.key], "done"))
        \/ effect' = RowAs(o, Unleased(effect[o.key], "pending"))
    BY <1>16 DEF CompleteEffect, FailEffect
  <2>3. QED
    BY <1>3, <2>1, <2>2, SettledRow
<1>17. CASE DeadLetterEffect(o)
  <2> DEFINE rows == RowAs(o, Unleased(effect[o.key], "dead"))
             owed == IF job[j].state \in {"working", "merging"} THEN job[j].state ELSE "none"
             m == Move("blocked", "permanent_effect_failure", owed, "none", TRUE)
  <2>1. HoldsItsEffect(o) /\ UNCHANGED <<admission, nextSeq, cap, paused>>
    BY <1>17 DEF DeadLetterEffect, Collects
  <2>2. Settles(rows)
    BY <2>1, SettledRow
  <2>3. \/ effect' = rows /\ UNCHANGED job
        \/ job[j].state = "production" /\ Advance(rows, j, Close)
        \/ Advance(rows, j, m)
    BY <1>17 DEF DeadLetterEffect, MarkJobPermanentFailure, j
  <2>4. owed \in ResumeStates
    BY DEF ResumeStates
  <2>5. May(j, m)
    <3> HIDE DEF owed
    <3> QED
      BY <2>4 DEF May, Move, MoveRows, JobStates, BlockedReasons, EffectKinds, Active,
                  ReleaseCandidates, RunnableKinds, MergeKinds
  <2>6. job[j].state = "production" => May(j, Close)
    BY <1>5, <1>11 DEF Fits
  <2> HIDE DEF rows, m
  <2>7. QED
    BY <1>3, <1>10, <2>1, <2>2, <2>3, <2>5, <2>6
<1>18. QED
  BY <1>1, <1>6, <1>7, <1>8, <1>9, <1>12, <1>13, <1>14, <1>15, <1>16, <1>17

\* ... so every step falls under the cases.
LEMMA EveryStepCases ==
  ASSUME SlotInv, LeaseInv, effect \in [EffectKeys -> EffectRows], [Next]_vars
  PROVE  StepCases
<1>1. CASE UNCHANGED vars
  BY <1>1, UntouchedCases DEF vars, StepCases, Settles
<1>2. CASE Tick
  BY <1>2, UntouchedCases DEF Tick, StepCases
<1>3. QED
  BY <1>1, <1>2, OwnerCases, LoopCases, OperationCases DEF Next

-----------------------------------------------------------------------------
(* Claims.                                                                   *)

\* Generations are never taken back.
LEMMA GenerationGrows ==
  ASSUME LeaseInv, [LeaseNext]_leaseVars
  PROVE  executorLease.generation' \in Nat /\ executorLease.generation <= executorLease.generation'
<1> USE LeaseAssumption DEF LeaseInv, LeaseTypeOK, Generations
<1>1. executorLease.generation \in Nat
  OBVIOUS
<1>2. ASSUME NEW e \in Executors, AcquireExecutorLease(e)
      PROVE  executorLease.generation' = executorLease.generation + 1
  BY <1>2 DEF AcquireExecutorLease
<1>3. ASSUME NEW e \in Executors,
             RenewExecutorLease(e) \/ LoseLease(e) \/ ReleaseExecutorLease(e)
      PROVE  executorLease.generation' = executorLease.generation
  BY <1>3 DEF RenewExecutorLease, LoseLease, ReleaseExecutorLease
<1>4. ASSUME LeaseTick \/ UNCHANGED leaseVars
      PROVE  executorLease.generation' = executorLease.generation
  BY <1>4 DEF LeaseTick, leaseVars
<1>5. QED
  BY <1>1, <1>2, <1>3, <1>4 DEF LeaseNext

\* The draining mark, and queueing, leave the occupied slots as they are.
LEMMA OccupiedKept ==
  ASSUME AdmissionsTypeOK, NEW j \in Jobs,
         \/ admission' = admission
         \/ (\E state : admission' = Drained(j, state)) /\ UNCHANGED <<nextSeq, cap, paused>>
         \/ Drain(j)
         \/ /\ admission[j].state \in {"none", "released"}
            /\ \E resumeEvent \in ResumeEvents : Enqueue(j, resumeEvent)
  PROVE  Occupied' = Occupied
<1> USE DEF Occupied
<1>1. CASE admission' = admission
  BY <1>1
<1>2. CASE (\E state : admission' = Drained(j, state)) /\ UNCHANGED <<nextSeq, cap, paused>>
  BY <1>2, DrainedSlots
<1>3. CASE Drain(j)
  <2>1. MoveTo(j, "draining") /\ admission[j].state = "admitted" /\ "draining" \in AdmissionStates
    BY <1>3 DEF Drain, AdmissionStates
  <2>2. QED
    BY <2>1, MoveToRows
<1>4. ASSUME NEW resumeEvent \in ResumeEvents, Enqueue(j, resumeEvent),
             admission[j].state \in {"none", "released"}
      PROVE  Occupied' = Occupied
  <2>1. /\ admission'[j] = [state |-> "queued", seq |-> nextSeq, resumeEvent |-> resumeEvent]
        /\ \A i \in Jobs \ {j} : admission'[i] = admission[i]
    BY <1>4, EnqueueRows
  <2>2. admission'[j].state = "queued"
    BY <2>1
  <2>3. QED
    BY <1>4, <2>1, <2>2
<1>5. QED
  BY <1>1, <1>2, <1>3, <1>4

\* The steps that touch a claim; the others keep every job's slot.
ClaimCases ==
    \/ UNCHANGED claim /\ Occupied' = Occupied
    \/ \E e \in Executors, j \in Jobs : AdmitNext(e, j) \/ FinalizeRelease(e, j)
    \/ \E o \in operations : AdoptHeldClaims(o) \/ RenewLane(o)
    \/ Tick

\* The owner takes and frees no slot.
LEMMA OwnerClaims ==
  ASSUME SlotInv, OwnerNext
  PROVE  ClaimCases
<1> USE DEF SlotInv, ClaimCases
<1>1. ASSUME NEW j \in Jobs, QueueAdmission(j) \/ RequeueAdmission(j)
      PROVE  ClaimCases
  <2>1. \E resumeEvent \in ResumeEvents :
          Enqueue(j, resumeEvent) /\ admission[j].state \in {"none", "released"}
    BY <1>1 DEF QueueAdmission, RequeueAdmission, Queue, Requeue, ResumeEvents
  <2>2. UNCHANGED claim
    BY <1>1 DEF QueueAdmission, RequeueAdmission
  <2>3. QED
    BY <2>1, <2>2, OccupiedKept
<1>2. ASSUME NEW j \in Jobs, RetryFailedJob(j) \/ AcceptApproval(j) \/ RequestCancel(j)
      PROVE  ClaimCases
  <2>1. admission' = admission \/ \E state : admission' = Drained(j, state)
    BY <1>2 DEF RetryFailedJob, AcceptApproval, RequestCancel, TransitionOver
  <2>2. UNCHANGED <<claim, nextSeq, cap, paused>>
    BY <1>2 DEF RetryFailedJob, AcceptApproval, RequestCancel
  <2>3. QED
    BY <2>1, <2>2, OccupiedKept
<1>3. ASSUME ConfigureQueue
      PROVE  ClaimCases
  BY <1>3 DEF ConfigureQueue, ConfigureCap, SetPaused, Occupied
<1>4. QED
  BY <1>1, <1>2, <1>3 DEF OwnerNext

\* A loop takes slots by admitting and frees them by releasing.
LEMMA LoopClaims ==
  ASSUME SlotInv, LoopNext
  PROVE  ClaimCases
<1> USE DEF SlotInv, ClaimCases
<1>1. PICK e \in Executors :
        \/ Acquire(e) \/ Heartbeat(e) \/ Lose(e) \/ Shutdown(e) \/ Crash(e)
        \/ \E j \in Jobs :
             \/ AdmitNext(e, j) \/ StartReconcile(e, j) \/ BeginDraining(e, j)
             \/ \E w \in Sightings : RefreshReleaseWorker(e, j, w)
             \/ ConfirmQueuedCancellation(e, j) \/ FinalizeRelease(e, j)
             \/ StatusMessageSent(e, j)
             \/ \E v \in Versions : SendStatus(e, j, v)
        \/ \E k \in EffectKeys : LeaseNextJobEffect(e, k)
  BY DEF LoopNext
<1>2. ASSUME UNCHANGED <<admission, claim>>
      PROVE  ClaimCases
  BY <1>2 DEF Occupied
<1>3. CASE Acquire(e) \/ Heartbeat(e) \/ Lose(e) \/ Shutdown(e) \/ Crash(e)
  BY <1>2, <1>3 DEF Acquire, Heartbeat, Lose, Shutdown, Crash, durableVars
<1>4. ASSUME NEW j \in Jobs,
             \/ StartReconcile(e, j)
             \/ \E w \in Sightings : RefreshReleaseWorker(e, j, w)
             \/ ConfirmQueuedCancellation(e, j) \/ StatusMessageSent(e, j)
             \/ \E v \in Versions : SendStatus(e, j, v)
      PROVE  ClaimCases
  BY <1>2, <1>4 DEF StartReconcile, RefreshReleaseWorker, ConfirmQueuedCancellation,
     StatusMessageSent, SendStatus, durableVars
<1>5. ASSUME NEW j \in Jobs, BeginDraining(e, j)
      PROVE  ClaimCases
  BY <1>5, OccupiedKept DEF BeginDraining
<1>6. ASSUME NEW k \in EffectKeys, LeaseNextJobEffect(e, k)
      PROVE  ClaimCases
  BY <1>2, <1>6 DEF LeaseNextJobEffect
<1>7. ASSUME NEW j \in Jobs, AdmitNext(e, j) \/ FinalizeRelease(e, j)
      PROVE  ClaimCases
  BY <1>7
<1>8. QED
  BY <1>1, <1>3, <1>4, <1>5, <1>6, <1>7

\* Operations renew and adopt claims, whatever they do to the job.
LEMMA OperationClaims ==
  ASSUME SlotInv, LeaseInv, OperationNext
  PROVE  ClaimCases
<1> USE DEF SlotInv, ClaimCases
<1>1. PICK o \in operations :
        \/ RenewLane(o)
        \/ \E w \in Sightings : ObserveWorker(o, w)
        \/ ApplyExecutorJobEvent(o) \/ StopThread(o)
        \/ CompleteMergeSuccess(o) \/ FailLeasedMergeEffect(o) \/ StaleMergeEffect(o)
        \/ ReleaseUnknownMergeFence(o) \/ AdoptHeldClaims(o) \/ FinishOperation(o)
        \/ CollectLost(o) \/ CompleteEffect(o) \/ FailEffect(o) \/ DeadLetterEffect(o)
  BY DEF OperationNext
<1>2. o.key[1] \in Jobs
  BY OperationKey
<1>3. CASE RenewLane(o) \/ AdoptHeldClaims(o)
  BY <1>3
<1>4. CASE (\E w \in Sightings : ObserveWorker(o, w))
           \/ FailLeasedMergeEffect(o) \/ StaleMergeEffect(o) \/ ReleaseUnknownMergeFence(o)
           \/ FinishOperation(o) \/ CollectLost(o)
           \/ CompleteEffect(o) \/ FailEffect(o) \/ DeadLetterEffect(o)
  BY <1>2, <1>4, OccupiedKept DEF ObserveWorker, FailLeasedMergeEffect, StaleMergeEffect,
     ReleaseUnknownMergeFence, FinishOperation, CollectLost, CompleteEffect, FailEffect,
     DeadLetterEffect, durableVars
<1>5. CASE ApplyExecutorJobEvent(o) \/ StopThread(o) \/ CompleteMergeSuccess(o)
  <2>1. UNCHANGED <<claim, nextSeq, cap, paused>>
    BY <1>5 DEF ApplyExecutorJobEvent, StopThread, CompleteMergeSuccess
  <2>2. admission' = admission \/ \E state : admission' = Drained(o.key[1], state)
    BY <1>5 DEF ApplyExecutorJobEvent, StopThread, CompleteMergeSuccess, TransitionOver, Swallow
  <2>3. QED
    BY <1>2, <2>1, <2>2, OccupiedKept
<1>6. QED
  BY <1>1, <1>3, <1>4, <1>5

\* A claim is taken with the slot, by the loop the lease names, and given up with it.
LEMMA ClaimsFollowSlots ==
  ASSUME SlotInv, LeaseInv, [Next]_vars, [LeaseNext]_leaseVars, LeaseTypeOK'
  PROVE  claim' \in [Jobs -> ClaimRows] /\ OccupiedIffClaimed'
<1> USE DEF SlotInv
<1>1. ClaimCases
  <2>1. CASE UNCHANGED vars
    BY <2>1 DEF ClaimCases, vars, Occupied
  <2>2. CASE Tick
    BY <2>2 DEF ClaimCases
  <2>3. QED
    BY <2>1, <2>2, OwnerClaims, LoopClaims, OperationClaims DEF Next
<1>2. /\ executorLease.generation \in Nat /\ executorLease.generation' \in Nat
      /\ executorLease.generation <= executorLease.generation'
  BY GenerationGrows, LeaseAssumption DEF LeaseInv, LeaseTypeOK, Generations
<1>3. claim \in [Jobs -> ClaimRows]
  OBVIOUS
<1>4. \A i \in Jobs : claim[i].generation \in Generations
  BY <1>3 DEF ClaimRows
<1> DEFINE Backed(i, row) == row.held => row.generation \in 1 .. executorLease.generation'
<1>5. \A i \in Jobs : Backed(i, claim[i])
  BY <1>2, <1>4, LeaseAssumption DEF OccupiedIffClaimed, Generations
<1>6. SUFFICES /\ claim' \in [Jobs -> ClaimRows]
               /\ \A i \in Jobs : (claim'[i].held <=> i \in Occupied') /\ Backed(i, claim'[i])
  BY DEF OccupiedIffClaimed
<1>7. \A i \in Jobs : claim[i].held <=> i \in Occupied
  BY DEF OccupiedIffClaimed
<1> HIDE DEF Backed
<1>8. CASE UNCHANGED claim /\ Occupied' = Occupied
  BY <1>3, <1>5, <1>7, <1>8
<1>9. ASSUME NEW e \in Executors, NEW g \in Generations \ {0}, IsExecutorLeaseCurrent(e, g),
             NEW i \in Jobs
      PROVE  /\ [held |-> TRUE, owner |-> e, generation |-> g, ttl |-> LeaseMs] \in ClaimRows
             /\ Backed(i, [held |-> TRUE, owner |-> e, generation |-> g, ttl |-> LeaseMs])
  <2>1. g \in 1 .. executorLease.generation'
    BY <1>2, <1>9, LeaseAssumption DEF IsExecutorLeaseCurrent, Generations
  <2>2. e \in Owners /\ LeaseMs \in 0 .. LeaseMs
    BY LeaseAssumption DEF Owners
  <2>3. QED
    BY <1>9, <2>1, <2>2 DEF ClaimRows, Backed
<1>10. ASSUME NEW e \in Executors, NEW j \in Jobs, AdmitNext(e, j)
       PROVE  /\ claim' \in [Jobs -> ClaimRows]
              /\ \A i \in Jobs : (claim'[i].held <=> i \in Occupied') /\ Backed(i, claim'[i])
  <2> DEFINE row == [held |-> TRUE, owner |-> e, generation |-> acquired[e], ttl |-> LeaseMs]
  <2>1. /\ MoveTo(j, "admitted") /\ "admitted" \in AdmissionStates
        /\ claim' = [claim EXCEPT ![j] = row]
        /\ IsExecutorLeaseCurrent(e, acquired[e]) /\ acquired[e] # 0
    BY <1>10 DEF AdmitNext, tryAdmit, AdmissionStates
  <2>2. acquired[e] \in Generations \ {0}
    BY <2>1 DEF LeaseInv, LeaseTypeOK
  <2>3. row \in ClaimRows /\ Backed(j, row) /\ row.held
    BY <1>9, <2>1, <2>2
  <2> HIDE DEF row
  <2>4. /\ admission'[j].state = "admitted"
        /\ \A i \in Jobs \ {j} : admission'[i] = admission[i]
    BY <2>1, MoveToRows
  <2>5. j \in Occupied' /\ \A i \in Jobs \ {j} : i \in Occupied' <=> i \in Occupied
    BY <2>4 DEF Occupied
  <2>6. QED
    BY <1>3, <1>5, <1>7, <2>1, <2>3, <2>5
<1>11. ASSUME NEW e \in Executors, NEW j \in Jobs, FinalizeRelease(e, j)
       PROVE  /\ claim' \in [Jobs -> ClaimRows]
              /\ \A i \in Jobs : (claim'[i].held <=> i \in Occupied') /\ Backed(i, claim'[i])
  <2>1. /\ MoveTo(j, "released") /\ "released" \in AdmissionStates
        /\ claim' = [claim EXCEPT ![j] = NoClaim]
    BY <1>11 DEF FinalizeRelease, Release, AdmissionStates
  <2>2. NoClaim \in ClaimRows /\ ~NoClaim.held /\ Backed(j, NoClaim)
    BY LeaseAssumption DEF NoClaim, ClaimRows, Owners, Generations, Backed
  <2>3. /\ admission'[j].state = "released"
        /\ \A i \in Jobs \ {j} : admission'[i] = admission[i]
    BY <2>1, MoveToRows
  <2>4. j \notin Occupied' /\ \A i \in Jobs \ {j} : i \in Occupied' <=> i \in Occupied
    BY <2>3 DEF Occupied
  <2>5. QED
    BY <1>3, <1>5, <1>7, <2>1, <2>2, <2>4
<1>12. ASSUME NEW o \in operations, AdoptHeldClaims(o)
       PROVE  /\ claim' \in [Jobs -> ClaimRows]
              /\ \A i \in Jobs : (claim'[i].held <=> i \in Occupied') /\ Backed(i, claim'[i])
  <2> DEFINE j == o.key[1]
             row == [held |-> TRUE, owner |-> o.executor, generation |-> o.generation, ttl |-> LeaseMs]
  <2>1. /\ claim' = [claim EXCEPT ![j] = row]
        /\ UNCHANGED admission /\ claim[j].held
        /\ IsExecutorLeaseCurrent(o.executor, o.generation)
    BY <1>12 DEF AdoptHeldClaims, Fenced
  <2>2. j \in Jobs /\ o.executor \in Executors /\ o.generation \in Generations \ {0}
    BY OperationKey
  <2>3. row \in ClaimRows /\ Backed(j, row) /\ row.held
    BY <1>9, <2>1, <2>2
  <2> HIDE DEF row, j
  <2>4. Occupied' = Occupied
    BY <2>1 DEF Occupied
  <2>5. QED
    BY <1>3, <1>5, <1>7, <2>1, <2>2, <2>3, <2>4
<1>13. ASSUME NEW j \in Jobs, NEW n \in 0 .. LeaseMs
       PROVE  /\ [claim[j] EXCEPT !.ttl = n] \in ClaimRows
              /\ [claim[j] EXCEPT !.ttl = n].held = claim[j].held
              /\ Backed(j, [claim[j] EXCEPT !.ttl = n])
  <2>1. claim[j] \in ClaimRows
    BY <1>3
  <2>2. /\ [claim[j] EXCEPT !.ttl = n] \in ClaimRows
        /\ [claim[j] EXCEPT !.ttl = n].held = claim[j].held
        /\ [claim[j] EXCEPT !.ttl = n].generation = claim[j].generation
    BY <2>1 DEF ClaimRows
  <2>3. Backed(j, claim[j])
    BY <1>5
  <2>4. QED
    BY <2>2, <2>3 DEF Backed
<1>14. ASSUME NEW o \in operations, RenewLane(o)
       PROVE  /\ claim' \in [Jobs -> ClaimRows]
              /\ \A i \in Jobs : (claim'[i].held <=> i \in Occupied') /\ Backed(i, claim'[i])
  <2> DEFINE j == o.key[1]
  <2>1. /\ claim' = IF claim[j].held THEN [claim EXCEPT ![j].ttl = LeaseMs] ELSE claim
        /\ UNCHANGED admission
    BY <1>14 DEF RenewLane
  <2>2. j \in Jobs /\ LeaseMs \in 0 .. LeaseMs
    BY OperationKey, LeaseAssumption
  <2> HIDE DEF j
  <2>3. Occupied' = Occupied
    BY <2>1 DEF Occupied
  <2>4. CASE ~claim[j].held
    BY <1>3, <1>5, <1>7, <2>1, <2>3, <2>4
  <2>5. CASE claim[j].held
    <3> DEFINE row == [claim[j] EXCEPT !.ttl = LeaseMs]
    <3>1. claim' = [claim EXCEPT ![j] = row]
      BY <2>1, <2>5
    <3>2. row \in ClaimRows /\ row.held = claim[j].held /\ Backed(j, row)
      BY <1>13, <2>2
    <3> HIDE DEF row
    <3>3. QED
      BY <1>3, <1>5, <1>7, <2>2, <2>3, <3>1, <3>2
  <2>6. QED
    BY <2>4, <2>5
<1>15. ASSUME Tick
       PROVE  /\ claim' \in [Jobs -> ClaimRows]
              /\ \A i \in Jobs : (claim'[i].held <=> i \in Occupied') /\ Backed(i, claim'[i])
  <2>1. claim' = [i \in Jobs |-> [claim[i] EXCEPT !.ttl = Aged(claim[i].ttl)]] /\ UNCHANGED admission
    BY <1>15 DEF Tick
  <2>2. \A i \in Jobs : Aged(claim[i].ttl) \in 0 .. LeaseMs
    BY <1>3, LeaseAssumption DEF Aged, ClaimRows
  <2>3. Occupied' = Occupied
    BY <2>1 DEF Occupied
  <2>4. \A i \in Jobs : claim'[i] \in ClaimRows /\ claim'[i].held = claim[i].held /\ Backed(i, claim'[i])
    BY <1>13, <2>1, <2>2
  <2>5. QED
    BY <1>7, <2>1, <2>3, <2>4
<1>16. QED
  BY <1>1, <1>8, <1>10, <1>11, <1>12, <1>14, <1>15 DEF ClaimCases

-----------------------------------------------------------------------------
(* Effect rows.  A row later than its job's version has not been written, which *)
(* is why a transition never overwrites a settled one; no row names a           *)
(* generation that was not handed out; and a released job's merge and           *)
(* production rows are settled.                                                 *)
RowFits(row, written, generation) ==
    /\ row \in EffectRows
    /\ ~written => row.status = "absent"
    /\ row.status = "absent" => row.kind = "none"
    /\ row.generation <= generation
    /\ row.status = "leased" => generation # 0
    /\ row.generation # 0 => row.owner \in Executors

\* The job has reached the version of row k.
IsWritten(k) == k[2] <= job[k[1]].version

\* The inductive invariant of the effect rows
RowsInv ==
    /\ effect \in [EffectKeys -> EffectRows]
    /\ \A k \in EffectKeys :
         /\ RowFits(effect[k], IsWritten(k), executorLease.generation)
         /\ admission[k[1]].state = "released" /\ effect[k].kind \in RunnableKinds =>
              effect[k].status \in {"done", "dead"}

\* What a step may make of row k: it still fits, a settled row stays settled, a
\* released job has none to run, and a row leased after the step was leased to
\* the same loop before it, or has just been started.
RowGoes(k) ==
    /\ RowFits(effect'[k], k[2] <= job'[k[1]].version, executorLease'.generation)
    /\ admission'[k[1]].state = "released" /\ effect'[k].kind \in RunnableKinds =>
         effect'[k].status \in {"done", "dead"}
    /\ effect[k].status \in {"done", "dead"} => effect'[k].status = effect[k].status
    /\ effect'[k].status = "leased" /\ effect'[k].generation # 0 =>
         \/ /\ effect[k].status = "leased"
            /\ effect'[k].owner = effect[k].owner
            /\ effect'[k].generation = effect[k].generation
         \/ \E o \in operations' : /\ o.key = k
                                   /\ o.executor = effect'[k].owner
                                   /\ o.generation = effect'[k].generation

\* Versions and generations only grow in a step.
Grows ==
    /\ executorLease.generation \in Nat /\ executorLease'.generation \in Nat
    /\ executorLease.generation <= executorLease'.generation
    /\ \A i \in Jobs : /\ job[i].version \in Nat /\ job'[i].version \in Nat
                       /\ job[i].version <= job'[i].version

\* What fits keeps fitting as versions and generations grow.
LEMMA StillFits ==
  ASSUME RowsInv, Grows, NEW k \in EffectKeys
  PROVE  RowFits(effect[k], k[2] <= job'[k[1]].version, executorLease'.generation)
<1>1. RowFits(effect[k], IsWritten(k), executorLease.generation)
  BY DEF RowsInv
<1>2. k[1] \in Jobs /\ k[2] \in Nat
  BY DEF EffectKeys, Versions
<1>3. effect[k].generation \in Nat
  BY LeaseAssumption DEF RowsInv, EffectRows, Generations
<1>4. /\ job[k[1]].version \in Nat /\ job'[k[1]].version \in Nat
      /\ job[k[1]].version <= job'[k[1]].version
      /\ executorLease.generation \in Nat /\ executorLease'.generation \in Nat
      /\ executorLease.generation <= executorLease'.generation
  BY <1>2 DEF Grows
<1>5. IsWritten(k) => k[2] <= job'[k[1]].version
  BY <1>2, <1>4 DEF IsWritten
<1>6. effect[k].generation <= executorLease'.generation
  BY <1>1, <1>3, <1>4 DEF RowFits
<1>7. executorLease.generation # 0 => executorLease'.generation # 0
  BY <1>4
<1>8. QED
  BY <1>1, <1>5, <1>6, <1>7 DEF RowFits

\* A row the step leaves alone.
LEMMA KeptRowGoes ==
  ASSUME RowsInv, Grows, NEW k \in EffectKeys, effect'[k] = effect[k],
         admission'[k[1]].state = "released" => admission[k[1]].state = "released"
  PROVE  RowGoes(k)
BY StillFits DEF RowGoes, RowsInv

\* A leased row that its operation settles.
LEMMA SettledRowGoes ==
  ASSUME RowsInv, Grows, NEW k \in EffectKeys, NEW row, NEW rows, SettlesOne(rows, k, row),
         effect'[k] = row,
         admission'[k[1]].state = "released" => admission[k[1]].state = "released"
  PROVE  RowGoes(k)
<1>1. /\ effect[k].status = "leased"
      /\ row \in EffectRows /\ row.status \in {"pending", "done", "dead"} /\ row.generation = 0
      /\ row.kind = effect[k].kind \/ {row.kind, effect[k].kind} \subseteq MergeKinds
  BY DEF SettlesOne, IsLeased
<1>2. /\ effect[k].kind \notin RunnableKinds \/ admission[k[1]].state # "released"
      /\ row.kind \in RunnableKinds => effect[k].kind \in RunnableKinds
  BY <1>1 DEF RowsInv, RunnableKinds
<1>3. RowFits(effect[k], k[2] <= job'[k[1]].version, executorLease'.generation)
  BY StillFits
<1>4. RowFits(row, k[2] <= job'[k[1]].version, executorLease'.generation)
  BY <1>1, <1>3 DEF RowFits, Grows
<1>5. QED
  BY <1>1, <1>2, <1>4 DEF RowGoes

\* The rows a transition was made over.
LEMMA SettlesGoes ==
  ASSUME RowsInv, Grows, NEW rows, Settles(rows), NEW k \in EffectKeys, effect'[k] = rows[k],
         admission'[k[1]].state = "released" => admission[k[1]].state = "released"
  PROVE  RowGoes(k)
<1>1. CASE rows = effect
  BY <1>1, KeptRowGoes
<1>2. ASSUME NEW m \in EffectKeys, NEW row, SettlesOne(rows, m, row)
      PROVE  RowGoes(k)
  <2>1. rows = [effect EXCEPT ![m] = row] /\ effect \in [EffectKeys -> EffectRows]
    BY <1>2 DEF SettlesOne, RowsInv
  <2>2. CASE k = m
    <3>1. effect'[k] = row
      BY <2>1, <2>2
    <3>2. QED
      BY <1>2, <2>2, <3>1, SettledRowGoes
  <2>3. CASE k # m
    BY <2>1, <2>3, KeptRowGoes
  <2>4. QED
    BY <2>2, <2>3
<1>3. QED
  BY <1>1, <1>2 DEF Settles

\* The row of a job's next version was not written before.
LEMMA EmittedRowGoes ==
  ASSUME RowsInv, Grows, NEW k \in EffectKeys, NEW kind \in EffectKinds,
         effect'[k] = Pending(kind), ~IsWritten(k), k[2] <= job'[k[1]].version,
         kind \in RunnableKinds => admission'[k[1]].state = "admitted"
  PROVE  RowGoes(k)
<1>1. NoExecutor \in Owners /\ 0 \in Generations /\ 0 \in 0 .. LeaseMs /\ "pending" \in EffectStatus
  BY LeaseAssumption DEF Owners, Generations, EffectStatus
<1>2. /\ Pending(kind) \in EffectRows /\ Pending(kind).kind = kind
      /\ Pending(kind).status = "pending" /\ Pending(kind).generation = 0
  BY <1>1 DEF Pending, Absent, EffectRows
<1>3. effect[k].status = "absent"
  BY DEF RowsInv, RowFits
<1>4. RowFits(effect'[k], k[2] <= job'[k[1]].version, executorLease'.generation)
  BY <1>2 DEF RowFits, Grows
<1>5. QED
  BY <1>2, <1>3, <1>4 DEF RowGoes

\* Every row, when a job moves.
LEMMA MovedRowsGo ==
  ASSUME SlotInv, RowsInv, Grows, JobMoves
  PROVE  effect' \in [EffectKeys -> EffectRows] /\ \A k \in EffectKeys : RowGoes(k)
<1>1. PICK j \in Jobs, r \in JobRows, kind \in EffectKinds : \E rows : Moved(j, r, kind, rows)
  BY DEF JobMoves
<1> PICK rows : Moved(j, r, kind, rows)
  BY <1>1
<1>2. /\ job' = [job EXCEPT ![j] = r]
      /\ \A i \in Jobs \ {j} : admission'[i] = admission[i]
      /\ admission'[j].state = "released" => admission[j].state = "released"
      /\ kind # "none" => r.version = job[j].version + 1
      /\ kind \in RunnableKinds => admission'[j].state = "admitted"
      /\ Settles(rows)
      /\ effect' = Emit(rows, j, job[j].version + 1, kind)
  BY DEF Moved
<1>3. job \in [Jobs -> JobRows] /\ effect \in [EffectKeys -> EffectRows]
  BY DEF SlotInv, RowsInv
<1>4. rows \in [EffectKeys -> EffectRows]
  BY <1>2, <1>3 DEF Settles, SettlesOne
<1>5. \A k \in EffectKeys : admission'[k[1]].state = "released" => admission[k[1]].state = "released"
  BY <1>2 DEF EffectKeys
<1>6. CASE kind = "none"
  <2>1. effect' = rows
    BY <1>2, <1>6 DEF Emit
  <2>2. QED
    BY <1>2, <1>4, <1>5, <2>1, SettlesGoes
<1>7. CASE kind # "none"
  <2> DEFINE key == <<j, job[j].version + 1>>
  <2>1. job[j].version \in Nat /\ job[j].version + 1 \in Versions
    BY <1>2, <1>3, <1>7, ControlPlaneAssumption DEF JobRows, Versions
  <2>2. key \in EffectKeys
    BY <2>1 DEF EffectKeys
  <2>3. key[1] = j /\ key[2] = job[j].version + 1
    OBVIOUS
  <2> HIDE DEF key
  <2>4. effect' = [rows EXCEPT ![key] = Pending(kind)]
    BY <1>2, <1>7 DEF Emit, key
  <2>5. NoExecutor \in Owners /\ 0 \in Generations /\ 0 \in 0 .. LeaseMs /\ "pending" \in EffectStatus
    BY LeaseAssumption DEF Owners, Generations, EffectStatus
  <2>6. Pending(kind) \in EffectRows
    BY <2>5 DEF Pending, Absent, EffectRows
  <2>7. effect' \in [EffectKeys -> EffectRows]
    BY <1>4, <2>2, <2>4, <2>6
  <2>8. effect'[key] = Pending(kind)
    BY <1>4, <2>2, <2>4
  <2>9. ~IsWritten(key) /\ key[2] <= job'[key[1]].version
    BY <1>2, <1>3, <1>7, <2>1, <2>3 DEF IsWritten
  <2>10. RowGoes(key)
    BY <1>2, <2>2, <2>3, <2>8, <2>9, EmittedRowGoes
  <2>11. ASSUME NEW k \in EffectKeys, k # key
         PROVE  RowGoes(k)
    <3>1. effect'[k] = rows[k]
      BY <1>4, <2>4, <2>11
    <3>2. QED
      BY <1>2, <1>5, <2>11, <3>1, SettlesGoes
  <2>12. QED
    BY <2>7, <2>10, <2>11
<1>8. QED
  BY <1>6, <1>7

\* The row a loop leases.
LEMMA LeasedRowGoes ==
  ASSUME SlotInv, LeaseInv, RowsInv, Grows, NEW e \in Executors, NEW key \in EffectKeys,
         LeaseNextJobEffect(e, key)
  PROVE  effect' \in [EffectKeys -> EffectRows] /\ \A k \in EffectKeys : RowGoes(k)
<1> DEFINE row == LeasedBy(effect[key], e, acquired[e])
<1>1. /\ effect' = [effect EXCEPT ![key] = row]
      /\ UNCHANGED <<executorLease, job, admission>>
      /\ IsOpen(key) /\ key[1] \in Occupied
      /\ IsExecutorLeaseCurrent(e, acquired[e]) /\ acquired[e] # 0
  BY DEF LeaseNextJobEffect
<1>2. effect[key] \in EffectRows /\ effect \in [EffectKeys -> EffectRows]
  BY DEF RowsInv
<1>3. /\ acquired[e] \in Generations \ {0} /\ e \in Owners /\ "leased" \in EffectStatus
      /\ LeaseMs \in 0 .. LeaseMs
  BY <1>1, LeaseAssumption DEF LeaseInv, LeaseTypeOK, Owners, EffectStatus
<1>4. /\ row \in EffectRows /\ row.kind = effect[key].kind /\ row.status = "leased"
      /\ row.owner = e /\ row.generation = acquired[e]
  BY <1>2, <1>3 DEF LeasedBy, EffectRows
<1> HIDE DEF row
<1>5. effect' \in [EffectKeys -> EffectRows]
  BY <1>1, <1>2, <1>4
<1>6. ASSUME NEW k \in EffectKeys, k # key
      PROVE  RowGoes(k)
  BY <1>1, <1>2, <1>6, KeptRowGoes
<1>7. RowGoes(key)
  <2>1. effect'[key] = row
    BY <1>1, <1>2
  <2>2. effect[key].status \in {"pending", "leased"}
    BY <1>1 DEF IsOpen
  <2>3. key[2] <= job'[key[1]].version
    BY <1>1, <2>2 DEF RowsInv, RowFits, IsWritten
  <2>4. acquired[e] = executorLease'.generation
    BY <1>1 DEF IsExecutorLeaseCurrent
  <2>5. RowFits(row, key[2] <= job'[key[1]].version, executorLease'.generation)
    BY <1>1, <1>4, <2>3, <2>4 DEF RowFits, Grows
  <2>6. admission'[key[1]].state # "released"
    BY <1>1 DEF Occupied
  <2>7. \E o \in operations' : o.key = key /\ o.executor = e /\ o.generation = acquired[e]
    <3>1. PICK phase \in Phases : Start(e, key, phase)
      BY DEF LeaseNextJobEffect, Phases
    <3>2. [executor |-> e, generation |-> acquired[e], key |-> key, phase |-> phase] \in operations'
      BY <3>1 DEF Start
    <3>3. QED
      BY <3>2
  <2>8. QED
    BY <1>4, <2>1, <2>2, <2>5, <2>6, <2>7 DEF RowGoes
<1>8. QED
  BY <1>5, <1>6, <1>7

\* A release settles what is still open, and waits for merges and deployments.
LEMMA ReleasedRowsGo ==
  ASSUME SlotInv, RowsInv, Grows, NEW e \in Executors, NEW j \in Jobs, FinalizeRelease(e, j)
  PROVE  effect' \in [EffectKeys -> EffectRows] /\ \A k \in EffectKeys : RowGoes(k)
<1>1. /\ effect' = Superseded(j) /\ CleanedUp(j) /\ UNCHANGED <<job, executorLease>>
      /\ MoveTo(j, "released") /\ "released" \in AdmissionStates
  BY DEF FinalizeRelease, Release, AdmissionStates, loopVars
<1>2. \A i \in Jobs \ {j} : admission'[i] = admission[i]
  BY <1>1, MoveToRows DEF SlotInv
<1>3. effect \in [EffectKeys -> EffectRows]
  BY DEF RowsInv
<1>4. NoExecutor \in Owners /\ 0 \in Generations /\ 0 \in 0 .. LeaseMs /\ "done" \in EffectStatus
  BY LeaseAssumption DEF Owners, Generations, EffectStatus
<1>5. ASSUME NEW k \in EffectKeys
      PROVE  /\ Unleased(effect[k], "done") \in EffectRows
             /\ Unleased(effect[k], "done").kind = effect[k].kind
             /\ Unleased(effect[k], "done").status = "done"
             /\ Unleased(effect[k], "done").generation = 0
  <2>1. effect[k] \in EffectRows
    BY <1>3
  <2>2. QED
    BY <1>4, <2>1 DEF Unleased, EffectRows
<1>6. \A k \in EffectKeys : effect'[k] = IF k[1] = j /\ IsOpen(k) THEN Unleased(effect[k], "done") ELSE effect[k]
  BY <1>1 DEF Superseded
<1>7. effect' \in [EffectKeys -> EffectRows]
  BY <1>1, <1>3, <1>5 DEF Superseded
<1>8. ASSUME NEW k \in EffectKeys
      PROVE  RowGoes(k)
  <2>1. RowFits(effect[k], k[2] <= job'[k[1]].version, executorLease'.generation)
    BY StillFits
  <2>2. k[1] \in Jobs /\ effect[k] \in EffectRows
    BY <1>3 DEF EffectKeys
  <2>3. CASE k[1] # j
    <3>1. effect'[k] = effect[k] /\ admission'[k[1]] = admission[k[1]]
      BY <1>2, <1>6, <2>2, <2>3
    <3>2. QED
      BY <3>1, KeptRowGoes
  <2>4. CASE k[1] = j /\ IsOpen(k)
    <3>1. effect'[k] = Unleased(effect[k], "done") /\ effect[k].status \in {"pending", "leased"}
      BY <1>6, <2>4 DEF IsOpen
    <3>2. RowFits(effect'[k], k[2] <= job'[k[1]].version, executorLease'.generation)
      BY <1>5, <2>1, <3>1 DEF RowFits, Grows
    <3>3. QED
      BY <1>5, <3>1, <3>2 DEF RowGoes
  <2>5. CASE k[1] = j /\ ~IsOpen(k)
    <3>1. effect'[k] = effect[k]
      BY <1>6, <2>5
    <3>2. effect[k].kind \in RunnableKinds => effect[k].status # "pending" /\ ~IsLeased(k)
      BY <1>1, <2>5 DEF CleanedUp, Unresolved, RunnableKinds
    <3>3. effect[k].status = "leased" => IsLeased(k)
      BY <2>2, <2>5, LeaseAssumption DEF IsOpen, IsLeased, EffectRows
    <3>4. effect[k].status = "absent" => effect[k].kind \notin RunnableKinds
      BY <2>1 DEF RowFits, RunnableKinds, MergeKinds
    <3>5. effect[k].kind \in RunnableKinds => effect[k].status \in {"done", "dead"}
      BY <2>2, <3>2, <3>3, <3>4 DEF EffectRows, EffectStatus
    <3>6. QED
      BY <2>1, <3>1, <3>5 DEF RowGoes
  <2>6. QED
    BY <2>3, <2>4, <2>5
<1>9. QED
  BY <1>7, <1>8

\* A row whose deadline alone changes: it keeps its holder, or forgets it.
LEMMA TimedRowGoes ==
  ASSUME RowsInv, Grows, NEW k \in EffectKeys, effect'[k] \in EffectRows,
         effect'[k].kind = effect[k].kind, effect'[k].status = effect[k].status,
         \/ effect'[k].owner = effect[k].owner /\ effect'[k].generation = effect[k].generation
         \/ effect'[k].generation = 0,
         admission' = admission
  PROVE  RowGoes(k)
<1>1. RowFits(effect[k], k[2] <= job'[k[1]].version, executorLease'.generation)
  BY StillFits
<1>2. RowFits(effect'[k], k[2] <= job'[k[1]].version, executorLease'.generation)
  BY <1>1 DEF RowFits, Grows
<1>3. QED
  BY <1>2 DEF RowGoes, RowsInv

\* Every row, when the clock runs.
LEMMA AgedRowsGo ==
  ASSUME RowsInv, Grows, Tick
  PROVE  effect' \in [EffectKeys -> EffectRows] /\ \A k \in EffectKeys : RowGoes(k)
<1>1. effect' = [k \in EffectKeys |-> AgedEffect(effect[k])] /\ UNCHANGED admission
  BY DEF Tick
<1>2. ASSUME NEW k \in EffectKeys
      PROVE  /\ AgedEffect(effect[k]) \in EffectRows
             /\ AgedEffect(effect[k]).kind = effect[k].kind
             /\ AgedEffect(effect[k]).status = effect[k].status
             /\ \/ /\ AgedEffect(effect[k]).owner = effect[k].owner
                   /\ AgedEffect(effect[k]).generation = effect[k].generation
                \/ AgedEffect(effect[k]).generation = 0
  <2>1. effect[k] \in EffectRows
    BY DEF RowsInv
  <2>2. Aged(effect[k].ttl) \in 0 .. LeaseMs
    BY <2>1, LeaseAssumption DEF Aged, EffectRows
  <2>3. NoExecutor \in Owners /\ 0 \in Generations /\ 0 \in 0 .. LeaseMs
    BY LeaseAssumption DEF Owners, Generations
  <2>4. QED
    BY <2>1, <2>2, <2>3 DEF AgedEffect, EffectRows
<1>3. QED
  BY <1>1, <1>2, TimedRowGoes

\* Every row, when a lane renews its own.
LEMMA RenewedRowsGo ==
  ASSUME LeaseInv, RowsInv, Grows, NEW o \in operations, RenewLane(o)
  PROVE  effect' \in [EffectKeys -> EffectRows] /\ \A k \in EffectKeys : RowGoes(k)
<1> DEFINE row == [effect[o.key] EXCEPT !.ttl = LeaseMs]
<1>1. effect' = [effect EXCEPT ![o.key] = row] /\ UNCHANGED admission
  BY DEF RenewLane
<1>2. o.key \in EffectKeys
  BY OperationKey DEF RenewLane, HoldsItsEffect
<1>3. effect \in [EffectKeys -> EffectRows] /\ effect[o.key] \in EffectRows /\ LeaseMs \in 0 .. LeaseMs
  BY <1>2, LeaseAssumption DEF RowsInv
<1>4. /\ row \in EffectRows /\ row.kind = effect[o.key].kind /\ row.status = effect[o.key].status
      /\ row.owner = effect[o.key].owner /\ row.generation = effect[o.key].generation
  BY <1>3 DEF EffectRows
<1> HIDE DEF row
<1>5. effect' \in [EffectKeys -> EffectRows] /\ effect'[o.key] = row
  BY <1>1, <1>2, <1>3, <1>4
<1>6. RowGoes(o.key)
  BY <1>1, <1>2, <1>4, <1>5, TimedRowGoes
<1>7. ASSUME NEW k \in EffectKeys, k # o.key
      PROVE  RowGoes(k)
  BY <1>1, <1>3, <1>7, KeptRowGoes
<1>8. QED
  BY <1>5, <1>6, <1>7

\* Every row, at every step.
LEMMA RowsGo ==
  ASSUME SlotInv, LeaseInv, RowsInv, Grows, StepCases
  PROVE  effect' \in [EffectKeys -> EffectRows] /\ \A k \in EffectKeys : RowGoes(k)
<1>1. CASE JobMoves
  BY <1>1, MovedRowsGo
<1>2. CASE NothingReleased /\ Settles(effect')
  <2>1. effect' \in [EffectKeys -> EffectRows]
    BY <1>2 DEF Settles, SettlesOne, RowsInv
  <2>2. \A k \in EffectKeys : admission'[k[1]].state = "released" => admission[k[1]].state = "released"
    BY <1>2 DEF NothingReleased, EffectKeys
  <2>3. QED
    BY <1>2, <2>1, <2>2, SettlesGoes
<1>3. QED
  BY <1>1, <1>2, LeasedRowGoes, ReleasedRowsGo, AgedRowsGo, RenewedRowsGo DEF StepCases

-----------------------------------------------------------------------------
(* The tables together.                                                      *)
TablesInv == LeaseInv /\ SlotInv /\ RowsInv

\* The jobs keep their shape and fit their slots.
LEMMA JobsFit ==
  ASSUME SlotInv, StepCases
  PROVE  job' \in [Jobs -> JobRows] /\ \A i \in Jobs : Fits(job'[i], admission'[i].state)
<1>1. job \in [Jobs -> JobRows]
  BY DEF SlotInv
<1>2. \A i \in Jobs : Fits(job[i], admission[i].state)
  BY SlotsFit DEF SlotInv
<1>3. CASE JobMoves
  <2>1. PICK j \in Jobs, r \in JobRows, kind \in EffectKinds : \E rows : Moved(j, r, kind, rows)
    BY <1>3 DEF JobMoves
  <2>2. /\ job' = [job EXCEPT ![j] = r]
        /\ Fits(r, admission'[j].state)
        /\ \A i \in Jobs \ {j} : admission'[i] = admission[i]
    BY <2>1 DEF Moved
  <2>3. QED
    BY <1>1, <1>2, <2>2
<1>4. CASE job' = job /\ SlotsStillFit
  BY <1>1, <1>4 DEF SlotsStillFit
<1>5. QED
  BY <1>3, <1>4 DEF StepCases

\* No job goes back to an earlier version, and no generation is taken back.
LEMMA EverythingGrows ==
  ASSUME SlotInv, LeaseInv, StepCases, [LeaseNext]_leaseVars
  PROVE  Grows
<1>1. \A i \in Jobs : job[i].version \in Nat
  BY ControlPlaneAssumption DEF SlotInv, JobRows, Versions
<1>2. \A i \in Jobs : job'[i].version \in Nat
  BY JobsFit, ControlPlaneAssumption DEF JobRows, Versions
<1>3. \A i \in Jobs : job[i].version <= job'[i].version
  <2>1. CASE JobMoves
    <3>1. PICK j \in Jobs, r \in JobRows, kind \in EffectKinds : \E rows : Moved(j, r, kind, rows)
      BY <2>1 DEF JobMoves
    <3>2. /\ job' = [job EXCEPT ![j] = r]
          /\ r.version = job[j].version \/ r.version = job[j].version + 1
      BY <3>1 DEF Moved
    <3>3. QED
      BY <1>1, <3>2 DEF SlotInv
  <2>2. CASE job' = job
    BY <1>1, <2>2
  <2>3. QED
    BY <2>1, <2>2 DEF StepCases
<1>4. executorLease.generation \in Nat
  BY LeaseAssumption DEF LeaseInv, LeaseTypeOK, Generations
<1>5. QED
  BY <1>1, <1>2, <1>3, <1>4, GenerationGrows DEF Grows

\* A step keeps the tables.
LEMMA TablesStep ==
  ASSUME TablesInv, [Next]_vars
  PROVE  /\ TablesInv'
         /\ [AdmissionsNext]_admissionVars /\ [LeaseNext]_leaseVars
         /\ Grows /\ \A k \in EffectKeys : RowGoes(k)
<1> USE DEF TablesInv
<1>1. [LeaseNext]_leaseVars /\ operations' \subseteq OperationRows
  BY StepImplements DEF Implements
<1>2. LeaseInv'
  BY <1>1, LeaseTypeStep DEF LeaseInv
<1>3. [AdmissionsNext]_admissionVars
  BY StepKeepsAdmissions
<1>4. StepCases
  BY EveryStepCases DEF RowsInv
<1>5. AdmissionsTypeOK'
  BY <1>3, AdmissionsTypeStep DEF SlotInv
<1>6. job' \in [Jobs -> JobRows] /\ \A i \in Jobs : Fits(job'[i], admission'[i].state)
  BY <1>4, JobsFit
<1>7. ActiveJobOccupiesSlot' /\ CancelledNeverShips'
  BY <1>6 DEF ActiveJobOccupiesSlot, CancelledNeverShips, Fits, Active, isReleaseCandidate
<1>8. claim' \in [Jobs -> ClaimRows] /\ OccupiedIffClaimed'
  BY <1>1, <1>2, ClaimsFollowSlots DEF LeaseInv
<1>9. SlotInv'
  BY <1>5, <1>6, <1>7, <1>8 DEF SlotInv
<1>10. Grows
  BY <1>1, <1>4, EverythingGrows
<1>11. effect' \in [EffectKeys -> EffectRows] /\ \A k \in EffectKeys : RowGoes(k)
  BY <1>4, <1>10, RowsGo
<1>12. RowsInv'
  BY <1>11 DEF RowsInv, RowGoes, IsWritten
<1>13. QED
  BY <1>1, <1>2, <1>3, <1>9, <1>10, <1>11, <1>12

\* The tables before anything has happened.
LEMMA TablesInit == Init => TablesInv
<1> SUFFICES ASSUME Init PROVE TablesInv
  OBVIOUS
<1> USE DEF Init
<1>1. LeaseInv
  BY LeaseTypeInit DEF LeaseInv
<1>2. /\ \A j \in Jobs : admission[j].state = "none"
      /\ AdmissionsTypeOK
  BY AdmissionsTypeInit DEF AdmissionsInit
<1>3. \A j \in Jobs : /\ job[j] \in JobRows /\ job[j].version = 1
                      /\ job[j].state = "awaiting_confirmation" /\ ~job[j].cancelRequested
  BY ControlPlaneAssumption DEF JobRows, JobStates, BlockedReasons, ResumeStates, Versions
<1>4. job \in [Jobs -> JobRows]
  BY <1>3
<1>5. NoExecutor \in Owners /\ 0 \in Generations /\ 0 \in 0 .. LeaseMs
  BY LeaseAssumption DEF Owners, Generations
<1>6. NoClaim \in ClaimRows /\ ~NoClaim.held
  BY <1>5 DEF NoClaim, ClaimRows
<1>7. claim \in [Jobs -> ClaimRows] /\ \A j \in Jobs : ~claim[j].held
  BY <1>6
<1>8. SlotInv
  BY <1>2, <1>3, <1>4, <1>7
  DEF SlotInv, OccupiedIffClaimed, Occupied, ActiveJobOccupiesSlot, CancelledNeverShips
<1>9. /\ Absent \in EffectRows /\ Absent.status = "absent" /\ Absent.kind = "none"
      /\ Absent.generation = 0
  BY <1>5 DEF Absent, EffectRows, EffectKinds, EffectStatus
<1>10. effect \in [EffectKeys -> EffectRows] /\ \A k \in EffectKeys : effect[k] = Absent
  BY <1>9
<1>11. executorLease.generation = 0
  BY DEF LeaseInit
<1>12. \A k \in EffectKeys : admission[k[1]].state # "released"
  BY <1>2 DEF EffectKeys
<1>13. RowsInv
  BY <1>9, <1>10, <1>11, <1>12 DEF RowsInv, RowFits
<1>14. QED
  BY <1>1, <1>8, <1>13 DEF TablesInv

\* The invariant of the tables, always.
LEMMA TablesInvariant == Spec => []TablesInv
<1>1. TablesInv /\ [Next]_vars => TablesInv'
  BY TablesStep
<1>2. QED
  BY <1>1, TablesInit, PTL DEF Spec

-----------------------------------------------------------------------------
\* The control plane implements the admission queue: whatever jobs, claims,
\* effects and loops do, slots and projects are given, drained and freed only as
\* Admissions says, and so serially, within the cap and in order.
THEOREM ControlPlaneKeepsAdmissions == Spec => KeepsAdmissions
<1>1. Init => AdmissionsInit
  BY DEF Init
<1>2. TablesInv /\ [Next]_vars => [AdmissionsNext]_admissionVars
  BY TablesStep
<1>3. QED
  BY <1>1, <1>2, TablesInvariant, PTL DEF Spec, KeepsAdmissions, AdmissionsSpec

\* So in the whole control plane a project runs one job at a time: two claims are
\* never held for one project, by whatever loops.
THEOREM ControlPlaneRunsOneJobPerProject == Spec => []OneJobPerProject
BY ControlPlaneKeepsAdmissions, ProjectsRunOneJob, PTL DEF KeepsAdmissions

\* The claim is held exactly by the jobs that occupy a slot, under a generation
\* that was handed out.
THEOREM ClaimsAreSlots == Spec => []OccupiedIffClaimed
<1>1. TablesInv => OccupiedIffClaimed
  BY DEF TablesInv, SlotInv
<1>2. QED
  BY <1>1, TablesInvariant, PTL

\* A job that is worked on, merged or deployed is admitted, and only a job that
\* can do no more work is drained.
THEOREM WorkHappensInSlots == Spec => []ActiveJobOccupiesSlot
<1>1. TablesInv => ActiveJobOccupiesSlot
  BY DEF TablesInv, SlotInv
<1>2. QED
  BY <1>1, TablesInvariant, PTL

\* A job whose cancellation was requested is never merged or deployed.
THEOREM CancelledJobsNeverShip == Spec => []CancelledNeverShips
<1>1. TablesInv => CancelledNeverShips
  BY DEF TablesInv, SlotInv
<1>2. QED
  BY <1>1, TablesInvariant, PTL

\* A released job holds no claim and has no merge or production row to run.
THEOREM ReleasedJobsLeaveNothing == Spec => []ReleasedLeavesNothing
<1>1. TablesInv => ReleasedLeavesNothing
  <2> SUFFICES ASSUME TablesInv, NEW j \in Jobs, admission[j].state = "released"
               PROVE  /\ ~claim[j].held
                      /\ \A k \in EffectKeys : k[1] = j /\ effect[k].kind \in MergeKinds \cup {"production"} =>
                           effect[k].status \in {"done", "dead"}
    BY DEF ReleasedLeavesNothing
  <2>1. ~claim[j].held
    BY DEF TablesInv, SlotInv, OccupiedIffClaimed, Occupied
  <2>2. QED
    BY <2>1 DEF TablesInv, RowsInv, RunnableKinds
<1>2. QED
  BY <1>1, TablesInvariant, PTL

\* A settled effect is never run again: no transition overwrites it, no lease
\* reopens it and no late operation changes how it ended.
THEOREM SettledEffectsStaySettled == Spec => SettledStaysSettled
<1>1. TablesInv /\ [Next]_vars =>
        \A k \in EffectKeys : effect[k].status \in {"done", "dead"} =>
          effect'[k].status = effect[k].status
  BY TablesStep DEF RowGoes
<1>2. QED
  BY <1>1, TablesInvariant, PTL DEF Spec, SettledStaysSettled

-----------------------------------------------------------------------------
(* The two tables the others do not depend on: what was last seen of the       *)
(* workers, and what each loop has adopted.                                    *)
MemoryInv == worker \in [Jobs -> WorkerStates] /\ adopted \in [Executors -> SUBSET Jobs]

\* A loop records sightings and adopts jobs; leaving a generation forgets them.
LEMMA LoopMemory ==
  ASSUME MemoryInv, LoopNext
  PROVE  MemoryInv'
<1> USE DEF MemoryInv
<1>1. PICK e \in Executors :
        \/ Acquire(e) \/ Heartbeat(e) \/ Lose(e) \/ Shutdown(e) \/ Crash(e)
        \/ \E j \in Jobs :
             \/ AdmitNext(e, j) \/ StartReconcile(e, j) \/ BeginDraining(e, j)
             \/ \E w \in Sightings : RefreshReleaseWorker(e, j, w)
             \/ ConfirmQueuedCancellation(e, j) \/ FinalizeRelease(e, j)
             \/ StatusMessageSent(e, j)
             \/ \E v \in Versions : SendStatus(e, j, v)
        \/ \E k \in EffectKeys : LeaseNextJobEffect(e, k)
  BY DEF LoopNext
<1>2. CASE Acquire(e) \/ Heartbeat(e) \/ \E k \in EffectKeys : LeaseNextJobEffect(e, k)
  BY <1>2 DEF Acquire, Heartbeat, LeaseNextJobEffect, durableVars
<1>3. CASE Lose(e) \/ Shutdown(e) \/ Crash(e)
  <2>1. worker' = worker /\ adopted' = [adopted EXCEPT ![e] = {}]
    BY <1>3 DEF Lose, Shutdown, Crash, Leave, durableVars
  <2>2. QED
    BY <2>1
<1>4. ASSUME NEW j \in Jobs,
             \/ AdmitNext(e, j) \/ BeginDraining(e, j)
             \/ ConfirmQueuedCancellation(e, j) \/ FinalizeRelease(e, j)
             \/ StatusMessageSent(e, j)
             \/ \E v \in Versions : SendStatus(e, j, v)
      PROVE  MemoryInv'
  BY <1>4 DEF AdmitNext, BeginDraining, ConfirmQueuedCancellation, FinalizeRelease,
     StatusMessageSent, SendStatus, loopVars
<1>5. ASSUME NEW j \in Jobs, StartReconcile(e, j)
      PROVE  MemoryInv'
  <2>1. worker' = worker /\ (adopted' = adopted \/ adopted' = [adopted EXCEPT ![e] = @ \ {j}])
    BY <1>5 DEF StartReconcile, durableVars
  <2>2. QED
    BY <2>1
<1>6. ASSUME NEW j \in Jobs, NEW w \in Sightings, RefreshReleaseWorker(e, j, w)
      PROVE  MemoryInv'
  <2>1. adopted' = adopted /\ worker' = [worker EXCEPT ![j] = w]
    BY <1>6 DEF RefreshReleaseWorker, loopVars
  <2>2. w \in WorkerStates
    BY ControlPlaneAssumption DEF WorkerStates
  <2>3. QED
    BY <2>1, <2>2
<1>7. QED
  BY <1>1, <1>2, <1>3, <1>4, <1>5, <1>6

\* So do operations.
LEMMA OperationMemory ==
  ASSUME MemoryInv, LeaseInv, OperationNext
  PROVE  MemoryInv'
<1> USE DEF MemoryInv
<1>1. PICK o \in operations :
        \/ RenewLane(o)
        \/ \E w \in Sightings : ObserveWorker(o, w)
        \/ ApplyExecutorJobEvent(o) \/ StopThread(o)
        \/ CompleteMergeSuccess(o) \/ FailLeasedMergeEffect(o) \/ StaleMergeEffect(o)
        \/ ReleaseUnknownMergeFence(o) \/ AdoptHeldClaims(o) \/ FinishOperation(o)
        \/ CollectLost(o) \/ CompleteEffect(o) \/ FailEffect(o) \/ DeadLetterEffect(o)
  BY DEF OperationNext
<1>2. o.key[1] \in Jobs /\ o.executor \in Executors
  BY OperationKey
<1>3. CASE \/ RenewLane(o) \/ ApplyExecutorJobEvent(o) \/ StopThread(o)
           \/ CompleteMergeSuccess(o) \/ FailLeasedMergeEffect(o) \/ StaleMergeEffect(o)
           \/ ReleaseUnknownMergeFence(o) \/ FinishOperation(o)
           \/ CompleteEffect(o) \/ FailEffect(o) \/ DeadLetterEffect(o)
  BY <1>3 DEF RenewLane, ApplyExecutorJobEvent, StopThread, CompleteMergeSuccess,
     FailLeasedMergeEffect, StaleMergeEffect, ReleaseUnknownMergeFence, FinishOperation,
     CompleteEffect, FailEffect, DeadLetterEffect, loopVars, durableVars
<1>4. ASSUME NEW w \in Sightings, ObserveWorker(o, w)
      PROVE  MemoryInv'
  <2>1. adopted' = adopted /\ worker' = [worker EXCEPT ![o.key[1]] = w]
    BY <1>4 DEF ObserveWorker, loopVars
  <2>2. w \in WorkerStates
    BY ControlPlaneAssumption DEF WorkerStates
  <2>3. QED
    BY <1>2, <2>1, <2>2
<1>5. CASE AdoptHeldClaims(o)
  <2>1. worker' = worker /\ adopted' = [adopted EXCEPT ![o.executor] = @ \cup {o.key[1]}]
    BY <1>5 DEF AdoptHeldClaims
  <2>2. QED
    BY <1>2, <2>1
<1>6. CASE CollectLost(o)
  <2>1. worker' = worker /\ adopted' = [adopted EXCEPT ![o.executor] = {}]
    BY <1>6 DEF CollectLost, Leave, durableVars
  <2>2. QED
    BY <2>1
<1>7. QED
  BY <1>1, <1>3, <1>4, <1>5, <1>6

\* Every table and every loop keep their shape.
THEOREM ControlPlaneTypes == Spec => []TypeOK
<1>1. Init => MemoryInv
  BY DEF Init, MemoryInv, WorkerStates
<1>2. TablesInv /\ MemoryInv /\ [Next]_vars => MemoryInv'
  <2>1. ASSUME MemoryInv, OwnerNext \/ Tick \/ UNCHANGED vars
        PROVE  MemoryInv'
    BY <2>1 DEF MemoryInv, OwnerNext, QueueAdmission, RequeueAdmission, RetryFailedJob,
       AcceptApproval, RequestCancel, ConfigureQueue, loopVars, Tick, vars
  <2>2. QED
    BY <2>1, LoopMemory, OperationMemory DEF Next, TablesInv
<1>3. TablesInv /\ MemoryInv => TypeOK
  <2> SUFFICES ASSUME TablesInv, MemoryInv PROVE TypeOK
    OBVIOUS
  <2>1. operations \subseteq [executor : Executors, generation : Generations,
                              key : OperationKeys, phase : Phases]
    BY DEF TablesInv, LeaseInv, OperationRows
  <2>2. QED
    BY <2>1 DEF TypeOK, TablesInv, LeaseInv, SlotInv, RowsInv, MemoryInv,
       JobRows, ClaimRows, EffectRows
<1>4. QED
  BY <1>1, <1>2, <1>3, TablesInvariant, PTL DEF Spec

-----------------------------------------------------------------------------
(* Operations.  What an operation may still write follows from three facts:    *)
(* it was started under a generation that had been handed out, its loop had    *)
(* no other running for the job, and a release waits for it.                   *)
LanesInv ==
    /\ \A o \in operations : o.generation <= executorLease.generation
    /\ WriterHoldsItsJob
    /\ LeasedEffectIsAccountedFor

\* A fence that is current after a step was current before it.
LEMMA FenceWasCurrent ==
  ASSUME LeaseInv, [LeaseNext]_leaseVars, NEW e \in Executors, NEW g \in Nat,
         g <= executorLease.generation, IsExecutorLeaseCurrent(e, g)'
  PROVE  IsExecutorLeaseCurrent(e, g)
<1> USE LeaseAssumption DEF LeaseInv, LeaseTypeOK, Generations, IsExecutorLeaseCurrent
<1>1. executorLease.generation \in Nat /\ executorLease.ttl \in Nat
  OBVIOUS
<1>2. ASSUME NEW f \in Executors, AcquireExecutorLease(f)
      PROVE  FALSE
  BY <1>1, <1>2 DEF AcquireExecutorLease
<1>3. ASSUME NEW f \in Executors, RenewExecutorLease(f)
      PROVE  IsExecutorLeaseCurrent(e, g)
  BY <1>3 DEF RenewExecutorLease
<1>4. ASSUME NEW f \in Executors, LoseLease(f)
      PROVE  IsExecutorLeaseCurrent(e, g)
  BY <1>4 DEF LoseLease
<1>5. ASSUME NEW f \in Executors, ReleaseExecutorLease(f)
      PROVE  IsExecutorLeaseCurrent(e, g)
  BY <1>5 DEF ReleaseExecutorLease
<1>6. CASE LeaseTick
  BY <1>1, <1>6 DEF LeaseTick
<1>7. CASE UNCHANGED leaseVars
  BY <1>7 DEF leaseVars
<1>8. QED
  BY <1>2, <1>3, <1>4, <1>5, <1>6, <1>7 DEF LeaseNext

\* A loop that has left a generation never works under it again.
LEMMA LeftForGood ==
  ASSUME LeaseInv, [LeaseNext]_leaseVars, NEW e \in Executors, NEW g \in Nat \ {0},
         g <= executorLease.generation, acquired[e] # g
  PROVE  acquired'[e] # g
<1> USE LeaseAssumption DEF LeaseInv, LeaseTypeOK, Generations
<1>1. executorLease.generation \in Nat
  OBVIOUS
<1>2. ASSUME NEW f \in Executors, AcquireExecutorLease(f)
      PROVE  acquired'[e] # g
  BY <1>1, <1>2 DEF AcquireExecutorLease
<1>3. ASSUME NEW f \in Executors,
             RenewExecutorLease(f) \/ LoseLease(f) \/ ReleaseExecutorLease(f)
      PROVE  acquired'[e] # g
  BY <1>3 DEF RenewExecutorLease, LoseLease, ReleaseExecutorLease
<1>4. CASE LeaseTick \/ UNCHANGED leaseVars
  BY <1>4 DEF LeaseTick, leaseVars
<1>5. QED
  BY <1>2, <1>3, <1>4 DEF LeaseNext

\* A slot is only given up by a release, made by the loop the lease names, and
\* that loop has nothing running for the job.
LEMMA SlotsGivenUp ==
  ASSUME SlotInv, LeaseInv, [Next]_vars, NEW j \in Jobs, j \in Occupied, j \notin Occupied'
  PROVE  \E e \in Executors : IsExecutorLeaseCurrent(e, acquired[e]) /\ ~RunningOn(e, j)
<1>1. ClaimCases
  <2>1. CASE UNCHANGED vars \/ Tick
    BY <2>1 DEF ClaimCases, vars, Occupied
  <2>2. QED
    BY <2>1, OwnerClaims, LoopClaims, OperationClaims DEF Next
<1>2. ASSUME UNCHANGED admission
      PROVE  FALSE
  BY <1>2 DEF Occupied
<1>3. CASE UNCHANGED claim /\ Occupied' = Occupied
  BY <1>3
<1>4. ASSUME NEW e \in Executors, NEW i \in Jobs, AdmitNext(e, i)
      PROVE  FALSE
  <2>1. MoveTo(i, "admitted") /\ "admitted" \in AdmissionStates
    BY <1>4 DEF AdmitNext, tryAdmit, AdmissionStates
  <2>2. admission'[i].state = "admitted" /\ \A k \in Jobs \ {i} : admission'[k] = admission[k]
    BY <2>1, MoveToRows DEF SlotInv
  <2>3. QED
    BY <2>2 DEF Occupied
<1>5. ASSUME NEW e \in Executors, NEW i \in Jobs, FinalizeRelease(e, i)
      PROVE  IsExecutorLeaseCurrent(e, acquired[e]) /\ ~RunningOn(e, j)
  <2>1. /\ IsExecutorLeaseCurrent(e, acquired[e]) /\ ~RunningOn(e, i)
        /\ MoveTo(i, "released") /\ "released" \in AdmissionStates
    BY <1>5 DEF FinalizeRelease, ReleaseCandidate, Release, AdmissionStates
  <2>2. \A k \in Jobs \ {i} : admission'[k] = admission[k]
    BY <2>1, MoveToRows DEF SlotInv
  <2>3. i = j
    BY <2>2 DEF Occupied
  <2>4. QED
    BY <2>1, <2>3
<1>6. ASSUME NEW o \in operations, AdoptHeldClaims(o) \/ RenewLane(o)
      PROVE  FALSE
  BY <1>2, <1>6 DEF AdoptHeldClaims, RenewLane
<1>7. CASE Tick
  BY <1>2, <1>7 DEF Tick
<1>8. QED
  BY <1>1, <1>3, <1>4, <1>5, <1>6, <1>7 DEF ClaimCases

\* An operation the step has started: the only new one, in a slot, and the only
\* one its loop runs for the job.
StartedNow(o) ==
    /\ operations' = operations \cup {o}
    /\ o.key[1] \in Occupied'
    /\ o.generation = acquired[o.executor]
    /\ ~RunningOn(o.executor, o.key[1])

\* What a step may make of the operations: it starts one, or ends some; and one
\* that goes leaves its generation or settles its row.
OperationsGo ==
    /\ \A o \in operations' \ operations :
         /\ o.generation <= executorLease.generation
         /\ o.phase # "running" \/ StartedNow(o)
    /\ \A o \in operations : o.key \in EffectKeys =>
         \/ \E p \in operations' :
              p.key = o.key /\ p.executor = o.executor /\ p.generation = o.generation
         \/ acquired'[o.executor] # o.generation
         \/ effect'[o.key].status # "leased"

\* Nothing started and nothing ended.
LEMMA OperationsKept ==
  ASSUME UNCHANGED operations
  PROVE  OperationsGo
BY DEF OperationsGo

\* A loop starts an operation.
LEMMA OperationsStarted ==
  ASSUME LeaseInv, GenerationNamesOneLoop, NEW e \in Executors, NEW key \in OperationKeys,
         NEW phase \in Phases, Start(e, key, phase), acquired[e] # 0,
         ~RunningOn(e, key[1]), key[1] \in Occupied, UNCHANGED admission
  PROVE  OperationsGo
<1> DEFINE o == [executor |-> e, generation |-> acquired[e], key |-> key, phase |-> phase]
<1>1. operations' = operations \cup {o}
  BY DEF Start
<1>2. acquired[e] <= executorLease.generation
  BY DEF GenerationNamesOneLoop
<1>3. o.key = key /\ o.executor = e /\ o.generation = acquired[e]
  OBVIOUS
<1>4. key[1] \in Occupied'
  BY DEF Occupied
<1> HIDE DEF o
<1>5. StartedNow(o)
  BY <1>1, <1>3, <1>4 DEF StartedNow
<1>6. QED
  BY <1>1, <1>2, <1>3, <1>5 DEF OperationsGo

\* A loop leaves its generation, and some of its operations with it.
LEMMA OperationsLeft ==
  ASSUME LeaseInv, NEW e \in Executors, acquired' = [acquired EXCEPT ![e] = 0],
         operations' \subseteq operations,
         \A o \in operations \ operations' : o.executor = e
  PROVE  OperationsGo
<1>1. \A o \in operations : o.generation # 0
  BY OperationKey
<1>2. acquired'[e] = 0
  BY DEF LeaseInv, LeaseTypeOK
<1>3. \A o \in operations \ operations' : acquired'[o.executor] # o.generation
  BY <1>1, <1>2
<1>4. QED
  BY <1>3 DEF OperationsGo

\* An operation is collected, and its row settled.
LEMMA OperationsCollected ==
  ASSUME LeaseInv, NEW o \in operations, operations' = operations \ {o},
         o.key \in EffectKeys => effect'[o.key].status # "leased"
  PROVE  OperationsGo
<1>1. \A p \in operations : p = o \/ p \in operations'
  OBVIOUS
<1>2. QED
  BY <1>1 DEF OperationsGo

\* The loop's own actions.
LEMMA LoopOperations ==
  ASSUME LeaseInv, GenerationNamesOneLoop, LoopNext
  PROVE  OperationsGo
<1>1. PICK e \in Executors :
        \/ Acquire(e) \/ Heartbeat(e) \/ Lose(e) \/ Shutdown(e) \/ Crash(e)
        \/ \E j \in Jobs :
             \/ AdmitNext(e, j) \/ StartReconcile(e, j) \/ BeginDraining(e, j)
             \/ \E w \in Sightings : RefreshReleaseWorker(e, j, w)
             \/ ConfirmQueuedCancellation(e, j) \/ FinalizeRelease(e, j)
             \/ StatusMessageSent(e, j)
             \/ \E v \in Versions : SendStatus(e, j, v)
        \/ \E k \in EffectKeys : LeaseNextJobEffect(e, k)
  BY DEF LoopNext
<1>2. CASE Acquire(e) \/ Heartbeat(e)
  BY <1>2, OperationsKept DEF Acquire, Heartbeat
<1>3. CASE Lose(e) \/ Shutdown(e) \/ Crash(e)
  <2>1. acquired' = [acquired EXCEPT ![e] = 0]
    BY <1>3 DEF Lose, Shutdown, Crash, LoseLease, ReleaseExecutorLease
  <2>2. operations' \subseteq operations /\ \A o \in operations \ operations' : o.executor = e
    BY <1>3 DEF Lose, Shutdown, Crash, Leave
  <2>3. QED
    BY <2>1, <2>2, OperationsLeft
<1>4. ASSUME NEW j \in Jobs,
             \/ AdmitNext(e, j) \/ BeginDraining(e, j)
             \/ \E w \in Sightings : RefreshReleaseWorker(e, j, w)
             \/ ConfirmQueuedCancellation(e, j) \/ FinalizeRelease(e, j)
             \/ StatusMessageSent(e, j)
             \/ \E v \in Versions : SendStatus(e, j, v)
      PROVE  OperationsGo
  BY <1>4, OperationsKept DEF AdmitNext, BeginDraining, RefreshReleaseWorker,
     ConfirmQueuedCancellation, FinalizeRelease, StatusMessageSent, SendStatus, loopVars
<1>5. ASSUME NEW j \in Jobs, StartReconcile(e, j)
      PROVE  OperationsGo
  <2>1. /\ Start(e, ReconcileKey(j), "running") /\ acquired[e] # 0
        /\ ~RunningOn(e, j) /\ j \in Occupied /\ UNCHANGED admission
    BY <1>5 DEF StartReconcile, durableVars
  <2>2. ReconcileKey(j) \in OperationKeys /\ "running" \in Phases /\ ReconcileKey(j)[1] = j
    BY DEF OperationKeys, Phases, ReconcileKey
  <2>3. QED
    BY <2>1, <2>2, OperationsStarted
<1>6. ASSUME NEW k \in EffectKeys, LeaseNextJobEffect(e, k)
      PROVE  OperationsGo
  <2>1. PICK phase \in Phases : Start(e, k, phase)
    BY <1>6 DEF LeaseNextJobEffect, Phases
  <2>2. /\ acquired[e] # 0 /\ ~RunningOn(e, k[1]) /\ k[1] \in Occupied /\ UNCHANGED admission
        /\ k \in OperationKeys
    BY <1>6 DEF LeaseNextJobEffect, OperationKeys
  <2>3. QED
    BY <2>1, <2>2, OperationsStarted
<1>7. QED
  BY <1>1, <1>2, <1>3, <1>4, <1>5, <1>6

\* Operations that go on, end, and are collected.
LEMMA OperationOperations ==
  ASSUME LeaseInv, RowsInv, \A o \in operations : o.generation <= executorLease.generation,
         OperationNext
  PROVE  OperationsGo
<1>1. PICK o \in operations :
        \/ RenewLane(o)
        \/ \E w \in Sightings : ObserveWorker(o, w)
        \/ ApplyExecutorJobEvent(o) \/ StopThread(o)
        \/ CompleteMergeSuccess(o) \/ FailLeasedMergeEffect(o) \/ StaleMergeEffect(o)
        \/ ReleaseUnknownMergeFence(o) \/ AdoptHeldClaims(o) \/ FinishOperation(o)
        \/ CollectLost(o) \/ CompleteEffect(o) \/ FailEffect(o) \/ DeadLetterEffect(o)
  BY DEF OperationNext
<1>2. CASE \/ RenewLane(o)
           \/ \E w \in Sightings : ObserveWorker(o, w)
           \/ ApplyExecutorJobEvent(o) \/ StopThread(o)
           \/ CompleteMergeSuccess(o) \/ FailLeasedMergeEffect(o) \/ StaleMergeEffect(o)
           \/ ReleaseUnknownMergeFence(o)
  BY <1>2, OperationsKept DEF RenewLane, ObserveWorker, ApplyExecutorJobEvent, StopThread,
     CompleteMergeSuccess, FailLeasedMergeEffect, StaleMergeEffect, ReleaseUnknownMergeFence, loopVars
<1>3. CASE AdoptHeldClaims(o)
  <2>1. operations' = operations \ {o} /\ IsReconcile(o)
    BY <1>3 DEF AdoptHeldClaims
  <2>2. o.key \notin EffectKeys
    BY <2>1 DEF IsReconcile, ReconcileKey, EffectKeys, Versions
  <2>3. QED
    BY <2>1, <2>2, OperationsCollected
<1>4. CASE FinishOperation(o)
  <2> DEFINE ended == [o EXCEPT !.phase = "ended"]
  <2>1. o \in OperationRows
    BY DEF LeaseInv
  <2>2. /\ ended.phase = "ended" /\ ended.key = o.key /\ ended.executor = o.executor
        /\ ended.generation = o.generation
    BY <2>1 DEF OperationRows
  <2>3. /\ operations' = (operations \ {o}) \cup
             IF acquired[o.executor] = o.generation /\ ~IsReconcile(o) THEN {ended} ELSE {}
        /\ UNCHANGED acquired
    BY <1>4 DEF FinishOperation
  <2> HIDE DEF ended
  <2>4. o.key \in EffectKeys => ~IsReconcile(o)
    BY DEF IsReconcile, ReconcileKey, EffectKeys, Versions
  <2>5. \A p \in operations' \ operations : p = ended
    BY <2>3
  <2>6. \A p \in operations : p = o \/ p \in operations'
    BY <2>3
  <2>7. o.key \in EffectKeys => ended \in operations' \/ acquired'[o.executor] # o.generation
    BY <2>3, <2>4
  <2>8. QED
    BY <2>2, <2>5, <2>6, <2>7 DEF OperationsGo
<1>5. CASE CollectLost(o)
  <2>1. acquired' = [acquired EXCEPT ![o.executor] = 0] /\ o.executor \in Executors
    BY <1>5, OperationKey DEF CollectLost, LoseLease
  <2>2. operations' \subseteq operations /\ \A p \in operations \ operations' : p.executor = o.executor
    BY <1>5 DEF CollectLost, Leave
  <2>3. QED
    BY <2>1, <2>2, OperationsLeft
<1>6. CASE CompleteEffect(o) \/ FailEffect(o) \/ DeadLetterEffect(o)
  <2>1. operations' = operations \ {o} /\ HoldsItsEffect(o)
    BY <1>6 DEF CompleteEffect, FailEffect, DeadLetterEffect, Collects
  <2>2. \E status \in {"done", "pending", "dead"} : effect' = RowAs(o, Unleased(effect[o.key], status))
    BY <1>6 DEF CompleteEffect, FailEffect, DeadLetterEffect, MarkJobPermanentFailure, Advance,
                Emit, Close, Move
  <2>3. effect \in [EffectKeys -> EffectRows]
    BY DEF RowsInv
  <2>4. ASSUME o.key \in EffectKeys
        PROVE  effect'[o.key].status # "leased"
    <3>1. PICK status \in {"done", "pending", "dead"} :
            effect' = RowAs(o, Unleased(effect[o.key], status))
      BY <2>2
    <3>2. effect'[o.key] = Unleased(effect[o.key], status)
      BY <2>3, <2>4, <3>1 DEF RowAs
    <3>3. effect[o.key] \in EffectRows
      BY <2>3, <2>4
    <3>4. Unleased(effect[o.key], status).status = status
      BY <3>3 DEF Unleased, EffectRows
    <3>5. QED
      BY <3>2, <3>4
  <2>5. QED
    BY <2>1, <2>4, OperationsCollected
<1>7. QED
  BY <1>1, <1>2, <1>3, <1>4, <1>5, <1>6

\* The operations' invariant, step by step.
LEMMA LanesStep ==
  ASSUME TablesInv, GenerationNamesOneLoop, LanesInv, [Next]_vars
  PROVE  LanesInv'
<1>1. /\ TablesInv' /\ [LeaseNext]_leaseVars /\ Grows
      /\ \A k \in EffectKeys : RowGoes(k)
  BY TablesStep
<1>2. LeaseInv /\ SlotInv /\ RowsInv /\ LeaseInv' /\ RowsInv'
  BY <1>1 DEF TablesInv
<1>3. OperationsGo
  <2>1. ASSUME OwnerNext \/ Tick \/ UNCHANGED vars
        PROVE  UNCHANGED operations
    BY <2>1 DEF OwnerNext, QueueAdmission, RequeueAdmission, RetryFailedJob, AcceptApproval,
                RequestCancel, ConfigureQueue, loopVars, Tick, vars
  <2>2. QED
    BY <1>2, <2>1, OperationsKept, LoopOperations, OperationOperations DEF Next, LanesInv
<1>4. \A o \in operations : o.key[1] \in Jobs /\ o.executor \in Executors /\ o.generation \in Nat \ {0}
  BY <1>2, OperationKey, LeaseAssumption DEF Generations
<1>5. \A o \in operations' : o.generation \in Nat \ {0} /\ o.executor \in Executors
  BY <1>2, LeaseAssumption DEF LeaseInv, OperationRows, Generations
<1>6. \A o \in operations' : o.generation <= executorLease'.generation
  <2> SUFFICES ASSUME NEW o \in operations' PROVE o.generation <= executorLease'.generation
    OBVIOUS
  <2>1. o.generation <= executorLease.generation
    BY <1>3 DEF OperationsGo, LanesInv
  <2>2. QED
    BY <1>1, <1>5, <2>1 DEF Grows
<1>7. ASSUME NEW o \in operations, Fenced(o)'
      PROVE  Fenced(o) /\ o.key[1] \in Occupied'
  <2>1. o.phase = "running" /\ IsExecutorLeaseCurrent(o.executor, o.generation)'
    BY <1>7 DEF Fenced
  <2>2. IsExecutorLeaseCurrent(o.executor, o.generation)
    BY <1>1, <1>2, <1>4, <2>1, FenceWasCurrent DEF LanesInv
  <2>3. Fenced(o)
    BY <2>1, <2>2 DEF Fenced
  <2>4. o.key[1] \in Occupied
    BY <2>3 DEF LanesInv, WriterHoldsItsJob
  <2>5. ASSUME o.key[1] \notin Occupied'
        PROVE  FALSE
    <3>1. PICK e \in Executors : IsExecutorLeaseCurrent(e, acquired[e]) /\ ~RunningOn(e, o.key[1])
      BY <1>2, <1>4, <2>4, <2>5, SlotsGivenUp
    <3>2. o.executor = e /\ o.generation = acquired[e]
      BY <2>2, <3>1 DEF IsExecutorLeaseCurrent
    <3>3. QED
      BY <2>1, <3>1, <3>2 DEF RunningOn
  <2>6. QED
    BY <2>3, <2>5
<1>8. ASSUME NEW o \in operations' \ operations, Fenced(o)'
      PROVE  /\ StartedNow(o)
             /\ \A p \in operations : Fenced(p)' => p.key[1] # o.key[1]
  <2>1. StartedNow(o) /\ o.phase = "running"
    BY <1>3, <1>8 DEF OperationsGo, Fenced
  <2>2. ASSUME NEW p \in operations, Fenced(p)', p.key[1] = o.key[1]
        PROVE  FALSE
    <3>1. /\ p.phase = "running"
          /\ p.executor = o.executor /\ p.generation = o.generation
      BY <1>8, <2>2 DEF Fenced, IsExecutorLeaseCurrent
    <3>2. RunningOn(o.executor, o.key[1])
      BY <2>1, <2>2, <3>1 DEF RunningOn, StartedNow
    <3>3. QED
      BY <2>1, <3>2 DEF StartedNow
  <2>3. QED
    BY <2>1, <2>2
<1>9. WriterHoldsItsJob'
  <2> SUFFICES ASSUME NEW o \in operations', Fenced(o)'
               PROVE  /\ o.key[1] \in Occupied'
                      /\ \A p \in operations' : Fenced(p)' /\ p.key[1] = o.key[1] => p = o
    BY DEF WriterHoldsItsJob
  <2>1. CASE o \in operations
    <3>1. Fenced(o) /\ o.key[1] \in Occupied'
      BY <1>7, <2>1
    <3>2. ASSUME NEW p \in operations', Fenced(p)', p.key[1] = o.key[1]
          PROVE  p = o
      <4>1. p \in operations
        BY <1>8, <2>1, <3>2
      <4>2. Fenced(p)
        BY <1>7, <3>2, <4>1
      <4>3. QED
        BY <2>1, <3>1, <3>2, <4>1, <4>2 DEF LanesInv, WriterHoldsItsJob
    <3>3. QED
      BY <3>1, <3>2
  <2>2. CASE o \notin operations
    <3>1. StartedNow(o) /\ \A p \in operations : Fenced(p)' => p.key[1] # o.key[1]
      BY <1>8, <2>2
    <3>2. \A p \in operations' : p \in operations \/ p = o
      BY <3>1 DEF StartedNow
    <3>3. QED
      BY <3>1, <3>2 DEF StartedNow
  <2>3. QED
    BY <2>1, <2>2
<1>10. LeasedEffectIsAccountedFor'
  <2> SUFFICES ASSUME NEW k \in EffectKeys, effect'[k].status = "leased",
                      effect'[k].generation = executorLease'.generation
               PROVE  \/ \E o \in operations' : /\ o.key = k
                                                /\ o.executor = effect'[k].owner
                                                /\ o.generation = effect'[k].generation
                      \/ acquired'[effect'[k].owner] # effect'[k].generation
    BY DEF LeasedEffectIsAccountedFor
  <2>1. RowGoes(k)
    BY <1>1
  <2>2. effect'[k].generation # 0 /\ effect'[k].owner \in Executors
    BY <2>1 DEF RowGoes, RowFits
  <2>3. SUFFICES ASSUME effect[k].status = "leased",
                        effect'[k].owner = effect[k].owner,
                        effect'[k].generation = effect[k].generation
                 PROVE  \/ \E o \in operations' : /\ o.key = k
                                                  /\ o.executor = effect'[k].owner
                                                  /\ o.generation = effect'[k].generation
                        \/ acquired'[effect'[k].owner] # effect'[k].generation
    BY <2>1, <2>2 DEF RowGoes
  <2>4. effect[k].generation \in Nat /\ effect[k].generation <= executorLease.generation
    BY <1>2, LeaseAssumption DEF RowsInv, RowFits, EffectRows, Generations
  <2>5. effect[k].generation = executorLease.generation
    BY <1>1, <2>3, <2>4 DEF Grows
  <2>6. CASE acquired[effect[k].owner] # effect[k].generation
    BY <1>1, <1>2, <2>2, <2>3, <2>4, <2>6, LeftForGood
  <2>7. CASE acquired[effect[k].owner] = effect[k].generation
    <3>1. PICK o \in operations : /\ o.key = k
                                  /\ o.executor = effect[k].owner
                                  /\ o.generation = effect[k].generation
      BY <2>3, <2>5, <2>7 DEF LanesInv, LeasedEffectIsAccountedFor
    <3>2. \/ \E p \in operations' :
               p.key = o.key /\ p.executor = o.executor /\ p.generation = o.generation
          \/ acquired'[o.executor] # o.generation
          \/ effect'[o.key].status # "leased"
      BY <1>3, <3>1 DEF OperationsGo
    <3>3. QED
      BY <2>3, <3>1, <3>2
  <2>8. QED
    BY <2>6, <2>7
<1>11. QED
  BY <1>6, <1>9, <1>10 DEF LanesInv

\* The operations' invariant, always.
LEMMA LanesInvariant == Spec => []LanesInv
<1>1. Init => LanesInv
  BY DEF Init, LanesInv, WriterHoldsItsJob, LeasedEffectIsAccountedFor, Absent
<1>2. QED
  BY <1>1, LanesStep, TablesInvariant, ControlPlaneGenerationsNameOneLoop, PTL DEF Spec

\* An operation that can still write holds its job's slot, alone, however often
\* the lease is lost and taken over while it runs.
THEOREM WritersHoldTheirJobs == Spec => []WriterHoldsItsJob
<1>1. LanesInv => WriterHoldsItsJob
  BY DEF LanesInv
<1>2. QED
  BY <1>1, LanesInvariant, PTL

\* An effect leased under the current generation is under way, waits to be
\* settled by its loop, or its loop is gone.
THEOREM LeasedEffectsAreAccountedFor == Spec => []LeasedEffectIsAccountedFor
<1>1. LanesInv => LeasedEffectIsAccountedFor
  BY DEF LanesInv
<1>2. QED
  BY <1>1, LanesInvariant, PTL
=============================================================================
