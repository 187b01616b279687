----------------------------- MODULE ControlPlane -----------------------------
(***************************************************************************)
(* The durable control plane of the store and the loop that drives it:     *)
(* admissions, project claims, leased effects, lane operations, draining   *)
(* and release, over the executor lease of ExecutorLease.                  *)
(*                                                                         *)
(* One action is one SQLite transaction, or one synchronous stretch of the *)
(* loop between two awaits.  Owner actions (Telegram, CLI, agent tools)    *)
(* are unfenced; every executor write is fenced by the generation its      *)
(* caller captured when it started, so an operation of a loop that lost    *)
(* its lease keeps running here and keeps trying to write.                 *)
(*                                                                         *)
(* The 26 job states are kept as the classes the control plane tells       *)
(* apart: "working" is every state from planning to awaiting_merge_approval*)
(* and recovering_worker, "production" is deploying and                    *)
(* verifying_production, "closed" is merged, complete and production_failed*)
(***************************************************************************)
EXTENDS ExecutorLease, Admissions

CONSTANTS
    Sightings,      \* bound: the liveness BB may report of a worker
    MaxVersion,     \* bound: job versions
    Reserve         \* bound: versions kept back for the moves a job in progress is owed

ASSUME ControlPlaneAssumption ==
    /\ Sightings \subseteq {"settled", "active", "unknown"}
    /\ MaxVersion \in Nat \ {0}
    /\ Reserve \in Nat

VARIABLES
    job,            \* table jobs; unsent: the versions whose status rows are not settled
    claim,          \* the project claim of table job_resource_claims
    effect,         \* table effects: the row a version of a job may have inserted
    worker,         \* last recorded liveness of the job's worker
    adopted,        \* adopted[e]: the loop's adoptedJobIds
    operations      \* lane operations started and not yet collected, of any generation

vars == <<executorLease, acquired, job, admission, claim, effect, worker,
          nextSeq, cap, paused, adopted, operations>>

JobStates == {"awaiting_confirmation", "working", "merging", "production",
              "failed", "blocked", "cancelled", "closed"}
BlockedReasons == {"none", "limit", "permanent_effect_failure", "cancellation_unconfirmed"}
ResumeStates == {"none", "working", "merging"}
WorkerStates == {"settled", "active", "unknown"}
EffectStatus == {"absent", "pending", "leased", "done", "dead"}

(* "merge" carries the accepted approval its lease requires; the merge_pr   *)
(* row a RETRY re-enqueues carries only the head ("unapproved_merge").      *)
MergeKinds == {"merge", "unapproved_merge"}
EffectKinds == {"none", "stage", "production", "stop_thread"} \cup MergeKinds

Versions == 1 .. MaxVersion
EffectKeys == Jobs \X Versions
ReconcileKey(j) == <<j, 0>>
OperationKeys == EffectKeys \cup {ReconcileKey(j) : j \in Jobs}
Phases == {"running", "ended", "skipped"}

ReleaseCandidates == {"blocked", "cancelled", "closed"}
isReleaseCandidate(j) == job[j].state \in ReleaseCandidates

Absent == [kind |-> "none", status |-> "absent", owner |-> NoExecutor,
           generation |-> 0, ttl |-> 0]
Pending(kind) == [Absent EXCEPT !.kind = kind, !.status = "pending"]
NoClaim == [held |-> FALSE, owner |-> NoExecutor, generation |-> 0, ttl |-> 0]

-----------------------------------------------------------------------------
(* Effects *)

\* Mutated form of IsOpen: dead rows are leased again.
IsOpenOrDead(k) ==
    \/ effect[k].status \in {"pending", "dead"}
    \/ effect[k].status = "leased" /\ effect[k].ttl = 0

\* pending stands for pending and failed: the only difference is the backoff,
\* and a retry may come due at any time.
IsOpen(k) ==
    \/ effect[k].status = "pending"
    \/ effect[k].status = "leased" /\ effect[k].ttl = 0

IsLeased(k) == effect[k].status = "leased" /\ effect[k].ttl > 0

HoldsEffect(k, e, g) ==
    /\ IsLeased(k)
    /\ effect[k].owner = e
    /\ effect[k].generation = g

\* Mutated form of LeasedBy: the deadline itself still counts as leased.
LeasedByOneTickMore(row, e, g) ==
    [row EXCEPT !.status = "leased", !.owner = e, !.generation = g, !.ttl = LeaseMs + 1]

LeasedBy(row, e, g) ==
    [row EXCEPT !.status = "leased", !.owner = e, !.generation = g, !.ttl = LeaseMs]

Unleased(row, status) ==
    [row EXCEPT !.status = status, !.owner = NoExecutor, !.generation = 0, !.ttl = 0]

\* The row a transition to version v inserts.
Emit(rows, j, v, kind) ==
    IF kind = "none" THEN rows ELSE [rows EXCEPT ![<<j, v>>] = Pending(kind)]

-----------------------------------------------------------------------------
(* Job transitions *)

\* A move of the job state machine: where it goes, the effect it emits for the
\* pipeline, and whether it posts the status (render_status, revoke_approvals).
Move(state, reason, resumeState, kind, status) ==
    [state |-> state, reason |-> reason, resumeState |-> resumeState,
     kind |-> kind, status |-> status]

NextStage == Move("working", "none", "none", "stage", FALSE)
Fail(j) == Move("failed", "none", job[j].state, "none", TRUE)
Block(reason) == Move("blocked", reason, "none", "none", TRUE)
Close == Move("closed", "none", "none", "none", TRUE)
Cancel(j) == Move("cancelled", "none", job[j].resumeState, "none", TRUE)
NextProduction == Move("production", "none", "none", "production", TRUE)

\* Bound on versions, with room kept for the moves a job is owed (failing,
\* dead-lettering, the end of a cancellation).
Room(j, n) == job[j].version + n <= MaxVersion
RoomFor(j, m) ==
    Room(j, CASE m.state \in {"working", "merging"} -> 1 + Reserve
              [] m.state = "production" -> 2
              [] OTHER -> 1)

\* Job j at its next version, with that version's status row or without one.
Bumped(j, status) ==
    [job[j] EXCEPT !.version = @ + 1,
                   !.unsent = IF status THEN @ \cup {job[j].version + 1} ELSE @]

\* Job j after move m.
After(j, m) ==
    [Bumped(j, m.status) EXCEPT !.state = m.state, !.reason = m.reason,
                                !.resumeState = m.resumeState]

\* markAdmissionDrainingForTerminal
Drained(j, state) ==
    IF state \in ReleaseCandidates /\ admission[j].state = "admitted"
      THEN [admission EXCEPT ![j].state = "draining"]
      ELSE admission

\* persistJobTransition and persistPendingEffects, over the effect rows the
\* caller has already settled.
Advance(rows, j, m) ==
    /\ RoomFor(j, m)
    /\ job' = [job EXCEPT ![j] = After(j, m)]
    /\ effect' = Emit(rows, j, job[j].version + 1, m.kind)

\* ... and the draining mark.
TransitionOver(rows, j, m) ==
    /\ Advance(rows, j, m)
    /\ admission' = Drained(j, m.state)

\* Once cancellation is requested every other event only bumps the version.
Swallow(j) ==
    /\ Room(j, 2)
    /\ job' = [job EXCEPT ![j] = Bumped(j, FALSE)]
    /\ UNCHANGED <<effect, admission>>

\* What a stage effect, or the reconciliation of a working job, may report.
StageMoves(j) ==
    {NextStage, Fail(j), Block("limit"), Close}
ProductionMoves == {NextProduction, Close}

\* retryEffect and resumeFromExistingPr: a retry of a failed merge re-enqueues
\* merge_pr without the approval, unless the job restarts from its PR (small fix).
RetryMoves(j) ==
    CASE job[j].resumeState = "working" -> {NextStage}
      [] job[j].resumeState = "merging" ->
            {NextStage, Move("merging", "none", "none", "unapproved_merge", FALSE)}
      [] OTHER -> {}

isResumablePermanentFailure(j) ==
    /\ job[j].state = "blocked"
    /\ job[j].reason = "permanent_effect_failure"
    /\ job[j].resumeState # "none"
    /\ ~job[j].cancelRequested

\* The continuation assertContinuationState accepts for the job as it stands.
CanResume(j, resumeEvent) ==
    CASE resumeEvent = "CONFIRMED" -> job[j].state = "awaiting_confirmation"
      [] resumeEvent = "CONTINUE_REVIEW" -> job[j].state = "blocked" /\ job[j].reason = "limit"
      [] resumeEvent = "RETRY" ->
            \/ isResumablePermanentFailure(j)
            \/ job[j].state = "failed" /\ job[j].resumeState # "none" /\ ~job[j].cancelRequested

ResumeMoves(j, resumeEvent) ==
    CASE resumeEvent = "CONFIRMED" -> {NextStage}
      [] resumeEvent = "CONTINUE_REVIEW" -> {NextStage, Close}
      [] resumeEvent = "RETRY" -> RetryMoves(j)

-----------------------------------------------------------------------------
(* Admissions *)

\* Mutated form of ClaimedProjects: the claim of a draining job counts as free.
ClaimedProjectsOfRunning ==
    {ProjectOf[j] : j \in {k \in Jobs : claim[k].held /\ admission[k].state = "admitted"}}

ClaimedProjects == {ProjectOf[j] : j \in {k \in Jobs : claim[k].held}}

\* tryAdmit: the claim, the admission and the resume event in one transaction.
tryAdmit(j, e, g) ==
    /\ IsExecutorLeaseCurrent(e, g)
    /\ admission[j].state = "queued"
    /\ ~job[j].cancelRequested
    /\ CanResume(j, admission[j].resumeEvent)
    /\ Cardinality(Occupied) < cap
    /\ ProjectOf[j] \notin ClaimedProjects
    /\ claim' = [claim EXCEPT ![j] = [held |-> TRUE, owner |-> e, generation |-> g, ttl |-> LeaseMs]]
    /\ \E m \in ResumeMoves(j, admission[j].resumeEvent) : Advance(effect, j, m)
    /\ MoveTo(j, "admitted")

-----------------------------------------------------------------------------
(* The owner, through Telegram, the CLI or the agent's tools.  Unfenced. *)

loopVars == <<executorLease, acquired, adopted, operations>>

\* A confirmed job enters the queue.
QueueAdmission(j) ==
    /\ CanResume(j, "CONFIRMED")
    /\ Queue(j)
    /\ UNCHANGED <<loopVars, job, claim, effect, worker>>

\* requeueReviewAdmission, and retryFailedJob of a released job
RequeueAdmission(j) ==
    /\ \E resumeEvent \in {"CONTINUE_REVIEW", "RETRY"} :
         CanResume(j, resumeEvent) /\ Requeue(j, resumeEvent)
    /\ UNCHANGED <<loopVars, job, claim, effect, worker>>

\* Mutated form of RetryFailedJob: a released job is resumed in place.
RetryReleasedJob(j) ==
    /\ admission[j].state \in {"admitted", "released"}
    /\ CanResume(j, "RETRY")
    /\ \E m \in RetryMoves(j) : TransitionOver(effect, j, m)
    /\ UNCHANGED <<loopVars, claim, worker, nextSeq, cap, paused>>

\* retryFailedJob of a job that still holds its slot: resumed in place.
RetryFailedJob(j) ==
    /\ admission[j].state = "admitted"
    /\ CanResume(j, "RETRY")
    /\ \E m \in RetryMoves(j) : TransitionOver(effect, j, m)
    /\ UNCHANGED <<loopVars, claim, worker, nextSeq, cap, paused>>

\* acceptApprovalAndEnqueueMerge: the accepted approval starts the merge.
AcceptApproval(j) ==
    /\ job[j].state = "working"
    /\ ~job[j].cancelRequested
    /\ TransitionOver(effect, j, Move("merging", "none", "none", "merge", TRUE))
    /\ UNCHANGED <<loopVars, claim, worker, nextSeq, cap, paused>>

\* CANCEL_REQUESTED with the recorded liveness as evidence.  A worker last seen
\* active is asked to stop; a reviewing job whose lenses cannot all be resolved
\* offers no evidence and just waits; otherwise the job is cancelled at once.
RequestCancel(j) ==
    /\ job[j].state \notin {"cancelled", "production", "closed"}
    /\ \/ /\ worker[j] = "active" \/ job[j].state = "working"
          /\ Room(j, 2)
          /\ job' = [job EXCEPT ![j] = [Bumped(j, ~job[j].cancelRequested) EXCEPT
                                           !.cancelRequested = TRUE]]
          /\ effect' = IF worker[j] = "active" /\ ~job[j].cancelRequested
                         THEN Emit(effect, j, job[j].version + 1, "stop_thread")
                         ELSE effect
          /\ UNCHANGED admission
       \/ /\ worker[j] # "active"
          /\ Room(j, 1)
          /\ job' = [job EXCEPT ![j] = [After(j, Cancel(j)) EXCEPT !.cancelRequested = TRUE]]
          /\ admission' = Drained(j, "cancelled")
          /\ UNCHANGED effect
    /\ UNCHANGED <<loopVars, claim, worker, nextSeq, cap, paused>>

ConfigureQueue ==
    /\ \/ \E c \in Caps \ {cap} : ConfigureCap(c)
       \/ \E p \in Brakes : SetPaused(p)
    /\ UNCHANGED <<loopVars, job, claim, effect, worker>>

-----------------------------------------------------------------------------
(* The loop *)

durableVars == <<job, admission, claim, effect, worker, nextSeq, cap, paused>>

RunningOn(e, j) ==
    \E o \in operations : /\ o.executor = e
                          /\ o.generation = acquired[e]
                          /\ o.key[1] = j
                          /\ o.phase = "running"

Start(e, key, phase) ==
    operations' = operations \cup
        {[executor |-> e, generation |-> acquired[e], key |-> key, phase |-> phase]}

\* The loop leaves its generation.  What it adopted, and the completions it has
\* not collected, go with it; its running operations are aborted, which they
\* notice in their own time.
Leave(e) ==
    /\ adopted' = [adopted EXCEPT ![e] = {}]
    /\ operations' = {o \in operations : o.executor # e \/ o.phase = "running"}

Acquire(e) ==
    /\ AcquireExecutorLease(e)
    /\ UNCHANGED <<durableVars, adopted, operations>>

Heartbeat(e) ==
    /\ RenewExecutorLease(e)
    /\ UNCHANGED <<durableVars, adopted, operations>>

\* Every durable refusal, and every storage error a renewal meets, ends here.
Lose(e) ==
    /\ LoseLease(e)
    /\ Leave(e)
    /\ UNCHANGED durableVars

Shutdown(e) ==
    /\ ReleaseExecutorLease(e)
    /\ Leave(e)
    /\ UNCHANGED durableVars

\* The process dies: its operations die with it, its lease stays behind.
Crash(e) ==
    /\ LoseLease(e)
    /\ adopted' = [adopted EXCEPT ![e] = {}]
    /\ operations' = {o \in operations : o.executor # e}
    /\ UNCHANGED durableVars

AdmitNext(e, j) ==
    /\ acquired[e] # 0
    /\ j \in selectOldestEligibleAdmissions(ClaimedProjects)
    /\ tryAdmit(j, e, acquired[e])
    /\ UNCHANGED <<loopVars, worker>>

-----------------------------------------------------------------------------
(* Lanes: reconciliation, and the effects the loop leases and runs *)

\* hasCurrentAdoptedClaims
ClaimIsCurrent(j, e, g) ==
    claim[j].held /\ claim[j].owner = e /\ claim[j].generation = g /\ claim[j].ttl > 0

\* An occupied job is reconciled before this loop touches it, again when its
\* claim has lapsed, and from time to time while a worker may be running.
StartReconcile(e, j) ==
    /\ acquired[e] # 0
    /\ j \in Occupied
    /\ ~RunningOn(e, j)
    /\ adopted' = IF ClaimIsCurrent(j, e, acquired[e])
                    THEN adopted
                    ELSE [adopted EXCEPT ![e] = @ \ {j}]
    /\ j \notin adopted'[e] \/ job[j].state = "working"
    /\ Start(e, ReconcileKey(j), "running")
    /\ UNCHANGED <<executorLease, acquired, durableVars>>

\* The merge row a lease accepts: acceptedMergeEffectForLease.
MergeIsAccepted(k) ==
    /\ effect[k].kind = "merge"
    /\ k[2] = job[k[1]].version
    /\ job[k[1]].state = "merging"
    /\ ~job[k[1]].cancelRequested

\* admissionAllowsEffect
admissionAllowsEffect(k) ==
    \/ admission[k[1]].state = "admitted"
    \/ admission[k[1]].state = "draining" /\ effect[k].kind = "stop_thread"

\* An earlier merge row that can no longer be accepted ends the whole pass
\* over this job's rows (MergeClaimConflictError).
MergeConflictBefore(j, k) ==
    \E m \in EffectKeys :
        /\ m[1] = j /\ m[2] <= k[2]
        /\ effect[m].kind \in MergeKinds
        /\ IsOpen(m) /\ admissionAllowsEffect(m) /\ ~MergeIsAccepted(m)

\* expectedStates: an effect the job has moved past returns at once.
IsExpected(k) ==
    CASE effect[k].kind = "stage" -> job[k[1]].state = "working"
      [] effect[k].kind \in MergeKinds -> job[k[1]].state = "merging"
      [] effect[k].kind = "production" -> job[k[1]].state = "production"
      [] OTHER -> TRUE

LeaseNextJobEffect(e, k) ==
    LET j == k[1] IN
    /\ acquired[e] # 0
    /\ ~RunningOn(e, j)
    /\ j \in adopted[e]
    /\ j \in Occupied
    /\ IsExecutorLeaseCurrent(e, acquired[e])
    /\ ClaimIsCurrent(j, e, acquired[e])
    /\ ~\E t \in EffectKeys : t[1] = j /\ IsLeased(t)
    /\ IsOpen(k) /\ admissionAllowsEffect(k)
    /\ ~MergeConflictBefore(j, k)
    /\ effect[k].kind = "production" => job[j].state = "production"
    /\ effect' = [effect EXCEPT ![k] = LeasedBy(@, e, acquired[e])]
    /\ Start(e, k, IF IsExpected(k) THEN "running" ELSE "skipped")
    /\ UNCHANGED <<executorLease, acquired, job, admission, claim, worker, nextSeq,
                   cap, paused, adopted>>

\* Mutated form of SendStatus: draining jobs send nothing.
SendStatusOfRunning(e, j, v) ==
    /\ acquired[e] # 0
    /\ ~RunningOn(e, j)
    /\ IsExecutorLeaseCurrent(e, acquired[e])
    /\ v \in job[j].unsent
    /\ \/ /\ admission[j].state \in {"queued", "admitted"}
          /\ \A u \in job[j].unsent : v <= u
       \/ admission[j].state = "released" /\ isReleaseCandidate(j) /\ v = job[j].version
    /\ job' = [job EXCEPT ![j].unsent = @ \ {v}]
    /\ UNCHANGED <<loopVars, admission, claim, effect, worker, nextSeq, cap, paused>>

\* A status row needs no claim and no slot; rows go oldest first, and of a
\* released job only the last version's.  The row is leased, its message queued
\* and the row settled within one pass: nothing in between waits for the outside.
SendStatus(e, j, v) ==
    /\ acquired[e] # 0
    /\ ~RunningOn(e, j)
    /\ IsExecutorLeaseCurrent(e, acquired[e])
    /\ v \in job[j].unsent
    /\ \/ /\ admission[j].state \in {"queued", "admitted", "draining"}
          /\ \A u \in job[j].unsent : v <= u
       \/ admission[j].state = "released" /\ isReleaseCandidate(j) /\ v = job[j].version
    /\ job' = [job EXCEPT ![j].unsent = @ \ {v}]
    /\ UNCHANGED <<loopVars, admission, claim, effect, worker, nextSeq, cap, paused>>

\* completeStatusOutbox: the first status message, or the one that replaces a
\* message the owner deleted, is noted on the job, which moves to a next version.
StatusMessageSent(e, j) ==
    /\ acquired[e] # 0
    /\ IsExecutorLeaseCurrent(e, acquired[e])
    /\ Room(j, 2)
    /\ job' = [job EXCEPT ![j] = Bumped(j, FALSE)]
    /\ UNCHANGED <<loopVars, admission, claim, effect, worker, nextSeq, cap, paused>>

-----------------------------------------------------------------------------
(* Running operations.  The fence an operation carries is the generation it *)
(* started under, not the one its loop works under now.                     *)

\* Mutated form of Fenced: the generation is not compared.
FencedByOwner(o) ==
    /\ o.phase = "running"
    /\ IsExecutorLeaseCurrent(o.executor, executorLease.generation)

\* What every fenced write of an operation requires.
Fenced(o) ==
    /\ o.phase = "running"
    /\ IsExecutorLeaseCurrent(o.executor, o.generation)

IsReconcile(o) == o.key = ReconcileKey(o.key[1])
KindOf(o) == IF IsReconcile(o) THEN "reconcile" ELSE effect[o.key].kind
HoldsItsEffect(o) == ~IsReconcile(o) /\ HoldsEffect(o.key, o.executor, o.generation)

\* Mutated form of RenewLane: an expired executor lease is renewed.
RenewLaneUnfenced(o) ==
    LET j == o.key[1] IN
    /\ o \in operations /\ acquired[o.executor] = o.generation
    /\ o.phase = "running" /\ HoldsItsEffect(o)
    /\ claim[j].held => claim[j].owner = o.executor /\ claim[j].generation = o.generation
    /\ executorLease' = [executorLease EXCEPT !.ttl = LeaseMs]
    /\ effect' = [effect EXCEPT ![o.key].ttl = LeaseMs]
    /\ claim' = IF claim[j].held THEN [claim EXCEPT ![j].ttl = LeaseMs] ELSE claim
    /\ UNCHANGED <<acquired, job, admission, worker, nextSeq, cap, paused, adopted, operations>>

\* renewJobOperationFences: the executor lease, the effect and the job's claim,
\* unless another generation has taken the claim over.
RenewLane(o) ==
    LET j == o.key[1] IN
    /\ o \in operations /\ acquired[o.executor] = o.generation
    /\ Fenced(o) /\ HoldsItsEffect(o)
    /\ claim[j].held => claim[j].owner = o.executor /\ claim[j].generation = o.generation
    /\ executorLease' = [executorLease EXCEPT !.ttl = LeaseMs]
    /\ effect' = [effect EXCEPT ![o.key].ttl = LeaseMs]
    /\ claim' = IF claim[j].held THEN [claim EXCEPT ![j].ttl = LeaseMs] ELSE claim
    /\ UNCHANGED <<acquired, job, admission, worker, nextSeq, cap, paused, adopted, operations>>

\* projectWorkerLiveness: what BB says of the worker, which may have moved.
ObserveWorker(o, w) ==
    /\ o \in operations /\ Fenced(o)
    /\ KindOf(o) \in {"stage", "stop_thread", "reconcile"}
    /\ w # worker[o.key[1]]
    /\ worker' = [worker EXCEPT ![o.key[1]] = w]
    /\ UNCHANGED <<loopVars, job, admission, claim, effect, nextSeq, cap, paused>>

\* applyExecutorJobEvent, from a stage, from the reconciliation of a working
\* job, or from a production step.
ApplyExecutorJobEvent(o) ==
    LET j == o.key[1] IN
    /\ o \in operations /\ Fenced(o)
    /\ \/ KindOf(o) \in {"stage", "reconcile"} /\ job[j].state = "working"
       \/ KindOf(o) = "production" /\ job[j].state = "production"
    /\ IF job[j].cancelRequested
         THEN Swallow(j)
         ELSE \E m \in IF job[j].state = "working" THEN StageMoves(j) ELSE ProductionMoves :
                TransitionOver(effect, j, m)
    /\ UNCHANGED <<loopVars, claim, worker, nextSeq, cap, paused>>

\* stopThread: confirmed when every worker has settled, otherwise the job is
\* blocked for the owner to cancel again.
StopThread(o) ==
    LET j == o.key[1] IN
    /\ o \in operations /\ Fenced(o) /\ KindOf(o) = "stop_thread"
    /\ job[j].cancelRequested
    /\ job[j].state \notin {"blocked", "cancelled", "closed"}
    /\ TransitionOver(effect, j,
         IF worker[j] = "settled" THEN Cancel(j) ELSE Block("cancellation_unconfirmed"))
    /\ UNCHANGED <<loopVars, claim, worker, nextSeq, cap, paused>>

\* The merge handler gives its row up under the row's own lease.
HoldsMerge(o) ==
    /\ o \in operations /\ Fenced(o) /\ KindOf(o) = "merge"
    /\ HoldsItsEffect(o)

IsMerging(o) == job[o.key[1]].state = "merging"

RowAs(o, row) == [effect EXCEPT ![o.key] = row]

\* Mutated form of CompleteMergeSuccess: a cancelled job completes.
CompleteCancelledMerge(o) ==
    /\ HoldsMerge(o) /\ IsMerging(o)
    /\ \E m \in ProductionMoves :
         TransitionOver(RowAs(o, Unleased(effect[o.key], "done")), o.key[1], m)
    /\ UNCHANGED <<loopVars, claim, worker, nextSeq, cap, paused>>

\* completeMergeSuccess refuses a job whose cancellation was requested, or that
\* is no longer at the version the approval was accepted for.
CompleteMergeSuccess(o) ==
    /\ HoldsMerge(o) /\ IsMerging(o)
    /\ MergeIsAccepted(o.key)
    /\ \E m \in ProductionMoves :
         TransitionOver(RowAs(o, Unleased(effect[o.key], "done")), o.key[1], m)
    /\ UNCHANGED <<loopVars, claim, worker, nextSeq, cap, paused>>

\* failLeasedMergeEffect strips the approval from the row and leaves it open,
\* whatever has become of the job.
FailLeasedMergeEffect(o) ==
    LET rows == RowAs(o, [Unleased(effect[o.key], "pending") EXCEPT !.kind = "unapproved_merge"]) IN
    /\ HoldsMerge(o)
    /\ IF IsMerging(o)
         THEN Advance(rows, o.key[1],
                      IF job[o.key[1]].cancelRequested THEN Cancel(o.key[1]) ELSE Fail(o.key[1]))
         ELSE effect' = rows /\ UNCHANGED job
    /\ UNCHANGED <<loopVars, admission, claim, worker, nextSeq, cap, paused>>

\* staleMergeEffect: the head moved, the job goes back to be reviewed.
StaleMergeEffect(o) ==
    /\ HoldsMerge(o) /\ IsMerging(o)
    /\ Advance(RowAs(o, Unleased(effect[o.key], "done")), o.key[1],
               IF job[o.key[1]].cancelRequested THEN Cancel(o.key[1])
               ELSE Move("working", "none", "none", "stage", TRUE))
    /\ UNCHANGED <<loopVars, admission, claim, worker, nextSeq, cap, paused>>

\* The call may have happened, and the row stays open: releaseUnknownMergeFence,
\* which ends a cancelled job, and preserveUnknownMergeEffect, which does not.
ReleaseUnknownMergeFence(o) ==
    LET rows == RowAs(o, Unleased(effect[o.key], "pending")) IN
    /\ HoldsMerge(o)
    /\ \/ /\ IsMerging(o) /\ job[o.key[1]].cancelRequested
          /\ Advance(rows, o.key[1], Cancel(o.key[1]))
       \/ effect' = rows /\ UNCHANGED job
    /\ UNCHANGED <<loopVars, admission, claim, worker, nextSeq, cap, paused>>

\* adoptHeldClaims, the last step of a reconciliation whose loop was not aborted;
\* the loop notes the adoption when it next collects its completions.
AdoptHeldClaims(o) ==
    LET j == o.key[1] IN
    /\ o \in operations /\ Fenced(o) /\ IsReconcile(o)
    /\ acquired[o.executor] = o.generation
    /\ j \in Occupied /\ claim[j].held
    /\ claim' = [claim EXCEPT ![j] = [held |-> TRUE, owner |-> o.executor,
                                      generation |-> o.generation, ttl |-> LeaseMs]]
    /\ adopted' = [adopted EXCEPT ![o.executor] = @ \cup {j}]
    /\ operations' = operations \ {o}
    /\ UNCHANGED <<executorLease, acquired, job, admission, effect, worker,
                   nextSeq, cap, paused>>

\* An operation returns or throws, and its lane is free.  The loop that started
\* it will collect how it ended, unless there is nothing to settle: the loop is
\* gone, or a reconciliation failed.
FinishOperation(o) ==
    /\ o \in operations /\ o.phase = "running"
    /\ operations' = (operations \ {o}) \cup
         IF acquired[o.executor] = o.generation /\ ~IsReconcile(o)
           THEN {[o EXCEPT !.phase = "ended"]}
           ELSE {}
    /\ UNCHANGED <<executorLease, acquired, adopted, durableVars>>

-----------------------------------------------------------------------------
(* collectCompletions: the loop settles the effects whose operation has ended. *)
(* Whether it returned or threw is decided here, where it first matters.       *)

Ended(o) == o \in operations /\ o.phase # "running"

Collects(o) ==
    /\ Ended(o)
    /\ IsExecutorLeaseCurrent(o.executor, o.generation)
    /\ HoldsItsEffect(o)
    /\ operations' = operations \ {o}

\* Mutated form of CollectLost: the loop stays in its generation.
CollectLostInPlace(o) ==
    /\ Ended(o)
    /\ ~IsExecutorLeaseCurrent(o.executor, o.generation) \/ ~HoldsItsEffect(o)
    /\ operations' = operations \ {o}
    /\ UNCHANGED <<executorLease, acquired, adopted, durableVars>>

\* The executor lease has lapsed, or the effect is no longer this loop's to
\* settle (a merge that settled its own row included): the loop starts over.
CollectLost(o) ==
    /\ Ended(o)
    /\ ~IsExecutorLeaseCurrent(o.executor, o.generation) \/ ~HoldsItsEffect(o)
    /\ LoseLease(o.executor)
    /\ Leave(o.executor)
    /\ UNCHANGED durableVars

CompleteEffect(o) ==
    /\ Collects(o)
    /\ effect' = RowAs(o, Unleased(effect[o.key], "done"))
    /\ UNCHANGED <<executorLease, acquired, adopted, job, admission, claim, worker,
                   nextSeq, cap, paused>>

FailEffect(o) ==
    /\ Collects(o) /\ o.phase = "ended"
    /\ effect' = RowAs(o, Unleased(effect[o.key], "pending"))
    /\ UNCHANGED <<executorLease, acquired, adopted, job, admission, claim, worker,
                   nextSeq, cap, paused>>

\* markJobPermanentFailure; the admission is left to the release pass.
MarkJobPermanentFailure(rows, j) ==
    CASE job[j].state \in {"blocked", "cancelled", "closed"} ->
            effect' = rows /\ UNCHANGED job
      [] job[j].state = "production" -> Advance(rows, j, Close)
      [] OTHER ->
            Advance(rows, j,
                Move("blocked", "permanent_effect_failure",
                     IF job[j].state \in {"working", "merging"} THEN job[j].state ELSE "none",
                     "none", TRUE))

\* A permanent error at any attempt, any error at the last (the twentieth).
DeadLetterEffect(o) ==
    /\ Collects(o) /\ o.phase = "ended"
    /\ MarkJobPermanentFailure(RowAs(o, Unleased(effect[o.key], "dead")), o.key[1])
    /\ UNCHANGED <<executorLease, acquired, adopted, admission, claim, worker,
                   nextSeq, cap, paused>>

-----------------------------------------------------------------------------
(* The release pass *)

QueuedCancellation(j) == admission[j].state = "queued" /\ job[j].cancelRequested

\* listReleaseCandidates, less the jobs that have a lane.
ReleaseCandidate(e, j) ==
    /\ acquired[e] # 0
    /\ IsExecutorLeaseCurrent(e, acquired[e])
    /\ ~RunningOn(e, j)
    /\ (j \in Occupied /\ isReleaseCandidate(j)) \/ QueuedCancellation(j)

BeginDraining(e, j) ==
    /\ ReleaseCandidate(e, j)
    /\ Drain(j)
    /\ UNCHANGED <<loopVars, job, claim, effect, worker>>

RefreshReleaseWorker(e, j, w) ==
    /\ ReleaseCandidate(e, j)
    /\ worker[j] # "settled" /\ w # worker[j]
    /\ worker' = [worker EXCEPT ![j] = w]
    /\ UNCHANGED <<loopVars, job, admission, claim, effect, nextSeq, cap, paused>>

Superseded(j) ==
    [k \in EffectKeys |->
        IF k[1] = j /\ IsOpen(k)
          THEN Unleased(effect[k], "done")
          ELSE effect[k]]

\* Merge and production rows that still stand in the way of a release.
Unresolved(k) ==
    /\ effect[k].kind \in MergeKinds \cup {"production"}
    /\ effect[k].status = "pending" \/ IsLeased(k)

\* Mutated form of CleanedUp: merge and production rows are not looked at.
CleanedUpBesideEffects(j) ==
    /\ worker[j] = "settled"
    /\ job[j].unsent = {}

CleanedUp(j) ==
    /\ worker[j] = "settled"
    /\ job[j].unsent = {}
    /\ ~\E k \in EffectKeys : k[1] = j /\ Unresolved(k)

\* The first pass over a queued cancellation cancels the job and posts its status.
ConfirmQueuedCancellation(e, j) ==
    /\ ReleaseCandidate(e, j) /\ CleanedUp(j)
    /\ QueuedCancellation(j) /\ job[j].state # "cancelled"
    /\ Advance(effect, j, Cancel(j))
    /\ UNCHANGED <<loopVars, admission, claim, worker, nextSeq, cap, paused>>

\* Mutated form of FinalizeRelease: the claim is not released.
FinalizeReleaseKeepingClaim(e, j) ==
    /\ ReleaseCandidate(e, j) /\ CleanedUp(j)
    /\ QueuedCancellation(j) => job[j].state = "cancelled"
    /\ effect' = Superseded(j)
    /\ Release(j)
    /\ UNCHANGED <<loopVars, job, claim, worker>>

FinalizeRelease(e, j) ==
    /\ ReleaseCandidate(e, j) /\ CleanedUp(j)
    /\ QueuedCancellation(j) => job[j].state = "cancelled"
    /\ effect' = Superseded(j)
    /\ claim' = [claim EXCEPT ![j] = NoClaim]
    /\ Release(j)
    /\ UNCHANGED <<loopVars, job, worker>>

-----------------------------------------------------------------------------
\* The clock, over every deadline at once.  An expired effect lease forgets its
\* holder: no statement reads the holder of a row without reading its expiry.
Aged(ttl) == IF ttl > 0 THEN ttl - 1 ELSE 0

AgedEffect(row) ==
    IF row.ttl = 1
      THEN [row EXCEPT !.owner = NoExecutor, !.generation = 0, !.ttl = 0]
      ELSE [row EXCEPT !.ttl = Aged(@)]

Tick ==
    /\ \/ executorLease.ttl > 0
       \/ \E j \in Jobs : claim[j].ttl > 0
       \/ \E k \in EffectKeys : effect[k].ttl > 0
    /\ executorLease' = [executorLease EXCEPT !.ttl = Aged(@)]
    /\ claim' = [j \in Jobs |-> [claim[j] EXCEPT !.ttl = Aged(@)]]
    /\ effect' = [k \in EffectKeys |-> AgedEffect(effect[k])]
    /\ UNCHANGED <<acquired, job, admission, worker, nextSeq, cap, paused, adopted, operations>>

Init ==
    /\ LeaseInit
    /\ AdmissionsInit
    /\ job = [j \in Jobs |-> [state |-> "awaiting_confirmation", reason |-> "none",
                              resumeState |-> "none", cancelRequested |-> FALSE, version |-> 1, unsent |-> {}]]
    /\ claim = [j \in Jobs |-> NoClaim]
    /\ effect = [k \in EffectKeys |-> Absent]
    /\ worker = [j \in Jobs |-> "settled"]
    /\ adopted = [e \in Executors |-> {}]
    /\ operations = {}

OwnerNext ==
    \/ \E j \in Jobs :
         \/ QueueAdmission(j)
         \/ RequeueAdmission(j)
         \/ RetryFailedJob(j)
         \/ AcceptApproval(j)
         \/ RequestCancel(j)
    \/ ConfigureQueue

LoopNext ==
    \E e \in Executors :
      \/ Acquire(e)
      \/ Heartbeat(e)
      \/ Lose(e)
      \/ Shutdown(e)
      \/ Crash(e)
      \/ \E j \in Jobs :
           \/ AdmitNext(e, j)
           \/ StartReconcile(e, j)
           \/ BeginDraining(e, j)
           \/ \E w \in Sightings : RefreshReleaseWorker(e, j, w)
           \/ ConfirmQueuedCancellation(e, j)
           \/ FinalizeRelease(e, j)
           \/ StatusMessageSent(e, j)
           \/ \E v \in Versions : SendStatus(e, j, v)
      \/ \E k \in EffectKeys : LeaseNextJobEffect(e, k)

OperationNext ==
    \E o \in operations :
      \/ RenewLane(o)
      \/ \E w \in Sightings : ObserveWorker(o, w)
      \/ ApplyExecutorJobEvent(o)
      \/ StopThread(o)
      \/ CompleteMergeSuccess(o)
      \/ FailLeasedMergeEffect(o)
      \/ StaleMergeEffect(o)
      \/ ReleaseUnknownMergeFence(o)
      \/ AdoptHeldClaims(o)
      \/ FinishOperation(o)
      \/ CollectLost(o)
      \/ CompleteEffect(o)
      \/ FailEffect(o)
      \/ DeadLetterEffect(o)

Next == OwnerNext \/ LoopNext \/ OperationNext \/ Tick

Spec == Init /\ [][Next]_vars

(* Every pass of the loop collects the ended operations, sends the statuses   *)
(* and tries to release every candidate, so what is possible again and again  *)
(* is done; operations end, by their timeouts; and BB sooner or later reports *)
(* a worker that was stopped, or left alone, as settled.  Nothing makes the   *)
(* owner act, the clock run or the loop keep its lease.                       *)
Fairness ==
    /\ WF_vars(\E o \in operations : FinishOperation(o))
    /\ SF_vars(\E o \in operations :
                 CollectLost(o) \/ CompleteEffect(o) \/ FailEffect(o) \/ DeadLetterEffect(o))
    /\ \A e \in Executors, j \in Jobs :
         /\ SF_vars(\E v \in Versions : SendStatus(e, j, v))
         /\ SF_vars(BeginDraining(e, j))
         /\ SF_vars(RefreshReleaseWorker(e, j, "settled"))
         /\ SF_vars(ConfirmQueuedCancellation(e, j))
         /\ SF_vars(FinalizeRelease(e, j))

FairSpec == Spec /\ Fairness

-----------------------------------------------------------------------------
(* Properties *)

\* Every variable has the shape its table gives it; generations recorded on
\* rows and operations never exceed the executor lease's.
TypeOK ==
    /\ LeaseTypeOK
    /\ AdmissionsTypeOK
    /\ job \in [Jobs -> [state : JobStates, reason : BlockedReasons, resumeState : ResumeStates,
                         cancelRequested : BOOLEAN, version : Versions, unsent : SUBSET Versions]]
    /\ claim \in [Jobs -> [held : BOOLEAN, owner : Owners, generation : Generations, ttl : 0 .. LeaseMs]]
    /\ effect \in [EffectKeys -> [kind : EffectKinds, status : EffectStatus, owner : Owners,
                                  generation : Generations, ttl : 0 .. LeaseMs]]
    /\ worker \in [Jobs -> WorkerStates]
    /\ adopted \in [Executors -> SUBSET Jobs]
    /\ operations \subseteq [executor : Executors, generation : Generations,
                             key : OperationKeys, phase : Phases]

\* The project's claim is held exactly while the job occupies its slot: admission,
\* draining, release and every adoption of a claim keep the two tables in step,
\* and no loop ever holds a claim from a generation it was not given.
OccupiedIffClaimed ==
    \A j \in Jobs :
        /\ claim[j].held <=> j \in Occupied
        /\ claim[j].held => claim[j].generation \in 1 .. executorLease.generation

\* Work happens only in a slot: a job that is being worked on, merged or
\* deployed is admitted, so nothing drains it and no other job has its project,
\* however late an operation of an earlier loop reports; and a slot is drained only
\* for a job that can do no more work in it.
ActiveJobOccupiesSlot ==
    \A j \in Jobs :
        /\ job[j].state \in {"working", "merging", "production"} => admission[j].state = "admitted"
        /\ admission[j].state = "draining" => isReleaseCandidate(j)

\* A running operation that can still write has its job's slot under it, and is
\* the only one of its job that can: losing, expiring and taking over the lease
\* never lets the release pass or a second lane in beside it.
WriterHoldsItsJob ==
    \A o \in operations : Fenced(o) =>
        /\ o.key[1] \in Occupied
        /\ \A p \in operations : Fenced(p) /\ p.key[1] = o.key[1] => p = o

\* A leased effect names the loop it was leased to by a generation that was
\* really handed out, and under the current generation it is under way, or its
\* loop still has to settle it, or its loop is gone.
LeasedEffectIsAccountedFor ==
    \A k \in EffectKeys :
        effect[k].status = "leased" /\ effect[k].generation = executorLease.generation =>
            \/ \E o \in operations : /\ o.key = k
                                     /\ o.executor = effect[k].owner
                                     /\ o.generation = effect[k].generation
            \/ acquired[effect[k].owner] # effect[k].generation

\* Once the owner has asked to cancel, the job is never merged or deployed,
\* however the request races the merge and its settlement.
CancelledNeverShips ==
    \A j \in Jobs : job[j].cancelRequested => job[j].state \notin {"production", "closed"}

\* A released job leaves no claim behind and no merge or production row that
\* anybody could still run.
ReleasedLeavesNothing ==
    \A j \in Jobs : admission[j].state = "released" =>
        /\ ~claim[j].held
        /\ \A k \in EffectKeys : k[1] = j /\ effect[k].kind \in MergeKinds \cup {"production"} =>
             effect[k].status \in {"done", "dead"}

\* A settled effect is never run again.
SettledStaysSettled ==
    [][\A k \in EffectKeys : effect[k].status \in {"done", "dead"} =>
         effect'[k].status = effect[k].status]_vars

\* The control plane keeps what the admission queue promises: the project claim,
\* taken, adopted, left behind and released by jobs and loops, gives a project
\* to one job at a time and in order.
KeepsAdmissions == AdmissionsSpec

\* The executor lease behaves as ExecutorLease specifies, whatever the rest of
\* the control plane does.
KeepsLease == LeaseSpec

\* e's loop is current, and j should be released but is not.
StuckUnderLoop(e, j) ==
    /\ acquired[e] # 0 /\ IsExecutorLeaseCurrent(e, acquired[e])
    /\ j \in Occupied /\ isReleaseCandidate(j)

\* A finished job frees its slot and its project: under a loop that keeps its
\* lease, nothing but an unresolved merge or deployment holds a release back for
\* ever, whatever operations, status rows and workers it left behind.
FinishedJobsFreeTheirProject ==
    \A e \in Executors, j \in Jobs :
        ~<>[](StuckUnderLoop(e, j) /\ ~\E k \in EffectKeys : k[1] = j /\ Unresolved(k))

\* tests/autonomy-release.test.ts:266 "frees a project locked by a failed job
\* once that job is cancelled": under a loop that keeps its lease, a job whose
\* merge has failed does not keep its slot for ever once it is cancelled.
CancelledJobsFreeTheirProject ==
    \A e \in Executors, j \in Jobs :
        ~<>[](/\ StuckUnderLoop(e, j)
              /\ job[j].state = "cancelled"
              /\ \E v \in Versions : effect[<<j, v>>].kind = "unapproved_merge")
=============================================================================
