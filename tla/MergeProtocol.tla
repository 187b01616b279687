---------------------------- MODULE MergeProtocol ----------------------------
(***************************************************************************)
(* One accepted approval and its merge_pr row, from the lease of the row   *)
(* to the merge that is recorded or given up: the handler between its      *)
(* awaits, the row's payload as a write-ahead mark of the provider call,   *)
(* the merge-time claims, the pull request, and the owner's cancellation.  *)
(*                                                                         *)
(* A session is one acquisition of the executor lease, the pair (owner,    *)
(* generation) that ExecutorLease proves names one loop.  The protocol     *)
(* compares sessions for equality only, so a session that no row and no    *)
(* handler mentions any more may be acquired again, and runs need no bound *)
(* on generations.  Leases and claims may expire at any moment.            *)
(***************************************************************************)
EXTENDS Integers

CONSTANTS
    Sessions, NoSession,
    MaxCalls        \* bound of the counter of provider calls

ASSUME MergeAssumption ==
    /\ NoSession \notin Sessions
    /\ MaxCalls \in Nat \ {0}

VARIABLES
    lease,      \* the executor lease [session, working]: its session, and whether its loop still runs passes
    job,        \* [state, cancelRequested]
    approval,   \* the approval the row carries: accepted, then expired or outdated
    row,        \* the merge_pr row [status, payload, session]; a lease that expired names no session
    claims,     \* the job's resource claims, renewed and adopted together
    handler,    \* handler[s]: where the session's executeMergeEffect stands
    pr          \* the pull request, and the calls the provider was sent

vars == <<lease, job, approval, row, claims, handler, pr>>

JobStates == {"merging", "resolving_pr_head", "failed", "cancelled",
              "merged", "production_failed"}
Payloads == {"pending", "bound", "marked", "stripped", "stale"}
Stages == {"idle", "start", "approval_gate", "pre_merge_gate", "marked", "calling",
           "head", "state", "base"}

\* A push keeps the approved commits and adds to them, or rewrites them.
Heads == {"approved", "extended", "rewritten"}

-----------------------------------------------------------------------------
(* Fences *)

Fenced(s) == lease.session = s

HoldsRow(s) == row.status = "leased" /\ row.session = s

\* renewJobOperationFences: no held claim may be another session's.
Renews(s) == Fenced(s) /\ HoldsRow(s) /\ (claims.held => claims.session = s)

\* mergeReceiptBindingError
ReceiptIsBound ==
    /\ job.state = "merging"
    /\ ~job.cancelRequested
    /\ approval = "accepted"

\* prepareMergeCall accepts, whether or not it marks the row.
Prepared(s) ==
    /\ Fenced(s) /\ HoldsRow(s)
    /\ row.payload \in {"bound", "marked"}
    /\ ReceiptIsBound
    /\ claims.held /\ claims.merge /\ claims.session = s /\ claims.live

OpenRow(status, payload) ==
    [status |-> status, payload |-> payload, session |-> NoSession]

GoesTo(s, stage) == handler' = [handler EXCEPT ![s] = stage]

\* The handler returns.  Its row is no longer its own, so the loop that collects
\* it takes its lease for lost and starts over.
Returns(s) ==
    /\ GoesTo(s, "idle")
    /\ lease' = IF lease.session = s THEN [lease EXCEPT !.working = FALSE] ELSE lease

-----------------------------------------------------------------------------
(* How the handler gives up *)

MergesReleased == [claims EXCEPT !.merge = FALSE]

\* Mutated form of ReleaseUnknown: the merge-time claims go with the row.
ReleaseUnknownClaims ==
    /\ row' = OpenRow("pending", row.payload)
    /\ job' = IF job.state = "merging" /\ job.cancelRequested
                THEN [job EXCEPT !.state = "cancelled"] ELSE job
    /\ claims' = MergesReleased

\* releaseUnknownMergeFence and cancelUnknownMergeJob: the mark stays.
ReleaseUnknown ==
    /\ row' = OpenRow("pending", row.payload)
    /\ job' = IF job.state = "merging" /\ job.cancelRequested
                THEN [job EXCEPT !.state = "cancelled"] ELSE job
    /\ UNCHANGED claims

\* Mutated form of FailLease: the mark is not looked at.
FailMarkedLease(s) ==
    /\ IF ~(Fenced(s) /\ HoldsRow(s))
         THEN UNCHANGED <<row, job, claims>>
         ELSE /\ row' = OpenRow("failed", "stripped")
              /\ job' = IF job.state = "merging"
                          THEN [job EXCEPT !.state = IF job.cancelRequested
                                                       THEN "cancelled" ELSE "failed"]
                          ELSE job
              /\ claims' = IF claims.session = s THEN MergesReleased ELSE claims
    /\ Returns(s)
    /\ UNCHANGED <<approval, pr>>

\* failLeasedMergeEffect
FailLease(s) ==
    /\ IF ~(Fenced(s) /\ HoldsRow(s))
         THEN UNCHANGED <<row, job, claims>>
         ELSE IF row.payload = "marked"
           THEN ReleaseUnknown
           ELSE /\ row' = OpenRow("failed", "stripped")
                /\ job' = IF job.state = "merging"
                            THEN [job EXCEPT !.state = IF job.cancelRequested
                                                         THEN "cancelled" ELSE "failed"]
                            ELSE job
                /\ claims' = IF claims.session = s THEN MergesReleased ELSE claims
    /\ Returns(s)
    /\ UNCHANGED <<approval, pr>>

\* staleMergeEffect, which refused falls back on failLeasedMergeEffect
StaleLease(s) ==
    IF Fenced(s) /\ HoldsRow(s) /\ job.state = "merging" /\ row.payload # "marked"
      THEN /\ row' = OpenRow("done", "stale")
           /\ job' = [job EXCEPT !.state = IF job.cancelRequested
                                             THEN "cancelled" ELSE "resolving_pr_head"]
           /\ claims' = IF claims.session = s THEN MergesReleased ELSE claims
           /\ Returns(s)
           /\ UNCHANGED <<approval, pr>>
      ELSE FailLease(s)

\* preserveUnknownMergeEffect
PreserveUnknown(s) ==
    /\ row' = IF Fenced(s) /\ HoldsRow(s) THEN OpenRow("pending", row.payload) ELSE row
    /\ Returns(s)
    /\ UNCHANGED <<job, approval, claims, pr>>

\* A step of the confirmation: on to the next await under a fence that still
\* holds, or back to an unknown outcome.
Confirms(s, stage) ==
    /\ Prepared(s)
    /\ GoesTo(s, stage)
    /\ UNCHANGED <<lease, job, approval, row, claims, pr>>

-----------------------------------------------------------------------------
(* The loop *)

Mentioned(s) == s \in {lease.session, row.session, claims.session} \/ handler[s] # "idle"

Acquire(s) ==
    /\ lease.session = NoSession
    /\ ~Mentioned(s)
    /\ lease' = [session |-> s, working |-> TRUE]
    /\ UNCHANGED <<job, approval, row, claims, handler, pr>>

Runs(s) == lease = [session |-> s, working |-> TRUE] /\ handler[s] = "idle"

\* After reconciling the job.
AdoptHeldClaims(s) ==
    /\ Runs(s)
    /\ claims.held
    /\ claims' = [held |-> TRUE, merge |-> claims.merge, session |-> s, live |-> TRUE]
    /\ UNCHANGED <<lease, job, approval, row, handler, pr>>

\* Mutated form of acceptedMergeEffectForLease: a row with the mark is not leased again.
acceptedUnmarkedEffect ==
    /\ row.payload \in {"pending", "bound"}
    /\ job.state = "merging" /\ ~job.cancelRequested
    /\ approval # "outdated"

\* acceptedMergeEffectForLease: a marked row is leased again, to be reconciled;
\* the approval's expiry is not looked at, the job's version is.
acceptedMergeEffectForLease ==
    /\ row.payload \in {"pending", "bound", "marked"}
    /\ job.state = "merging" /\ ~job.cancelRequested
    /\ approval # "outdated"

\* leaseNextJobEffect takes the merge-time claims with the row.
LeaseMerge(s) ==
    /\ Runs(s)
    /\ row.status \in {"pending", "failed"} \/ (row.status = "leased" /\ row.session = NoSession)
    /\ claims.held /\ claims.session = s /\ claims.live
    /\ acceptedMergeEffectForLease
    /\ row' = [status |-> "leased", payload |-> row.payload, session |-> s]
    /\ claims' = [claims EXCEPT !.merge = TRUE]
    /\ GoesTo(s, "start")
    /\ UNCHANGED <<lease, job, approval, pr>>

\* finalizeRelease: an open row is in the way, an expired lease is not.
FinalizeRelease(s) ==
    /\ Runs(s)
    /\ claims.held
    /\ job.state \in {"cancelled", "merged", "production_failed"}
    /\ row.status = "done" \/ (row.status = "leased" /\ row.session = NoSession)
    /\ row' = OpenRow("done", row.payload)
    /\ claims' = [held |-> FALSE, merge |-> FALSE, session |-> NoSession, live |-> FALSE]
    /\ UNCHANGED <<lease, job, approval, handler, pr>>

\* A lane whose renewal fails, a refused write, a storage error.
LoseLease ==
    /\ lease.working
    /\ lease' = [lease EXCEPT !.working = FALSE]
    /\ UNCHANGED <<job, approval, row, claims, handler, pr>>

\* The process dies; what it wrote, and what it sent, stays.
Crash(s) ==
    /\ handler[s] # "idle"
    /\ Returns(s)
    /\ UNCHANGED <<job, approval, row, claims, pr>>

-----------------------------------------------------------------------------
(* executeMergeEffect and finishProviderAttempt, one action between two awaits *)

\* Mutated form of Start: a row with the mark is called again.
StartCallingAgain(s) ==
    /\ handler[s] = "start"
    /\ IF ~Renews(s) \/ job.state # "merging"
         THEN FailLease(s)
         ELSE CASE row.payload = "pending" ->
                     GoesTo(s, "approval_gate") /\ UNCHANGED <<lease, job, approval, row, claims, pr>>
                [] row.payload = "bound" ->
                     GoesTo(s, "pre_merge_gate") /\ UNCHANGED <<lease, job, approval, row, claims, pr>>
                [] row.payload = "marked" ->
                     IF Prepared(s) THEN Confirms(s, "marked") ELSE PreserveUnknown(s)
                [] OTHER -> FailLease(s)

\* Up to the first await.  A row that carries the mark is never called again.
Start(s) ==
    /\ handler[s] = "start"
    /\ IF ~Renews(s) \/ job.state # "merging"
         THEN FailLease(s)
         ELSE CASE row.payload = "pending" ->
                     GoesTo(s, "approval_gate") /\ UNCHANGED <<lease, job, approval, row, claims, pr>>
                [] row.payload = "bound" ->
                     GoesTo(s, "pre_merge_gate") /\ UNCHANGED <<lease, job, approval, row, claims, pr>>
                [] row.payload = "marked" ->
                     IF Prepared(s) THEN Confirms(s, "head") ELSE PreserveUnknown(s)
                [] OTHER -> FailLease(s)

\* The approval gate answers: bindMergeEffectReceipt, or the merge fails.
BindReceipt(s) ==
    /\ handler[s] = "approval_gate"
    /\ \/ FailLease(s)
       \/ /\ pr.head = "approved" /\ pr.state = "open"
          /\ Renews(s) /\ row.payload = "pending" /\ ReceiptIsBound
          /\ row' = [row EXCEPT !.payload = "bound"]
          /\ GoesTo(s, "pre_merge_gate")
          /\ UNCHANGED <<lease, job, approval, claims, pr>>

\* The pre-merge gate answers.  The row is marked before the provider is called.
MarkCall(s) ==
    /\ handler[s] = "pre_merge_gate"
    /\ \/ FailLease(s)
       \/ Renews(s) /\ StaleLease(s)
       \/ /\ pr.head = "approved" /\ pr.state = "open"
          /\ Renews(s) /\ Prepared(s)
          /\ row' = [row EXCEPT !.payload = "marked"]
          /\ GoesTo(s, IF row.payload = "marked" THEN "head" ELSE "marked")
          /\ UNCHANGED <<lease, job, approval, claims, pr>>

\* The fences once more, and the call, which names no head.
CallProvider(s) ==
    /\ handler[s] = "marked"
    /\ IF Prepared(s) /\ Renews(s)
         THEN /\ pr.calls < MaxCalls
              /\ pr' = [head |-> pr.head, state |-> pr.state, mergedHead |-> pr.mergedHead,
                         inFlight |-> TRUE, calls |-> pr.calls + 1]
              /\ GoesTo(s, "calling")
              /\ UNCHANGED <<lease, job, approval, row, claims>>
         ELSE PreserveUnknown(s)

\* An error says nothing: the call may have landed, or land later.
CallReturns(s) ==
    /\ handler[s] = "calling"
    /\ \/ PreserveUnknown(s)
       \/ pr.state = "merged" /\ Renews(s) /\ Confirms(s, "head")

ConfirmHead(s) ==
    /\ handler[s] = "head"
    /\ \/ PreserveUnknown(s)
       \/ pr.head = "approved" /\ Renews(s) /\ Confirms(s, "state")

\* Mutated form of ConfirmState: the state of the pull request is not looked at.
ConfirmAnyState(s) ==
    /\ handler[s] = "state"
    /\ \/ PreserveUnknown(s)
       \/ Renews(s) /\ Confirms(s, "base")

ConfirmState(s) ==
    /\ handler[s] = "state"
    /\ \/ PreserveUnknown(s)
       \/ pr.state = "merged" /\ Renews(s) /\ Confirms(s, "base")

\* The base branch still shows every path the approved head changed.
BaseContent == pr.mergedHead \in {"approved", "extended"}

\* completeMergeSuccess; when the base content is not verified the merge is
\* recorded as a production incident.
CompleteMergeSuccess(s, baseContentVerified) ==
    /\ Renews(s) /\ ReceiptIsBound /\ row.payload = "marked"
    /\ baseContentVerified => BaseContent
    /\ row' = OpenRow("done", "marked")
    /\ job' = [job EXCEPT !.state = IF baseContentVerified THEN "merged" ELSE "production_failed"]
    /\ claims' = IF claims.session = s THEN MergesReleased ELSE claims
    /\ Returns(s)
    /\ UNCHANGED <<approval, pr>>

ConfirmBase(s) ==
    /\ handler[s] = "base"
    /\ \/ PreserveUnknown(s)
       \/ \E baseContentVerified \in BOOLEAN : CompleteMergeSuccess(s, baseContentVerified)

-----------------------------------------------------------------------------
(* The provider, the owner, the clock *)

others == <<lease, job, approval, row, claims, handler>>

ProviderMerges ==
    /\ pr.inFlight /\ pr.state = "open"
    /\ pr' = [head |-> pr.head, state |-> "merged", mergedHead |-> pr.head,
              inFlight |-> FALSE, calls |-> pr.calls]
    /\ UNCHANGED others

ProviderRejects ==
    /\ pr.inFlight
    /\ pr' = [pr EXCEPT !.inFlight = FALSE]
    /\ UNCHANGED others

PushHead(h) ==
    /\ pr.state = "open" /\ pr.head = "approved"
    /\ pr' = [pr EXCEPT !.head = h]
    /\ UNCHANGED others

\* CANCEL_REQUESTED: at once when no worker is known to be active.
RequestCancel ==
    /\ job.state \in {"merging", "resolving_pr_head", "failed"}
    /\ \E state \in {job.state, "cancelled"} :
         job' = [state |-> state, cancelRequested |-> TRUE]
    /\ UNCHANGED <<lease, approval, row, claims, handler, pr>>

ApprovalExpires ==
    /\ approval = "accepted"
    /\ approval' = "expired"
    /\ UNCHANGED <<lease, job, row, claims, handler, pr>>

\* completeStatusOutbox: a status message that had to be sent anew moves the job
\* to a version the approval was not accepted for.
StatusMessageSent ==
    /\ job.state = "merging"
    /\ approval' = "outdated"
    /\ UNCHANGED <<lease, job, row, claims, handler, pr>>

LeaseExpires ==
    /\ lease.session # NoSession
    /\ lease' = [session |-> NoSession, working |-> FALSE]
    /\ UNCHANGED <<job, approval, row, claims, handler, pr>>

\* No statement reads the holder of an expired row.
RowExpires ==
    /\ row.session # NoSession
    /\ row' = [row EXCEPT !.session = NoSession]
    /\ UNCHANGED <<lease, job, approval, claims, handler, pr>>

ClaimsExpire ==
    /\ claims.live
    /\ claims' = [claims EXCEPT !.live = FALSE]
    /\ UNCHANGED <<lease, job, approval, row, handler, pr>>

\* The approval has just been accepted, under some session that has since ended.
Init ==
    /\ lease = [session |-> NoSession, working |-> FALSE]
    /\ job = [state |-> "merging", cancelRequested |-> FALSE]
    /\ approval = "accepted"
    /\ row = OpenRow("pending", "pending")
    /\ claims = [held |-> TRUE, merge |-> FALSE, session |-> NoSession, live |-> FALSE]
    /\ handler = [s \in Sessions |-> "idle"]
    /\ pr = [head |-> "approved", state |-> "open", mergedHead |-> "approved",
             inFlight |-> FALSE, calls |-> 0]

HandlerNext(s) ==
    \/ Start(s)
    \/ BindReceipt(s)
    \/ MarkCall(s)
    \/ CallProvider(s)
    \/ CallReturns(s)
    \/ ConfirmHead(s)
    \/ ConfirmState(s)
    \/ ConfirmBase(s)

Next ==
    \/ \E s \in Sessions :
         \/ Acquire(s)
         \/ AdoptHeldClaims(s)
         \/ LeaseMerge(s)
         \/ FinalizeRelease(s)
         \/ Crash(s)
         \/ HandlerNext(s)
    \/ LoseLease \/ ProviderMerges \/ ProviderRejects
    \/ \E h \in Heads \ {"approved"} : PushHead(h)
    \/ RequestCancel \/ ApprovalExpires \/ StatusMessageSent
    \/ LeaseExpires \/ RowExpires \/ ClaimsExpire

Spec == Init /\ [][Next]_vars

(* A loop keeps coming back, adopts what it finds and leases what is open; a  *)
(* handler's awaits all have timeouts; leases that are not renewed expire; and *)
(* what is tried again and again gets through some time: no series of crashes, *)
(* expiries or failed commands hits the same await for ever.                   *)
Fairness ==
    /\ \A s \in Sessions : WF_vars(HandlerNext(s))
    /\ WF_vars(~lease.working /\ LeaseExpires)
    /\ WF_vars(row.session # lease.session /\ RowExpires)
    /\ SF_vars(\E s \in Sessions : Acquire(s))
    /\ SF_vars(\E s \in Sessions : (claims.session # s \/ ~claims.live) /\ AdoptHeldClaims(s))
    /\ SF_vars(\E s \in Sessions : LeaseMerge(s))
    /\ SF_vars(\E s \in Sessions : Start(s) /\ handler'[s] = "head")
    /\ SF_vars(\E s \in Sessions : ConfirmHead(s) /\ handler'[s] = "state")
    /\ SF_vars(\E s \in Sessions : ConfirmState(s) /\ handler'[s] = "base")
    /\ SF_vars(\E s \in Sessions : ConfirmBase(s) /\ row'.status = "done")

FairSpec == Spec /\ Fairness

-----------------------------------------------------------------------------
(* Properties *)

\* Every variable has its shape; only a leased row names a session.
MergeTypeOK ==
    /\ lease \in [session : Sessions \cup {NoSession}, working : BOOLEAN]
    /\ job \in [state : JobStates, cancelRequested : BOOLEAN]
    /\ approval \in {"accepted", "expired", "outdated"}
    /\ row \in [status : {"pending", "leased", "failed", "done"}, payload : Payloads,
                session : Sessions \cup {NoSession}]
    /\ row.session # NoSession => row.status = "leased"
    /\ claims \in [held : BOOLEAN, merge : BOOLEAN, session : Sessions \cup {NoSession}, live : BOOLEAN]
    /\ handler \in [Sessions -> Stages]
    /\ pr \in [head : Heads, state : {"open", "merged"}, mergedHead : Heads,
               inFlight : BOOLEAN, calls : 0 .. MaxCalls]

\* "calls the BB merge SDK at most once" (tests/merge.test.ts:1253): however many
\* sessions lease the row, crash over it or give it up, one call is sent.
ProviderCalledAtMostOnce == pr.calls <= 1

\* A merge that was rejected conclusively, its payload stripped or made stale and
\* its claims given back, never reached the provider, and never will.
RejectedBeforeProvider == row.payload \in {"stripped", "stale"} => pr.calls = 0

\* A recorded merge happened, and when it counts as verified the base branch holds
\* what the owner approved: pushes, late landings and recovery by another session
\* never pass for it.
RecordedMergeIsReal ==
    job.state \in {"merged", "production_failed"} =>
        /\ pr.state = "merged"
        /\ job.state = "merged" => BaseContent

\* Until the row is settled, a merge that may have been called keeps the repository
\* to itself, whoever dies, expires or takes over.
UnsettledMergeKeepsItsClaims ==
    row.payload = "marked" /\ row.status # "done" => claims.held /\ claims.merge

\* A merge that landed on the approved head is recorded, however often the loop was
\* lost on the way, unless the owner cancelled or the approval ran out or was outdated.
LandedMergesAreRecorded ==
    (pr.state = "merged" /\ pr.mergedHead = "approved") ~>
        (job.state # "merging" \/ job.cancelRequested \/ approval # "accepted")

\* docs/operations.md:362 "A merge call with an unknown provider outcome keeps its
\* repository and production claims held until authoritative reconciliation":
\* the mark without a recorded outcome keeps the claim.
UnknownMergeKeepsItsClaims ==
    row.payload = "marked" /\ job.state \notin {"merged", "production_failed"} =>
        claims.held /\ claims.merge
=============================================================================
