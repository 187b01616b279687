-------------------------- MODULE MergeProtocolProofs --------------------------
(* Theorems about the merge protocol, for any number of sessions: no matter   *)
(* how many loops lease the merge row, crash over it, lose it and take it     *)
(* over, the provider is called once, a rejection precedes the call, and a    *)
(* recorded merge has happened.                                               *)
EXTENDS MergeProtocol, TLAPS

\* What a handler that gives up leaves behind, whichever way it takes: the mark
\* stays with its claims, a row without the mark never gets it, a settled row
\* stays settled and nothing is recorded as merged.
GivesUp(s) ==
    /\ MergeTypeOK'
    /\ handler' = [handler EXCEPT ![s] = "idle"]
    /\ pr' = pr
    /\ row.payload = "marked" =>
         /\ row'.payload = "marked"
         /\ claims'.held = claims.held /\ claims'.merge = claims.merge
    /\ row.payload # "marked" => row'.payload # "marked"
    /\ row.status = "done" => row'.status = "done"
    /\ job'.state \in {"merged", "production_failed"} => job'.state = job.state

\* Returning touches the handler and the lease only.
LEMMA ReturnsKeepsTypes ==
  ASSUME MergeTypeOK, NEW s \in Sessions, Returns(s)
  PROVE  /\ lease' \in [session : Sessions \cup {NoSession}, working : BOOLEAN]
         /\ handler' \in [Sessions -> Stages]
         /\ handler' = [handler EXCEPT ![s] = "idle"]
BY DEF MergeTypeOK, Returns, GoesTo, Stages

\* A merge that fails, failLeasedMergeEffect.
LEMMA FailLeaseGivesUp ==
  ASSUME MergeTypeOK, NEW s \in Sessions, FailLease(s)
  PROVE  GivesUp(s)
<1> USE DEF MergeTypeOK, GivesUp, Payloads, JobStates
<1>1. Returns(s) /\ UNCHANGED <<approval, pr>>
  BY DEF FailLease
<1>2. /\ lease' \in [session : Sessions \cup {NoSession}, working : BOOLEAN]
      /\ handler' \in [Sessions -> Stages]
      /\ handler' = [handler EXCEPT ![s] = "idle"]
  BY <1>1, ReturnsKeepsTypes
<1>3. CASE ~(Fenced(s) /\ HoldsRow(s))
  BY <1>1, <1>2, <1>3 DEF FailLease
<1>4. CASE Fenced(s) /\ HoldsRow(s) /\ row.payload = "marked"
  BY <1>1, <1>2, <1>4 DEF FailLease, ReleaseUnknown, OpenRow, HoldsRow
<1>5. CASE Fenced(s) /\ HoldsRow(s) /\ row.payload # "marked"
  <2>1. row' = [status |-> "failed", payload |-> "stripped", session |-> NoSession]
    BY <1>5 DEF FailLease, OpenRow
  <2>2. /\ job' \in [state : JobStates, cancelRequested : BOOLEAN]
        /\ job'.state \in {"merged", "production_failed"} => job'.state = job.state
    BY <1>5 DEF FailLease
  <2>3. claims' \in [held : BOOLEAN, merge : BOOLEAN, session : Sessions \cup {NoSession}, live : BOOLEAN]
    BY <1>5 DEF FailLease, MergesReleased
  <2>4. row.status # "done"
    BY <1>5 DEF HoldsRow
  <2>5. QED
    BY <1>1, <1>2, <1>5, <2>1, <2>2, <2>3, <2>4
<1>6. QED
  BY <1>3, <1>4, <1>5

\* A merge overtaken by a new head, staleMergeEffect.
LEMMA StaleLeaseGivesUp ==
  ASSUME MergeTypeOK, NEW s \in Sessions, StaleLease(s)
  PROVE  GivesUp(s)
<1>1. CASE Fenced(s) /\ HoldsRow(s) /\ job.state = "merging" /\ row.payload # "marked"
  <2>1. Returns(s) /\ UNCHANGED <<approval, pr>>
    BY <1>1 DEF StaleLease
  <2>2. /\ lease' \in [session : Sessions \cup {NoSession}, working : BOOLEAN]
        /\ handler' \in [Sessions -> Stages]
        /\ handler' = [handler EXCEPT ![s] = "idle"]
    BY <2>1, ReturnsKeepsTypes
  <2> USE DEF MergeTypeOK, Payloads, JobStates
  <2>3. row' = [status |-> "done", payload |-> "stale", session |-> NoSession]
    BY <1>1 DEF StaleLease, OpenRow
  <2>4. /\ job' \in [state : JobStates, cancelRequested : BOOLEAN]
        /\ job'.state \notin {"merged", "production_failed"}
    BY <1>1 DEF StaleLease
  <2>5. claims' \in [held : BOOLEAN, merge : BOOLEAN, session : Sessions \cup {NoSession}, live : BOOLEAN]
    BY <1>1 DEF StaleLease, MergesReleased
  <2>6. QED
    BY <1>1, <2>1, <2>2, <2>3, <2>4, <2>5 DEF GivesUp
<1>2. CASE ~(Fenced(s) /\ HoldsRow(s) /\ job.state = "merging" /\ row.payload # "marked")
  BY <1>2, FailLeaseGivesUp DEF StaleLease
<1>3. QED
  BY <1>1, <1>2

\* A call whose outcome is unknown, preserveUnknownMergeEffect.
LEMMA PreserveUnknownGivesUp ==
  ASSUME MergeTypeOK, NEW s \in Sessions, PreserveUnknown(s)
  PROVE  GivesUp(s)
<1>1. Returns(s) /\ UNCHANGED <<job, approval, claims, pr>>
  BY DEF PreserveUnknown
<1>2. /\ lease' \in [session : Sessions \cup {NoSession}, working : BOOLEAN]
      /\ handler' \in [Sessions -> Stages]
      /\ handler' = [handler EXCEPT ![s] = "idle"]
  BY <1>1, ReturnsKeepsTypes
<1>3. QED
  BY <1>1, <1>2 DEF PreserveUnknown, OpenRow, HoldsRow, MergeTypeOK, GivesUp, Payloads

\* What one handler action may do: give up, read on, or make one of the writes
\* that count.
Reads(s, stages) ==
    /\ UNCHANGED <<lease, job, approval, row, claims, pr>>
    /\ \E stage \in stages : GoesTo(s, stage)

Binds(s) ==
    /\ row.payload = "pending"
    /\ row' = [row EXCEPT !.payload = "bound"]
    /\ GoesTo(s, "pre_merge_gate")
    /\ UNCHANGED <<lease, job, approval, claims, pr>>

Marks(s) ==
    /\ Prepared(s)
    /\ row' = [row EXCEPT !.payload = "marked"]
    /\ GoesTo(s, IF row.payload = "marked" THEN "head" ELSE "marked")
    /\ UNCHANGED <<lease, job, approval, claims, pr>>

Calls(s) ==
    /\ handler[s] = "marked"
    /\ pr.calls < MaxCalls
    /\ pr' = [head |-> pr.head, state |-> pr.state, mergedHead |-> pr.mergedHead,
              inFlight |-> TRUE, calls |-> pr.calls + 1]
    /\ GoesTo(s, "calling")
    /\ UNCHANGED <<lease, job, approval, row, claims>>

Completes(s) ==
    /\ handler[s] = "base"
    /\ \E baseContentVerified \in BOOLEAN : CompleteMergeSuccess(s, baseContentVerified)

\* The case split every invariant below uses.
LEMMA HandlerCases ==
  ASSUME MergeTypeOK, NEW s \in Sessions, HandlerNext(s)
  PROVE  \/ GivesUp(s)
         \/ Reads(s, {"approval_gate", "pre_merge_gate", "head", "state"})
         \/ Reads(s, {"base"}) /\ pr.state = "merged"
         \/ Binds(s)
         \/ Marks(s)
         \/ Calls(s)
         \/ Completes(s)
<1>1. CASE Start(s)
  BY <1>1, FailLeaseGivesUp, PreserveUnknownGivesUp DEF Start, Reads, Confirms
<1>2. CASE BindReceipt(s)
  BY <1>2, FailLeaseGivesUp DEF BindReceipt, Binds
<1>3. CASE MarkCall(s)
  BY <1>3, FailLeaseGivesUp, StaleLeaseGivesUp DEF MarkCall, Marks
<1>4. CASE CallProvider(s)
  BY <1>4, PreserveUnknownGivesUp DEF CallProvider, Calls
<1>5. CASE CallReturns(s)
  BY <1>5, PreserveUnknownGivesUp DEF CallReturns, Reads, Confirms
<1>6. CASE ConfirmHead(s)
  BY <1>6, PreserveUnknownGivesUp DEF ConfirmHead, Reads, Confirms
<1>7. CASE ConfirmState(s)
  BY <1>7, PreserveUnknownGivesUp DEF ConfirmState, Reads, Confirms
<1>8. CASE ConfirmBase(s)
  BY <1>8, PreserveUnknownGivesUp DEF ConfirmBase, Completes
<1>9. QED
  BY <1>1, <1>2, <1>3, <1>4, <1>5, <1>6, <1>7, <1>8 DEF HandlerNext

\* Everything that is not a step of a handler.
OtherNext ==
    \/ \E s \in Sessions :
         Acquire(s) \/ AdoptHeldClaims(s) \/ LeaseMerge(s) \/ FinalizeRelease(s) \/ Crash(s)
    \/ LoseLease \/ ProviderMerges \/ ProviderRejects
    \/ \E h \in Heads \ {"approved"} : PushHead(h)
    \/ RequestCancel \/ ApprovalExpires \/ StatusMessageSent
    \/ LeaseExpires \/ RowExpires \/ ClaimsExpire
    \/ UNCHANGED vars

\* Only handlers change the payload, call the provider or record a merge; a merge
\* that landed stays as it landed; a row keeps its claims until it is settled.
OthersOnly ==
    /\ row'.payload = row.payload
    /\ row.status = "done" => row'.status = "done"
    /\ pr'.calls = pr.calls
    /\ pr.state = "merged" => pr'.state = "merged" /\ pr'.mergedHead = pr.mergedHead
    /\ \A s \in Sessions : handler'[s] \in {handler[s], "start", "idle"}
    /\ job'.state \in {"merged", "production_failed"} => job'.state = job.state
    /\ \/ row'.status = "done"
       \/ claims'.held = claims.held /\ (claims.merge => claims'.merge)

\* No loop, crash, expiry, push, cancellation or answer of the provider does more.
LEMMA OtherCases ==
  ASSUME MergeTypeOK, OtherNext
  PROVE  MergeTypeOK' /\ OthersOnly
<1> USE DEF MergeTypeOK, OthersOnly, Stages, JobStates, Payloads
<1>1. ASSUME NEW s \in Sessions, Acquire(s)
      PROVE  MergeTypeOK' /\ OthersOnly
  BY <1>1 DEF Acquire
<1>2. ASSUME NEW s \in Sessions, AdoptHeldClaims(s)
      PROVE  MergeTypeOK' /\ OthersOnly
  BY <1>2 DEF AdoptHeldClaims
<1>3. ASSUME NEW s \in Sessions, LeaseMerge(s)
      PROVE  MergeTypeOK' /\ OthersOnly
  <2>1. /\ row' = [status |-> "leased", payload |-> row.payload, session |-> s]
        /\ row.status # "done"
    BY <1>3 DEF LeaseMerge
  <2>2. /\ claims' \in [held : BOOLEAN, merge : BOOLEAN, session : Sessions \cup {NoSession}, live : BOOLEAN]
        /\ claims'.held = claims.held /\ claims'.merge
    BY <1>3 DEF LeaseMerge
  <2>3. /\ handler' \in [Sessions -> Stages]
        /\ \A t \in Sessions : handler'[t] \in {handler[t], "start"}
    BY <1>3 DEF LeaseMerge, GoesTo
  <2>4. UNCHANGED <<lease, job, approval, pr>>
    BY <1>3 DEF LeaseMerge
  <2>5. QED
    BY <2>1, <2>2, <2>3, <2>4
<1>4. ASSUME NEW s \in Sessions, FinalizeRelease(s)
      PROVE  MergeTypeOK' /\ OthersOnly
  BY <1>4 DEF FinalizeRelease, OpenRow
<1>5. ASSUME NEW s \in Sessions, Crash(s)
      PROVE  MergeTypeOK' /\ OthersOnly
  BY <1>5, ReturnsKeepsTypes DEF Crash
<1>6. CASE LoseLease
  <2>1. lease' \in [session : Sessions \cup {NoSession}, working : BOOLEAN]
    BY <1>6 DEF LoseLease
  <2>2. QED
    BY <1>6, <2>1 DEF LoseLease
<1>7. CASE ProviderMerges
  BY <1>7 DEF ProviderMerges, others
<1>8. CASE ProviderRejects
  <2>1. /\ pr' \in [head : Heads, state : {"open", "merged"}, mergedHead : Heads,
                    inFlight : BOOLEAN, calls : 0 .. MaxCalls]
        /\ pr'.calls = pr.calls /\ pr'.state = pr.state /\ pr'.mergedHead = pr.mergedHead
    BY <1>8 DEF ProviderRejects
  <2>2. UNCHANGED others
    BY <1>8 DEF ProviderRejects
  <2>3. QED
    BY <2>1, <2>2 DEF others
<1>9. ASSUME NEW h \in Heads \ {"approved"}, PushHead(h)
      PROVE  MergeTypeOK' /\ OthersOnly
  BY <1>9 DEF PushHead, others
<1>10. CASE RequestCancel
  BY <1>10 DEF RequestCancel
<1>11. CASE ApprovalExpires
  BY <1>11 DEF ApprovalExpires
<1>12. CASE StatusMessageSent
  BY <1>12 DEF StatusMessageSent
<1>13. CASE LeaseExpires
  BY <1>13 DEF LeaseExpires
<1>14. CASE RowExpires
  BY <1>14 DEF RowExpires
<1>15. CASE ClaimsExpire
  <2>1. /\ claims' \in [held : BOOLEAN, merge : BOOLEAN, session : Sessions \cup {NoSession}, live : BOOLEAN]
        /\ claims'.held = claims.held /\ claims'.merge = claims.merge
    BY <1>15 DEF ClaimsExpire
  <2>2. QED
    BY <1>15, <2>1 DEF ClaimsExpire
<1>16. CASE UNCHANGED vars
  BY <1>16 DEF vars
<1>17. QED
  BY <1>1, <1>2, <1>3, <1>4, <1>5, <1>6, <1>7, <1>8, <1>9, <1>10, <1>11, <1>12, <1>13,
     <1>14, <1>15, <1>16 DEF OtherNext

\* A step is a step of a handler or one of the others.
LEMMA NextCases ==
  ASSUME [Next]_vars
  PROVE  (\E s \in Sessions : HandlerNext(s)) \/ OtherNext
BY DEF Next, OtherNext

-----------------------------------------------------------------------------
\* The variables keep their shape.
LEMMA MergeTypeStep ==
  ASSUME MergeTypeOK, [Next]_vars
  PROVE  MergeTypeOK'
<1>1. ASSUME NEW s \in Sessions, HandlerNext(s)
      PROVE  MergeTypeOK'
  <2> USE DEF MergeTypeOK, Stages, Payloads
  <2>1. CASE GivesUp(s)
    BY <2>1 DEF GivesUp
  <2>2. ASSUME NEW stages \in SUBSET Stages, Reads(s, stages)
        PROVE  MergeTypeOK'
    BY <2>2 DEF Reads, GoesTo
  <2>3. CASE Binds(s)
    BY <2>3 DEF Binds, GoesTo
  <2>4. CASE Marks(s)
    BY <2>4 DEF Marks, GoesTo, Prepared, HoldsRow
  <2>5. CASE Calls(s)
    <3>1. pr' \in [head : Heads, state : {"open", "merged"}, mergedHead : Heads,
                   inFlight : BOOLEAN, calls : 0 .. MaxCalls]
      BY <2>5, MergeAssumption DEF Calls
    <3>2. handler' \in [Sessions -> Stages]
      BY <2>5 DEF Calls, GoesTo
    <3>3. QED
      BY <2>5, <3>1, <3>2 DEF Calls
  <2>6. CASE Completes(s)
    <3>1. PICK baseContentVerified \in BOOLEAN : CompleteMergeSuccess(s, baseContentVerified)
      BY <2>6 DEF Completes
    <3>2. Returns(s) /\ UNCHANGED <<approval, pr>>
      BY <3>1 DEF CompleteMergeSuccess
    <3>3. row' = [status |-> "done", payload |-> "marked", session |-> NoSession]
      BY <3>1 DEF CompleteMergeSuccess, OpenRow
    <3>4. job' \in [state : JobStates, cancelRequested : BOOLEAN]
      BY <3>1 DEF CompleteMergeSuccess, JobStates
    <3>5. claims' \in [held : BOOLEAN, merge : BOOLEAN, session : Sessions \cup {NoSession}, live : BOOLEAN]
      BY <3>1 DEF CompleteMergeSuccess, MergesReleased
    <3>6. QED
      BY <3>2, <3>3, <3>4, <3>5, ReturnsKeepsTypes
  <2>7. QED
    BY <1>1, <2>1, <2>2, <2>3, <2>4, <2>5, <2>6, HandlerCases
<1>2. QED
  BY <1>1, NextCases, OtherCases

\* Every variable keeps its shape for any number of sessions.
THEOREM MergeTypeCorrect == Spec => []MergeTypeOK
<1>1. Init => MergeTypeOK
  BY MergeAssumption DEF Init, MergeTypeOK, OpenRow, JobStates, Payloads, Stages, Heads
<1>2. QED
  BY <1>1, MergeTypeStep, PTL DEF Spec

-----------------------------------------------------------------------------
(* The provider is called at most once. *)

\* The mark is the write-ahead of the call: before it nobody is about to call and
\* nothing was called; the one handler that wrote it is the only one that may
\* call, and while it has not, nobody has.
MarkPrecedesCall ==
    /\ row.payload # "marked" =>
         pr.calls = 0 /\ \A s \in Sessions : handler[s] # "marked"
    /\ \A s \in Sessions : handler[s] = "marked" => pr.calls = 0
    /\ \A s, t \in Sessions : handler[s] = "marked" /\ handler[t] = "marked" => s = t
    /\ pr.calls \in {0, 1}

\* MarkPrecedesCall is inductive: the mark is never taken back, and a handler gets
\* to the call only by writing a mark that was not there.
LEMMA MarkPrecedesCallStep ==
  ASSUME MergeTypeOK, MarkPrecedesCall, [Next]_vars
  PROVE  MarkPrecedesCall'
<1>1. ASSUME NEW s \in Sessions, HandlerNext(s)
      PROVE  MarkPrecedesCall'
  <2> USE DEF MarkPrecedesCall
  <2>0. handler \in [Sessions -> Stages]
    BY DEF MergeTypeOK
  <2>1. CASE GivesUp(s)
    <3>1. \A t \in Sessions : handler'[t] = "marked" => handler[t] = "marked"
      BY <2>0, <2>1 DEF GivesUp
    <3>2. QED
      BY <2>1, <3>1 DEF GivesUp
  <2>2. ASSUME NEW stages, "marked" \notin stages, Reads(s, stages)
        PROVE  MarkPrecedesCall'
    <3>1. \A t \in Sessions : handler'[t] = "marked" => handler[t] = "marked"
      BY <2>0, <2>2 DEF Reads, GoesTo
    <3>2. row' = row /\ pr' = pr
      BY <2>2 DEF Reads
    <3>3. QED
      BY <3>1, <3>2
  <2>3. CASE Binds(s)
    <3>1. \A t \in Sessions : handler'[t] = "marked" => handler[t] = "marked"
      BY <2>0, <2>3 DEF Binds, GoesTo
    <3>2. row.payload = "pending" /\ pr' = pr
      BY <2>3 DEF Binds
    <3>3. QED
      BY <3>1, <3>2
  <2>4. CASE Marks(s)
    <3>1. row'.payload = "marked" /\ pr' = pr
      BY <2>4 DEF Marks, MergeTypeOK
    <3>2. \A t \in Sessions : handler'[t] = "marked" =>
            handler[t] = "marked" \/ (t = s /\ row.payload # "marked")
      BY <2>0, <2>4 DEF Marks, GoesTo
    <3>3. QED
      BY <3>1, <3>2
  <2>5. CASE Calls(s)
    <3>1. pr'.calls = pr.calls + 1 /\ row' = row /\ handler[s] = "marked"
      BY <2>5 DEF Calls
    <3>2. \A t \in Sessions : handler'[t] = "marked" => handler[t] = "marked" /\ t # s
      BY <2>0, <2>5 DEF Calls, GoesTo
    <3>3. QED
      BY <3>1, <3>2
  <2>6. CASE Completes(s)
    <3>1. Returns(s) /\ pr' = pr /\ row'.payload = "marked"
      BY <2>6 DEF Completes, CompleteMergeSuccess, OpenRow
    <3>2. \A t \in Sessions : handler'[t] = "marked" => handler[t] = "marked"
      BY <2>0, <3>1 DEF Returns, GoesTo
    <3>3. QED
      BY <3>1, <3>2
  <2>7. QED
    BY <1>1, <2>1, <2>2, <2>3, <2>4, <2>5, <2>6, HandlerCases
<1>2. CASE OtherNext
  BY <1>2, OtherCases DEF OthersOnly, MarkPrecedesCall
<1>3. QED
  BY <1>1, <1>2, NextCases

\* MarkPrecedesCall, always.
LEMMA MarkAlwaysPrecedesCall == Spec => []MarkPrecedesCall
<1>1. Init => MarkPrecedesCall
  BY DEF Init, MarkPrecedesCall, OpenRow
<1>2. QED
  BY <1>1, MarkPrecedesCallStep, MergeTypeCorrect, PTL DEF Spec

\* The provider is called at most once for an accepted approval, however many
\* sessions, crashes and takeovers it takes.
THEOREM AtMostOneProviderCall == Spec => []ProviderCalledAtMostOnce
<1>1. MarkPrecedesCall => ProviderCalledAtMostOnce
  BY DEF MarkPrecedesCall, ProviderCalledAtMostOnce
<1>2. QED
  BY <1>1, MarkAlwaysPrecedesCall, PTL

\* A merge that was given up conclusively was never sent to the provider.
THEOREM RejectionsPrecedeTheCall == Spec => []RejectedBeforeProvider
<1>1. MarkPrecedesCall => RejectedBeforeProvider
  BY DEF MarkPrecedesCall, RejectedBeforeProvider
<1>2. QED
  BY <1>1, MarkAlwaysPrecedesCall, PTL

-----------------------------------------------------------------------------
(* An unsettled merge keeps its claims. *)

\* The mark is written only under live claims, and neither a handler that gives up
\* nor a release takes the claims of a marked row that is not settled.
THEOREM UnsettledMergesKeepTheirClaims == Spec => []UnsettledMergeKeepsItsClaims
<1>1. Init => UnsettledMergeKeepsItsClaims
  BY DEF Init, OpenRow, UnsettledMergeKeepsItsClaims
<1>2. MergeTypeOK /\ UnsettledMergeKeepsItsClaims /\ [Next]_vars => UnsettledMergeKeepsItsClaims'
  <2> SUFFICES ASSUME MergeTypeOK, UnsettledMergeKeepsItsClaims, [Next]_vars
               PROVE  UnsettledMergeKeepsItsClaims'
    OBVIOUS
  <2> USE DEF UnsettledMergeKeepsItsClaims
  <2>1. ASSUME NEW s \in Sessions, HandlerNext(s)
        PROVE  UnsettledMergeKeepsItsClaims'
    <3>1. CASE GivesUp(s)
      BY <3>1 DEF GivesUp
    <3>2. ASSUME NEW stages, Reads(s, stages)
          PROVE  UnsettledMergeKeepsItsClaims'
      BY <3>2 DEF Reads
    <3>3. CASE Binds(s)
      BY <3>3 DEF Binds, MergeTypeOK
    <3>4. CASE Marks(s)
      BY <3>4 DEF Marks, Prepared
    <3>5. CASE Calls(s)
      BY <3>5 DEF Calls
    <3>6. CASE Completes(s)
      BY <3>6 DEF Completes, CompleteMergeSuccess, OpenRow
    <3>7. QED
      BY <2>1, <3>1, <3>2, <3>3, <3>4, <3>5, <3>6, HandlerCases
  <2>2. CASE OtherNext
    BY <2>2, OtherCases DEF OthersOnly
  <2>3. QED
    BY <2>1, <2>2, NextCases
<1>3. QED
  BY <1>1, <1>2, MergeTypeCorrect, PTL DEF Spec

-----------------------------------------------------------------------------
(* A recorded merge is real. *)

\* A handler reaches the last check only past the pull request's merged state,
\* which never changes again.
RecordedInv ==
    /\ RecordedMergeIsReal
    /\ \A s \in Sessions : handler[s] = "base" => pr.state = "merged"

\* A recorded merge has happened; one recorded as verified has the approved content
\* on its base branch.
THEOREM RecordedMergesAreReal == Spec => []RecordedMergeIsReal
<1>1. Init => RecordedInv
  BY DEF Init, RecordedInv, RecordedMergeIsReal
<1>2. MergeTypeOK /\ RecordedInv /\ [Next]_vars => RecordedInv'
  <2> SUFFICES ASSUME MergeTypeOK, RecordedInv, [Next]_vars
               PROVE  RecordedInv'
    OBVIOUS
  <2> USE DEF RecordedInv, RecordedMergeIsReal, BaseContent
  <2>1. ASSUME NEW s \in Sessions, HandlerNext(s)
        PROVE  RecordedInv'
    <3>0. handler \in [Sessions -> Stages]
      BY DEF MergeTypeOK
    <3>1. CASE GivesUp(s)
      BY <3>0, <3>1 DEF GivesUp
    <3>2. ASSUME NEW stages, Reads(s, stages), "base" \in stages => pr.state = "merged"
          PROVE  RecordedInv'
      BY <3>0, <3>2 DEF Reads, GoesTo
    <3>3. CASE Binds(s)
      BY <3>0, <3>3 DEF Binds, GoesTo
    <3>4. CASE Marks(s)
      BY <3>0, <3>4 DEF Marks, GoesTo
    <3>5. CASE Calls(s)
      <4>1. pr'.state = pr.state /\ pr'.mergedHead = pr.mergedHead /\ job' = job
        BY <3>5 DEF Calls
      <4>2. \A t \in Sessions : handler'[t] = "base" => handler[t] = "base"
        BY <3>0, <3>5 DEF Calls, GoesTo
      <4>3. QED
        BY <4>1, <4>2
    <3>6. CASE Completes(s)
      <4>1. PICK verified \in BOOLEAN : CompleteMergeSuccess(s, verified)
        BY <3>6 DEF Completes
      <4>2. pr' = pr /\ pr.state = "merged"
        BY <3>6, <4>1 DEF Completes, CompleteMergeSuccess
      <4>3. job'.state = "merged" => BaseContent
        BY <4>1 DEF CompleteMergeSuccess, MergeTypeOK
      <4>4. QED
        BY <4>2, <4>3
    <3>7. QED
      BY <2>1, <3>1, <3>2, <3>3, <3>4, <3>5, <3>6, HandlerCases
  <2>2. CASE OtherNext
    BY <2>2, OtherCases DEF OthersOnly
  <2>3. QED
    BY <2>1, <2>2, NextCases
<1>3. RecordedInv => RecordedMergeIsReal
  BY DEF RecordedInv
<1>4. QED
  BY <1>1, <1>2, <1>3, MergeTypeCorrect, PTL DEF Spec
============================================================================
