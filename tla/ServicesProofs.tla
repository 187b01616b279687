--------------------------- MODULE ServicesProofs --------------------------
(***************************************************************************)
(* What Services keeps for every number of updates, attempts, faults,      *)
(* rows, versions, delegations, tasks, watches and loops.  Each service    *)
(* has its own inductive invariant (that of Obligations is in              *)
(* ObligationsProofs); a step of Services is a step of one of them and     *)
(* leaves the others alone.                                                *)
(***************************************************************************)
EXTENDS Services, ObligationsProofs

-----------------------------------------------------------------------------
(* The ingress *)

\* A row exists once its update was claimed, and counts its claims.
RowsBegin ==
    \A u \in UpdateIds : updates[u].status = "none" => updates[u].attempts = 0

ClaimsHaveRows ==
    \A u \in UpdateIds : updates[u].status = "none" => claimed[u] = 0

\* Updates are claimed in order: what is before a row, or before the rest of a
\* poll, has a row.
RowsAreContiguous ==
    \A u, v \in UpdateIds :
        v < u /\ updates[u].status # "none" => updates[v].status # "none"
BatchIsNext ==
    \A u \in batch : \A v \in UpdateIds :
        v < u /\ v \notin batch => updates[v].status # "none"

\* A handler that has acted did so for its update, unless the update was
\* closed behind its back.
ActedIsRecorded ==
    handler.stage = "acted" =>
        /\ handler.update \in UpdateIds
        /\ acts[handler.update] # {} \/ updates[handler.update].status \in Closed

IngressInv ==
    /\ IngressTypeOK
    /\ RowsBegin
    /\ ClaimsHaveRows
    /\ RowsAreContiguous
    /\ BatchIsNext
    /\ ActedIsRecorded
    /\ CursorPassesOnlySettled
    /\ ProcessedMeansHandled

LEMMA IntStep ==
    ASSUME NEW a \in Int, NEW b \in Int, a < b
    PROVE  a = b - 1 \/ a < b - 1
BY SMT

\* The cursor moves over rows that are settled or burned, and over no gap.
LEMMA CursorStep ==
    ASSUME IngressTypeOK, CursorPassesOnlySettled,
           NEW rows \in [UpdateIds ->
               [status : {"none", "processing", "failed"} \cup Closed,
                attempts : Nat, live : BOOLEAN]],
           \A u, v \in UpdateIds :
               v < u /\ rows[u].status # "none" => rows[v].status # "none",
           \A u \in UpdateIds : u < cursor =>
               rows[u].status \in Closed \/ Burned(rows[u]),
           AdvanceTelegramCursor(rows)
    PROVE  /\ cursor' \in 1 .. MaxUpdates + 1
           /\ \A u \in UpdateIds : u < cursor' =>
                  rows[u].status \in Closed \/ Burned(rows[u])
<1>1. cursor' \in 1 .. MaxUpdates + 1 /\ NextOffset(rows, cursor')
  BY DEF AdvanceTelegramCursor
<1>2. cursor \in Int /\ cursor' \in Int /\ MaxUpdates \in Nat
  BY <1>1, IngressAssumption DEF IngressTypeOK
<1>3. ASSUME NEW u \in UpdateIds, u < cursor', ~(u < cursor)
      PROVE  rows[u].status \in Closed \/ Burned(rows[u])
  <2>1. u \notin Pinning(rows)
    BY <1>1, <1>2, <1>3 DEF NextOffset, UpdateIds
  <2>2. rows[u].status # "none"
    <3>1. CASE cursor' \in Pinning(rows)
      BY <3>1, <1>3 DEF Pinning
    <3>2. CASE cursor' - 1 \in Done(rows)
      <4>1. cursor' - 1 \in UpdateIds /\ rows[cursor' - 1].status # "none"
        BY <3>2 DEF Done, Closed
      <4>2. u \in Int
        BY <1>2 DEF UpdateIds
      <4>3. u = cursor' - 1 \/ u < cursor' - 1
        BY <1>2, <1>3, <4>2, IntStep
      <4> QED BY <4>1, <4>3
    <3>3. CASE cursor' = cursor
      BY <3>3, <1>3
    <3> QED BY <1>1, <3>1, <3>2, <3>3 DEF NextOffset
  <2>3. u >= cursor
    BY <1>2, <1>3 DEF UpdateIds
  <2> QED BY <2>1, <2>2, <2>3 DEF Pinning
<1> QED BY <1>1, <1>3

\* An update that is held is closed: what is left of the invariant.
LEMMA CloseStep ==
    ASSUME IngressInv, NEW u \in UpdateIds, HoldsClaim(u),
           NEW status \in Closed, CloseUpdate(u, status)
    PROVE  /\ updates' \in [UpdateIds ->
                  [status : {"none", "processing", "failed"} \cup Closed,
                   attempts : Nat, live : BOOLEAN]]
           /\ cursor' \in 1 .. MaxUpdates + 1
           /\ RowsBegin' /\ RowsAreContiguous' /\ CursorPassesOnlySettled'
           /\ updates'[u].status = status
           /\ \A v \in UpdateIds : v # u => updates'[v] = updates[v]
           /\ \A v \in UpdateIds : updates'[v].status = "none" <=> updates[v].status = "none"
<1> DEFINE rows == [updates EXCEPT ![u].status = status, ![u].live = FALSE]
<1>1. updates' = rows /\ AdvanceTelegramCursor(rows)
  BY DEF CloseUpdate
<1>2. rows \in [UpdateIds ->
          [status : {"none", "processing", "failed"} \cup Closed,
           attempts : Nat, live : BOOLEAN]]
  BY DEF IngressInv, IngressTypeOK
<1>3. /\ rows[u].status = status /\ rows[u].attempts = updates[u].attempts
      /\ \A v \in UpdateIds : v # u => rows[v] = updates[v]
  BY DEF IngressInv, IngressTypeOK
<1>4. status # "none" /\ updates[u].status = "processing"
  BY DEF Closed, HoldsClaim
<1>5. \A v \in UpdateIds : rows[v].status = "none" <=> updates[v].status = "none"
  BY <1>3, <1>4
<1>6. \A v, w \in UpdateIds : w < v /\ rows[v].status # "none" => rows[w].status # "none"
  BY <1>5 DEF IngressInv, RowsAreContiguous
<1>7. \A v \in UpdateIds : v < cursor => rows[v].status \in Closed \/ Burned(rows[v])
  BY <1>3 DEF IngressInv, CursorPassesOnlySettled
<1> HIDE DEF rows
<1>8. /\ cursor' \in 1 .. MaxUpdates + 1
      /\ \A v \in UpdateIds : v < cursor' => rows[v].status \in Closed \/ Burned(rows[v])
  BY <1>1, <1>2, <1>6, <1>7, CursorStep DEF IngressInv
<1>9. RowsBegin'
  BY <1>1, <1>3, <1>5 DEF IngressInv, RowsBegin
<1> QED BY <1>1, <1>2, <1>3, <1>5, <1>6, <1>8, <1>9 DEF RowsAreContiguous, CursorPassesOnlySettled, Burned

Rows == [UpdateIds -> [status : {"none", "processing", "failed"} \cup Closed,
                       attempts : Nat, live : BOOLEAN]]

\* What the end of a handler, good or bad, does to the rows.
LEMMA SettleStep ==
    ASSUME IngressInv, NEW u \in UpdateIds,
           CompleteTelegramUpdate(u) \/ RecordUpdateFailure(u)
    PROVE  /\ updates' \in Rows /\ cursor' \in 1 .. MaxUpdates + 1
           /\ claimed' \in [UpdateIds -> Nat]
           /\ RowsBegin' /\ ClaimsHaveRows' /\ RowsAreContiguous' /\ CursorPassesOnlySettled'
           /\ \A v \in UpdateIds : updates'[v].status = "none" <=> updates[v].status = "none"
           /\ \A v \in UpdateIds : v # u => updates'[v] = updates[v]
           /\ updates[u].status \in Closed => updates'[u] = updates[u]
           /\ updates'[u].status = "processed" =>
                  updates[u].status = "processed" \/ (HoldsClaim(u) /\ CompleteTelegramUpdate(u))
<1>0. ClaimsHaveRows /\ claimed' = [claimed EXCEPT ![u] = 0]
  BY DEF IngressInv, CompleteTelegramUpdate, RecordUpdateFailure
<1>1. /\ updates \in Rows /\ cursor \in 1 .. MaxUpdates + 1 /\ claimed \in [UpdateIds -> Nat]
      /\ RowsBegin /\ RowsAreContiguous /\ CursorPassesOnlySettled
  BY DEF IngressInv, IngressTypeOK, Rows
<1>2. claimed' \in [UpdateIds -> Nat]
  BY <1>1 DEF CompleteTelegramUpdate, RecordUpdateFailure
<1>3. HoldsClaim(u) => updates[u].status \notin Closed
  BY DEF HoldsClaim, Closed
<1>4. CASE UNCHANGED <<updates, cursor>>
  BY <1>0, <1>1, <1>2, <1>4
     DEF RowsBegin, ClaimsHaveRows, RowsAreContiguous, CursorPassesOnlySettled, Burned
<1>5. CASE updates' = updates /\ AdvanceTelegramCursor(updates)
  <2>1. /\ cursor' \in 1 .. MaxUpdates + 1
        /\ \A v \in UpdateIds : v < cursor' => updates[v].status \in Closed \/ Burned(updates[v])
    BY <1>1, <1>5, CursorStep DEF IngressInv, Rows, RowsAreContiguous, CursorPassesOnlySettled
  <2> QED
    BY <1>0, <1>1, <1>2, <1>5, <2>1
       DEF RowsBegin, ClaimsHaveRows, RowsAreContiguous, CursorPassesOnlySettled, Burned
<1>6. CASE HoldsClaim(u) /\ CloseUpdate(u, "processed") /\ CompleteTelegramUpdate(u)
  BY <1>0, <1>1, <1>2, <1>3, <1>6, CloseStep DEF Rows, Closed, ClaimsHaveRows
<1>7. CASE HoldsClaim(u) /\ CloseUpdate(u, "abandoned")
  BY <1>0, <1>1, <1>2, <1>3, <1>7, CloseStep DEF Rows, Closed, ClaimsHaveRows
<1>8. CASE /\ HoldsClaim(u) /\ cursor' = cursor
           /\ updates' = [updates EXCEPT ![u].status = "failed", ![u].live = FALSE]
           /\ ~Burned(updates[u])
  <2>1. /\ updates' \in Rows
        /\ updates'[u].status = "failed" /\ updates'[u].attempts = updates[u].attempts
        /\ \A v \in UpdateIds : v # u => updates'[v] = updates[v]
    BY <1>1, <1>8 DEF Rows
  <2>2. updates[u].status = "processing"
    BY <1>8 DEF HoldsClaim
  <2>3. \A v \in UpdateIds : updates'[v].status = "none" <=> updates[v].status = "none"
    BY <2>1, <2>2
  <2>4. RowsBegin' /\ ClaimsHaveRows' /\ RowsAreContiguous'
    BY <1>0, <1>1, <2>1, <2>3 DEF RowsBegin, ClaimsHaveRows, RowsAreContiguous
  <2>5. CursorPassesOnlySettled'
    BY <1>1, <1>3, <1>8, <2>1 DEF CursorPassesOnlySettled, Burned
  <2> QED BY <1>1, <1>2, <1>3, <1>8, <2>1, <2>3, <2>4, <2>5
<1> QED
  BY <1>4, <1>5, <1>6, <1>7, <1>8 DEF CompleteTelegramUpdate, RecordUpdateFailure

LEMMA IngressInitInv == IngressInit => IngressInv
<1> SUFFICES ASSUME IngressInit PROVE IngressInv
  OBVIOUS
<1>1. \A u \in UpdateIds : updates[u] = NoUpdate /\ acts[u] = {} /\ u \in Int /\ ~(u < 1)
  BY IngressAssumption DEF IngressInit, UpdateIds
<1>2. IngressTypeOK
  BY IngressAssumption DEF IngressInit, IngressTypeOK, NoUpdate, NoHandler, Handlers,
     Unclaimed, UpdateIds, Closed
<1> QED
  BY <1>1, <1>2 DEF IngressInit, IngressInv, RowsBegin, ClaimsHaveRows, RowsAreContiguous,
     BatchIsNext, ActedIsRecorded, CursorPassesOnlySettled, ProcessedMeansHandled, NoUpdate,
     NoHandler, Unclaimed

\* Nothing of the invariant is about Telegram's side or the faults.
LEMMA SameRows ==
    ASSUME IngressInv, IngressTypeOK', UNCHANGED <<updates, cursor>>,
           ClaimsHaveRows', BatchIsNext', ActedIsRecorded',
           \A u \in UpdateIds : acts[u] # {} => acts'[u] # {}
    PROVE  IngressInv'
BY DEF IngressInv, RowsBegin, RowsAreContiguous, CursorPassesOnlySettled,
   ProcessedMeansHandled, Burned

LEMMA IngressStepInv == IngressInv /\ [IngressNext]_ingressVars => IngressInv'
<1> SUFFICES ASSUME IngressInv, [IngressNext]_ingressVars PROVE IngressInv'
  OBVIOUS
<1> USE DEF IngressInv
<1>a. MaxUpdates \in Nat /\ MaxUpdateAttempts \in Nat /\ MaxUpdateAttempts > 0 /\ PollLimit \in Nat
      /\ PollLimit > 0
  BY IngressAssumption
<1>b. UpdateIds \subseteq Nat /\ \A u \in UpdateIds : u \in 0 .. MaxUpdates /\ To(u, "acted") \in Handlers
                                    /\ To(u, "begun") \in Handlers /\ To(u, "settled") \in Handlers
  BY <1>a DEF UpdateIds, To, Handlers
<1>c. NoHandler \in Handlers /\ NoHandler.stage # "acted"
  BY <1>a DEF NoHandler, Handlers
<1>1. CASE SendUpdate
  <2>1. IngressTypeOK'
    BY <1>1, <1>a DEF SendUpdate, IngressTypeOK
  <2> QED BY <1>1, <2>1, SameRows DEF SendUpdate, ClaimsHaveRows, BatchIsNext, ActedIsRecorded
<1>2. CASE Poll
  <2>a. batch' \subseteq UpdateIds
    BY <1>2, <1>a DEF Poll, IngressTypeOK, UpdateIds
  <2>1. IngressTypeOK'
    BY <1>2, <2>a DEF Poll, IngressTypeOK
  <2>2. ASSUME NEW u \in batch', NEW v \in UpdateIds, v < u, v \notin batch'
        PROVE  updates[v].status # "none"
    <3>1. u \in Int /\ v \in Int /\ cursor \in Int /\ sent \in Int /\ cursor <= u /\ u <= sent
          /\ u < cursor + PollLimit
      BY <1>2, <1>a, <2>2 DEF Poll, IngressTypeOK, UpdateIds
    <3>2. ~(cursor <= v)
      BY <1>2, <1>a, <2>2, <3>1 DEF Poll
    <3>3. updates[v].status \in Closed \/ updates[v].attempts # 0
      BY <1>a, <3>1, <3>2 DEF CursorPassesOnlySettled, Burned
    <3> QED BY <3>3 DEF RowsBegin, Closed
  <2>3. BatchIsNext'
    BY <1>2, <2>2 DEF BatchIsNext, Poll
  <2> QED BY <1>2, <2>1, <2>3, SameRows DEF Poll, ClaimsHaveRows, ActedIsRecorded
<1>3. ASSUME NEW u \in UpdateIds, BeginTelegramUpdate(u)
      PROVE  IngressInv'
  <2>1. \A v \in UpdateIds : v < u => updates[v].status # "none"
    BY <1>3, <1>b DEF BeginTelegramUpdate, BatchIsNext
  <2>2. batch' = batch \ {u} /\ batch' \subseteq UpdateIds
    BY <1>3 DEF BeginTelegramUpdate, IngressTypeOK
  <2>3. CASE ~Claimable(u)
    <3>1. updates[u].status # "none"
      BY <2>3 DEF Claimable, ClaimsHaveRows, Closed
    <3>2. BatchIsNext'
      BY <1>3, <2>2, <2>3, <3>1 DEF BeginTelegramUpdate, BatchIsNext
    <3>3. IngressTypeOK'
      BY <1>3, <2>2, <2>3 DEF BeginTelegramUpdate, IngressTypeOK
    <3> QED
      BY <1>3, <2>3, <3>2, <3>3, SameRows DEF BeginTelegramUpdate, ClaimsHaveRows, ActedIsRecorded
  <2>4. CASE Claimable(u)
    <3>1. /\ updates' = [updates EXCEPT ![u] = [status |-> "processing",
                              attempts |-> @.attempts + 1, live |-> TRUE]]
          /\ claimed' = [claimed EXCEPT ![u] = updates[u].attempts + 1]
          /\ handler' = To(u, "begun")
          /\ UNCHANGED <<sent, cursor, orphan, acts, faults>>
          /\ updates[u].status \notin Closed
      BY <1>3, <2>4 DEF BeginTelegramUpdate, To, Claimable
    <3>2. updates[u].attempts \in Nat
      BY DEF IngressTypeOK
    <3>3. IngressTypeOK'
      BY <1>b, <2>2, <3>1, <3>2 DEF IngressTypeOK, Closed
    <3>4. /\ updates'[u].status = "processing" /\ updates'[u].attempts = updates[u].attempts + 1
          /\ \A v \in UpdateIds : v # u => updates'[v] = updates[v] /\ claimed'[v] = claimed[v]
      BY <3>1 DEF IngressTypeOK
    <3>5. RowsBegin' /\ ClaimsHaveRows'
      BY <3>4 DEF RowsBegin, ClaimsHaveRows
    <3>6. RowsAreContiguous'
      BY <2>1, <3>4 DEF RowsAreContiguous
    <3>7. BatchIsNext'
      BY <2>2, <3>4 DEF BatchIsNext
    <3>8. ActedIsRecorded' /\ ProcessedMeansHandled'
      BY <3>1, <3>4 DEF ActedIsRecorded, ProcessedMeansHandled, To
    <3>9. CursorPassesOnlySettled'
      <4>1. Burned(updates[u]) => Burned(updates[u])'
        BY <1>a, <3>2, <3>4 DEF Burned
      <4> QED BY <3>1, <3>4, <4>1 DEF CursorPassesOnlySettled, Burned
    <3> QED BY <3>3, <3>5, <3>6, <3>7, <3>8, <3>9
  <2> QED BY <2>3, <2>4
<1>4. ASSUME NEW u \in UpdateIds, EnqueueTurn(u) \/ AnswerBoundary(u)
      PROVE  IngressInv'
  <2>1. IngressTypeOK'
    BY <1>4, <1>b DEF EnqueueTurn, AnswerBoundary, Advance, IngressTypeOK
  <2>2. \A v \in UpdateIds : acts[v] # {} => acts'[v] # {}
    BY <1>4 DEF EnqueueTurn, AnswerBoundary, IngressTypeOK
  <2>3. acts'[u] # {}
    BY <1>4 DEF EnqueueTurn, AnswerBoundary, IngressTypeOK
  <2>4. ActedIsRecorded'
    BY <1>4, <2>2, <2>3 DEF EnqueueTurn, AnswerBoundary, Advance, To, ActedIsRecorded
  <2> QED
    BY <1>4, <2>1, <2>2, <2>4, SameRows
       DEF EnqueueTurn, AnswerBoundary, ClaimsHaveRows, BatchIsNext
<1>5. ASSUME NEW u \in UpdateIds, AnswerInteraction(u)
      PROVE  IngressInv'
  <2>1. CASE updates[u].status \in Closed
    <3>1. IngressTypeOK'
      BY <1>5, <1>b, <2>1 DEF AnswerInteraction, Advance, IngressTypeOK
    <3>2. ActedIsRecorded'
      BY <1>5, <2>1 DEF AnswerInteraction, Advance, To, ActedIsRecorded
    <3>3. ClaimsHaveRows'
      BY <1>5, <2>1 DEF AnswerInteraction, ClaimsHaveRows, IngressTypeOK
    <3> QED
      BY <1>5, <2>1, <3>1, <3>2, <3>3, SameRows DEF AnswerInteraction, BatchIsNext
  <2>2. CASE updates[u].status \notin Closed
    <3>1. /\ HoldsClaim(u) /\ CloseUpdate(u, "processed") /\ "processed" \in Closed
          /\ Advance(u, {"begun"}, To(u, "settled"))
          /\ acts' = [acts EXCEPT ![u] = @ \cup {"answer"}]
          /\ claimed' = [claimed EXCEPT ![u] = 0]
          /\ UNCHANGED <<sent, batch, faults>>
      BY <1>5, <2>2 DEF AnswerInteraction, Closed
    <3>2. /\ updates' \in Rows /\ cursor' \in 1 .. MaxUpdates + 1
          /\ RowsBegin' /\ RowsAreContiguous' /\ CursorPassesOnlySettled'
          /\ updates'[u].status = "processed"
          /\ \A v \in UpdateIds : v # u => updates'[v] = updates[v]
          /\ \A v \in UpdateIds : updates'[v].status = "none" <=> updates[v].status = "none"
      BY <3>1, CloseStep DEF Rows
    <3>3. IngressTypeOK'
      BY <1>b, <3>1, <3>2 DEF Advance, IngressTypeOK, Rows
    <3>4. \A v \in UpdateIds : (acts[v] # {} => acts'[v] # {}) /\ acts'[u] # {}
      BY <3>1 DEF IngressTypeOK
    <3>5. ClaimsHaveRows' /\ BatchIsNext'
      BY <3>1, <3>2 DEF ClaimsHaveRows, BatchIsNext, IngressTypeOK
    <3>6. ActedIsRecorded'
      BY <3>1, <3>2, <3>4 DEF Advance, To, ActedIsRecorded
    <3>7. ProcessedMeansHandled'
      BY <3>2, <3>4 DEF ProcessedMeansHandled
    <3> QED BY <3>2, <3>3, <3>5, <3>6, <3>7
  <2> QED BY <2>1, <2>2
<1>6. ASSUME NEW u \in UpdateIds, HandlerThrows(u)
      PROVE  IngressInv'
  <2>1. /\ RecordUpdateFailure(u) /\ Advance(u, {"begun", "acted"}, NoHandler)
        /\ UNCHANGED <<sent, batch, acts, faults>>
    BY <1>6 DEF HandlerThrows
  <2>2. /\ updates' \in Rows /\ cursor' \in 1 .. MaxUpdates + 1
        /\ claimed' \in [UpdateIds -> Nat]
        /\ RowsBegin' /\ ClaimsHaveRows' /\ RowsAreContiguous' /\ CursorPassesOnlySettled'
        /\ \A v \in UpdateIds : updates'[v].status = "none" <=> updates[v].status = "none"
        /\ \A v \in UpdateIds : v # u => updates'[v] = updates[v]
        /\ updates[u].status \in Closed => updates'[u] = updates[u]
    BY <2>1, SettleStep
  <2>3. updates'[u].status = "processed" => updates[u].status = "processed"
    BY <2>1, <1>b DEF RecordUpdateFailure, CloseUpdate, IngressTypeOK
  <2>4. IngressTypeOK'
    BY <1>c, <2>1, <2>2 DEF Advance, IngressTypeOK, Rows
  <2>5. BatchIsNext'
    BY <2>1, <2>2 DEF BatchIsNext
  <2>6. ActedIsRecorded'
    BY <1>c, <2>1, <2>2 DEF Advance, ActedIsRecorded
  <2>7. ProcessedMeansHandled'
    BY <2>1, <2>2, <2>3 DEF ProcessedMeansHandled
  <2> QED BY <2>2, <2>4, <2>5, <2>6, <2>7
<1>7. ASSUME NEW u \in UpdateIds, HandlerReturns(u)
      PROVE  IngressInv'
  <2>1. CASE /\ handler = To(u, "acted") /\ CompleteTelegramUpdate(u)
             /\ handler' = NoHandler /\ UNCHANGED <<sent, batch, orphan, acts, faults>>
    <3>1. /\ updates' \in Rows /\ cursor' \in 1 .. MaxUpdates + 1
          /\ claimed' \in [UpdateIds -> Nat]
          /\ RowsBegin' /\ ClaimsHaveRows' /\ RowsAreContiguous' /\ CursorPassesOnlySettled'
          /\ \A v \in UpdateIds : updates'[v].status = "none" <=> updates[v].status = "none"
          /\ \A v \in UpdateIds : v # u => updates'[v] = updates[v]
          /\ updates'[u].status = "processed" => updates[u].status = "processed" \/ HoldsClaim(u)
      BY <2>1, SettleStep
    <3>2. IngressTypeOK'
      BY <1>c, <2>1, <3>1 DEF IngressTypeOK, Rows
    <3>3. BatchIsNext' /\ ActedIsRecorded'
      BY <1>c, <2>1, <3>1 DEF BatchIsNext, ActedIsRecorded
    <3>4. HoldsClaim(u) => acts[u] # {}
      BY <2>1 DEF ActedIsRecorded, HoldsClaim, Closed, To
    <3>5. ProcessedMeansHandled'
      BY <2>1, <3>1, <3>4 DEF ProcessedMeansHandled
    <3> QED BY <3>1, <3>2, <3>3, <3>5
  <2>2. CASE /\ handler' \in {handler, NoHandler} /\ orphan' \in {orphan, NoHandler}
             /\ UNCHANGED <<sent, updates, cursor, claimed, batch, acts, faults>>
    <3>1. IngressTypeOK'
      BY <1>c, <2>2 DEF IngressTypeOK
    <3> QED
      BY <1>c, <2>2, <3>1, SameRows DEF ClaimsHaveRows, BatchIsNext, ActedIsRecorded
  <2> QED BY <1>7, <2>1, <2>2 DEF HandlerReturns
<1>8. ASSUME NEW u \in UpdateIds, ClaimExpires(u)
      PROVE  IngressInv'
  <2>1. /\ updates' = [updates EXCEPT ![u].live = FALSE] /\ faults' \in 0 .. MaxFaults
        /\ UNCHANGED <<sent, cursor, claimed, batch, handler, orphan, acts>>
    BY <1>8, IngressAssumption DEF ClaimExpires, IngressTypeOK
  <2>2. /\ updates' \in Rows
        /\ \A v \in UpdateIds : /\ updates'[v].status = updates[v].status
                               /\ updates'[v].attempts = updates[v].attempts
    BY <2>1 DEF IngressTypeOK, Rows
  <2>3. IngressTypeOK'
    BY <2>1, <2>2 DEF IngressTypeOK, Rows
  <2>4. RowsBegin' /\ ClaimsHaveRows' /\ RowsAreContiguous' /\ BatchIsNext'
    BY <2>1, <2>2 DEF RowsBegin, ClaimsHaveRows, RowsAreContiguous, BatchIsNext
  <2>5. ActedIsRecorded' /\ ProcessedMeansHandled'
    BY <2>1, <2>2 DEF ActedIsRecorded, ProcessedMeansHandled
  <2>6. CursorPassesOnlySettled'
    BY <2>1, <2>2 DEF CursorPassesOnlySettled, Burned
  <2> QED BY <2>3, <2>4, <2>5, <2>6
<1>9. CASE Reactivate \/ Crash
  <2>1. StartActivation /\ orphan' \in {handler, NoHandler}
    BY <1>9 DEF Reactivate, Crash
  <2>2. /\ cursor' \in 1 .. MaxUpdates + 1
        /\ \A u \in UpdateIds : u < cursor' =>
               updates[u].status \in Closed \/ Burned(updates[u])
    BY <2>1, CursorStep DEF StartActivation, IngressTypeOK, RowsAreContiguous, CursorPassesOnlySettled
  <2>3. /\ claimed' = Unclaimed /\ batch' = {} /\ handler' = NoHandler
        /\ UNCHANGED <<sent, updates, acts>> /\ faults' \in 0 .. MaxFaults
    BY <2>1, IngressAssumption DEF StartActivation, IngressTypeOK
  <2>4. IngressTypeOK'
    BY <1>c, <2>1, <2>2, <2>3 DEF IngressTypeOK, Unclaimed
  <2>5. CursorPassesOnlySettled'
    BY <2>2, <2>3 DEF CursorPassesOnlySettled, Burned
  <2>6. ClaimsHaveRows' /\ BatchIsNext' /\ ActedIsRecorded'
    BY <1>c, <2>3 DEF ClaimsHaveRows, BatchIsNext, ActedIsRecorded, Unclaimed
  <2> QED
    BY <2>3, <2>4, <2>5, <2>6 DEF RowsBegin, RowsAreContiguous, ProcessedMeansHandled
<1>10. CASE UNCHANGED ingressVars
  BY <1>10 DEF ingressVars, IngressTypeOK, RowsBegin, ClaimsHaveRows, RowsAreContiguous,
     BatchIsNext, ActedIsRecorded, CursorPassesOnlySettled, ProcessedMeansHandled, Burned
<1> QED
  BY <1>1, <1>2, <1>3, <1>4, <1>5, <1>6, <1>7, <1>8, <1>9, <1>10 DEF IngressNext, Handling

-----------------------------------------------------------------------------
(* The outbox *)

\* The row of the call the loop awaits was leased for it, or has been rewritten
\* since; as long as it is held it has the text that the call carries.
CallCarriesRow ==
    \A k \in Keys : sending.key = k =>
        /\ outbox[k].status \in {"leased", "pending"}
        /\ HoldsRow(k) => outbox[k].text = sending.text

OutboxInv ==
    /\ OutboxTypeOK
    /\ SentMeansShown
    /\ CallCarriesRow

OutRow == [status : {"none", "sent", "dead"} \cup Waiting, text : Texts,
           attempts : 0 .. MaxSends, held : BOOLEAN, known : BOOLEAN]

LEMMA OutboxInitInv == OutboxInit => OutboxInv
BY OutboxAssumption
   DEF OutboxInit, OutboxInv, OutboxTypeOK, SentMeansShown, CallCarriesRow, HoldsRow,
       NoRow, NoCall, NoText, Notice, Texts, Waiting

\* A row that changed and is not sent shows nothing wrong; the other rows are
\* as they were.
LEMMA OtherRows ==
    ASSUME SentMeansShown, NEW k \in Keys,
           \A l \in Keys : l # k => outbox'[l] = outbox[l] /\ shown'[l] = shown[l],
           outbox'[k].status # "sent" \/ (outbox'[k].known /\ shown'[k] = outbox'[k].text)
    PROVE  SentMeansShown'
BY DEF SentMeansShown

\* One row gets new columns.
LEMMA RowStep ==
    ASSUME OutboxTypeOK, NEW k \in Keys, NEW text \in Texts, NEW attempts \in 0 .. MaxSends,
           NEW status \in {"sent", "dead"} \cup Waiting, NEW known \in BOOLEAN,
           SetRow(k, status, text, attempts, known)
    PROVE  /\ outbox' \in [Keys -> OutRow]
           /\ outbox'[k].status = status /\ outbox'[k].text = text /\ outbox'[k].known = known
           /\ \A l \in Keys : l # k => outbox'[l] = outbox[l]
<1> DEFINE row == [status |-> status, text |-> text, attempts |-> attempts,
                   held |-> status = "leased", known |-> known]
<1>1. row \in OutRow
  BY DEF OutRow, Waiting
<1>2. outbox' = [outbox EXCEPT ![k] = row]
  BY DEF SetRow
<1> QED BY <1>1, <1>2 DEF OutboxTypeOK, OutRow

LEMMA OutboxStepInv == OutboxInv /\ [OutboxNext]_outboxVars => OutboxInv'
<1> SUFFICES ASSUME OutboxInv, [OutboxNext]_outboxVars PROVE OutboxInv'
  OBVIOUS
<1> USE DEF OutboxInv
<1>a. /\ Texts \subseteq Int /\ Notice \in Texts /\ NoText \in Texts
      /\ MaxVersion \in Nat /\ MaxVersion > 0 /\ MaxSends \in Nat /\ MaxSends > 0
      /\ \A k \in Keys : k # NoKey
      /\ 1 \in Texts /\ \A t \in Texts : t < MaxVersion => t + 1 \in Texts
  BY OutboxAssumption DEF Texts, Notice, NoText
<1>b. /\ NoCall \in [key : Keys \cup {NoKey}, text : Texts, kind : {"none", "send", "edit"},
                     moved : BOOLEAN]
      /\ NoCall.key = NoKey
  BY <1>a DEF NoCall
<1>c. \A k \in Keys : outbox[k] \in OutRow /\ shown[k] \in Texts
  BY DEF OutboxTypeOK, OutRow
<1>d. /\ Waiting = {"pending", "failed", "leased"}
      /\ \A k \in Keys : /\ outbox[k].text \in Texts /\ outbox[k].known \in BOOLEAN
                          /\ outbox[k].attempts \in 0 .. MaxSends
                          /\ OneMore(outbox[k].attempts) \in 0 .. MaxSends
  BY <1>a, <1>c DEF OutRow, Waiting, OneMore
<1>1. ASSUME NEW k \in Keys, NEW text \in Texts, NEW fresh \in BOOLEAN,
             PersistOutbox(k, text, fresh), shown' = shown
      PROVE  /\ outbox' \in [Keys -> OutRow]
             /\ SentMeansShown'
             /\ outbox'[k].status = "pending"
             /\ \A l \in Keys : l # k => outbox'[l] = outbox[l]
  <2>1. (IF fresh THEN 0 ELSE outbox[k].attempts) \in 0 .. MaxSends
    BY <1>a, <1>d
  <2>4. /\ outbox' \in [Keys -> OutRow]
        /\ outbox'[k].status = "pending"
        /\ \A l \in Keys : l # k => outbox'[l] = outbox[l]
    BY <1>1, <1>d, <2>1, RowStep DEF PersistOutbox
  <2>3. SentMeansShown'
    BY <1>1, <2>4, OtherRows
  <2> QED BY <2>3, <2>4
<1>2. ASSUME NEW k \in Keys, WriteRow(k)
      PROVE  OutboxInv'
  <2>1. PersistOutbox(k, 1, TRUE) /\ shown' = shown /\ sending' = sending /\ 1 \in Texts
    BY <1>2, <1>a DEF WriteRow
  <2>2. OutboxTypeOK' /\ SentMeansShown'
    BY <1>1, <2>1 DEF OutboxTypeOK, OutRow
  <2>3. CallCarriesRow'
    BY <1>1, <2>1 DEF CallCarriesRow, HoldsRow
  <2> QED BY <2>2, <2>3
<1>3. ASSUME NEW k \in Keys, NEW render \in BOOLEAN, JobMoves(k, render)
      PROVE  OutboxInv'
  <2>1. /\ sending' \in [key : Keys \cup {NoKey}, text : Texts,
                          kind : {"none", "send", "edit"}, moved : BOOLEAN]
        /\ sending'.key = sending.key /\ sending'.text = sending.text
        /\ sending'.kind = sending.kind /\ shown' = shown
    BY <1>3 DEF JobMoves, OutboxTypeOK
  <2>2. CASE render
    <3>1. PersistOutbox(k, outbox[k].text + 1, FALSE) /\ outbox[k].text + 1 \in Texts
      BY <1>3, <1>a, <1>c, <2>2 DEF JobMoves, OutRow
    <3>2. OutboxTypeOK' /\ SentMeansShown'
      BY <1>1, <2>1, <3>1 DEF OutboxTypeOK, OutRow
    <3>3. CallCarriesRow'
      BY <1>1, <2>1, <3>1 DEF CallCarriesRow, HoldsRow
    <3> QED BY <3>2, <3>3
  <2>3. CASE ~render
    BY <1>3, <2>1, <2>3 DEF JobMoves, OutboxTypeOK, SentMeansShown, CallCarriesRow, HoldsRow
  <2> QED BY <2>2, <2>3
<1>4. ASSUME NEW k \in Keys, StartDelivery(k)
      PROVE  OutboxInv'
  <2>2. /\ outbox' \in [Keys -> OutRow]
        /\ outbox'[k].status = "leased" /\ outbox'[k].text = outbox[k].text
        /\ \A l \in Keys : l # k => outbox'[l] = outbox[l]
    BY <1>4, <1>d, RowStep DEF StartDelivery
  <2>1. /\ sending'.key = k /\ sending'.text = outbox[k].text /\ shown' = shown
    BY <1>4 DEF StartDelivery
  <2>3. sending' \in [key : Keys \cup {NoKey}, text : Texts,
                      kind : {"none", "send", "edit"}, moved : BOOLEAN]
    BY <1>4, <1>c DEF StartDelivery, OutboxTypeOK
  <2>4. SentMeansShown'
    BY <2>1, <2>2, OtherRows
  <2>5. CallCarriesRow'
    BY <2>1, <2>2 DEF CallCarriesRow
  <2> QED BY <2>1, <2>2, <2>3, <2>4, <2>5 DEF OutboxTypeOK, OutRow
<1>5. ASSUME NEW k \in Keys, NEW landed \in BOOLEAN, sending.key = k, Lands(k, landed)
      PROVE  /\ shown' \in [Keys -> Texts]
             /\ \A l \in Keys : l # k => shown'[l] = shown[l]
  BY <1>5 DEF Lands, OutboxTypeOK
<1>6. ASSUME NEW k \in Keys, sending.key = k, sending' = NoCall,
             outbox' \in [Keys -> OutRow],
             shown' \in [Keys -> Texts],
             \A l \in Keys : l # k => outbox'[l] = outbox[l] /\ shown'[l] = shown[l],
             outbox'[k].status # "sent" \/ (outbox'[k].known /\ shown'[k] = outbox'[k].text)
      PROVE  OutboxInv'
  <2>1. SentMeansShown'
    BY <1>6, OtherRows
  <2>2. CallCarriesRow'
    BY <1>a, <1>b, <1>6 DEF CallCarriesRow
  <2>3. OutboxTypeOK'
    BY <1>b, <1>6 DEF OutboxTypeOK, OutRow
  <2> QED BY <2>1, <2>2, <2>3
<1>7. ASSUME NEW k \in Keys, LoseLoop(k)
      PROVE  OutboxInv'
  <2>1. PICK landed \in BOOLEAN : Lands(k, landed)
    BY <1>7 DEF LoseLoop
  <2>2. sending.key = k /\ outbox' = outbox /\ sending' = NoCall /\ outbox[k].status # "sent"
    BY <1>7 DEF LoseLoop, CallCarriesRow
  <2>3. /\ shown' \in [Keys -> Texts]
        /\ \A l \in Keys : l # k => shown'[l] = shown[l]
    BY <1>5, <2>1, <2>2
  <2> QED BY <1>6, <2>2, <2>3 DEF OutboxTypeOK, OutRow
<1>8. ASSUME NEW k \in Keys, CompleteOutbox(k)
      PROVE  OutboxInv'
  <2>1. /\ sending.key = k /\ sending' = NoCall /\ sending.text \in Texts
        /\ sending.text = outbox[k].text
    BY <1>8 DEF CompleteOutbox, MayComplete, CallCarriesRow, OutboxTypeOK
  <2>2. /\ outbox' \in [Keys -> OutRow]
        /\ outbox'[k].known /\ outbox'[k].text = outbox[k].text
        /\ \A l \in Keys : l # k => outbox'[l] = outbox[l]
    BY <1>8, <1>d, RowStep DEF CompleteOutbox
  <2>3. /\ shown' \in [Keys -> Texts] /\ shown'[k] = sending.text
        /\ \A l \in Keys : l # k => shown'[l] = shown[l]
    BY <1>8, <2>1 DEF CompleteOutbox, OutboxTypeOK
  <2> QED BY <1>6, <2>1, <2>2, <2>3
<1>9. ASSUME NEW k \in Keys, NEW permanent \in BOOLEAN, DeliveryFails(k, permanent)
      PROVE  OutboxInv'
  <2>1. PICK landed \in BOOLEAN :
           /\ Lands(k, landed)
           /\ \E doubt \in BOOLEAN :
                 IF permanent \/ outbox[k].attempts >= MaxSends
                 THEN GiveUp(k, permanent, doubt)
                 ELSE SetRow(k, "failed", outbox[k].text, outbox[k].attempts, outbox[k].known)
    BY <1>9 DEF DeliveryFails
  <2>2. sending.key = k /\ sending' = NoCall
    BY <1>9 DEF DeliveryFails
  <2>3. /\ outbox' \in [Keys -> OutRow]
        /\ outbox'[k].status \in {"failed", "dead"}
        /\ \A l \in Keys : l # k => outbox'[l] = outbox[l]
    <3>1. CASE SetRow(k, "failed", outbox[k].text, outbox[k].attempts, outbox[k].known)
      BY <1>d, <3>1, RowStep
    <3>2. CASE SetRow(k, "failed", Notice, 0, outbox[k].known)
      <4>1. 0 \in 0 .. MaxSends /\ "failed" \in {"sent", "dead"} \cup Waiting
        BY <1>a, <1>d
      <4>2. Notice \in Texts /\ outbox[k].known \in BOOLEAN /\ OutboxTypeOK
        BY <1>a, <1>d
      <4> QED BY <3>2, <4>1, <4>2, RowStep
    <3>3. CASE SetRow(k, "dead", outbox[k].text, outbox[k].attempts, outbox[k].known)
      BY <1>d, <3>3, RowStep
    <3> QED BY <2>1, <3>1, <3>2, <3>3 DEF GiveUp
  <2>4. /\ shown' \in [Keys -> Texts]
        /\ \A l \in Keys : l # k => shown'[l] = shown[l]
    BY <1>5, <2>1, <2>2
  <2> QED BY <1>6, <2>2, <2>3, <2>4
<1>10. ASSUME NEW k \in Keys, EditUnavailable(k)
      PROVE  OutboxInv'
  <2>1. /\ sending' \in [key : Keys \cup {NoKey}, text : Texts,
                          kind : {"none", "send", "edit"}, moved : BOOLEAN]
        /\ sending'.key = sending.key /\ sending'.text = sending.text
        /\ UNCHANGED <<outbox, shown>>
    BY <1>10 DEF EditUnavailable, OutboxTypeOK
  <2> QED BY <2>1 DEF OutboxTypeOK, SentMeansShown, CallCarriesRow, HoldsRow
<1>11. ASSUME NEW k \in Keys, RowLeaseExpires(k)
      PROVE  OutboxInv'
  <2>1. /\ outbox' \in [Keys -> OutRow]
        /\ outbox'[k].status = "leased" /\ ~outbox'[k].held
        /\ \A l \in Keys : l # k => outbox'[l] = outbox[l]
        /\ UNCHANGED <<shown, sending>>
    BY <1>11 DEF RowLeaseExpires, HoldsRow, OutboxTypeOK, OutRow
  <2>2. SentMeansShown'
    BY <2>1, OtherRows
  <2>3. CallCarriesRow'
    BY <2>1 DEF CallCarriesRow, HoldsRow
  <2> QED BY <2>1, <2>2, <2>3 DEF OutboxTypeOK, OutRow
<1>12. CASE UNCHANGED outboxVars
  BY <1>12 DEF outboxVars, OutboxTypeOK, SentMeansShown, CallCarriesRow, HoldsRow
<1> QED
  BY <1>2, <1>3, <1>4, <1>7, <1>8, <1>9, <1>10, <1>11, <1>12 DEF OutboxNext, EndDelivery

-----------------------------------------------------------------------------
(* The services together *)

ServicesInv == IngressInv /\ OutboxInv /\ ObligationsInv /\ end \in Ends

LEMMA ServicesInvariant == FairServices => []ServicesInv
<1>1. ServicesInit => ServicesInv
  BY IngressInitInv, OutboxInitInv, ObligationsInitInv DEF ServicesInit, ServicesInv
<1>2. ServicesInv /\ [ServicesNext]_servicesVars => ServicesInv'
  <2> SUFFICES ASSUME ServicesInv, [ServicesNext]_servicesVars PROVE ServicesInv'
    OBVIOUS
  <2>1. CASE In(IngressNext)
    BY <2>1, IngressStepInv, OutboxStepInv, ObligationsStepInv DEF In, ServicesInv
  <2>2. CASE Out(OutboxNext)
    BY <2>2, IngressStepInv, OutboxStepInv, ObligationsStepInv DEF Out, ServicesInv
  <2>3. ASSUME NEW what, Owed(what, ObligationsNext)
        PROVE  ServicesInv'
    BY <2>3, IngressStepInv, OutboxStepInv, ObligationsStepInv DEF Owed, ServicesInv
  <2>4. CASE \/ Owed("join", DelegationNext)
             \/ Owed("watch", WatchNext)
             \/ end \in {"join", "watch"} /\ Owed(end, SweepNext)
    <3>1. \E what : Owed(what, ObligationsNext)
      BY <2>4 DEF Owed, ObligationsNext
    <3> QED BY <2>3, <3>1
  <2>5. CASE UNCHANGED servicesVars
    BY <2>5, IngressStepInv, OutboxStepInv, ObligationsStepInv DEF servicesVars, ServicesInv
  <2> QED BY <2>1, <2>2, <2>4, <2>5 DEF ServicesNext
<1> QED BY <1>1, <1>2, PTL DEF FairServices

\* Every row of the tables telegram_updates, outbox, delegations and monitors,
\* the cursor, the calls and the sweeps under way stay in their types.
THEOREM ServicesTypes == FairServices => []ServicesTypeOK
<1>1. ServicesInv => ServicesTypeOK
  BY ObligationsInvMeans DEF ServicesInv, IngressInv, OutboxInv, ServicesTypeOK
<1> QED BY <1>1, ServicesInvariant, PTL

\* Whatever is aborted, fails or is handled out of turn, the cursor moves past
\* an update only when it is settled or was claimed as often as it may be.
THEOREM CursorTheorem == FairServices => []CursorPassesOnlySettled
<1>1. ServicesInv => CursorPassesOnlySettled
  BY DEF ServicesInv, IngressInv
<1> QED BY <1>1, ServicesInvariant, PTL

\* No update is acknowledged whose text became neither a turn nor an answer,
\* however many activations and crashes there are.
THEOREM ProcessedTheorem == FairServices => []ProcessedMeansHandled
<1>1. ServicesInv => ProcessedMeansHandled
  BY DEF ServicesInv, IngressInv
<1> QED BY <1>1, ServicesInvariant, PTL

\* A row that counts as sent shows the text it has now, whatever was rewritten,
\* lost or expired while a call was on its way.
THEOREM SentTheorem == FairServices => []SentMeansShown
<1>1. ServicesInv => SentMeansShown
  BY DEF ServicesInv, OutboxInv
<1> QED BY <1>1, ServicesInvariant, PTL

\* However many threads a delegation has, and however many loops sweep it while
\* it is still being published, a join that is not late reports every thread
\* that was started.
THEOREM JoinTheorem == FairServices => []JoinsReportEveryMember
<1>1. ServicesInv => JoinsReportEveryMember
  BY ObligationsInvMeans DEF ServicesInv
<1> QED BY <1>1, ServicesInvariant, PTL

\* No number of loops and crashes wakes the agent twice for one join, one watch
\* or one stalled thread.
THEOREM WakeTheorem == FairServices => []OneWakePerClaim
<1>1. ServicesInv => OneWakePerClaim
  BY ObligationsInvMeans DEF ServicesInv
<1> QED BY <1>1, ServicesInvariant, PTL
=============================================================================
