-------------------------- MODULE TelegramIngress --------------------------
(***************************************************************************)
(* How the owner's messages come in.  Telegram keeps every update at or    *)
(* above the cursor (table telegram_cursor) and hands it out again; the    *)
(* polling loop claims one update at a time (table telegram_updates), runs *)
(* its handler and completes the claim.  The service can be activated      *)
(* again in the same process, whose old handler runs on, or the process    *)
(* can die; a claim outlives its handler until its lease of five minutes   *)
(* is over.  Updates are texts of the owner.                               *)
(***************************************************************************)
EXTENDS Integers

CONSTANTS
    MaxUpdates,         \* bound: updates the owner sends
    MaxUpdateAttempts,  \* MAX_TELEGRAM_UPDATE_ATTEMPTS
    PollLimit,          \* updates that one poll returns (100)
    MaxFaults           \* bound: activations, crashes and overlong handlers

ASSUME IngressAssumption ==
    /\ MaxUpdates \in Nat \ {0}
    /\ MaxUpdateAttempts \in Nat \ {0}
    /\ PollLimit \in Nat \ {0}
    /\ MaxFaults \in Nat

VARIABLES
    sent,           \* updates 1 .. sent are at Telegram
    updates,        \* table telegram_updates
    cursor,         \* telegram_cursor.next_offset
    claimed,        \* claimedUpdates: the generation this process claimed
    batch,          \* what the running loop still has of its last poll
    handler,        \* the handler it awaits
    orphan,         \* the handler of an activation that was aborted
    acts,           \* what became of each update's text
    faults

ingressVars == <<sent, updates, cursor, claimed, batch, handler, orphan, acts, faults>>

UpdateIds == 1 .. MaxUpdates
NoUpdate == [status |-> "none", attempts |-> 0, live |-> FALSE]
NoHandler == [update |-> 0, stage |-> "none"]
Handlers == [update : 0 .. MaxUpdates, stage : {"none", "begun", "acted", "settled"}]
Unclaimed == [u \in UpdateIds |-> 0]

\* An update that is not tried again
Closed == {"processed", "abandoned"}
Burned(row) == row.attempts >= MaxUpdateAttempts

IngressTypeOK ==
    /\ sent \in 0 .. MaxUpdates
    /\ updates \in [UpdateIds ->
           [status : {"none", "processing", "failed"} \cup Closed,
            attempts : Nat, live : BOOLEAN]]
    /\ cursor \in 1 .. MaxUpdates + 1
    /\ claimed \in [UpdateIds -> Nat]
    /\ batch \subseteq UpdateIds
    /\ handler \in Handlers
    /\ orphan \in Handlers
    /\ acts \in [UpdateIds -> SUBSET {"turn", "answer", "boundary"}]
    /\ faults \in 0 .. MaxFaults

IngressInit ==
    /\ sent = 0
    /\ updates = [u \in UpdateIds |-> NoUpdate]
    /\ cursor = 1
    /\ claimed = Unclaimed
    /\ batch = {}
    /\ handler = NoHandler
    /\ orphan = NoHandler
    /\ acts = [u \in UpdateIds |-> {}]
    /\ faults = 0

-----------------------------------------------------------------------------
(* The cursor *)

Pinning(rows) ==
    {u \in UpdateIds : /\ u >= cursor /\ ~Burned(rows[u])
                       /\ rows[u].status \in {"processing", "failed"}}
Done(rows) == {u \in UpdateIds : u >= cursor /\ rows[u].status \in Closed}

\* Mutated form of NextOffset: a failed update does not hold the cursor.
NextUnfailedOffset(rows, offset) ==
    LET unsettled == {u \in Pinning(rows) : rows[u].status = "processing"}
    IN  \/ offset \in unsettled /\ \A u \in unsettled : offset <= u
        \/ /\ unsettled = {} /\ offset - 1 \in Done(rows)
           /\ \A u \in Done(rows) : u < offset
        \/ unsettled = {} /\ Done(rows) = {} /\ offset = cursor

\* advanceTelegramCursor: the first update that is still to be handled, or
\* what follows the last one that was.
NextOffset(rows, offset) ==
    \/ offset \in Pinning(rows) /\ \A u \in Pinning(rows) : offset <= u
    \/ /\ Pinning(rows) = {} /\ offset - 1 \in Done(rows)
       /\ \A u \in Done(rows) : u < offset
    \/ Pinning(rows) = {} /\ Done(rows) = {} /\ offset = cursor

AdvanceTelegramCursor(rows) == cursor' \in {c \in 1 .. MaxUpdates + 1 : NextOffset(rows, c)}

-----------------------------------------------------------------------------
(* The polling loop *)

SendUpdate ==
    /\ sent < MaxUpdates
    /\ sent' = sent + 1
    /\ UNCHANGED <<updates, cursor, claimed, batch, handler, orphan, acts, faults>>

\* getUpdates: the first updates from the cursor on
Poll ==
    /\ handler = NoHandler /\ batch = {} /\ cursor <= sent
    /\ batch' = {u \in cursor .. sent : u < cursor + PollLimit}
    /\ UNCHANGED <<sent, updates, cursor, claimed, handler, orphan, acts, faults>>

\* Mutated form of Claimable: a claim that expired is not taken over.
ClaimableUnlessProcessing(u) ==
    /\ updates[u].status \notin Closed
    /\ claimed[u] = 0
    /\ updates[u].status # "processing"

\* beginTelegramUpdate answers "processed" for an update that is not to be run.
Claimable(u) ==
    /\ updates[u].status \notin Closed
    /\ claimed[u] = 0
    /\ ~(updates[u].status = "processing" /\ updates[u].live)

BeginTelegramUpdate(u) ==
    /\ handler = NoHandler
    /\ u \in batch /\ \A v \in batch : u <= v
    /\ batch' = batch \ {u}
    /\ IF Claimable(u)
       THEN /\ updates' = [updates EXCEPT ![u] = [status |-> "processing",
                               attempts |-> @.attempts + 1, live |-> TRUE]]
            /\ claimed' = [claimed EXCEPT ![u] = updates[u].attempts + 1]
            /\ handler' = [update |-> u, stage |-> "begun"]
       ELSE UNCHANGED <<updates, claimed, handler>>
    /\ UNCHANGED <<sent, cursor, orphan, acts, faults>>

\* The row is claimed as claimedUpdates has it, and the lease is not over.
HoldsClaim(u) ==
    /\ claimed[u] # 0 /\ updates[u].attempts = claimed[u]
    /\ updates[u].status = "processing" /\ updates[u].live

CloseUpdate(u, status) ==
    LET rows == [updates EXCEPT ![u].status = status, ![u].live = FALSE]
    IN  updates' = rows /\ AdvanceTelegramCursor(rows)

\* completeTelegramUpdate, after a handler that ran to its end.  Without its
\* claim it throws, and the failure that is then recorded throws as well.
CompleteTelegramUpdate(u) ==
    /\ IF HoldsClaim(u) THEN CloseUpdate(u, "processed")
       ELSE IF claimed[u] = 0 /\ updates[u].status \in Closed
       THEN updates' = updates /\ AdvanceTelegramCursor(updates)
       ELSE UNCHANGED <<updates, cursor>>
    /\ claimed' = [claimed EXCEPT ![u] = 0]

\* recordUpdateFailure: abandonTelegramUpdate or failTelegramUpdate.  The
\* claim is the one of the process, also when an aborted handler throws.
RecordUpdateFailure(u) ==
    /\ IF ~HoldsClaim(u) THEN UNCHANGED <<updates, cursor>>
       ELSE IF Burned(updates[u]) THEN CloseUpdate(u, "abandoned")
       ELSE /\ updates' = [updates EXCEPT ![u].status = "failed", ![u].live = FALSE]
            /\ cursor' = cursor
    /\ claimed' = [claimed EXCEPT ![u] = 0]

-----------------------------------------------------------------------------
(* Handlers: of the loop, or of the aborted one *)

\* A handler of u at one of the stages goes on to the next.
Advance(u, stages, next) ==
    \/ /\ handler.update = u /\ handler.stage \in stages
       /\ handler' = next /\ orphan' = orphan
    \/ /\ orphan.update = u /\ orphan.stage \in stages
       /\ orphan' = next /\ handler' = handler

To(u, stage) == [update |-> u, stage |-> stage]

\* enqueueControllerTurn, idempotent by the update's id
EnqueueTurn(u) ==
    /\ Advance(u, {"begun"}, To(u, "acted"))
    /\ acts' = [acts EXCEPT ![u] = @ \cup {"turn"}]
    /\ UNCHANGED <<sent, updates, cursor, claimed, batch, faults>>

\* answerControllerInteractionTextUpdate, while the agent waits for an answer:
\* answer and claim are settled in one transaction.
AnswerInteraction(u) ==
    /\ IF updates[u].status \in Closed
       THEN /\ Advance(u, {"begun"}, To(u, "acted"))
            /\ claimed' = [claimed EXCEPT ![u] = 0]
            /\ UNCHANGED <<updates, cursor, acts>>
       ELSE /\ HoldsClaim(u)
            /\ Advance(u, {"begun"}, To(u, "settled"))
            /\ acts' = [acts EXCEPT ![u] = @ \cup {"answer"}]
            /\ CloseUpdate(u, "processed")
            /\ claimed' = [claimed EXCEPT ![u] = 0]
    /\ UNCHANGED <<sent, batch, faults>>

\* answerOwnerBoundary: the handler says that the update is settled, and
\* nothing has settled it.  The boundary is answered once.
AnswerBoundary(u) ==
    /\ "boundary" \notin acts[u]
    /\ Advance(u, {"begun"}, To(u, "settled"))
    /\ acts' = [acts EXCEPT ![u] = @ \cup {"boundary"}]
    /\ UNCHANGED <<sent, updates, cursor, claimed, batch, faults>>

\* The handler throws, before or after it acted.
HandlerThrows(u) ==
    /\ Advance(u, {"begun", "acted"}, NoHandler)
    /\ RecordUpdateFailure(u)
    /\ UNCHANGED <<sent, batch, acts, faults>>

\* Mutated form of HandlerReturns: what an aborted handler claimed is completed.
AbortedHandlerReturns(u) ==
    /\ u \in {handler.update, orphan.update}
    /\ \/ /\ handler = To(u, "acted")
          /\ CompleteTelegramUpdate(u)
          /\ handler' = NoHandler /\ orphan' = orphan
       \/ /\ handler = To(u, "settled")
          /\ handler' = NoHandler
          /\ UNCHANGED <<updates, cursor, claimed, orphan>>
       \/ /\ orphan.update = u
          /\ CompleteTelegramUpdate(u)
          /\ orphan' = NoHandler /\ handler' = handler
    /\ UNCHANGED <<sent, batch, acts, faults>>

\* The handler of the running loop returns; an aborted one leaves its claim.
HandlerReturns(u) ==
    /\ u \in {handler.update, orphan.update}
    /\ \/ /\ handler = To(u, "acted")
          /\ CompleteTelegramUpdate(u)
          /\ handler' = NoHandler /\ orphan' = orphan
       \/ /\ handler = To(u, "settled")
          /\ handler' = NoHandler
          /\ UNCHANGED <<updates, cursor, claimed, orphan>>
       \/ /\ orphan.update = u
          /\ orphan' = NoHandler
          /\ UNCHANGED <<updates, cursor, claimed, handler>>
    /\ UNCHANGED <<sent, batch, acts, faults>>

-----------------------------------------------------------------------------
(* Time, activations and crashes *)

InHand(u) == u \in {handler.update, orphan.update}

\* Five minutes after the claim; a handler that takes so long is a fault.
ClaimExpires(u) ==
    /\ updates[u].status = "processing" /\ updates[u].live
    /\ IF InHand(u) THEN faults < MaxFaults /\ faults' = faults + 1 ELSE faults' = faults
    /\ updates' = [updates EXCEPT ![u].live = FALSE]
    /\ UNCHANGED <<sent, cursor, claimed, batch, handler, orphan, acts>>

\* reconcileTelegramCursor, at the start of every activation
StartActivation ==
    /\ faults < MaxFaults /\ faults' = faults + 1
    /\ claimed' = Unclaimed
    /\ AdvanceTelegramCursor(updates)
    /\ batch' = {} /\ handler' = NoHandler
    /\ UNCHANGED <<sent, updates, acts>>

\* The service is activated again in the same process; that the aborted
\* handler is still there when the next one is aborted is left out.
Reactivate ==
    /\ orphan = NoHandler
    /\ StartActivation
    /\ orphan' = handler

Crash == StartActivation /\ orphan' = NoHandler

\* What is done with an update once it is claimed
Handling(u) ==
    \/ EnqueueTurn(u) \/ AnswerInteraction(u) \/ AnswerBoundary(u)
    \/ HandlerThrows(u) \/ HandlerReturns(u)

IngressNext ==
    \/ SendUpdate \/ Poll
    \/ \E u \in UpdateIds : BeginTelegramUpdate(u) \/ Handling(u) \/ ClaimExpires(u)
    \/ Reactivate \/ Crash

IngressSpec == IngressInit /\ [][IngressNext]_ingressVars

-----------------------------------------------------------------------------
(* Properties *)

\* Telegram forgets what is behind the cursor: only updates that are settled,
\* or that were claimed as often as they may be, whatever failed, was aborted
\* or was handled out of turn.
CursorPassesOnlySettled ==
    \A u \in UpdateIds : u < cursor =>
        updates[u].status \in Closed \/ Burned(updates[u])

\* An update is acknowledged only after its text has become a turn or an
\* answer: an aborted handler never acknowledges a message that nobody got.
ProcessedMeansHandled ==
    \A u \in UpdateIds : updates[u].status = "processed" => acts[u] # {}

\* No update is left behind for good: over and over, the text of every update
\* that was sent has been taken, or given up.
EveryUpdateIsSettled ==
    []<>(\A u \in 1 .. sent : \/ acts[u] # {} \/ updates[u].status = "abandoned"
                              \/ Burned(updates[u]))
=============================================================================
