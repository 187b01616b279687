-------------------------- MODULE ControllerTurns --------------------------
(***************************************************************************)
(* The conversation: owner messages become turns (table controller_turns), *)
(* a loop claims one turn at a time, folds the turns that arrived with it  *)
(* into it, and hands their words to a BB thread, by a spawn, by a send or *)
(* by a steer into the answer being written.  A call may land or not while *)
(* its answer is lost, the process may restart at any time, and a thread   *)
(* may stay busy or fail.                                                  *)
(***************************************************************************)
EXTENDS Integers, Sequences, FiniteSets

CONSTANTS
    MaxMessages,        \* bound: messages the owner sends
    MaxTurns,           \* bound: messages and their replacements
    MaxRestarts,        \* bound: restarts, or losses of the executor lease
    MaxReconciliations  \* MAX_CONTROLLER_DELIVERY_RECONCILIATION_ATTEMPTS

ASSUME TurnsAssumption ==
    /\ MaxMessages \in Nat \ {0} /\ MaxTurns \in Nat /\ MaxTurns >= MaxMessages
    /\ MaxRestarts \in Nat
    /\ MaxReconciliations \in Nat \ {0}

VARIABLES
    turns,          \* table controller_turns, in the order of the ordinals
    controller,     \* row of controller_threads: live thread, pending spawn token
    delivery,       \* delivery columns of the turn dispatched or submitted
    fence,          \* whose lease that turn carries: "current" or "stale"
    accepted,       \* accepted_finalization_id of that turn is set
    reservation,    \* its steer_reservation_turn_id
    threads,        \* the BB thread spawned under each turn's token
    ended,          \* threads with a closed row in controller_generations
    call,           \* the call to BB that BB has not settled or the loop not seen
    awaiting,       \* the loop is awaiting that call
    restarts

dispatchVars == <<delivery, fence, accepted, reservation>>
bbVars == <<threads, call, awaiting>>
turnVars == <<turns, controller, ended, dispatchVars, bbVars, restarts>>

NoTurn == 0
TurnIds == 1 .. MaxTurns
TurnStates == {"queued", "dispatching", "submitted", "completed", "failed"}
DispatchKinds == {"none", "send", "spawn", "correction"}
Settled == [state |-> "none", kind |-> "none", attempts |-> 0, taken |-> FALSE]
NoThread == [status |-> "none", heard |-> {}]
NoCall == [kind |-> "none", thread |-> NoTurn, words |-> {}, status |-> "none"]

Ids == 1 .. Len(turns)
Messages == {t \in Ids : turns[t].says = t}
Queued == {t \in Ids : turns[t].state = "queued"}
Active == {t \in Ids : turns[t].state \in {"dispatching", "submitted"}}
Submitted(t) == t \in Ids /\ turns[t].state = "submitted"
Pending(t, states) == t \in Active /\ fence = "current" /\ delivery.state \in states
\* The loop is free to take its next step.
Free == ~awaiting

\* listControllerBurstMembers, and the words of a leader and its burst
Burst(t) == {u \in Ids : turns[u].leader = t} \cup {t}
Words(t) == {turns[u].says : u \in Burst(t)}

TurnsTypeOK ==
    /\ turns \in Seq([state : TurnStates, says : TurnIds, leader : 0 .. MaxTurns,
                      source : 0 .. MaxTurns, continuations : 0 .. 2, backoff : BOOLEAN,
                      steerText : SUBSET TurnIds, into : 0 .. MaxTurns])
    /\ Len(turns) <= MaxTurns
    /\ controller \in [thread : 0 .. MaxTurns, token : 0 .. MaxTurns]
    /\ delivery \in [state : {"none", "intent", "unknown"}, kind : DispatchKinds,
                     attempts : 0 .. MaxReconciliations - 1, taken : BOOLEAN]
    /\ fence \in {"current", "stale"}
    /\ accepted \in BOOLEAN
    /\ reservation \in 0 .. MaxTurns
    /\ threads \in [TurnIds -> [status : {"none", "idle", "active", "error"},
                                heard : SUBSET TurnIds]]
    /\ ended \subseteq TurnIds
    /\ call \in [kind : DispatchKinds \cup {"steer"}, thread : 0 .. MaxTurns,
                 words : SUBSET TurnIds, status : {"none", "open", "taken"}]
    /\ awaiting \in BOOLEAN
    /\ restarts \in 0 .. MaxRestarts

TurnsInit ==
    /\ turns = <<>>
    /\ controller = [thread |-> NoTurn, token |-> NoTurn]
    /\ delivery = Settled
    /\ fence = "current"
    /\ accepted = FALSE
    /\ reservation = NoTurn
    /\ threads = [t \in TurnIds |-> NoThread]
    /\ ended = {}
    /\ call = NoCall
    /\ awaiting = FALSE
    /\ restarts = 0

-----------------------------------------------------------------------------
(* Messages, claims and the way back to the queue *)

NewTurn(says, source) ==
    [state |-> "queued", says |-> says, leader |-> NoTurn, source |-> source,
     continuations |-> 0, backoff |-> FALSE, steerText |-> {}, into |-> NoTurn]

\* A replacement may be enqueued as long as the owner's messages have room.
RoomForReplacement ==
    Len(turns) + MaxMessages - Cardinality(Messages) < MaxTurns

EnqueueControllerTurn ==
    /\ Cardinality(Messages) < MaxMessages
    /\ turns' = Append(turns, NewTurn(Len(turns) + 1, NoTurn))
    /\ UNCHANGED <<controller, ended, dispatchVars, bbVars, restarts>>

\* The turns that may join leader t: those queued behind it, in order, up to
\* some gap, cap or turn that waits out a backoff.
Followers(t) ==
    {M \in SUBSET {u \in Queued : u > t} :
        \A m \in M : \A u \in Queued : t < u /\ u < m => u \in M}

\* A turn is settled; what its columns say about its dispatch is not read again.
Final(turn, state) ==
    [turn EXCEPT !.state = state, !.continuations = 0, !.steerText = {}, !.backoff = FALSE]

\* A thread is asked for as the live one, or by the token of a turn that may be
\* claimed again; the others are left out.
Known(u) ==
    \/ u = controller'.thread
    \/ u \in DOMAIN turns' /\ turns'[u].state \notin {"completed", "failed"}

\* The threads after a step that settles a turn, or retires the live thread.
KeepThreads(retired) ==
    /\ threads' = [u \in TurnIds |-> IF Known(u) THEN threads[u] ELSE NoThread]
    /\ ended' = {u \in ended \cup retired : Known(u)}

\* claimNextControllerTurn.  A turn that waits out a backoff is passed over.
ClaimTurn(t) ==
    /\ Free /\ call = NoCall
    /\ Active = {} /\ t \in Queued
    /\ \A u \in Queued : u < t => turns[u].backoff
    /\ \E M \in Followers(t) :
          turns' = [u \in Ids |->
              CASE u = t -> [turns[u] EXCEPT !.state = "dispatching", !.backoff = FALSE]
                [] u \in M -> [Final(turns[u], "completed") EXCEPT !.leader = t]
                [] OTHER -> turns[u]]
    /\ controller' = IF controller.thread = NoTurn /\ controller.token = NoTurn
                     THEN [controller EXCEPT !.token = t] ELSE controller
    /\ fence' = "current"
    /\ KeepThreads({})
    /\ UNCHANGED <<delivery, accepted, reservation, call, awaiting, restarts>>

Claimed(t) == /\ Free /\ Pending(t, {"none"}) /\ turns[t].state = "dispatching"

\* Mutated form of WithoutToken: a turn goes back to the queue, its token stays.
KeptToken(t) == controller

WithoutToken(t) ==
    IF controller.thread = NoTurn /\ controller.token = t
    THEN [controller EXCEPT !.token = NoTurn] ELSE controller

\* requeueControllerTurn, after a read that failed or a thread that is busy
RequeueTurn(t, backoff) ==
    /\ Claimed(t)
    /\ backoff \/ /\ controller.thread # NoTurn
                  /\ threads[controller.thread].status = "active"
    /\ turns' = [turns EXCEPT ![t].state = "queued", ![t].backoff = backoff]
    /\ controller' = WithoutToken(t)
    /\ UNCHANGED <<ended, dispatchVars, bbVars, restarts>>

\* resetControllerThread: a thread that broke, or that stayed busy beyond the
\* wait of a claimed turn.  A claimed turn's token opens the next one.
ResetControllerThread ==
    /\ Free /\ controller.thread # NoTurn
    /\ \/ /\ Active = {}
          /\ threads[controller.thread].status = "error"
          /\ controller' = [thread |-> NoTurn, token |-> NoTurn]
       \/ \E t \in Active :
             /\ Claimed(t)
             /\ threads[controller.thread].status \in {"error", "active"}
             /\ controller' = [thread |-> NoTurn, token |-> t]
    /\ turns' = turns
    /\ KeepThreads({controller.thread})
    /\ UNCHANGED <<dispatchVars, call, awaiting, restarts>>

-----------------------------------------------------------------------------
(* Dispatch: the intent is written before the call, the outcome after it *)

Intent(kind) == [Settled EXCEPT !.state = "intent", !.kind = kind]

Call(kind, thread, words) ==
    /\ call' = [kind |-> kind, thread |-> thread, words |-> words, status |-> "open"]
    /\ awaiting' = TRUE

\* prepareControllerDispatch and send, to a thread that was read as idle
SendTurn(t) ==
    /\ Claimed(t) /\ call = NoCall
    /\ controller.thread # NoTurn /\ threads[controller.thread].status = "idle"
    /\ delivery' = Intent("send")
    /\ Call("send", controller.thread, Words(t))
    /\ UNCHANGED <<turns, controller, ended, fence, accepted, reservation,
                   threads, restarts>>

\* findSpawnCandidate knows a thread by the token in its title.
HasCandidate(t) == threads[t].status \in {"idle", "active"}
MaySpawn(t) == controller.thread = NoTurn /\ controller.token = t

SpawnTurn(t) ==
    /\ Claimed(t) /\ call = NoCall
    /\ MaySpawn(t) /\ ~HasCandidate(t)
    /\ delivery' = Intent("spawn")
    /\ Call("spawn", t, Words(t))
    /\ UNCHANGED <<turns, controller, ended, fence, accepted, reservation,
                   threads, restarts>>

\* A candidate is adopted as it is (spawnOrAdopt), also to find out what
\* became of a spawn (reconcileUnknownSpawn); markControllerSpawned.
AdoptThread(t) ==
    /\ Free /\ t \in Active /\ turns[t].state = "dispatching"
    /\ \/ Pending(t, {"none"})
       \/ Pending(t, {"unknown"}) /\ delivery.kind = "spawn"
    /\ MaySpawn(t) /\ HasCandidate(t)
    /\ delivery' = IF delivery.state = "none" THEN Intent("spawn") ELSE delivery
    /\ controller' = [thread |-> t, token |-> NoTurn]
    /\ UNCHANGED <<turns, ended, fence, accepted, reservation, bbVars, restarts>>

\* BB takes the call: the thread hears the words and works.
CallLands ==
    /\ call.status = "open"
    /\ call.kind = "spawn" \/ threads[call.thread].status # "error"
    /\ turns' = turns /\ controller' = controller
    /\ threads' = IF ~Known(call.thread) THEN threads ELSE [threads EXCEPT ![call.thread] =
          [status |-> "active",
           heard |-> IF call.kind = "spawn" THEN call.words ELSE @.heard \cup call.words]]
    /\ ended' = IF call.kind = "spawn" THEN ended \ {call.thread} ELSE ended
    /\ delivery' = IF delivery.state # "none" /\ delivery.kind = call.kind
                   THEN [delivery EXCEPT !.taken = TRUE] ELSE delivery
    /\ call' = IF awaiting THEN [call EXCEPT !.status = "taken"] ELSE NoCall
    /\ UNCHANGED <<fence, accepted, reservation, awaiting, restarts>>

\* A call nobody waits for any more is refused, or lost on its way.
CallDrops ==
    /\ call.status = "open" /\ Free
    /\ call' = NoCall
    /\ UNCHANGED <<turns, controller, ended, dispatchVars, threads, awaiting, restarts>>

\* What is left of the call when the loop stops waiting for it: a call that
\* BB has not taken may still land, unless it was refused.
Unawaited(refused) ==
    /\ awaiting' = FALSE
    /\ call' = IF call.status = "open" /\ ~refused THEN call ELSE NoCall

Answered(kinds) == awaiting /\ call.kind \in kinds /\ call.status = "taken"

\* markControllerTurnSubmitted
Submit(t) ==
    /\ turns' = [turns EXCEPT ![t].state = "submitted"]
    /\ delivery' = Settled

CallReturns(t) ==
    /\ t \in Active /\ Answered({"send", "spawn", "correction"})
    /\ Unawaited(FALSE)
    /\ IF call.kind = "spawn"
       THEN /\ controller' = [thread |-> t, token |-> NoTurn]
            /\ UNCHANGED <<turns, delivery>>
       ELSE Submit(t) /\ UNCHANGED controller
    /\ UNCHANGED <<ended, fence, accepted, reservation, threads, restarts>>

\* The transaction after a spawn, or the recovery that finds it missing.
MarkSubmitted(t) ==
    /\ Free /\ Pending(t, {"intent", "unknown"})
    /\ turns[t].state = "dispatching"
    /\ delivery.kind = "spawn" /\ controller.thread = t
    /\ Submit(t)
    /\ UNCHANGED <<controller, ended, fence, accepted, reservation, bbVars, restarts>>

\* The call throws or times out: markControllerDeliveryUnknown.
CallThrows(t) ==
    /\ t \in Active /\ awaiting /\ call.kind \in {"send", "spawn", "correction"}
    /\ \E refused \in BOOLEAN : Unawaited(refused)
    /\ delivery' = [delivery EXCEPT !.state = "unknown"]
    /\ UNCHANGED <<turns, controller, ended, fence, accepted, reservation,
                   threads, restarts>>

\* Mutated form of ReconcileUnknownSend: a thread that was sent to was told.
TrustUnknownSend(t) ==
    /\ Free /\ Pending(t, {"unknown"}) /\ delivery.kind \in {"send", "correction"}
    /\ ~accepted
    /\ Submit(t)
    /\ UNCHANGED <<controller, ended, fence, accepted, reservation, bbVars, restarts>>

\* reconcileUnknownSend: the thread shows that it took the input.  A
\* correction is taken for received as soon as the thread does anything.
ReconcileUnknownSend(t) ==
    /\ Free /\ Pending(t, {"unknown"}) /\ delivery.kind \in {"send", "correction"}
    /\ ~accepted
    /\ \/ delivery.taken
       \/ /\ delivery.kind = "correction"
          /\ threads[controller.thread].status = "active"
    /\ Submit(t)
    /\ UNCHANGED <<controller, ended, fence, accepted, reservation, bbVars, restarts>>

\* Nothing can be seen of the call (recordControllerDeliveryReconciliationPending).
Unreconciled(t) ==
    /\ Free /\ Pending(t, {"unknown"}) /\ ~accepted
    /\ ~(delivery.kind = "spawn" /\ controller.thread = t)
\* Mutated form of LastAttempt: one look too many.
LateAttempt == delivery.attempts >= MaxReconciliations

LastAttempt == delivery.attempts + 1 >= MaxReconciliations

ReconciliationPending(t) ==
    /\ Unreconciled(t) /\ ~LastAttempt
    /\ delivery' = [delivery EXCEPT !.attempts = @ + 1]
    /\ UNCHANGED <<turns, controller, ended, fence, accepted, reservation, bbVars, restarts>>

DeliveryUnresolved(t) ==
    /\ Unreconciled(t) /\ LastAttempt /\ turns[t].state = "dispatching"
    /\ turns' = [turns EXCEPT ![t] = Final(@, "failed")]
    /\ delivery' = Settled
    /\ controller' = WithoutToken(t)
    /\ KeepThreads({})
    /\ UNCHANGED <<fence, accepted, reservation, call, awaiting, restarts>>

-----------------------------------------------------------------------------
(* The answer and the ways it can fail *)

Running(t) ==
    /\ Free /\ Pending(t, {"none"}) /\ turns[t].state = "submitted"
    /\ reservation = NoTurn

\* The thread's finalization tool is called under the fence of the turn.
AcceptFinalization(t) ==
    /\ Submitted(t) /\ fence = "current"
    /\ ~accepted /\ reservation = NoTurn
    /\ threads[controller.thread].status = "active"
    /\ accepted' = TRUE
    /\ UNCHANGED <<turns, controller, ended, delivery, fence, reservation, bbVars, restarts>>

\* completeControllerTurnFromFinalization, whatever else is still open
CompleteAccepted(t) ==
    /\ Free /\ Submitted(t) /\ fence = "current" /\ accepted
    /\ turns' = [turns EXCEPT ![t] = Final(@, "completed")]
    /\ accepted' = FALSE
    /\ delivery' = Settled
    /\ controller' = controller
    /\ KeepThreads({})
    /\ UNCHANGED <<fence, reservation, call, awaiting, restarts>>

\* claimControllerCompletionContinuation and the correction: the thread
\* stopped without a finalization, or nothing was heard of it for too long.
RequestCompletionContinuation(t) ==
    /\ Running(t) /\ ~accepted /\ call = NoCall
    /\ turns[t].continuations = 0 /\ threads[controller.thread].status # "error"
    /\ turns' = [turns EXCEPT ![t].continuations = 1]
    /\ delivery' = Intent("correction")
    /\ Call("correction", controller.thread, {})
    /\ UNCHANGED <<controller, ended, fence, accepted, reservation,
                   threads, restarts>>

RetireThread ==
    /\ controller' = [thread |-> NoTurn, token |-> NoTurn]
    /\ KeepThreads({controller.thread})

\* beginControllerRecovery: the correction was not enough, or could not be
\* sent or reconciled; or the thread failed with the input accepted.
BeginControllerRecovery(t) ==
    /\ \/ Running(t) /\ (turns[t].continuations = 1 => call = NoCall \/ call.kind = "steer")
       \/ /\ Unreconciled(t) /\ LastAttempt /\ Submitted(t)
       \/ /\ t \in Active /\ awaiting /\ call.kind = "correction"
    /\ ~accepted /\ turns[t].continuations < 2
    /\ turns' = [turns EXCEPT ![t].state = "queued", ![t].continuations = 2]
    /\ delivery' = Settled
    /\ RetireThread
    /\ Unawaited(awaiting)
    /\ UNCHANGED <<fence, accepted, reservation, restarts>>

\* requeueUntouchedOwnerMessage: the replacement takes over the members.
Replaced(t) ==
    Append([u \in Ids |->
              IF u = t THEN Final(turns[u], "failed")
              ELSE IF turns[u].leader = t /\ turns[u].state = "completed"
              THEN [turns[u] EXCEPT !.leader = Len(turns) + 1]
              ELSE turns[u]],
           NewTurn(turns[t].says, t))

\* failAndRetireControllerTurn; a turn that provably did nothing is replaced.
FailAndRetire(t, untouched) ==
    /\ Running(t) /\ ~accepted
    /\ IF untouched
       THEN turns[t].source = NoTurn /\ RoomForReplacement /\ turns' = Replaced(t)
       ELSE turns' = [turns EXCEPT ![t] = Final(@, "failed")]
    /\ RetireThread
    /\ UNCHANGED <<dispatchVars, call, awaiting, restarts>>

-----------------------------------------------------------------------------
(* Steering into the answer being written *)

\* reserveControllerSteer for the oldest queued turn and its burst M.  The
\* transcript is recorded only for a burst, and the steer sends what is
\* recorded.  A mutation still pending makes the call throw at once.
ReserveControllerSteer(t, w) ==
    /\ Running(t) /\ ~accepted
    /\ threads[controller.thread].status = "active"
    /\ w \in Queued /\ (\A u \in Queued : w <= u) /\ turns[w].source = NoTurn
    /\ \E M \in Followers(w) :
          LET text == IF M = {} THEN turns[t].steerText
                      ELSE {turns[u].says : u \in M \cup {w}}
          IN  /\ turns' = [u \in Ids |->
                    CASE u \in M -> [turns[u] EXCEPT !.leader = w]
                      [] u = t -> [turns[u] EXCEPT !.steerText = text]
                      [] OTHER -> turns[u]]
              /\ IF call = NoCall
                 THEN Call("steer", controller.thread,
                           IF text = {} THEN {turns[w].says} ELSE text)
                 ELSE UNCHANGED <<call, awaiting>>
    /\ reservation' = w
    /\ UNCHANGED <<controller, ended, delivery, fence, accepted,
                   threads, restarts>>

\* The waiting turn and the members reserved with it
Reserved == {u \in Queued : u = reservation \/ turns[u].leader = reservation}

\* completeAppliedControllerSteer
SteerApplied(t) ==
    /\ Submitted(t) /\ Answered({"steer"})
    /\ turns' = [u \in Ids |->
          IF u \in Reserved
          THEN [Final(turns[u], "completed") EXCEPT !.leader = reservation, !.into = t]
          ELSE turns[u]]
    /\ reservation' = NoTurn
    /\ Unawaited(FALSE)
    /\ controller' = controller
    /\ KeepThreads({})
    /\ UNCHANGED <<delivery, fence, accepted, restarts>>

\* Mutated form of SteerUnknown: a steer that threw was not applied.
SteerNotApplied(t) ==
    /\ Submitted(t) /\ fence = "current" /\ reservation # NoTurn
    /\ turns' = [u \in Ids |->
          IF u \in Reserved THEN [turns[u] EXCEPT !.leader = NoTurn] ELSE turns[u]]
    /\ reservation' = NoTurn
    /\ \E refused \in BOOLEAN : Unawaited(refused /\ awaiting)
    /\ UNCHANGED <<controller, ended, delivery, fence, accepted, threads, restarts>>

\* preserveAmbiguousControllerSteer: the call threw, or the process that made
\* it is gone.  BB cannot be asked, so the outcome is never "not applied".
SteerUnknown(t) ==
    /\ Submitted(t) /\ fence = "current" /\ reservation # NoTurn
    /\ turns' = [u \in Ids |->
          IF u \in Reserved
          THEN [turns[u] EXCEPT !.source = t, !.leader = NoTurn]
          ELSE turns[u]]
    /\ reservation' = NoTurn
    /\ \E refused \in BOOLEAN : Unawaited(refused /\ awaiting)
    /\ UNCHANGED <<controller, ended, delivery, fence, accepted, threads, restarts>>

-----------------------------------------------------------------------------
(* Restarts, and BB's threads *)

\* The process dies, or its loop loses the executor lease.
Restart ==
    /\ restarts < MaxRestarts /\ Active # {}
    /\ restarts' = restarts + 1
    /\ fence' = "stale"
    /\ Unawaited(FALSE)
    /\ UNCHANGED <<turns, controller, ended, delivery, accepted, reservation, threads>>

\* failStaleControllerDispatches
RecoverStaleDispatch(t) ==
    /\ Free /\ t \in Active /\ fence = "stale"
    /\ turns[t].state = "dispatching" \/ delivery.state # "none"
    /\ fence' = "current"
    /\ IF delivery.state = "none"
       THEN /\ turns' = [turns EXCEPT ![t].state = "queued"]
            /\ controller' = WithoutToken(t)
            /\ UNCHANGED delivery
       ELSE /\ delivery' = [delivery EXCEPT !.state = "unknown"]
            /\ UNCHANGED <<turns, controller>>
    /\ UNCHANGED <<ended, accepted, reservation, bbVars, restarts>>

\* Mutated form of AdoptSubmittedFence: an accepted answer needs no adoption.
AdoptUnansweredFence(t) ==
    /\ Free /\ Submitted(t) /\ fence = "stale" /\ delivery.state = "none" /\ ~accepted
    /\ fence' = "current"
    /\ UNCHANGED <<turns, controller, ended, delivery, accepted, reservation, bbVars, restarts>>

AdoptSubmittedFence(t) ==
    /\ Free /\ Submitted(t) /\ fence = "stale" /\ delivery.state = "none"
    /\ fence' = "current"
    /\ UNCHANGED <<turns, controller, ended, delivery, accepted, reservation, bbVars, restarts>>

\* A thread ends its work, or fails; that is seen of the live thread and of
\* the one a spawn token names.
ThreadStops(t, status) ==
    /\ t \in {controller.thread, controller.token}
    /\ threads[t].status = "active"
    /\ threads' = [threads EXCEPT ![t].status = status]
    /\ UNCHANGED <<turns, controller, ended, dispatchVars, call, awaiting, restarts>>

-----------------------------------------------------------------------------

\* What the loop does with the turn it has dispatched or submitted.
LoopStep(t) ==
    \/ CallReturns(t) \/ CallThrows(t) \/ MarkSubmitted(t)
    \/ ReconcileUnknownSend(t) \/ ReconciliationPending(t) \/ DeliveryUnresolved(t)
    \/ CompleteAccepted(t) \/ RequestCompletionContinuation(t)
    \/ BeginControllerRecovery(t)
    \/ \E untouched \in BOOLEAN : FailAndRetire(t, untouched)
    \/ SteerApplied(t) \/ SteerUnknown(t)
    \/ RecoverStaleDispatch(t) \/ AdoptSubmittedFence(t)

\* The ways out of a claim other than back to the queue
Dispatch(t) == SendTurn(t) \/ SpawnTurn(t) \/ AdoptThread(t)

TurnsNext ==
    \/ EnqueueControllerTurn
    \/ \E t \in TurnIds :
          \/ ClaimTurn(t)
          \/ \E backoff \in BOOLEAN : RequeueTurn(t, backoff)
          \/ Dispatch(t)
          \/ LoopStep(t)
          \/ AcceptFinalization(t)
          \/ \E w \in TurnIds : ReserveControllerSteer(t, w)
          \/ \E status \in {"idle", "error"} : ThreadStops(t, status)
    \/ ResetControllerThread
    \/ CallLands \/ CallDrops
    \/ Restart

TurnsSpec == TurnsInit /\ [][TurnsNext]_turnVars

\* The loop keeps running, BB settles every call at some time, and reads of
\* a claimed turn do not fail for ever.  No thread has to finish its work:
\* the timeouts of the loop bound it.
FairTurnsSpec ==
    /\ TurnsSpec
    /\ WF_turnVars(CallLands \/ CallDrops)
    /\ \A t \in TurnIds :
          /\ WF_turnVars(ClaimTurn(t))
          /\ SF_turnVars(Dispatch(t) \/ (Claimed(t) /\ ResetControllerThread))
          /\ WF_turnVars(LoopStep(t))

-----------------------------------------------------------------------------
(* Properties *)

\* The tables agree on whose turn it is: one turn is dispatched or submitted;
\* a spawn token is that of the turn being dispatched; a submitted turn has a
\* live thread, so that a crash never leaves it without one to answer it; a
\* reservation holds a queued turn for an answer that nothing has accepted.
ControllerServesOneTurn ==
    /\ Cardinality(Active) <= 1
    /\ controller.token # NoTurn =>
          controller.thread = NoTurn /\ controller.token \in Active /\ turns[controller.token].state = "dispatching"
    /\ \A t \in Active :
          /\ turns[t].state = "submitted" => controller.thread # NoTurn
          /\ turns[t].state = "dispatching" => ~accepted /\ reservation = NoTurn
    /\ Active = {} => delivery = Settled /\ ~accepted /\ reservation = NoTurn
    /\ reservation # NoTurn => reservation \in Queued /\ ~accepted

\* An answer is written by a thread that was told the question: what a
\* submitted turn and its burst say has reached the thread, unless it is a
\* retired thread that the same turn had spawned and has adopted again.
SubmittedBurstWasHeard ==
    \A t \in Ids : Submitted(t) /\ controller.thread \notin ended =>
        Words(t) \subseteq threads[controller.thread].heard

\* A dispatch repeats to a thread what it was told before only for a message
\* whose steer had an unknown outcome, which is marked as such.
RepeatsAreMarked ==
    call.kind = "send" /\ call.status = "open" =>
        \A m \in call.words \cap threads[call.thread].heard :
            \E t \in Ids : turns[t].says = m /\ turns[t].source # NoTurn

\* "one combined addition reaches the running answer": a message that is
\* settled as folded into a running answer was told to the thread writing it.
FoldedWordsWereHeard ==
    [][\A t \in Ids : turns'[t].into # turns[t].into =>
          turns[t].says \in threads[controller.thread].heard]_turnVars

\* The turn that answers for t: the replacement of a failed turn, the answer a
\* turn was steered into, the leader it was claimed with.
Heir(t) ==
    LET replacements == {r \in Ids : turns[r].source = t /\ turns[r].says # r}
    IN  CASE turns[t].state = "failed" /\ replacements # {} -> CHOOSE r \in replacements : TRUE
          [] turns[t].into # NoTurn -> turns[t].into
          [] turns[t].state = "completed" /\ turns[t].leader # NoTurn -> turns[t].leader
          [] OTHER -> t

\* What became of a turn: that of its heir, if it has one.
Fate[t \in Ids] ==
    LET heir == Heir(t)
    IN  CASE heir # t -> Fate[heir]
          [] turns[t].state = "completed" -> "answered"
          [] turns[t].state = "failed" -> "apologised"
          [] OTHER -> "waiting"

\* The messages as the owner sees them.
Outcome == [m \in TurnIds |-> IF m \in Messages THEN Fate[m] ELSE "none"]

Owner == INSTANCE OwnerMessages WITH Messages <- TurnIds, outcome <- Outcome

\* The conversation implements OwnerMessages: whatever is folded, steered,
\* replayed, retired or restarted, a message is settled once, and in the end.
SettlesEveryMessage == Owner!MessagesSpec
=============================================================================
