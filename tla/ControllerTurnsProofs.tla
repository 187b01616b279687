------------------------ MODULE ControllerTurnsProofs ------------------------
(* Theorems about the conversation, for any number of messages, turns,        *)
(* restarts and reconciliations: its types, the one turn that is served, what *)
(* the thread of a submitted turn has heard, and the mark of every word that  *)
(* a thread may hear twice.  The first part types each step; the second shows *)
(* the turn that is served; the third follows what was sent to what was       *)
(* heard; the last follows the words that no thread knows yet.                *)
EXTENDS ControllerTurns, SequenceTheorems, FiniteSetTheorems, TLAPS

\* A row of controller_turns
TurnRow == [state : TurnStates, says : TurnIds, leader : 0 .. MaxTurns,
            source : 0 .. MaxTurns, continuations : 0 .. 2, backoff : BOOLEAN,
            steerText : SUBSET TurnIds, into : 0 .. MaxTurns]

\* A table rewritten row by row is a table of as many rows.
LEMMA RewrittenTurns ==
  ASSUME turns \in Seq(TurnRow), turns' \in [Ids -> TurnRow]
  PROVE  turns' \in Seq(TurnRow) /\ Len(turns') = Len(turns) /\ Ids' = Ids
<1>1. Len(turns) \in Nat
  BY LenProperties
<1>2. turns' \in Seq(TurnRow)
  BY <1>1, SeqDef DEF Ids
<1>3. DOMAIN turns' = 1 .. Len(turns) /\ DOMAIN turns' = 1 .. Len(turns') /\ Len(turns') \in Nat
  BY <1>2, LenProperties DEF Ids
<1>4. Len(turns') = Len(turns)
  BY <1>1, <1>3
<1>5. QED
  BY <1>2, <1>4 DEF Ids

\* A turn more is a table with one row more.
LEMMA AppendedTurns ==
  ASSUME turns \in Seq(TurnRow), NEW rows, rows \in [Ids -> TurnRow], NEW row \in TurnRow,
         turns' = Append(rows, row)
  PROVE  /\ turns' \in Seq(TurnRow) /\ Len(turns') = Len(turns) + 1
         /\ \A t \in Ids : turns'[t] = rows[t]
         /\ turns'[Len(turns) + 1] = row
         /\ Ids' = Ids \cup {Len(turns) + 1}
<1>1. Len(turns) \in Nat
  BY LenProperties
<1>2. rows \in Seq(TurnRow)
  BY <1>1, SeqDef DEF Ids
<1>3. Len(rows) = Len(turns)
  <2>1. DOMAIN rows = 1 .. Len(turns) /\ DOMAIN rows = 1 .. Len(rows) /\ Len(rows) \in Nat
    BY <1>2, LenProperties DEF Ids
  <2>2. QED
    BY <2>1, <1>1
<1>4. /\ turns' \in Seq(TurnRow) /\ Len(turns') = Len(turns) + 1
      /\ \A t \in Ids : turns'[t] = rows[t]
      /\ turns'[Len(turns) + 1] = row
  BY <1>1, <1>2, <1>3, AppendProperties DEF Ids
<1>5. Ids' = Ids \cup {Len(turns) + 1}
  BY <1>1, <1>4 DEF Ids
<1>6. QED
  BY <1>4, <1>5

\* What a step that adds no turn leaves of every turn: its words, and the mark
\* that says that they may be known already.
SameTurns == /\ turns' \in Seq(TurnRow) /\ Len(turns') = Len(turns) /\ Ids' = Ids
             /\ \A t \in Ids : /\ turns'[t].says = turns[t].says
                               /\ turns[t].source # NoTurn => turns'[t].source # NoTurn

\* A call to BB that is awaited is the one that was recorded before it was made.
CallFits == awaiting /\ call.kind \in {"send", "spawn", "correction"} =>
                delivery.state = "intent" /\ delivery.kind = call.kind

\* The conversation is idle, or dispatches one turn, or waits for the answer to
\* one, and each table shows which.
Idle == /\ Active = {}
        /\ delivery = Settled /\ ~accepted /\ reservation = NoTurn
        /\ controller.token = NoTurn

\* The turn t is being dispatched: nothing of an answer exists yet, and what was
\* recorded of its call fits the thread that the call is for.
Dispatching(t) ==
    /\ Active = {t} /\ turns[t].state = "dispatching"
    /\ ~accepted /\ reservation = NoTurn
    /\ controller.token # NoTurn => controller.thread = NoTurn /\ controller.token = t
    /\ \/ delivery = Settled
       \/ delivery.state # "none" /\ delivery.kind = "send" /\ controller.thread # NoTurn
       \/ delivery.state # "none" /\ delivery.kind = "spawn" /\ controller.thread \in {NoTurn, t}

\* The turn t waits for its answer, on a live thread; a steer under way reserves
\* a turn that still waits, and nothing else is under way then.
Answering(t) ==
    /\ Active = {t} /\ turns[t].state = "submitted"
    /\ controller.token = NoTurn /\ controller.thread # NoTurn
    /\ reservation # NoTurn => reservation \in Queued /\ ~accepted /\ delivery = Settled
    /\ \/ delivery = Settled
       \/ delivery.state # "none" /\ delivery.kind = "correction"

\* One turn is served, or none.
Serving == CallFits /\ (Idle \/ \E t \in Ids : Dispatching(t) \/ Answering(t))

\* The turn that is active is the one served, in the shape of its state.
LEMMA ServedTurn ==
  ASSUME Serving, NEW t \in Active
  PROVE  /\ Active = {t} /\ t \in Ids
         /\ turns[t].state = "dispatching" => Dispatching(t)
         /\ turns[t].state = "submitted" => Answering(t)
         /\ turns[t].state \in {"dispatching", "submitted"}
BY DEF Serving, Idle, Dispatching, Answering, Active

\* A thread is retired only under a submitted turn, which has one.
LEMMA RetiresLiveThread ==
  ASSUME Serving, NEW t, BeginControllerRecovery(t) \/ (\E untouched \in BOOLEAN : FailAndRetire(t, untouched))
  PROVE  t \in Active /\ Answering(t) /\ reservation = NoTurn /\ controller.thread # NoTurn /\ ~accepted
<1>1. t \in Active /\ ~accepted
  BY DEF BeginControllerRecovery, FailAndRetire, Running, Unreconciled, Pending
<1>2. CASE Running(t)
  BY <1>1, <1>2, ServedTurn DEF Running, Answering
<1>3. CASE Unreconciled(t) /\ Submitted(t)
  <2>1. delivery.state # "none" /\ delivery # Settled
    BY <1>3 DEF Unreconciled, Pending, Settled
  <2>2. QED
    BY <1>1, <1>3, <2>1, ServedTurn DEF Submitted, Answering
<1>4. CASE awaiting /\ call.kind = "correction"
  <2>1. delivery.kind = "correction" /\ delivery # Settled
    BY <1>4 DEF Serving, CallFits, Settled
  <2>2. QED
    BY <1>1, <2>1, ServedTurn DEF Dispatching, Answering, Settled
<1>5. QED
  BY <1>2, <1>3, <1>4 DEF BeginControllerRecovery, FailAndRetire

\* A table that stays is a table of the same turns.
LEMMA UnchangedTurns ==
  ASSUME turns \in Seq(TurnRow), turns' = turns
  PROVE  SameTurns
BY DEF SameTurns, Ids

\* Rows that keep their words and marks are those of the same turns.
LEMMA RewrittenRows ==
  ASSUME turns \in Seq(TurnRow), turns' \in [Ids -> TurnRow],
         \A t \in Ids : /\ turns'[t].says = turns[t].says
                        /\ turns[t].source # NoTurn => turns'[t].source # NoTurn
  PROVE  SameTurns
BY RewrittenTurns DEF SameTurns

\* What the types say of the table and of the numbers of turns
LEMMA TurnsHaveRows ==
  ASSUME TurnsTypeOK
  PROVE  /\ turns \in Seq(TurnRow) /\ Len(turns) \in Nat /\ Ids = 1 .. Len(turns)
         /\ DOMAIN turns = Ids /\ Ids \subseteq TurnIds /\ NoTurn \notin Ids
         /\ \A t \in Ids : turns[t] \in TurnRow
         /\ MaxTurns \in Nat
<1>1. turns \in Seq(TurnRow) /\ Len(turns) <= MaxTurns
  BY DEF TurnsTypeOK, TurnRow
<1>2. Len(turns) \in Nat /\ DOMAIN turns = Ids /\ Ids = 1 .. Len(turns)
  BY <1>1, LenProperties DEF Ids
<1>3. \A t \in Ids : turns[t] \in TurnRow
  BY <1>1, <1>2, ElementOfSeq
<1>4. QED
  BY <1>1, <1>2, <1>3, TurnsAssumption DEF TurnIds, NoTurn

\* The rest of TurnsTypeOK, for the steps that leave the table alone
RestTypeOK ==
    /\ controller \in [thread : 0 .. MaxTurns, token : 0 .. MaxTurns]
    /\ delivery \in [state : {"none", "intent", "unknown"}, kind : DispatchKinds,
                     attempts : 0 .. MaxReconciliations - 1, taken : BOOLEAN]
    /\ fence \in {"current", "stale"}
    /\ accepted \in BOOLEAN
    /\ reservation \in 0 .. MaxTurns
    /\ threads \in [TurnIds -> [status : {"none", "idle", "active", "error"},
                                heard : SUBSET TurnIds]]
    /\ ended \subseteq TurnIds
    /\ call \in [kind : DispatchKinds \cup {"steer"}, thread : 0 .. MaxTurns,
                 words : SUBSET TurnIds, status : {"none", "open", "taken"}]
    /\ awaiting \in BOOLEAN
    /\ restarts \in 0 .. MaxRestarts

\* TurnsTypeOK speaks of the table and of the rest.
LEMMA TypeParts ==
  TurnsTypeOK <=> turns \in Seq(TurnRow) /\ Len(turns) <= MaxTurns /\ RestTypeOK
BY DEF TurnsTypeOK, TurnRow, RestTypeOK

\* A turn that is settled (Final) is a row in the final state.
LEMMA FinalRow ==
  ASSUME NEW row \in TurnRow, NEW state \in TurnStates
  PROVE  /\ Final(row, state) \in TurnRow
         /\ Final(row, state) = [row EXCEPT !.state = state, !.continuations = 0, !.steerText = {}, !.backoff = FALSE]
<1>1. 0 \in 0 .. 2 /\ {} \in SUBSET TurnIds /\ FALSE \in BOOLEAN
  OBVIOUS
<1>2. QED
  BY <1>1 DEF Final, TurnRow

\* The steps that leave the table of turns alone.
LEMMA QuietTypes ==
  ASSUME TurnsTypeOK, RestTypeOK', turns' = turns
  PROVE  TurnsTypeOK' /\ SameTurns
BY TypeParts, UnchangedTurns, TurnsHaveRows DEF TurnsTypeOK, RestTypeOK

\* A table rewritten row by row keeps the types.
LEMMA RowsTypes ==
  ASSUME TurnsTypeOK, RestTypeOK', turns' \in [Ids -> TurnRow],
         \A t \in Ids : /\ turns'[t].says = turns[t].says
                        /\ turns[t].source # NoTurn => turns'[t].source # NoTurn
  PROVE  TurnsTypeOK' /\ SameTurns
<1>1. SameTurns /\ Len(turns) <= MaxTurns
  BY RewrittenRows, TypeParts
<1>2. turns' \in Seq(TurnRow) /\ Len(turns') <= MaxTurns /\ RestTypeOK'
  BY <1>1 DEF SameTurns
<1>3. TurnsTypeOK'
  BY <1>2 DEF TurnsTypeOK, TurnRow, RestTypeOK
<1>4. QED
  BY <1>1, <1>3

\* Retiring and forgetting threads keeps the types of the threads.
LEMMA KeepThreadsTypes ==
  ASSUME RestTypeOK, NEW retired \in SUBSET TurnIds, KeepThreads(retired)
  PROVE  /\ threads' \in [TurnIds -> [status : {"none", "idle", "active", "error"},
                                heard : SUBSET TurnIds]]
         /\ ended' \subseteq TurnIds
<1>1. NoThread \in [status : {"none", "idle", "active", "error"}, heard : SUBSET TurnIds]
  BY DEF NoThread
<1>2. QED
  BY <1>1 DEF KeepThreads, RestTypeOK

\* A call that is no longer awaited keeps the types of the call.
LEMMA UnawaitedTypes ==
  ASSUME RestTypeOK, NEW refused, Unawaited(refused)
  PROVE  /\ call' \in [kind : DispatchKinds \cup {"steer"}, thread : 0 .. MaxTurns,
                 words : SUBSET TurnIds, status : {"none", "open", "taken"}]
         /\ awaiting' \in BOOLEAN
<1>1. NoCall \in [kind : DispatchKinds \cup {"steer"}, thread : 0 .. MaxTurns,
                 words : SUBSET TurnIds, status : {"none", "open", "taken"}]
  BY TurnsAssumption DEF NoCall, DispatchKinds, NoTurn
<1>2. QED
  BY <1>1 DEF Unawaited, RestTypeOK

\* Delivery columns that are cleared have their types.
LEMMA SettledTypes ==
  Settled \in [state : {"none", "intent", "unknown"}, kind : DispatchKinds,
               attempts : 0 .. MaxReconciliations - 1, taken : BOOLEAN]
BY TurnsAssumption DEF Settled, DispatchKinds

\* Delivery columns of a call that is recorded have their types.
LEMMA IntentTypes ==
  ASSUME NEW kind \in DispatchKinds
  PROVE  Intent(kind) \in [state : {"none", "intent", "unknown"}, kind : DispatchKinds,
               attempts : 0 .. MaxReconciliations - 1, taken : BOOLEAN]
BY SettledTypes DEF Intent

\* A call that is made has the types of a call.
LEMMA CallTypes ==
  ASSUME NEW kind \in DispatchKinds \cup {"steer"}, NEW thread \in 0 .. MaxTurns,
         NEW words \in SUBSET TurnIds, Call(kind, thread, words)
  PROVE  /\ call' \in [kind : DispatchKinds \cup {"steer"}, thread : 0 .. MaxTurns,
                 words : SUBSET TurnIds, status : {"none", "open", "taken"}]
         /\ awaiting' \in BOOLEAN
BY DEF Call

\* The words and the members of a burst are numbers of turns.
LEMMA WordsTypes ==
  ASSUME TurnsTypeOK, NEW t \in Ids
  PROVE  Words(t) \subseteq TurnIds /\ Burst(t) \subseteq Ids
BY TurnsHaveRows DEF Words, Burst, TurnRow

\* A settled turn keeps what it says, where it came from and who it followed.
LEMMA SettledRow ==
  ASSUME NEW row \in TurnRow, NEW state \in {"completed", "failed"}
  PROVE  /\ Final(row, state) \in TurnRow
         /\ Final(row, state).state = state
         /\ Final(row, state).says = row.says
         /\ Final(row, state).source = row.source
         /\ Final(row, state).leader = row.leader
         /\ Final(row, state).steerText = {}
<1>1. state \in TurnStates
  BY DEF TurnStates
<1>2. Final(row, state) \in TurnRow
  BY <1>1, FinalRow
<1>3. Final(row, state).state = state /\ Final(row, state).steerText = {}
  BY DEF Final, TurnRow
<1>4. /\ Final(row, state).says = row.says
      /\ Final(row, state).source = row.source
      /\ Final(row, state).leader = row.leader
  BY DEF Final, TurnRow
<1>5. QED
  BY <1>2, <1>3, <1>4

\* The leader of a row may be any turn or none.
LEMMA LedRow ==
  ASSUME NEW row \in TurnRow, NEW leader \in 0 .. MaxTurns
  PROVE  /\ [row EXCEPT !.leader = leader] \in TurnRow
         /\ [row EXCEPT !.leader = leader].leader = leader
         /\ [row EXCEPT !.leader = leader].says = row.says
         /\ [row EXCEPT !.leader = leader].source = row.source
         /\ [row EXCEPT !.leader = leader].state = row.state
         /\ [row EXCEPT !.leader = leader].steerText = row.steerText
BY DEF TurnRow

\* The steps of the loop that dispatch a turn, and the answers to their calls.
LEMMA DispatchTypes ==
  ASSUME TurnsTypeOK, NEW t \in TurnIds,
         \/ ClaimTurn(t) \/ (\E backoff \in BOOLEAN : RequeueTurn(t, backoff))
         \/ Dispatch(t) \/ CallReturns(t) \/ CallThrows(t) \/ MarkSubmitted(t)
         \/ ReconcileUnknownSend(t) \/ ReconciliationPending(t) \/ DeliveryUnresolved(t)
  PROVE  TurnsTypeOK' /\ SameTurns
<1>0. RestTypeOK /\ turns \in Seq(TurnRow) /\ Len(turns) <= MaxTurns /\ t \in 0 .. MaxTurns
  BY TypeParts DEF TurnIds
<1> USE <1>0, TurnsHaveRows, TurnsAssumption
<1>1. CASE ClaimTurn(t)
  <2>1. RestTypeOK'
    BY <1>1, KeepThreadsTypes DEF ClaimTurn, RestTypeOK, NoTurn
  <2>2. turns' \in [Ids -> TurnRow]
    <3>1. PICK M \in Followers(t) :
            turns' = [u \in Ids |->
              CASE u = t -> [turns[u] EXCEPT !.state = "dispatching", !.backoff = FALSE]
                [] u \in M -> [Final(turns[u], "completed") EXCEPT !.leader = t]
                [] OTHER -> turns[u]]
      BY <1>1 DEF ClaimTurn
    <3>2. \A u \in Ids : [turns[u] EXCEPT !.state = "dispatching", !.backoff = FALSE] \in TurnRow
      BY DEF TurnRow, TurnStates
    <3>3. \A u \in Ids : [Final(turns[u], "completed") EXCEPT !.leader = t] \in TurnRow
      BY SettledRow, LedRow
    <3>4. QED
      BY <3>1, <3>2, <3>3
  <2>3. \A u \in Ids : turns'[u].says = turns[u].says /\ turns'[u].source = turns[u].source
    <3>1. PICK M \in Followers(t) :
            turns' = [u \in Ids |->
              CASE u = t -> [turns[u] EXCEPT !.state = "dispatching", !.backoff = FALSE]
                [] u \in M -> [Final(turns[u], "completed") EXCEPT !.leader = t]
                [] OTHER -> turns[u]]
      BY <1>1 DEF ClaimTurn
    <3>2. QED
      BY <3>1 DEF Final, TurnRow
  <2>4. QED
    BY <2>1, <2>2, <2>3, RowsTypes
<1>2. CASE \E backoff \in BOOLEAN : RequeueTurn(t, backoff)
  <2>1. RestTypeOK'
    BY <1>2 DEF RequeueTurn, RestTypeOK, WithoutToken, bbVars, dispatchVars, NoTurn
  <2>2. t \in Ids
    BY <1>2 DEF RequeueTurn, Claimed, Pending, Active
  <2>3. PICK backoff \in BOOLEAN : turns' = [turns EXCEPT ![t].state = "queued", ![t].backoff = backoff]
    BY <1>2 DEF RequeueTurn
  <2>4. /\ turns' \in [Ids -> TurnRow]
        /\ \A u \in Ids : turns'[u].says = turns[u].says /\ turns'[u].source = turns[u].source
    BY <2>2, <2>3 DEF TurnRow, TurnStates
  <2>5. QED
    BY <2>1, <2>4, RowsTypes
<1>3. CASE Dispatch(t)
  <2>1. CASE SendTurn(t)
    <3>1. Words(t) \subseteq TurnIds
      BY <2>1, WordsTypes DEF SendTurn, Claimed, Pending, Active
    <3>2. RestTypeOK'
      BY <2>1, <3>1, CallTypes, IntentTypes DEF SendTurn, RestTypeOK, DispatchKinds
    <3>3. QED
      BY <2>1, <3>2, QuietTypes DEF SendTurn
  <2>2. CASE SpawnTurn(t)
    <3>1. Words(t) \subseteq TurnIds
      BY <2>2, WordsTypes DEF SpawnTurn, Claimed, Pending, Active
    <3>2. RestTypeOK'
      BY <2>2, <3>1, CallTypes, IntentTypes DEF SpawnTurn, RestTypeOK, DispatchKinds
    <3>3. QED
      BY <2>2, <3>2, QuietTypes DEF SpawnTurn
  <2>3. CASE AdoptThread(t)
    <3>1. RestTypeOK'
      BY <2>3, IntentTypes DEF AdoptThread, RestTypeOK, DispatchKinds, bbVars, NoTurn
    <3>2. QED
      BY <2>3, <3>1, QuietTypes DEF AdoptThread
  <2>4. QED
    BY <1>3, <2>1, <2>2, <2>3 DEF Dispatch
<1>4. CASE Submit(t) /\ t \in Ids /\ UNCHANGED <<ended, fence, accepted, reservation, threads, restarts>>
           /\ call' \in [kind : DispatchKinds \cup {"steer"}, thread : 0 .. MaxTurns,
                 words : SUBSET TurnIds, status : {"none", "open", "taken"}]
           /\ awaiting' \in BOOLEAN /\ UNCHANGED controller
  <2>1. RestTypeOK'
    BY <1>4, SettledTypes DEF Submit, RestTypeOK
  <2>2. /\ turns' \in [Ids -> TurnRow]
        /\ \A u \in Ids : turns'[u].says = turns[u].says /\ turns'[u].source = turns[u].source
    BY <1>4 DEF TurnRow, TurnStates, Submit
  <2>3. QED
    BY <2>1, <2>2, RowsTypes
<1>5. CASE CallReturns(t)
  <2>1. CASE call.kind = "spawn"
    <3>1. RestTypeOK'
      <4>1. /\ Unawaited(FALSE) /\ controller' = [thread |-> t, token |-> NoTurn]
            /\ UNCHANGED <<delivery, ended, fence, accepted, reservation, threads, restarts>>
        BY <1>5, <2>1 DEF CallReturns
      <4>2. controller' \in [thread : 0 .. MaxTurns, token : 0 .. MaxTurns]
        BY <4>1 DEF NoTurn
      <4>3. QED
        BY <4>1, <4>2, UnawaitedTypes DEF RestTypeOK
    <3>2. QED
      BY <1>5, <2>1, <3>1, QuietTypes DEF CallReturns
  <2>2. CASE call.kind # "spawn"
    BY <1>4, <1>5, <2>2, UnawaitedTypes DEF CallReturns, Active
  <2>3. QED
    BY <2>1, <2>2
<1>6. CASE CallThrows(t)
  <2>1. RestTypeOK'
    BY <1>6, UnawaitedTypes DEF CallThrows, RestTypeOK
  <2>2. QED
    BY <1>6, <2>1, QuietTypes DEF CallThrows
<1>7. CASE MarkSubmitted(t)
  BY <1>4, <1>7 DEF MarkSubmitted, Pending, Active, bbVars, RestTypeOK
<1>8. CASE ReconcileUnknownSend(t)
  BY <1>4, <1>8 DEF ReconcileUnknownSend, Pending, Active, bbVars, RestTypeOK
<1>9. CASE ReconciliationPending(t)
  <2>1. RestTypeOK'
    <3>1. /\ delivery' = [delivery EXCEPT !.attempts = delivery.attempts + 1]
          /\ delivery.attempts + 1 < MaxReconciliations
      <4>1. delivery.attempts \in 0 .. MaxReconciliations - 1
        BY DEF RestTypeOK
      <4>2. QED
        BY <1>9, <4>1 DEF ReconciliationPending, LastAttempt
    <3>2. delivery.attempts + 1 \in 0 .. MaxReconciliations - 1
      BY <3>1 DEF RestTypeOK
    <3>3. QED
      BY <1>9, <3>1, <3>2 DEF ReconciliationPending, RestTypeOK, bbVars
  <2>2. QED
    BY <1>9, <2>1, QuietTypes DEF ReconciliationPending
<1>10. CASE DeliveryUnresolved(t)
  <2>1. RestTypeOK'
    BY <1>10, SettledTypes, KeepThreadsTypes DEF DeliveryUnresolved, RestTypeOK, WithoutToken, NoTurn
  <2>2. t \in Ids
    BY <1>10 DEF DeliveryUnresolved, Unreconciled, Pending, Active
  <2>3. turns' = [turns EXCEPT ![t] = Final(turns[t], "failed")]
    BY <1>10 DEF DeliveryUnresolved
  <2>4. /\ turns' \in [Ids -> TurnRow]
        /\ \A u \in Ids : turns'[u].says = turns[u].says /\ turns'[u].source = turns[u].source
    BY <2>2, <2>3, SettledRow
  <2>5. QED
    BY <2>1, <2>4, RowsTypes
<1>11. QED
  BY <1>1, <1>2, <1>3, <1>5, <1>6, <1>7, <1>8, <1>9, <1>10

\* The answer, its recovery and the steers into it, while no turn is replaced.
LEMMA AnswerTypes ==
  ASSUME TurnsTypeOK, Serving, NEW t \in TurnIds,
         \/ AcceptFinalization(t) \/ CompleteAccepted(t) \/ RequestCompletionContinuation(t)
         \/ BeginControllerRecovery(t) \/ FailAndRetire(t, FALSE)
         \/ (\E w \in TurnIds : ReserveControllerSteer(t, w))
         \/ SteerApplied(t) \/ SteerUnknown(t)
         \/ RecoverStaleDispatch(t) \/ AdoptSubmittedFence(t)
  PROVE  TurnsTypeOK' /\ SameTurns
<1>0. RestTypeOK /\ turns \in Seq(TurnRow) /\ Len(turns) <= MaxTurns /\ t \in 0 .. MaxTurns
  BY TypeParts DEF TurnIds
<1> USE <1>0, TurnsHaveRows, TurnsAssumption
<1>t. {controller.thread} \subseteq 0 .. MaxTurns
  BY DEF RestTypeOK
<1>1. CASE AcceptFinalization(t)
  <2>1. RestTypeOK'
    BY <1>1 DEF AcceptFinalization, RestTypeOK, bbVars
  <2>2. QED
    BY <1>1, <2>1, QuietTypes DEF AcceptFinalization
<1>2. CASE CompleteAccepted(t)
  <2>1. RestTypeOK'
    BY <1>2, SettledTypes, KeepThreadsTypes DEF CompleteAccepted, RestTypeOK
  <2>2. t \in Ids /\ turns' = [turns EXCEPT ![t] = Final(turns[t], "completed")]
    BY <1>2 DEF CompleteAccepted, Submitted
  <2>3. /\ turns' \in [Ids -> TurnRow]
        /\ \A u \in Ids : turns'[u].says = turns[u].says /\ turns'[u].source = turns[u].source
    BY <2>2, SettledRow
  <2>4. QED
    BY <2>1, <2>3, RowsTypes
<1>3. CASE RequestCompletionContinuation(t)
  <2>1. RestTypeOK'
    BY <1>3, IntentTypes, CallTypes DEF RequestCompletionContinuation, RestTypeOK, DispatchKinds
  <2>2. t \in Ids /\ turns' = [turns EXCEPT ![t].continuations = 1]
    BY <1>3 DEF RequestCompletionContinuation, Running, Pending, Active
  <2>3. /\ turns' \in [Ids -> TurnRow]
        /\ \A u \in Ids : turns'[u].says = turns[u].says /\ turns'[u].source = turns[u].source
    <3>1. 1 \in 0 .. 2
      OBVIOUS
    <3>2. QED
      BY <2>2, <3>1 DEF TurnRow
  <2>4. QED
    BY <2>1, <2>3, RowsTypes
<1>r. ASSUME RetireThread, controller.thread # NoTurn
      PROVE  /\ controller' \in [thread : 0 .. MaxTurns, token : 0 .. MaxTurns]
             /\ threads' \in [TurnIds -> [status : {"none", "idle", "active", "error"},
                                heard : SUBSET TurnIds]]
             /\ ended' \subseteq TurnIds
  <2>1. controller' \in [thread : 0 .. MaxTurns, token : 0 .. MaxTurns]
    BY <1>r DEF RetireThread, NoTurn
  <2>2. \A u \in TurnIds : threads'[u] = threads[u] \/ threads'[u] = NoThread
    BY <1>r DEF RetireThread, KeepThreads
  <2>3. NoThread \in [status : {"none", "idle", "active", "error"}, heard : SUBSET TurnIds]
    BY DEF NoThread
  <2>4. threads' \in [TurnIds -> [status : {"none", "idle", "active", "error"}, heard : SUBSET TurnIds]]
    BY <1>r, <2>3 DEF RetireThread, KeepThreads, RestTypeOK
  <2>5. ended' \subseteq TurnIds
    <3>1. \A u \in ended' : u \in ended \cup {controller.thread}
      BY <1>r DEF RetireThread, KeepThreads
    <3>2. controller.thread \in TurnIds
      BY <1>r DEF RestTypeOK, TurnIds, NoTurn
    <3>3. QED
      BY <3>1, <3>2 DEF RestTypeOK
  <2>6. QED
    BY <2>1, <2>4, <2>5
<1>4. CASE BeginControllerRecovery(t)
  <2>1. RestTypeOK'
    <3>1. RetireThread /\ Unawaited(awaiting) /\ delivery' = Settled
          /\ UNCHANGED <<fence, accepted, reservation, restarts>>
      BY <1>4 DEF BeginControllerRecovery
    <3>2. QED
      BY <3>1, <1>4, <1>r, RetiresLiveThread, SettledTypes, UnawaitedTypes DEF RestTypeOK
  <2>2. t \in Ids /\ turns' = [turns EXCEPT ![t].state = "queued", ![t].continuations = 2]
    BY <1>4 DEF BeginControllerRecovery, Running, Unreconciled, Pending, Active
  <2>3. /\ turns' \in [Ids -> TurnRow]
        /\ \A u \in Ids : turns'[u].says = turns[u].says /\ turns'[u].source = turns[u].source
    <3>1. 2 \in 0 .. 2
      OBVIOUS
    <3>2. QED
      BY <2>2, <3>1 DEF TurnRow, TurnStates
  <2>4. QED
    BY <2>1, <2>3, RowsTypes
<1>5. CASE FailAndRetire(t, FALSE)
  <2>1. RestTypeOK'
    BY <1>5, <1>r, RetiresLiveThread DEF FailAndRetire, RestTypeOK, dispatchVars
  <2>2. t \in Ids /\ turns' = [turns EXCEPT ![t] = Final(turns[t], "failed")]
    BY <1>5 DEF FailAndRetire, Running, Pending, Active
  <2>3. /\ turns' \in [Ids -> TurnRow]
        /\ \A u \in Ids : turns'[u].says = turns[u].says /\ turns'[u].source = turns[u].source
    BY <2>2, SettledRow
  <2>4. QED
    BY <2>1, <2>3, RowsTypes
<1>6. ASSUME NEW w \in TurnIds, ReserveControllerSteer(t, w)
      PROVE  TurnsTypeOK' /\ SameTurns
  <2>0. t \in Ids /\ w \in Ids /\ w \in 0 .. MaxTurns
    BY <1>6 DEF ReserveControllerSteer, Running, Pending, Active, Queued, TurnIds
  <2>1. PICK M \in Followers(w) :
          LET text == IF M = {} THEN turns[t].steerText
                      ELSE {turns[u].says : u \in M \cup {w}}
          IN  /\ turns' = [u \in Ids |->
                    CASE u \in M -> [turns[u] EXCEPT !.leader = w]
                      [] u = t -> [turns[u] EXCEPT !.steerText = text]
                      [] OTHER -> turns[u]]
              /\ IF call = NoCall
                 THEN Call("steer", controller.thread,
                           IF text = {} THEN {turns[w].says} ELSE text)
                 ELSE UNCHANGED <<call, awaiting>>
    BY <1>6 DEF ReserveControllerSteer
  <2> DEFINE text == IF M = {} THEN turns[t].steerText
                      ELSE {turns[u].says : u \in M \cup {w}}
  <2>2. M \subseteq Ids
    BY DEF Followers, Queued
  <2>3. text \subseteq TurnIds
    BY <2>0, <2>2 DEF TurnRow
  <2>4. /\ call' \in [kind : DispatchKinds \cup {"steer"}, thread : 0 .. MaxTurns,
                 words : SUBSET TurnIds, status : {"none", "open", "taken"}]
        /\ awaiting' \in BOOLEAN
    <3>1. CASE call = NoCall
      <4>1. Call("steer", controller.thread, IF text = {} THEN {turns[w].says} ELSE text)
        BY <2>1, <3>1
      <4>2. (IF text = {} THEN {turns[w].says} ELSE text) \subseteq TurnIds
        BY <2>0, <2>3 DEF TurnRow
      <4>3. controller.thread \in 0 .. MaxTurns
        BY DEF RestTypeOK
      <4> HIDE DEF text
      <4>4. QED
        BY <4>1, <4>2, <4>3, CallTypes
    <3>2. CASE call # NoCall
      BY <2>1, <3>2 DEF RestTypeOK
    <3>3. QED
      BY <3>1, <3>2
  <2>5. RestTypeOK'
    BY <1>6, <2>0, <2>4 DEF ReserveControllerSteer, RestTypeOK
  <2>6. turns' = [u \in Ids |->
                    CASE u \in M -> [turns[u] EXCEPT !.leader = w]
                      [] u = t -> [turns[u] EXCEPT !.steerText = text]
                      [] OTHER -> turns[u]]
    BY <2>1
  <2>7. \A u \in Ids : /\ [turns[u] EXCEPT !.steerText = text] \in TurnRow
                       /\ [turns[u] EXCEPT !.steerText = text].says = turns[u].says
                       /\ [turns[u] EXCEPT !.steerText = text].source = turns[u].source
    <3> HIDE DEF text
    <3> QED
      BY <2>3 DEF TurnRow
  <2> HIDE DEF text
  <2>8. \A u \in Ids : /\ turns'[u] \in TurnRow
                       /\ turns'[u].says = turns[u].says
                       /\ turns'[u].source = turns[u].source
    BY <2>0, <2>6, <2>7, LedRow
  <2>9. turns' \in [Ids -> TurnRow]
    BY <2>6, <2>8
  <2>10. QED
    BY <2>5, <2>8, <2>9, RowsTypes
<1>7. CASE SteerApplied(t)
  <2>1. RestTypeOK'
    <3>1. /\ Unawaited(FALSE) /\ reservation' = NoTurn /\ KeepThreads({})
          /\ UNCHANGED <<controller, delivery, fence, accepted, restarts>>
      BY <1>7 DEF SteerApplied
    <3>2. reservation' \in 0 .. MaxTurns
      BY <3>1 DEF NoTurn
    <3>3. QED
      BY <3>1, <3>2, KeepThreadsTypes, UnawaitedTypes DEF RestTypeOK
  <2>2. turns' = [u \in Ids |->
          IF u \in Reserved
          THEN [Final(turns[u], "completed") EXCEPT !.leader = reservation, !.into = t]
          ELSE turns[u]]
    BY <1>7 DEF SteerApplied
  <2>3. \A u \in Ids : /\ [Final(turns[u], "completed") EXCEPT !.leader = reservation, !.into = t] \in TurnRow
                       /\ [Final(turns[u], "completed") EXCEPT !.leader = reservation, !.into = t].says = turns[u].says
                       /\ [Final(turns[u], "completed") EXCEPT !.leader = reservation, !.into = t].source = turns[u].source
    <3>1. reservation \in 0 .. MaxTurns
      BY DEF RestTypeOK
    <3>2. \A u \in Ids : Final(turns[u], "completed") \in TurnRow
      BY SettledRow
    <3>3. \A u \in Ids : Final(turns[u], "completed").says = turns[u].says
                          /\ Final(turns[u], "completed").source = turns[u].source
      BY SettledRow
    <3>4. ASSUME NEW u \in Ids, NEW f \in TurnRow
          PROVE  /\ [f EXCEPT !.leader = reservation, !.into = t] \in TurnRow
                 /\ [f EXCEPT !.leader = reservation, !.into = t].says = f.says
                 /\ [f EXCEPT !.leader = reservation, !.into = t].source = f.source
      BY <3>1 DEF TurnRow
    <3>5. QED
      BY <3>2, <3>3, <3>4
  <2>4. /\ turns' \in [Ids -> TurnRow]
        /\ \A u \in Ids : turns'[u].says = turns[u].says /\ turns'[u].source = turns[u].source
    BY <2>2, <2>3
  <2>5. QED
    BY <2>1, <2>4, RowsTypes
<1>8. CASE SteerUnknown(t)
  <2>1. RestTypeOK'
    <3>1. PICK refused \in BOOLEAN : Unawaited(refused /\ awaiting)
      BY <1>8 DEF SteerUnknown
    <3>2. /\ reservation' = NoTurn
          /\ UNCHANGED <<controller, ended, delivery, fence, accepted, threads, restarts>>
      BY <1>8 DEF SteerUnknown
    <3>3. reservation' \in 0 .. MaxTurns
      BY <3>2 DEF NoTurn
    <3>4. QED
      BY <3>1, <3>2, <3>3, UnawaitedTypes DEF RestTypeOK
  <2>2. turns' = [u \in Ids |->
          IF u \in Reserved
          THEN [turns[u] EXCEPT !.source = t, !.leader = NoTurn]
          ELSE turns[u]]
    BY <1>8 DEF SteerUnknown
  <2>3. /\ turns' \in [Ids -> TurnRow]
        /\ \A u \in Ids : /\ turns'[u].says = turns[u].says
                          /\ turns[u].source # NoTurn => turns'[u].source # NoTurn
    <3>1. \A u \in Ids : /\ [turns[u] EXCEPT !.source = t, !.leader = NoTurn] \in TurnRow
                         /\ [turns[u] EXCEPT !.source = t, !.leader = NoTurn].says = turns[u].says
                         /\ [turns[u] EXCEPT !.source = t, !.leader = NoTurn].source = t
      <4>1. NoTurn \in 0 .. MaxTurns
        BY DEF NoTurn
      <4>2. QED
        BY <4>1 DEF TurnRow
    <3>2. t # NoTurn
      BY DEF NoTurn, TurnIds
    <3>3. QED
      BY <2>2, <3>1, <3>2
  <2>4. QED
    BY <2>1, <2>3, RowsTypes
<1>9. CASE RecoverStaleDispatch(t)
  <2>1. RestTypeOK'
    BY <1>9 DEF RecoverStaleDispatch, RestTypeOK, WithoutToken, bbVars, NoTurn
  <2>2. t \in Ids
    BY <1>9 DEF RecoverStaleDispatch, Active
  <2>3. /\ turns' \in [Ids -> TurnRow]
        /\ \A u \in Ids : turns'[u].says = turns[u].says /\ turns'[u].source = turns[u].source
    <3>1. turns' = turns \/ turns' = [turns EXCEPT ![t].state = "queued"]
      BY <1>9 DEF RecoverStaleDispatch
    <3>2. turns \in [Ids -> TurnRow]
      OBVIOUS
    <3>3. \A u \in Ids : /\ [turns[u] EXCEPT !.state = "queued"] \in TurnRow
                         /\ [turns[u] EXCEPT !.state = "queued"].says = turns[u].says
                         /\ [turns[u] EXCEPT !.state = "queued"].source = turns[u].source
      BY DEF TurnRow, TurnStates
    <3>4. QED
      BY <2>2, <3>1, <3>2, <3>3
  <2>4. QED
    BY <2>1, <2>3, RowsTypes
<1>10. CASE AdoptSubmittedFence(t)
  <2>1. RestTypeOK'
    BY <1>10 DEF AdoptSubmittedFence, RestTypeOK, bbVars
  <2>2. QED
    BY <1>10, <2>1, QuietTypes DEF AdoptSubmittedFence
<1>11. QED
  BY <1>1, <1>2, <1>3, <1>4, <1>5, <1>6, <1>7, <1>8, <1>9, <1>10

\* BB, the process and the thread that breaks: the table stays as it is.
LEMMA EnvironmentTypes ==
  ASSUME TurnsTypeOK,
         \/ ResetControllerThread \/ CallLands \/ CallDrops \/ Restart
         \/ (\E t \in TurnIds : \E status \in {"idle", "error"} : ThreadStops(t, status))
         \/ UNCHANGED turnVars
  PROVE  TurnsTypeOK' /\ turns' = turns
<1>0. RestTypeOK /\ turns \in Seq(TurnRow) /\ Len(turns) <= MaxTurns
  BY TypeParts
<1> USE <1>0, TurnsHaveRows, TurnsAssumption
<1> SUFFICES RestTypeOK' /\ turns' = turns
  BY QuietTypes
<1>1. CASE ResetControllerThread
  <2>1. {controller.thread} \subseteq TurnIds
    BY <1>1 DEF ResetControllerThread, RestTypeOK, TurnIds, NoTurn
  <2>2. KeepThreads({controller.thread}) /\ turns' = turns /\ UNCHANGED <<dispatchVars, call, awaiting, restarts>>
    BY <1>1 DEF ResetControllerThread
  <2>3. controller' \in [thread : 0 .. MaxTurns, token : 0 .. MaxTurns]
    BY <1>1 DEF ResetControllerThread, Active, NoTurn
  <2>4. QED
    BY <2>1, <2>2, <2>3, KeepThreadsTypes DEF RestTypeOK, dispatchVars
<1>2. CASE CallLands
  <2>1. threads' \in [TurnIds -> [status : {"none", "idle", "active", "error"},
                                heard : SUBSET TurnIds]]
    BY <1>2 DEF CallLands, RestTypeOK
  <2>2. delivery' \in [state : {"none", "intent", "unknown"}, kind : DispatchKinds,
                     attempts : 0 .. MaxReconciliations - 1, taken : BOOLEAN]
    BY <1>2 DEF CallLands, RestTypeOK
  <2>3. call' \in [kind : DispatchKinds \cup {"steer"}, thread : 0 .. MaxTurns,
                 words : SUBSET TurnIds, status : {"none", "open", "taken"}]
    <3>1. NoCall \in [kind : DispatchKinds \cup {"steer"}, thread : 0 .. MaxTurns,
                 words : SUBSET TurnIds, status : {"none", "open", "taken"}]
      BY DEF NoCall, DispatchKinds, NoTurn
    <3>2. QED
      BY <1>2, <3>1 DEF CallLands, RestTypeOK
  <2>4. /\ ended' \subseteq ended
        /\ UNCHANGED <<turns, controller, fence, accepted, reservation, awaiting, restarts>>
    BY <1>2 DEF CallLands
  <2>5. QED
    BY <2>1, <2>2, <2>3, <2>4 DEF RestTypeOK
<1>3. CASE CallDrops
  <2>1. NoCall \in [kind : DispatchKinds \cup {"steer"}, thread : 0 .. MaxTurns,
                 words : SUBSET TurnIds, status : {"none", "open", "taken"}]
    BY DEF NoCall, DispatchKinds, NoTurn
  <2>2. QED
    BY <1>3, <2>1 DEF CallDrops, RestTypeOK, dispatchVars
<1>4. CASE Restart
  <2>1. /\ Unawaited(FALSE) /\ restarts' = restarts + 1 /\ restarts < MaxRestarts /\ fence' = "stale"
        /\ UNCHANGED <<turns, controller, ended, delivery, accepted, reservation, threads>>
    BY <1>4 DEF Restart
  <2>2. restarts' \in 0 .. MaxRestarts
    BY <2>1 DEF RestTypeOK
  <2>3. QED
    BY <2>1, <2>2, UnawaitedTypes DEF RestTypeOK
<1>5. ASSUME NEW t \in TurnIds, NEW status \in {"idle", "error"}, ThreadStops(t, status)
      PROVE  RestTypeOK' /\ turns' = turns
  BY <1>5 DEF ThreadStops, RestTypeOK, dispatchVars
<1>6. CASE UNCHANGED turnVars
  BY <1>6 DEF turnVars, dispatchVars, bbVars, RestTypeOK
<1>7. QED
  BY <1>1, <1>2, <1>3, <1>4, <1>5, <1>6

-----------------------------------------------------------------------------
\* There is room for the replacement of every message that was sent.
RoomInv == /\ Cardinality(Messages) <= MaxMessages
           /\ Len(turns) + MaxMessages - Cardinality(Messages) <= MaxTurns
\* A turn says its own message, or an earlier one and is marked.
SaysInv == \A t \in Ids : /\ turns[t].says \in 1 .. t
                          /\ turns[t].says # t => turns[t].source # NoTurn
\* The types, with the room for replacements and what turns say
TypesInv == TurnsTypeOK /\ RoomInv /\ SaysInv

\* The messages that were sent can be counted.
LEMMA MessagesAreFinite ==
  ASSUME TurnsTypeOK
  PROVE  IsFiniteSet(Messages) /\ Cardinality(Messages) \in Nat
<1>1. IsFiniteSet(Ids)
  BY TurnsHaveRows, FS_Interval
<1>2. IsFiniteSet(Messages)
  BY <1>1, FS_Subset DEF Messages
<1>3. QED
  BY <1>2, FS_CardinalityType

\* Steps that leave the turns what they are leave the room and the words.
LEMMA SameTurnsRoom ==
  ASSUME TypesInv, SameTurns, TurnsTypeOK'
  PROVE  TypesInv'
<1>1. Messages' = Messages
  BY DEF SameTurns, Messages
<1>2. SaysInv'
  BY DEF SameTurns, SaysInv, TypesInv
<1>3. QED
  BY <1>1, <1>2 DEF TypesInv, RoomInv, SameTurns

\* A turn more: the table grows by a row that says its own message, or one
\* that is marked for having been said before.
Appended(row) ==
    /\ turns' \in Seq(TurnRow) /\ Len(turns') = Len(turns) + 1
    /\ Ids' = Ids \cup {Len(turns) + 1}
    /\ \A t \in Ids : /\ turns'[t].says = turns[t].says
                      /\ turns[t].source # NoTurn => turns'[t].source # NoTurn
    /\ turns'[Len(turns) + 1] = row

\* What a turn is when it is enqueued
LEMMA NewTurnRow ==
  ASSUME TurnsTypeOK, NEW says \in TurnIds, NEW source \in 0 .. MaxTurns
  PROVE  /\ NewTurn(says, source) \in TurnRow
         /\ NewTurn(says, source).says = says /\ NewTurn(says, source).source = source
         /\ NewTurn(says, source).leader = NoTurn /\ NewTurn(says, source).state = "queued"
         /\ NewTurn(says, source).steerText = {}
BY TurnsAssumption DEF NewTurn, TurnRow, TurnStates, NoTurn

\* A message more keeps the types and appends its turn.
LEMMA EnqueueTypes ==
  ASSUME TypesInv, EnqueueControllerTurn
  PROVE  TypesInv' /\ Appended(NewTurn(Len(turns) + 1, NoTurn))
                   /\ \A t \in Ids : turns'[t] = turns[t]
<1>0. TurnsTypeOK /\ RestTypeOK /\ turns \in Seq(TurnRow) /\ Len(turns) \in Nat
  BY TypeParts, TurnsHaveRows DEF TypesInv
<1>1. Cardinality(Messages) < MaxMessages /\ Cardinality(Messages) \in Nat /\ IsFiniteSet(Messages)
  BY <1>0, MessagesAreFinite DEF EnqueueControllerTurn
<1>2. Len(turns) + 1 <= MaxTurns /\ Len(turns) + 1 \in TurnIds
  BY <1>0, <1>1, TurnsAssumption DEF TypesInv, RoomInv, TurnIds
<1> DEFINE row == NewTurn(Len(turns) + 1, NoTurn)
<1>3. row \in TurnRow /\ row.says = Len(turns) + 1
  BY <1>0, <1>2, NewTurnRow, TurnsAssumption DEF NoTurn
<1>4. turns \in [Ids -> TurnRow] /\ turns' = Append(turns, row)
  BY <1>0, TurnsHaveRows DEF EnqueueControllerTurn
<1> HIDE DEF row
<1>5. /\ turns' \in Seq(TurnRow) /\ Len(turns') = Len(turns) + 1
      /\ \A t \in Ids : turns'[t] = turns[t]
      /\ turns'[Len(turns) + 1] = row
      /\ Ids' = Ids \cup {Len(turns) + 1}
  BY <1>0, <1>3, <1>4, AppendedTurns
<1>6. Appended(row)
  BY <1>5 DEF Appended
<1>7. RestTypeOK'
  BY <1>0 DEF EnqueueControllerTurn, RestTypeOK, dispatchVars, bbVars
<1>8. TurnsTypeOK'
  BY <1>2, <1>5, <1>7 DEF TurnsTypeOK, TurnRow, RestTypeOK
<1>9. Messages' = Messages \cup {Len(turns) + 1} /\ Len(turns) + 1 \notin Messages
  BY <1>0, <1>3, <1>5, TurnsHaveRows DEF Messages
<1>10. Cardinality(Messages') = Cardinality(Messages) + 1
  BY <1>1, <1>9, FS_AddElement
<1>11. RoomInv'
  BY <1>0, <1>1, <1>5, <1>10, TurnsAssumption DEF RoomInv, TypesInv
<1>12. SaysInv'
  BY <1>0, <1>3, <1>5 DEF SaysInv, TypesInv
<1>13. QED
  BY <1>5, <1>6, <1>8, <1>11, <1>12 DEF TypesInv, row

\* The row that a replaced turn leaves to each turn of the table
LeftRow(t, u) ==
    IF u = t THEN Final(turns[u], "failed")
    ELSE IF turns[u].leader = t /\ turns[u].state = "completed"
    THEN [turns[u] EXCEPT !.leader = Len(turns) + 1]
    ELSE turns[u]

\* A replaced turn keeps the types, and a marked turn that says the same is appended.
LEMMA ReplaceTypes ==
  ASSUME TypesInv, Serving, NEW t \in TurnIds, FailAndRetire(t, TRUE)
  PROVE  TypesInv' /\ Appended(NewTurn(turns[t].says, t))
                   /\ \A u \in Ids : turns'[u] = LeftRow(t, u)
<1>0. /\ TurnsTypeOK /\ RestTypeOK /\ turns \in Seq(TurnRow) /\ Len(turns) \in Nat
      /\ t \in Ids /\ t \in 0 .. MaxTurns /\ controller.thread # NoTurn
  <2>1. TurnsTypeOK
    BY DEF TypesInv
  <2>2. t \in Active /\ controller.thread # NoTurn
    BY RetiresLiveThread
  <2>3. QED
    BY <2>1, <2>2, TypeParts, TurnsHaveRows DEF Active, TurnIds
<1>1. Cardinality(Messages) <= MaxMessages /\ Cardinality(Messages) \in Nat /\ IsFiniteSet(Messages)
  BY <1>0, MessagesAreFinite DEF TypesInv, RoomInv
<1>2. /\ Len(turns) + MaxMessages - Cardinality(Messages) < MaxTurns
      /\ turns' = Replaced(t) /\ RetireThread
      /\ UNCHANGED <<dispatchVars, call, awaiting, restarts>>
  BY DEF FailAndRetire, RoomForReplacement
<1>3. Len(turns) + 1 <= MaxTurns /\ Len(turns) + 1 \in 0 .. MaxTurns
  BY <1>0, <1>1, <1>2, TurnsAssumption
<1>4. turns[t].says \in TurnIds /\ turns[t].says \in 1 .. t
  BY <1>0, TurnsHaveRows DEF SaysInv, TypesInv, TurnRow
<1> DEFINE row == NewTurn(turns[t].says, t)
           rows == [u \in Ids |-> LeftRow(t, u)]
<1>5. row \in TurnRow /\ row.says = turns[t].says /\ row.source = t
  BY <1>0, <1>4, NewTurnRow
<1>6. ASSUME NEW u \in Ids
      PROVE  /\ LeftRow(t, u) \in TurnRow
             /\ LeftRow(t, u).says = turns[u].says
             /\ LeftRow(t, u).source = turns[u].source
  BY <1>0, <1>3, TurnsHaveRows, SettledRow, LedRow DEF LeftRow
<1>7. rows \in [Ids -> TurnRow] /\ turns' = Append(rows, row)
  BY <1>2, <1>6 DEF Replaced, LeftRow
<1>8. \A u \in Ids : rows[u] = LeftRow(t, u)
  OBVIOUS
<1> HIDE DEF row, rows
<1>9. /\ turns' \in Seq(TurnRow) /\ Len(turns') = Len(turns) + 1
      /\ \A u \in Ids : turns'[u] = LeftRow(t, u)
      /\ turns'[Len(turns) + 1] = row
      /\ Ids' = Ids \cup {Len(turns) + 1}
  BY <1>0, <1>5, <1>7, <1>8, AppendedTurns
<1>10. Appended(row)
  BY <1>6, <1>9 DEF Appended
<1>11. RestTypeOK'
  <2>1. controller' \in [thread : 0 .. MaxTurns, token : 0 .. MaxTurns]
    BY <1>2, TurnsAssumption DEF RetireThread, NoTurn
  <2>2. {controller.thread} \subseteq TurnIds
    BY <1>0 DEF RestTypeOK, TurnIds, NoTurn
  <2>3. KeepThreads({controller.thread})
    BY <1>2 DEF RetireThread
  <2>4. QED
    BY <1>0, <1>2, <2>1, <2>2, <2>3, KeepThreadsTypes DEF RestTypeOK, dispatchVars
<1>12. TurnsTypeOK'
  BY <1>3, <1>9, <1>11 DEF TurnsTypeOK, TurnRow, RestTypeOK
<1>13. Messages' = Messages
  <2>1. row.says # Len(turns) + 1
    BY <1>0, <1>4, <1>5, TurnsHaveRows
  <2>2. \A u \in Ids : turns'[u].says = turns[u].says
    BY <1>6, <1>9
  <2>3. Len(turns) + 1 \notin Ids
    BY <1>0, TurnsHaveRows
  <2>4. QED
    BY <1>9, <2>1, <2>2, <2>3 DEF Messages
<1>14. RoomInv'
  BY <1>0, <1>1, <1>2, <1>9, <1>13, TurnsAssumption DEF RoomInv
<1>15. SaysInv'
  <2>1. \A u \in Ids : turns'[u].says \in 1 .. u /\ (turns'[u].says # u => turns'[u].source # NoTurn)
    BY <1>6, <1>9 DEF SaysInv, TypesInv
  <2>2. row.says \in 1 .. Len(turns) + 1 /\ row.source # NoTurn
    BY <1>0, <1>4, <1>5, TurnsHaveRows
  <2>3. QED
    BY <1>9, <2>1, <2>2 DEF SaysInv
<1>16. QED
  BY <1>9, <1>10, <1>12, <1>14, <1>15 DEF TypesInv, row

\* What a step leaves of the words: it adds no turn, or a new or replaced one.
TurnsKept == \/ SameTurns
             \/ EnqueueControllerTurn /\ Appended(NewTurn(Len(turns) + 1, NoTurn)) /\ \A t \in Ids : turns'[t] = turns[t]
             \/ \E t \in TurnIds : /\ FailAndRetire(t, TRUE)
                                   /\ Appended(NewTurn(turns[t].says, t))
                                   /\ \A u \in Ids : turns'[u] = LeftRow(t, u)

\* Every step of the conversation keeps the types and the turns.
LEMMA TypesStep ==
  ASSUME TypesInv, Serving, [TurnsNext]_turnVars
  PROVE  TypesInv' /\ TurnsKept
<1>0. TurnsTypeOK
  BY DEF TypesInv
<1>1. CASE EnqueueControllerTurn
  BY <1>1, EnqueueTypes DEF TurnsKept
<1>2. ASSUME NEW t \in TurnIds, FailAndRetire(t, TRUE)
      PROVE  TypesInv' /\ TurnsKept
  BY <1>2, ReplaceTypes DEF TurnsKept
<1>3. ASSUME TurnsTypeOK' /\ SameTurns
      PROVE  TypesInv' /\ TurnsKept
  BY <1>3, SameTurnsRoom DEF TurnsKept
<1>4. ASSUME TurnsTypeOK' /\ turns' = turns
      PROVE  TypesInv' /\ TurnsKept
  BY <1>0, <1>3, <1>4, UnchangedTurns, TypeParts
<1>5. ASSUME NEW t \in TurnIds,
             \/ ClaimTurn(t) \/ (\E backoff \in BOOLEAN : RequeueTurn(t, backoff))
             \/ Dispatch(t) \/ CallReturns(t) \/ CallThrows(t) \/ MarkSubmitted(t)
             \/ ReconcileUnknownSend(t) \/ ReconciliationPending(t) \/ DeliveryUnresolved(t)
      PROVE  TypesInv' /\ TurnsKept
  BY <1>0, <1>3, <1>5, DispatchTypes
<1>6. ASSUME NEW t \in TurnIds,
             \/ AcceptFinalization(t) \/ CompleteAccepted(t) \/ RequestCompletionContinuation(t)
             \/ BeginControllerRecovery(t) \/ FailAndRetire(t, FALSE)
             \/ (\E w \in TurnIds : ReserveControllerSteer(t, w))
             \/ SteerApplied(t) \/ SteerUnknown(t)
             \/ RecoverStaleDispatch(t) \/ AdoptSubmittedFence(t)
      PROVE  TypesInv' /\ TurnsKept
  BY <1>0, <1>3, <1>6, AnswerTypes
<1>7. CASE \/ ResetControllerThread \/ CallLands \/ CallDrops \/ Restart
           \/ (\E t \in TurnIds : \E status \in {"idle", "error"} : ThreadStops(t, status))
           \/ UNCHANGED turnVars
  BY <1>0, <1>4, <1>7, EnvironmentTypes
<1>8. QED
  <2>1. CASE UNCHANGED turnVars
    BY <1>7, <2>1
  <2>2. ASSUME NEW t \in TurnIds, LoopStep(t)
        PROVE  TypesInv' /\ TurnsKept
    BY <1>2, <1>5, <1>6, <2>2 DEF LoopStep
  <2>3. CASE TurnsNext
    BY <1>1, <1>5, <1>6, <1>7, <2>2, <2>3 DEF TurnsNext
  <2>4. QED
    BY <2>1, <2>3

-----------------------------------------------------------------------------
\* Dispatching a turn keeps the tables in agreement.
LEMMA ServingDispatch ==
  ASSUME TypesInv, TypesInv', Serving, NEW t \in TurnIds,
         \/ ClaimTurn(t) \/ (\E backoff \in BOOLEAN : RequeueTurn(t, backoff))
         \/ Dispatch(t) \/ CallReturns(t) \/ CallThrows(t) \/ MarkSubmitted(t)
         \/ ReconcileUnknownSend(t) \/ ReconciliationPending(t) \/ DeliveryUnresolved(t)
  PROVE  Serving'
<1>0. /\ TurnsTypeOK /\ RestTypeOK /\ t # NoTurn /\ NoTurn \notin Ids /\ turns \in [Ids -> TurnRow]
      /\ \A u \in Ids : turns[u] \in TurnRow
  <2>1. TurnsTypeOK
    BY DEF TypesInv
  <2>2. QED
    BY <2>1, TypeParts, TurnsHaveRows DEF TurnIds, NoTurn
<1> USE <1>0
<1>s. Settled.state = "none" /\ Settled.kind = "none" /\ \A kind \in DispatchKinds : Intent(kind).state = "intent" /\ Intent(kind).kind = kind
  BY DEF Settled, Intent
<1>1. CASE ClaimTurn(t)
  <2>1. /\ Active = {} /\ t \in Ids /\ Free /\ UNCHANGED <<delivery, accepted, reservation, call, awaiting>>
        /\ controller' = IF controller.thread = NoTurn /\ controller.token = NoTurn
                         THEN [controller EXCEPT !.token = t] ELSE controller
    BY <1>1 DEF ClaimTurn, Queued
  <2>2. PICK M \in Followers(t) :
            turns' = [u \in Ids |->
              CASE u = t -> [turns[u] EXCEPT !.state = "dispatching", !.backoff = FALSE]
                [] u \in M -> [Final(turns[u], "completed") EXCEPT !.leader = t]
                [] OTHER -> turns[u]]
    BY <1>1 DEF ClaimTurn
  <2>3. /\ Ids' = Ids /\ turns'[t].state = "dispatching"
        /\ \A u \in Ids \ {t} : turns'[u].state \in {turns[u].state, "completed"}
    <3>1. Ids' = Ids
      <4>1. turns' \in Seq(TurnRow)
        BY TypeParts DEF TypesInv, TurnsTypeOK, TurnRow
      <4>2. DOMAIN turns' = Ids'
        BY <4>1, LenProperties DEF Ids
      <4>3. QED
        BY <2>2, <4>2
    <3>2. \A u \in Ids : /\ [turns[u] EXCEPT !.state = "dispatching", !.backoff = FALSE].state = "dispatching"
                         /\ [Final(turns[u], "completed") EXCEPT !.leader = t].state = "completed"
      BY DEF TurnRow, Final
    <3>3. turns'[t].state = "dispatching"
      <4>1. t \notin M
        BY DEF Followers, TurnIds
      <4>2. turns'[t] = [turns[t] EXCEPT !.state = "dispatching", !.backoff = FALSE]
        BY <2>1, <2>2, <4>1
      <4>3. QED
        BY <2>1, <3>2, <4>2
    <3>4. ASSUME NEW u \in Ids \ {t}
          PROVE  turns'[u].state \in {turns[u].state, "completed"}
      <4>1. u \in M => turns'[u] = [Final(turns[u], "completed") EXCEPT !.leader = t]
        BY <2>2
      <4>2. u \notin M => turns'[u] = turns[u]
        BY <2>2
      <4>3. QED
        BY <4>1, <4>2, <3>2
    <3>5. QED
      BY <3>1, <3>3, <3>4
  <2>4. Active' = {t}
    BY <2>1, <2>3 DEF Active
  <2>5. Idle
    BY <2>1 DEF Serving, Dispatching, Answering
  <2>6. Dispatching(t)'
    BY <2>1, <2>3, <2>4, <2>5 DEF Idle, Dispatching, RestTypeOK
  <2>7. CallFits'
    BY <2>1 DEF CallFits, Free
  <2>8. QED
    BY <2>1, <2>3, <2>6, <2>7 DEF Serving
<1>2. CASE \E backoff \in BOOLEAN : RequeueTurn(t, backoff)
  <2>1. /\ Claimed(t) /\ t \in Active /\ controller' = WithoutToken(t)
        /\ UNCHANGED <<ended, dispatchVars, bbVars, restarts>>
    BY <1>2 DEF RequeueTurn, Claimed, Pending
  <2>2. PICK backoff \in BOOLEAN : turns' = [turns EXCEPT ![t].state = "queued", ![t].backoff = backoff]
    BY <1>2 DEF RequeueTurn
  <2>3. Dispatching(t) /\ t \in Ids /\ delivery = Settled
    <3>1. delivery.state = "none" /\ turns[t].state = "dispatching"
      BY <2>1 DEF Claimed, Pending
    <3>2. Dispatching(t) /\ t \in Ids
      BY <2>1, <3>1, ServedTurn
    <3>3. QED
      BY <3>1, <3>2 DEF Dispatching
  <2>4. Ids' = Ids /\ turns'[t].state = "queued" /\ \A u \in Ids \ {t} : turns'[u].state = turns[u].state
    <3>1. SameTurns
      BY <1>2, DispatchTypes
    <3>2. QED
      BY <2>2, <2>3, <3>1 DEF SameTurns, TurnRow
  <2>5. Active' = {}
    BY <2>3, <2>4 DEF Active, Dispatching
  <2>6. Idle'
    BY <2>1, <2>3, <2>5 DEF Idle, Dispatching, dispatchVars, WithoutToken, RestTypeOK
  <2>7. CallFits'
    BY <2>1 DEF CallFits, Claimed, Free, bbVars
  <2>8. QED
    BY <2>6, <2>7 DEF Serving
\* The rows stay as they are, and the same turn is dispatched.
<1>3. ASSUME turns' = turns, Dispatching(t)', CallFits', t \in Active
      PROVE  Serving'
  BY <1>3 DEF Serving, Ids, Active
<1>4. ASSUME turns' = turns, t \in Active
      PROVE  Active' = Active
  BY <1>4 DEF Active, Ids
<1>5. CASE Dispatch(t)
  <2>1. CASE SendTurn(t)
    <3>1. /\ t \in Active /\ turns[t].state = "dispatching" /\ controller.thread # NoTurn
          /\ delivery' = Intent("send") /\ turns' = turns
          /\ call'.kind = "send" /\ UNCHANGED <<controller, accepted, reservation>>
      BY <2>1 DEF SendTurn, Claimed, Pending, Call
    <3>2. Dispatching(t)
      BY <3>1, ServedTurn
    <3>3. delivery'.state = "intent" /\ delivery'.kind = "send"
      BY <3>1, <1>s DEF DispatchKinds
    <3>4. Dispatching(t)' /\ CallFits'
      BY <1>4, <3>1, <3>2, <3>3 DEF Dispatching, CallFits
    <3>5. QED
      BY <1>3, <3>1, <3>4
  <2>2. CASE SpawnTurn(t)
    <3>1. /\ t \in Active /\ turns[t].state = "dispatching" /\ controller.thread = NoTurn
          /\ delivery' = Intent("spawn") /\ turns' = turns
          /\ call'.kind = "spawn" /\ UNCHANGED <<controller, accepted, reservation>>
      BY <2>2 DEF SpawnTurn, Claimed, Pending, Call, MaySpawn
    <3>2. Dispatching(t)
      BY <3>1, ServedTurn
    <3>3. delivery'.state = "intent" /\ delivery'.kind = "spawn"
      BY <3>1, <1>s DEF DispatchKinds
    <3>4. Dispatching(t)' /\ CallFits'
      BY <1>4, <3>1, <3>2, <3>3 DEF Dispatching, CallFits
    <3>5. QED
      BY <1>3, <3>1, <3>4
  <2>3. CASE AdoptThread(t)
    <3>1. /\ t \in Active /\ turns[t].state = "dispatching" /\ ~awaiting
          /\ delivery' = IF delivery.state = "none" THEN Intent("spawn") ELSE delivery
          /\ delivery.state = "none" \/ delivery.kind = "spawn"
          /\ controller' = [thread |-> t, token |-> NoTurn]
          /\ UNCHANGED <<turns, accepted, reservation, awaiting>>
      BY <2>3 DEF AdoptThread, Pending, Free, bbVars
    <3>2. Dispatching(t)
      BY <3>1, ServedTurn
    <3>3. delivery'.state # "none" /\ delivery'.kind = "spawn"
      BY <3>1, <1>s DEF DispatchKinds
    <3>4. Dispatching(t)' /\ CallFits'
      BY <1>4, <3>1, <3>2, <3>3 DEF Dispatching, CallFits
    <3>5. QED
      BY <1>3, <3>1, <3>4
  <2>4. QED
    BY <1>5, <2>1, <2>2, <2>3 DEF Dispatch
<1>6. ASSUME Submit(t), t \in Active, controller' = controller, controller.thread # NoTurn, ~awaiting',
             UNCHANGED <<accepted, reservation>>, controller.token = NoTurn, reservation = NoTurn, SameTurns
      PROVE  Serving'
  <2>1. Active = {t} /\ t \in Ids
    BY <1>6, ServedTurn
  <2>2. Ids' = Ids /\ turns'[t].state = "submitted" /\ \A u \in Ids \ {t} : turns'[u].state = turns[u].state
    BY <1>6, <2>1 DEF SameTurns, TurnRow, Submit
  <2>3. Active' = {t}
    BY <2>1, <2>2 DEF Active
  <2>4. Answering(t)'
    BY <1>6, <2>2, <2>3 DEF Answering, Submit
  <2>5. QED
    BY <1>6, <2>1, <2>2, <2>4 DEF Serving, CallFits
<1>7. CASE CallReturns(t)
  <2>1. t \in Active /\ Answered({"send", "spawn", "correction"}) /\ Unawaited(FALSE) /\ SameTurns
        /\ UNCHANGED <<accepted, reservation>>
    BY <1>7, DispatchTypes DEF CallReturns
  <2>2. delivery.state = "intent" /\ delivery.kind = call.kind /\ delivery # Settled /\ ~awaiting'
    BY <2>1, <1>s DEF Answered, Serving, CallFits, Unawaited
  <2>3. CASE call.kind = "spawn"
    <3>1. controller' = [thread |-> t, token |-> NoTurn] /\ turns' = turns /\ delivery' = delivery
      BY <1>7, <2>3 DEF CallReturns
    <3>2. Dispatching(t)
      BY <2>1, <2>2, <2>3, ServedTurn DEF Answering
    <3>3. Dispatching(t)' /\ CallFits'
      BY <1>4, <2>1, <2>2, <2>3, <3>1, <3>2 DEF Dispatching, CallFits
    <3>4. QED
      BY <1>3, <2>1, <3>1, <3>3
  <2>4. CASE call.kind # "spawn"
    <3>1. Submit(t) /\ controller' = controller
      BY <1>7, <2>4 DEF CallReturns
    <3>2. controller.thread # NoTurn /\ controller.token = NoTurn /\ reservation = NoTurn
      BY <2>1, <2>2, <2>4, ServedTurn DEF Answering, Dispatching
    <3>3. QED
      BY <1>6, <2>1, <2>2, <3>1, <3>2
  <2>5. QED
    BY <2>3, <2>4
<1>8. CASE CallThrows(t)
  <2>1. /\ t \in Active /\ awaiting /\ call.kind \in {"send", "spawn", "correction"} /\ ~awaiting'
        /\ delivery' = [delivery EXCEPT !.state = "unknown"]
        /\ UNCHANGED <<turns, controller, accepted, reservation>>
    BY <1>8 DEF CallThrows, Unawaited
  <2>2. delivery.state = "intent" /\ delivery # Settled
    BY <2>1, <1>s DEF Serving, CallFits
  <2>3. delivery'.state = "unknown" /\ delivery'.kind = delivery.kind
    BY <2>1 DEF RestTypeOK
  <2>4. CASE Dispatching(t)
    <3>1. Dispatching(t)' /\ CallFits'
      BY <1>4, <2>1, <2>2, <2>3, <2>4 DEF Dispatching, CallFits
    <3>2. QED
      BY <1>3, <2>1, <3>1
  <2>5. CASE Answering(t)
    <3>1. Answering(t)' /\ CallFits'
      BY <1>4, <2>1, <2>2, <2>3, <2>5 DEF Answering, CallFits
    <3>2. QED
      BY <2>1, <3>1 DEF Serving, Active, Ids
  <2>6. QED
    BY <2>1, <2>4, <2>5, ServedTurn
<1>9. CASE MarkSubmitted(t)
  <2>1. /\ t \in Active /\ turns[t].state = "dispatching" /\ Submit(t) /\ SameTurns /\ controller.thread = t
        /\ UNCHANGED <<controller, accepted, reservation, awaiting>> /\ ~awaiting
    BY <1>9, DispatchTypes DEF MarkSubmitted, Pending, Free, bbVars
  <2>2. Dispatching(t)
    BY <2>1, ServedTurn
  <2>3. QED
    BY <1>6, <2>1, <2>2 DEF Dispatching
<1>10. CASE ReconcileUnknownSend(t)
  <2>1. /\ t \in Active /\ delivery.state = "unknown" /\ delivery.kind \in {"send", "correction"}
        /\ Submit(t) /\ SameTurns
        /\ UNCHANGED <<controller, accepted, reservation, awaiting>> /\ ~awaiting
    BY <1>10, DispatchTypes DEF ReconcileUnknownSend, Pending, Free, bbVars
  <2>2. controller.thread # NoTurn /\ controller.token = NoTurn /\ reservation = NoTurn
    BY <2>1, <1>s, ServedTurn DEF Answering, Dispatching
  <2>3. QED
    BY <1>6, <2>1, <2>2
<1>11. CASE ReconciliationPending(t)
  <2>1. /\ t \in Active /\ ~awaiting /\ delivery.state = "unknown"
        /\ delivery' = [delivery EXCEPT !.attempts = delivery.attempts + 1]
        /\ UNCHANGED <<turns, controller, accepted, reservation, awaiting>>
    BY <1>11 DEF ReconciliationPending, Unreconciled, Pending, Free, bbVars
  <2>2. delivery'.state = "unknown" /\ delivery'.kind = delivery.kind /\ delivery # Settled
    BY <2>1, <1>s DEF RestTypeOK
  <2>4. CASE Dispatching(t)
    <3>1. Dispatching(t)' /\ CallFits'
      BY <1>4, <2>1, <2>2, <2>4 DEF Dispatching, CallFits
    <3>2. QED
      BY <1>3, <2>1, <3>1
  <2>5. CASE Answering(t)
    <3>1. Answering(t)' /\ CallFits'
      BY <1>4, <2>1, <2>2, <2>5 DEF Answering, CallFits
    <3>2. QED
      BY <2>1, <3>1 DEF Serving, Active, Ids
  <2>6. QED
    BY <2>1, <2>4, <2>5, ServedTurn
<1>12. CASE DeliveryUnresolved(t)
  <2>1. /\ t \in Active /\ turns[t].state = "dispatching" /\ ~awaiting /\ delivery' = Settled
        /\ turns' = [turns EXCEPT ![t] = Final(turns[t], "failed")]
        /\ controller' = WithoutToken(t) /\ SameTurns
        /\ UNCHANGED <<accepted, reservation, awaiting>>
    BY <1>12, DispatchTypes DEF DeliveryUnresolved, Unreconciled, Pending, Free
  <2>2. Dispatching(t) /\ t \in Ids
    BY <2>1, ServedTurn
  <2>3. Ids' = Ids /\ turns'[t].state = "failed" /\ \A u \in Ids \ {t} : turns'[u].state = turns[u].state
    BY <2>1, <2>2, SettledRow DEF SameTurns
  <2>4. Active' = {}
    BY <2>2, <2>3 DEF Active, Dispatching
  <2>5. Idle'
    BY <2>1, <2>2, <2>4 DEF Idle, Dispatching, WithoutToken, RestTypeOK
  <2>6. QED
    BY <2>1, <2>5 DEF Serving, CallFits
<1>13. QED
  BY <1>1, <1>2, <1>5, <1>7, <1>8, <1>9, <1>10, <1>11, <1>12

\* So do the answer, its recovery and the steers into it.
LEMMA ServingAnswer ==
  ASSUME TypesInv, TypesInv', Serving, NEW t \in TurnIds,
         \/ AcceptFinalization(t) \/ CompleteAccepted(t) \/ RequestCompletionContinuation(t)
         \/ BeginControllerRecovery(t) \/ FailAndRetire(t, FALSE)
         \/ (\E w \in TurnIds : ReserveControllerSteer(t, w))
         \/ SteerApplied(t) \/ SteerUnknown(t)
         \/ RecoverStaleDispatch(t) \/ AdoptSubmittedFence(t)
  PROVE  Serving'
<1>0. /\ TurnsTypeOK /\ RestTypeOK /\ t # NoTurn /\ NoTurn \notin Ids /\ turns \in [Ids -> TurnRow]
      /\ SameTurns /\ Ids' = Ids /\ \A u \in Ids : turns[u] \in TurnRow
  <2>1. TurnsTypeOK
    BY DEF TypesInv
  <2>2. SameTurns
    BY <2>1, AnswerTypes
  <2>3. QED
    BY <2>1, <2>2, TypeParts, TurnsHaveRows DEF TurnIds, NoTurn, SameTurns
<1> USE <1>0
<1>s. Settled.state = "none" /\ Settled.kind = "none" /\ \A kind \in DispatchKinds : Intent(kind).state = "intent" /\ Intent(kind).kind = kind
  BY DEF Settled, Intent
\* A step that keeps the states keeps the turn that is served.
<1>a. ASSUME \A u \in Ids : turns'[u].state = turns[u].state
      PROVE  Active' = Active /\ Queued' = Queued
  BY <1>a DEF Active, Queued
<1>i. ASSUME Answering(t), turns'[t].state \notin {"dispatching", "submitted"}, \A u \in Ids \ {t} : turns'[u].state = turns[u].state
      PROVE  Active' = {}
  BY <1>i DEF Answering, Active
<1>b. ASSUME Answering(t), Answering(t)', CallFits'
      PROVE  Serving'
  BY <1>b DEF Answering, Serving, Active
<1>1. CASE AcceptFinalization(t)
  <2>1. /\ Submitted(t) /\ ~accepted /\ reservation = NoTurn /\ turns' = turns
        /\ UNCHANGED <<controller, delivery, reservation, call, awaiting>>
    BY <1>1 DEF AcceptFinalization, bbVars
  <2>2. Answering(t)
    BY <2>1, ServedTurn DEF Submitted, Active
  <2>3. Answering(t)' /\ CallFits'
    BY <1>a, <2>1, <2>2 DEF Answering, CallFits, Serving
  <2>4. QED
    BY <1>b, <2>2, <2>3
<1>2. CASE CompleteAccepted(t)
  <2>1. /\ Submitted(t) /\ accepted /\ turns' = [turns EXCEPT ![t] = Final(turns[t], "completed")]
        /\ accepted' = FALSE /\ delivery' = Settled /\ controller' = controller /\ ~awaiting
        /\ UNCHANGED <<reservation, awaiting>>
    BY <1>2 DEF CompleteAccepted, Free
  <2>2. Answering(t) /\ t \in Ids
    BY <2>1, ServedTurn DEF Submitted, Active
  <2>3. turns'[t].state = "completed" /\ \A u \in Ids \ {t} : turns'[u].state = turns[u].state
    BY <2>1, <2>2, SettledRow
  <2>4. Idle'
    BY <1>i, <2>1, <2>2, <2>3 DEF Idle, Answering
  <2>5. QED
    BY <2>1, <2>4 DEF Serving, CallFits
<1>3. CASE RequestCompletionContinuation(t)
  <2>1. /\ Running(t) /\ t \in Active /\ turns[t].state = "submitted" /\ ~accepted
        /\ turns' = [turns EXCEPT ![t].continuations = 1]
        /\ delivery' = Intent("correction") /\ call'.kind = "correction"
        /\ UNCHANGED <<controller, accepted, reservation>> /\ reservation = NoTurn
    BY <1>3 DEF RequestCompletionContinuation, Running, Pending, Call
  <2>2. Answering(t) /\ t \in Ids
    BY <2>1, ServedTurn
  <2>3. \A u \in Ids : turns'[u].state = turns[u].state
    BY <2>1, <2>2 DEF TurnRow
  <2>4. delivery'.state = "intent" /\ delivery'.kind = "correction"
    BY <2>1, <1>s DEF DispatchKinds
  <2>5. Answering(t)' /\ CallFits'
    BY <1>a, <2>1, <2>2, <2>3, <2>4 DEF Answering, CallFits
  <2>6. QED
    BY <1>b, <2>2, <2>5
<1>4. CASE BeginControllerRecovery(t)
  <2>1. /\ turns' = [turns EXCEPT ![t].state = "queued", ![t].continuations = 2]
        /\ delivery' = Settled /\ controller' = [thread |-> NoTurn, token |-> NoTurn] /\ ~awaiting'
        /\ UNCHANGED <<accepted, reservation>>
    BY <1>4 DEF BeginControllerRecovery, RetireThread, Unawaited
  <2>2. Answering(t) /\ t \in Ids /\ reservation = NoTurn /\ ~accepted
    BY <1>4, RetiresLiveThread DEF Active
  <2>3. turns'[t].state = "queued" /\ \A u \in Ids \ {t} : turns'[u].state = turns[u].state
    BY <2>1, <2>2 DEF TurnRow
  <2>4. Idle'
    BY <1>i, <2>1, <2>2, <2>3 DEF Idle
  <2>5. QED
    BY <2>1, <2>4 DEF Serving, CallFits
<1>5. CASE FailAndRetire(t, FALSE)
  <2>1. /\ Running(t) /\ turns' = [turns EXCEPT ![t] = Final(turns[t], "failed")]
        /\ controller' = [thread |-> NoTurn, token |-> NoTurn]
        /\ UNCHANGED <<delivery, accepted, reservation, call, awaiting>>
    BY <1>5 DEF FailAndRetire, RetireThread, dispatchVars
  <2>2. Answering(t) /\ t \in Ids /\ reservation = NoTurn /\ ~accepted
    BY <1>5, RetiresLiveThread DEF Active
  <2>3. turns'[t].state = "failed" /\ \A u \in Ids \ {t} : turns'[u].state = turns[u].state
    BY <2>1, <2>2, SettledRow
  <2>4. delivery = Settled /\ ~awaiting
    BY <2>1, <2>2, <1>s DEF Running, Pending, Answering, Free
  <2>5. Idle'
    BY <1>i, <2>1, <2>2, <2>3, <2>4 DEF Idle
  <2>6. QED
    BY <2>1, <2>4, <2>5 DEF Serving, CallFits
<1>6. ASSUME NEW w \in TurnIds, ReserveControllerSteer(t, w)
      PROVE  Serving'
  <2>1. /\ Running(t) /\ t \in Active /\ turns[t].state = "submitted" /\ ~accepted /\ w \in Queued
        /\ delivery.state = "none" /\ ~awaiting /\ reservation' = w /\ UNCHANGED <<controller, delivery, accepted>>
    BY <1>6 DEF ReserveControllerSteer, Running, Pending, Free
  <2>2. Answering(t) /\ delivery = Settled
    BY <2>1, <1>s, ServedTurn DEF Answering
  <2>3. PICK M \in Followers(w) :
          LET text == IF M = {} THEN turns[t].steerText
                      ELSE {turns[u].says : u \in M \cup {w}}
          IN  /\ turns' = [u \in Ids |->
                    CASE u \in M -> [turns[u] EXCEPT !.leader = w]
                      [] u = t -> [turns[u] EXCEPT !.steerText = text]
                      [] OTHER -> turns[u]]
              /\ IF call = NoCall
                 THEN Call("steer", controller.thread,
                           IF text = {} THEN {turns[w].says} ELSE text)
                 ELSE UNCHANGED <<call, awaiting>>
    BY <1>6 DEF ReserveControllerSteer
  <2> DEFINE text == IF M = {} THEN turns[t].steerText
                      ELSE {turns[u].says : u \in M \cup {w}}
  <2>4. turns' = [u \in Ids |->
                    CASE u \in M -> [turns[u] EXCEPT !.leader = w]
                      [] u = t -> [turns[u] EXCEPT !.steerText = text]
                      [] OTHER -> turns[u]]
    BY <2>3
  <2>5. CallFits'
    <3>1. call'.kind = "steer" \/ ~awaiting'
      BY <2>1, <2>3 DEF Call
    <3>2. QED
      BY <3>1 DEF CallFits
  <2> HIDE DEF text
  <2>6. \A u \in Ids : /\ [turns[u] EXCEPT !.leader = w].state = turns[u].state
                       /\ [turns[u] EXCEPT !.steerText = text].state = turns[u].state
    BY DEF TurnRow
  <2>7. \A u \in Ids : turns'[u].state = turns[u].state
    BY <2>4, <2>6
  <2>8. Answering(t)'
    BY <1>a, <2>1, <2>2, <2>7 DEF Answering, Active
  <2>9. QED
    BY <1>b, <2>2, <2>5, <2>8
\* A step that settles or queues turns that wait leaves the turn that is served.
<1>c. ASSUME Answering(t), \A u \in Ids \ Queued : turns'[u].state = turns[u].state,
             \A u \in Queued : turns'[u].state \in {"queued", "completed"}
      PROVE  Active' = {t} /\ turns'[t].state = "submitted"
  BY <1>c DEF Answering, Active, Queued
<1>7. CASE SteerApplied(t)
  <2>1. /\ Submitted(t) /\ reservation' = NoTurn /\ ~awaiting' /\ UNCHANGED <<controller, delivery, accepted>>
        /\ turns' = [u \in Ids |->
              IF u \in Reserved
              THEN [Final(turns[u], "completed") EXCEPT !.leader = reservation, !.into = t]
              ELSE turns[u]]
    BY <1>7 DEF SteerApplied, Unawaited
  <2>2. Answering(t)
    BY <2>1, ServedTurn DEF Submitted, Active
  <2>3. \A u \in Ids : [Final(turns[u], "completed") EXCEPT !.leader = reservation, !.into = t].state = "completed"
    BY DEF Final, TurnRow
  <2>4. Active' = {t} /\ turns'[t].state = "submitted"
    BY <1>c, <2>1, <2>2, <2>3 DEF Reserved, Queued
  <2>5. Answering(t)' /\ CallFits'
    BY <2>1, <2>2, <2>4 DEF Answering, CallFits
  <2>6. QED
    BY <1>b, <2>2, <2>5
<1>8. CASE SteerUnknown(t)
  <2>1. /\ Submitted(t) /\ reservation' = NoTurn /\ ~awaiting' /\ UNCHANGED <<controller, delivery, accepted>>
        /\ turns' = [u \in Ids |->
              IF u \in Reserved THEN [turns[u] EXCEPT !.source = t, !.leader = NoTurn] ELSE turns[u]]
    BY <1>8 DEF SteerUnknown, Unawaited
  <2>2. Answering(t)
    BY <2>1, ServedTurn DEF Submitted, Active
  <2>3. \A u \in Ids : [turns[u] EXCEPT !.source = t, !.leader = NoTurn].state = turns[u].state
    BY DEF TurnRow
  <2>4. Active' = Active /\ turns'[t].state = "submitted"
    BY <1>a, <2>1, <2>2, <2>3 DEF Answering, Active
  <2>5. Answering(t)' /\ CallFits'
    BY <2>1, <2>2, <2>4 DEF Answering, CallFits
  <2>6. QED
    BY <1>b, <2>2, <2>5
<1>9. CASE RecoverStaleDispatch(t)
  <2>1. t \in Active /\ ~awaiting /\ UNCHANGED <<accepted, reservation, awaiting>>
    BY <1>9 DEF RecoverStaleDispatch, Free, bbVars
  <2>2. CASE delivery.state = "none"
    <3>1. /\ turns' = [turns EXCEPT ![t].state = "queued"] /\ controller' = WithoutToken(t)
          /\ delivery' = delivery /\ turns[t].state = "dispatching"
      BY <1>9, <2>2 DEF RecoverStaleDispatch
    <3>2. Dispatching(t) /\ t \in Ids /\ delivery = Settled
      BY <2>1, <2>2, <3>1, <1>s, ServedTurn DEF Dispatching
    <3>3. turns'[t].state = "queued" /\ \A u \in Ids \ {t} : turns'[u].state = turns[u].state
      BY <3>1, <3>2 DEF TurnRow
    <3>4. Active' = {}
      BY <3>2, <3>3 DEF Active, Dispatching
    <3>5. Idle'
      BY <2>1, <3>1, <3>2, <3>4 DEF Idle, Dispatching, WithoutToken, RestTypeOK
    <3>6. QED
      BY <2>1, <3>5 DEF Serving, CallFits
  <2>3. CASE delivery.state # "none"
    <3>1. /\ delivery' = [delivery EXCEPT !.state = "unknown"] /\ turns' = turns /\ controller' = controller
      BY <1>9, <2>3 DEF RecoverStaleDispatch
    <3>2. delivery'.state = "unknown" /\ delivery'.kind = delivery.kind /\ delivery # Settled
      BY <2>3, <3>1, <1>s DEF RestTypeOK
    <3>3. Active' = Active
      BY <1>a, <3>1
    <3>4. CASE Dispatching(t)
      <4>1. Dispatching(t)'
        BY <2>1, <3>1, <3>2, <3>3, <3>4 DEF Dispatching
      <4>2. QED
        BY <2>1, <4>1 DEF Serving, CallFits, Active
    <3>5. CASE Answering(t)
      <4>1. Answering(t)'
        BY <2>1, <3>1, <3>2, <3>3, <3>5 DEF Answering
      <4>2. QED
        BY <2>1, <4>1 DEF Serving, CallFits, Active
    <3>6. QED
      BY <2>1, <3>4, <3>5, ServedTurn
  <2>4. QED
    BY <2>2, <2>3
<1>10. CASE AdoptSubmittedFence(t)
  <2>1. Submitted(t) /\ UNCHANGED <<turns, controller, delivery, accepted, reservation, call, awaiting>>
    BY <1>10 DEF AdoptSubmittedFence, bbVars
  <2>2. Answering(t)
    BY <2>1, ServedTurn DEF Submitted, Active
  <2>3. Answering(t)' /\ CallFits'
    BY <1>a, <2>1, <2>2 DEF Answering, CallFits, Serving
  <2>4. QED
    BY <1>b, <2>2, <2>3
<1>11. QED
  BY <1>1, <1>2, <1>3, <1>4, <1>5, <1>6, <1>7, <1>8, <1>9, <1>10

\* BB, the process, a new message and the replacement of a turn do so, too.
LEMMA ServingEnvironment ==
  ASSUME TypesInv, TypesInv', TurnsKept, Serving,
         \/ EnqueueControllerTurn \/ ResetControllerThread \/ CallLands \/ CallDrops \/ Restart
         \/ (\E t \in TurnIds : FailAndRetire(t, TRUE))
         \/ (\E t \in TurnIds : \E status \in {"idle", "error"} : ThreadStops(t, status))
         \/ UNCHANGED turnVars
  PROVE  Serving'
<1>0. /\ TurnsTypeOK /\ RestTypeOK /\ NoTurn \notin Ids /\ turns \in [Ids -> TurnRow]
      /\ \A u \in Ids : turns[u] \in TurnRow /\ Len(turns) + 1 \notin Ids
  <2>1. TurnsTypeOK
    BY DEF TypesInv
  <2>2. QED
    BY <2>1, TypeParts, TurnsHaveRows DEF NoTurn
<1> USE <1>0
<1>s. Settled.state = "none" /\ Settled.kind = "none"
  BY DEF Settled
<1>a. ASSUME turns' = turns
      PROVE  Ids' = Ids /\ Active' = Active /\ Queued' = Queued
  BY <1>a DEF Active, Queued, Ids
<1>1. CASE EnqueueControllerTurn
  <2>1. /\ Ids' = Ids \cup {Len(turns) + 1} /\ \A u \in Ids : turns'[u] = turns[u]
        /\ turns'[Len(turns) + 1].state = "queued"
    <3>1. Appended(NewTurn(Len(turns) + 1, NoTurn)) /\ \A u \in Ids : turns'[u] = turns[u]
      BY <1>1, EnqueueTypes
    <3>2. QED
      BY <3>1 DEF Appended, NewTurn
  <2>2. Active' = Active /\ Queued \subseteq Queued'
    BY <2>1 DEF Active, Queued
  <2>3. UNCHANGED <<controller, delivery, accepted, reservation, call, awaiting>>
    BY <1>1 DEF EnqueueControllerTurn, dispatchVars, bbVars
  <2>4. CASE Idle
    BY <2>2, <2>3, <2>4 DEF Serving, CallFits, Idle
  <2>5. ASSUME NEW t \in Ids, Dispatching(t) \/ Answering(t)
        PROVE  Serving'
    <3>1. Dispatching(t)' \/ Answering(t)'
      BY <2>1, <2>2, <2>3, <2>5 DEF Dispatching, Answering
    <3>2. QED
      BY <2>1, <2>3, <3>1 DEF Serving, CallFits
  <2>6. QED
    BY <2>4, <2>5 DEF Serving
<1>2. CASE ResetControllerThread
  <2>1. /\ turns' = turns /\ ~awaiting /\ UNCHANGED <<delivery, accepted, reservation, call, awaiting>>
        /\ controller.thread # NoTurn
    BY <1>2 DEF ResetControllerThread, dispatchVars, Free
  <2>2. CASE Active = {}
    <3>1. controller' = [thread |-> NoTurn, token |-> NoTurn] /\ Idle
      BY <1>2, <2>2 DEF ResetControllerThread, Serving, Dispatching, Answering
    <3>2. QED
      BY <1>a, <2>1, <3>1 DEF Serving, CallFits, Idle
  <2>3. CASE Active # {}
    <3>1. PICK t \in Active : Claimed(t) /\ controller' = [thread |-> NoTurn, token |-> t]
      BY <1>2, <2>3 DEF ResetControllerThread
    <3>2. Dispatching(t) /\ t \in Ids /\ delivery = Settled
      BY <3>1, <1>s, ServedTurn DEF Claimed, Pending, Dispatching
    <3>3. Dispatching(t)'
      BY <1>a, <2>1, <3>1, <3>2 DEF Dispatching
    <3>4. QED
      BY <1>a, <2>1, <3>2, <3>3 DEF Serving, CallFits
  <2>4. QED
    BY <2>2, <2>3
<1>3. ASSUME turns' = turns, UNCHANGED <<controller, accepted, reservation>>, CallFits',
             \/ delivery' = delivery
             \/ delivery.state # "none" /\ delivery'.state = delivery.state /\ delivery'.kind = delivery.kind
      PROVE  Serving'
  <2>1. CASE Idle
    BY <1>a, <1>s, <1>3, <2>1 DEF Serving, Idle
  <2>2. ASSUME NEW t \in Ids, Dispatching(t) \/ Answering(t)
        PROVE  Serving'
    <3>1. Dispatching(t)' \/ Answering(t)'
      BY <1>a, <1>s, <1>3, <2>2 DEF Dispatching, Answering
    <3>2. QED
      BY <1>a, <1>3, <3>1 DEF Serving
  <2>3. QED
    BY <2>1, <2>2 DEF Serving
<1>4. CASE CallLands
  <2>1. /\ UNCHANGED <<turns, controller, accepted, reservation, awaiting>>
        /\ \/ delivery' = delivery
           \/ delivery.state # "none" /\ delivery' = [delivery EXCEPT !.taken = TRUE]
        /\ awaiting => call'.kind = call.kind
    <3>1. /\ UNCHANGED <<turns, controller, accepted, reservation, awaiting>>
          /\ \/ delivery' = delivery
             \/ delivery.state # "none" /\ delivery' = [delivery EXCEPT !.taken = TRUE]
          /\ awaiting => call' = [call EXCEPT !.status = "taken"]
      <4>1. UNCHANGED <<turns, controller, accepted, reservation, awaiting>>
        BY <1>4 DEF CallLands
      <4>2. delivery' = IF delivery.state # "none" /\ delivery.kind = call.kind
                        THEN [delivery EXCEPT !.taken = TRUE] ELSE delivery
        BY <1>4 DEF CallLands
      <4>3. call' = IF awaiting THEN [call EXCEPT !.status = "taken"] ELSE NoCall
        BY <1>4 DEF CallLands
      <4>4. QED
        BY <4>1, <4>2, <4>3
    <3>2. [call EXCEPT !.status = "taken"].kind = call.kind
      BY DEF RestTypeOK
    <3>3. awaiting => call'.kind = call.kind
      BY <3>1, <3>2
    <3>4. QED
      BY <3>1, <3>3
  <2>2. CallFits'
    BY <2>1 DEF CallFits, Serving, RestTypeOK
  <2>3. QED
    BY <1>3, <2>1, <2>2 DEF RestTypeOK
<1>5. CASE CallDrops
  BY <1>3, <1>5 DEF CallDrops, Free, CallFits, dispatchVars
<1>6. CASE Restart
  BY <1>3, <1>6 DEF Restart, Unawaited, CallFits
<1>7. ASSUME NEW t \in TurnIds, NEW status \in {"idle", "error"}, ThreadStops(t, status)
      PROVE  Serving'
  BY <1>3, <1>7 DEF ThreadStops, CallFits, dispatchVars, Serving
<1>8. CASE UNCHANGED turnVars
  BY <1>3, <1>8 DEF turnVars, dispatchVars, bbVars, CallFits, Serving
<1>9. ASSUME NEW t \in TurnIds, FailAndRetire(t, TRUE)
      PROVE  Serving'
  <2>1. /\ Running(t) /\ controller' = [thread |-> NoTurn, token |-> NoTurn]
        /\ UNCHANGED <<delivery, accepted, reservation, call, awaiting>>
    BY <1>9 DEF FailAndRetire, RetireThread, dispatchVars
  <2>2. Answering(t) /\ t \in Ids /\ reservation = NoTurn /\ ~accepted
    <3>1. t \in Active /\ Answering(t) /\ reservation = NoTurn /\ ~accepted
      BY <1>9, RetiresLiveThread
    <3>2. QED
      BY <3>1 DEF Active
  <2>3. /\ Ids' = Ids \cup {Len(turns) + 1} /\ turns'[t].state = "failed"
        /\ turns'[Len(turns) + 1].state = "queued"
        /\ \A u \in Ids \ {t} : turns'[u].state = turns[u].state
    <3>1. Appended(NewTurn(turns[t].says, t)) /\ \A u \in Ids : turns'[u] = LeftRow(t, u)
      BY <1>9, ReplaceTypes
    <3>2. Final(turns[t], "failed").state = "failed"
      BY <2>2, SettledRow
    <3>3. \A u \in Ids : [turns[u] EXCEPT !.leader = Len(turns) + 1].state = turns[u].state
      BY DEF TurnRow
    <3>4. Ids' = Ids \cup {Len(turns) + 1} /\ turns'[Len(turns) + 1].state = "queued"
      BY <3>1 DEF Appended, NewTurn
    <3>5. \A u \in Ids \ {t} : LeftRow(t, u).state = turns[u].state
      BY <3>3 DEF LeftRow
    <3>6. LeftRow(t, t) = Final(turns[t], "failed")
      BY DEF LeftRow
    <3>7. QED
      BY <2>2, <3>1, <3>2, <3>4, <3>5, <3>6
  <2>4. Active' = {}
    BY <2>2, <2>3 DEF Active, Answering
  <2>5. delivery = Settled /\ ~awaiting
    BY <2>1, <2>2, <1>s DEF Running, Pending, Answering, Free
  <2>6. Idle'
    BY <2>1, <2>2, <2>4, <2>5 DEF Idle
  <2>7. QED
    BY <2>1, <2>5, <2>6 DEF Serving, CallFits
<1>10. QED
  BY <1>1, <1>2, <1>4, <1>5, <1>6, <1>7, <1>8, <1>9

\* Every step of the conversation serves one turn at most.
LEMMA ServingStep ==
  ASSUME TypesInv, Serving, [TurnsNext]_turnVars
  PROVE  TypesInv' /\ Serving'
<1>0. TypesInv' /\ TurnsKept
  BY TypesStep
<1>1. ASSUME NEW t \in TurnIds,
             \/ ClaimTurn(t) \/ (\E backoff \in BOOLEAN : RequeueTurn(t, backoff))
             \/ Dispatch(t) \/ CallReturns(t) \/ CallThrows(t) \/ MarkSubmitted(t)
             \/ ReconcileUnknownSend(t) \/ ReconciliationPending(t) \/ DeliveryUnresolved(t)
      PROVE  Serving'
  BY <1>0, <1>1, ServingDispatch
<1>2. ASSUME NEW t \in TurnIds,
             \/ AcceptFinalization(t) \/ CompleteAccepted(t) \/ RequestCompletionContinuation(t)
             \/ BeginControllerRecovery(t) \/ FailAndRetire(t, FALSE)
             \/ (\E w \in TurnIds : ReserveControllerSteer(t, w))
             \/ SteerApplied(t) \/ SteerUnknown(t)
             \/ RecoverStaleDispatch(t) \/ AdoptSubmittedFence(t)
      PROVE  Serving'
  BY <1>0, <1>2, ServingAnswer
<1>3. CASE \/ EnqueueControllerTurn \/ ResetControllerThread \/ CallLands \/ CallDrops \/ Restart
           \/ (\E t \in TurnIds : FailAndRetire(t, TRUE))
           \/ (\E t \in TurnIds : \E status \in {"idle", "error"} : ThreadStops(t, status))
           \/ UNCHANGED turnVars
  BY <1>0, <1>3, ServingEnvironment
<1>4. QED
  <2>1. CASE UNCHANGED turnVars
    BY <1>0, <1>3, <2>1
  <2>2. ASSUME NEW t \in TurnIds, LoopStep(t)
        PROVE  Serving'
    BY <1>1, <1>2, <1>3, <2>2 DEF LoopStep
  <2>3. CASE TurnsNext
    BY <1>0, <1>1, <1>2, <1>3, <2>2, <2>3 DEF TurnsNext
  <2>4. QED
    BY <1>0, <2>1, <2>3

\* A conversation begins idle, with empty tables.
LEMMA ServingInit ==
  ASSUME TurnsInit
  PROVE  TypesInv /\ Serving
<1>1. Len(turns) = 0 /\ Ids = {} /\ turns \in Seq(TurnRow)
  BY EmptySeq DEF TurnsInit, Ids
<1>2. NoThread \in [status : {"none", "idle", "active", "error"}, heard : SUBSET TurnIds]
  BY DEF NoThread
<1>3. NoCall \in [kind : DispatchKinds \cup {"steer"}, thread : 0 .. MaxTurns,
                 words : SUBSET TurnIds, status : {"none", "open", "taken"}]
  BY TurnsAssumption DEF NoCall, DispatchKinds, NoTurn
<1>4. RestTypeOK
  <2>1. threads \in [TurnIds -> [status : {"none", "idle", "active", "error"}, heard : SUBSET TurnIds]]
    BY <1>2 DEF TurnsInit
  <2>2. /\ controller \in [thread : 0 .. MaxTurns, token : 0 .. MaxTurns]
        /\ reservation \in 0 .. MaxTurns /\ restarts \in 0 .. MaxRestarts
    BY TurnsAssumption DEF TurnsInit, NoTurn
  <2>3. /\ delivery = Settled /\ call = NoCall /\ ended = {} /\ fence = "current"
        /\ accepted = FALSE /\ awaiting = FALSE
    BY DEF TurnsInit
  <2>4. QED
    BY <1>3, <2>1, <2>2, <2>3, SettledTypes DEF RestTypeOK
<1>5. TurnsTypeOK
  BY <1>1, <1>4, TypeParts, TurnsAssumption
<1>6. Messages = {}
  BY <1>1 DEF Messages
<1>7. RoomInv
  BY <1>1, <1>6, FS_EmptySet, TurnsAssumption DEF RoomInv
<1>8. Active = {} /\ SaysInv
  BY <1>1 DEF Active, SaysInv
<1>9. QED
  BY <1>5, <1>7, <1>8 DEF TypesInv, Serving, Idle, CallFits, TurnsInit

\* What the shapes say of the tables is ControllerServesOneTurn.
LEMMA ServingServesOne ==
  ASSUME TypesInv, Serving
  PROVE  ControllerServesOneTurn
<1>1. Cardinality(Active) <= 1
  <2>1. Active = {} \/ \E t \in Ids : Active = {t}
    BY DEF Serving, Idle, Dispatching, Answering
  <2>2. \A t \in Ids : Cardinality({t}) = 1
    BY FS_Singleton
  <2>3. Cardinality({}) = 0
    BY FS_EmptySet
  <2>4. QED
    BY <2>1, <2>2, <2>3
<1>2. NoTurn \notin Ids
  BY TurnsHaveRows DEF TypesInv
<1>3. CASE Idle
  BY <1>1, <1>3 DEF Idle, ControllerServesOneTurn
<1>4. ASSUME NEW t \in Ids, Dispatching(t)
      PROVE  ControllerServesOneTurn
  BY <1>1, <1>4 DEF Dispatching, ControllerServesOneTurn
<1>5. ASSUME NEW t \in Ids, Answering(t)
      PROVE  ControllerServesOneTurn
  BY <1>1, <1>5 DEF Answering, ControllerServesOneTurn
<1>6. QED
  BY <1>3, <1>4, <1>5 DEF Serving

\* The tables of the conversation keep their types: the turn, the thread, the
\* delivery columns, the reservation and the call to BB, whatever the loop, BB, the owner and restarts do.
THEOREM TurnsTypes == TurnsSpec => []TurnsTypeOK
<1>1. TurnsInit => TypesInv /\ Serving
  BY ServingInit
<1>2. TypesInv /\ Serving /\ [TurnsNext]_turnVars => (TypesInv /\ Serving)'
  BY ServingStep
<1>3. TypesInv /\ Serving => TurnsTypeOK
  BY DEF TypesInv
<1>4. QED
  BY <1>1, <1>2, <1>3, PTL DEF TurnsSpec

\* One turn is dispatched or submitted at a time, and the tables agree on which:
\* a pending spawn is of the turn dispatched, a submitted turn has a live thread,
\* and a steer reserves a waiting turn for an answer that nothing has accepted.
THEOREM OneTurnIsServed == TurnsSpec => []ControllerServesOneTurn
<1>1. TurnsInit => TypesInv /\ Serving
  BY ServingInit
<1>2. TypesInv /\ Serving /\ [TurnsNext]_turnVars => (TypesInv /\ Serving)'
  BY ServingStep
<1>3. TypesInv /\ Serving => ControllerServesOneTurn
  BY ServingServesOne
<1>4. QED
  BY <1>1, <1>2, <1>3, PTL DEF TurnsSpec

-----------------------------------------------------------------------------
\* The turns that are not settled, and those of them that no call was made for
Unsettled == {t \in Ids : turns[t].state \notin {"completed", "failed"}}
\* Those of them that no call was made for
Waiting == {t \in Unsettled : \/ turns[t].state = "queued"
                              \/ delivery.state = "none" /\ turns[t].state = "dispatching"}

\* A call of this kind has been recorded, and its outcome has not.
Delivering(kind) == delivery.state # "none" /\ delivery.kind = kind

\* The words of a turn cannot change under it: a turn that is not settled
\* follows another only while a steer reserves both.
LeaderInv == \A u \in Unsettled : turns[u].leader # NoTurn =>
                 turns[u].state = "queued" /\ reservation # NoTurn /\ turns[u].leader = reservation

\* The live thread exists, and is not that of a turn still to be dispatched.
LiveThreadInv ==
    controller.thread # NoTurn =>
        /\ controller.thread \in Ids \ Waiting
        /\ threads[controller.thread].status # "none"

\* A thread whose turn is not settled is retired, live, or being spawned.
ThreadsInv ==
    /\ \A u \in TurnIds \ Ids : threads[u].status = "none"
    /\ \A u \in Unsettled : threads[u].status # "none" =>
          u \in ended \/ u = controller.thread \/ (turns[u].state = "dispatching" /\ Delivering("spawn"))

\* A call that BB has taken is awaited, and the thread of any call but a spawn exists.
CallInv ==
    /\ call.status = "taken" => awaiting
    /\ call.status = "none" => call = NoCall
    /\ call.status # "none" /\ call.kind # "spawn" =>
          /\ call.thread \in Ids
          /\ call.thread \in Unsettled => threads[call.thread].status # "none"

\* While its call is open, a send is unheard: it is that of the turn served.
SendInv ==
    call.status = "open" /\ call.kind = "send" => \A t \in Active :
        /\ turns[t].state = "dispatching" /\ Delivering("send") /\ ~delivery.taken
        /\ call.thread = controller.thread
        /\ call.words = Words(t)

\* An open spawn is that of the turn served, or of one that was given up.
SpawnInv ==
    call.status = "open" /\ call.kind = "spawn" =>
        /\ controller.thread = NoTurn /\ call.thread \in Ids
        /\ \/ Active = {} /\ turns[call.thread].state = "failed"
           \/ /\ Active = {call.thread} /\ turns[call.thread].state = "dispatching"
              /\ Delivering("spawn") /\ ~HasCandidate(call.thread)
              /\ call.words = Words(call.thread)

\* What an awaited call that BB took leaves behind.
TakenInv ==
    call.status = "taken" =>
        /\ call.kind = "send" => delivery.taken
        /\ call.kind = "spawn" => \A t \in Active : threads[t].status # "none"

\* What was sent and taken, or spawned, has been heard.
DeliveredInv ==
    \A t \in Active :
        /\ Delivering("send") /\ delivery.taken /\ controller.thread \notin ended =>
              Words(t) \subseteq threads[controller.thread].heard
        /\ Delivering("spawn") /\ threads[t].status # "none" /\ t \notin ended =>
              Words(t) \subseteq threads[t].heard

\* The inductive invariant behind SubmittedBurstWasHeard
HeardInv == /\ LeaderInv /\ LiveThreadInv /\ ThreadsInv /\ CallInv /\ SendInv /\ SpawnInv
            /\ TakenInv /\ DeliveredInv /\ SubmittedBurstWasHeard

-----------------------------------------------------------------------------
(* What the steps write in the table of turns *)

\* One turn changes its state, and may forget what steers sent; nothing else.
OneRow(t, state) ==
    /\ t \in Ids /\ SameTurns
    /\ turns'[t].state = state
    /\ turns'[t].leader = turns[t].leader /\ turns'[t].source = turns[t].source
    /\ turns'[t].steerText \subseteq turns[t].steerText
    /\ \A u \in Ids \ {t} : turns'[u] = turns[u]

\* The steps of the loop that settle, queue or submit the turn they are about
\* write no other row.
LEMMA OneRowSteps ==
  ASSUME TypesInv, Serving, NEW t \in TurnIds
  PROVE  /\ (\E backoff \in BOOLEAN : RequeueTurn(t, backoff)) => OneRow(t, "queued")
         /\ (CallReturns(t) /\ call.kind # "spawn") => OneRow(t, "submitted")
         /\ MarkSubmitted(t) => OneRow(t, "submitted")
         /\ ReconcileUnknownSend(t) => OneRow(t, "submitted")
         /\ DeliveryUnresolved(t) => OneRow(t, "failed")
         /\ CompleteAccepted(t) => OneRow(t, "completed")
         /\ (RequestCompletionContinuation(t) => OneRow(t, "submitted"))
         /\ (BeginControllerRecovery(t) => OneRow(t, "queued"))
         /\ (FailAndRetire(t, FALSE) => OneRow(t, "failed"))
         /\ (RecoverStaleDispatch(t) /\ delivery.state = "none" => OneRow(t, "queued"))
<1>0. TurnsTypeOK /\ turns \in [Ids -> TurnRow] /\ \A u \in Ids : turns[u] \in TurnRow
  <2>1. TurnsTypeOK
    BY DEF TypesInv
  <2>2. QED
    BY <2>1, TurnsHaveRows
<1> USE <1>0
<1>1. ASSUME NEW state \in {"completed", "failed"}, t \in Ids, SameTurns,
             turns' = [turns EXCEPT ![t] = Final(turns[t], state)]
      PROVE  OneRow(t, state)
  BY <1>1, SettledRow DEF OneRow
<1>2. ASSUME NEW state \in TurnStates, t \in Ids, SameTurns,
             turns' = [turns EXCEPT ![t].state = state]
      PROVE  OneRow(t, state)
  BY <1>2 DEF OneRow, TurnRow
<1>3. (\E backoff \in BOOLEAN : RequeueTurn(t, backoff)) => OneRow(t, "queued")
  <2> SUFFICES ASSUME NEW backoff \in BOOLEAN, RequeueTurn(t, backoff) PROVE OneRow(t, "queued")
    OBVIOUS
  <2>1. turns' = [turns EXCEPT ![t].state = "queued", ![t].backoff = backoff] /\ t \in Ids
    BY DEF RequeueTurn, Claimed, Pending, Active
  <2>2. SameTurns
    BY DispatchTypes
  <2>3. QED
    BY <2>1, <2>2 DEF OneRow, TurnRow
<1>4. (CallReturns(t) /\ call.kind # "spawn") => OneRow(t, "submitted")
  <2> SUFFICES ASSUME CallReturns(t), call.kind # "spawn" PROVE OneRow(t, "submitted")
    OBVIOUS
  <2>1. turns' = [turns EXCEPT ![t].state = "submitted"] /\ t \in Ids
    BY DEF CallReturns, Submit, Active
  <2>2. SameTurns
    BY DispatchTypes
  <2>3. QED
    BY <1>2, <2>1, <2>2 DEF TurnStates
<1>5. MarkSubmitted(t) => OneRow(t, "submitted")
  <2> SUFFICES ASSUME MarkSubmitted(t) PROVE OneRow(t, "submitted")
    OBVIOUS
  <2>1. turns' = [turns EXCEPT ![t].state = "submitted"] /\ t \in Ids
    BY DEF MarkSubmitted, Submit, Pending, Active
  <2>2. SameTurns
    BY DispatchTypes
  <2>3. QED
    BY <1>2, <2>1, <2>2 DEF TurnStates
<1>6. ReconcileUnknownSend(t) => OneRow(t, "submitted")
  <2> SUFFICES ASSUME ReconcileUnknownSend(t) PROVE OneRow(t, "submitted")
    OBVIOUS
  <2>1. turns' = [turns EXCEPT ![t].state = "submitted"] /\ t \in Ids
    BY DEF ReconcileUnknownSend, Submit, Pending, Active
  <2>2. SameTurns
    BY DispatchTypes
  <2>3. QED
    BY <1>2, <2>1, <2>2 DEF TurnStates
<1>7. DeliveryUnresolved(t) => OneRow(t, "failed")
  <2> SUFFICES ASSUME DeliveryUnresolved(t) PROVE OneRow(t, "failed")
    OBVIOUS
  <2>1. turns' = [turns EXCEPT ![t] = Final(turns[t], "failed")] /\ t \in Ids
    BY DEF DeliveryUnresolved, Unreconciled, Pending, Active
  <2>2. SameTurns
    BY DispatchTypes
  <2>3. QED
    BY <1>1, <2>1, <2>2
<1>8. CompleteAccepted(t) => OneRow(t, "completed")
  <2> SUFFICES ASSUME CompleteAccepted(t) PROVE OneRow(t, "completed")
    OBVIOUS
  <2>1. turns' = [turns EXCEPT ![t] = Final(turns[t], "completed")] /\ t \in Ids
    BY DEF CompleteAccepted, Submitted
  <2>2. SameTurns
    BY AnswerTypes
  <2>3. QED
    BY <1>1, <2>1, <2>2
<1>9. RequestCompletionContinuation(t) => OneRow(t, "submitted")
  <2> SUFFICES ASSUME RequestCompletionContinuation(t) PROVE OneRow(t, "submitted")
    OBVIOUS
  <2>1. turns' = [turns EXCEPT ![t].continuations = 1] /\ t \in Ids /\ turns[t].state = "submitted"
    BY DEF RequestCompletionContinuation, Running, Pending, Active
  <2>2. SameTurns
    BY AnswerTypes
  <2>3. QED
    BY <2>1, <2>2 DEF OneRow, TurnRow
<1>10. BeginControllerRecovery(t) => OneRow(t, "queued")
  <2> SUFFICES ASSUME BeginControllerRecovery(t) PROVE OneRow(t, "queued")
    OBVIOUS
  <2>1. turns' = [turns EXCEPT ![t].state = "queued", ![t].continuations = 2] /\ t \in Ids
    BY RetiresLiveThread DEF BeginControllerRecovery, Active
  <2>2. SameTurns
    BY AnswerTypes
  <2>3. QED
    BY <2>1, <2>2 DEF OneRow, TurnRow
<1>11. FailAndRetire(t, FALSE) => OneRow(t, "failed")
  <2> SUFFICES ASSUME FailAndRetire(t, FALSE) PROVE OneRow(t, "failed")
    OBVIOUS
  <2>1. turns' = [turns EXCEPT ![t] = Final(turns[t], "failed")] /\ t \in Ids
    BY DEF FailAndRetire, Running, Pending, Active
  <2>2. SameTurns
    BY AnswerTypes
  <2>3. QED
    BY <1>1, <2>1, <2>2
<1>12. (RecoverStaleDispatch(t) /\ delivery.state = "none" => OneRow(t, "queued"))
  <2> SUFFICES ASSUME RecoverStaleDispatch(t), delivery.state = "none" PROVE OneRow(t, "queued")
    OBVIOUS
  <2>1. turns' = [turns EXCEPT ![t].state = "queued"] /\ t \in Ids
    BY DEF RecoverStaleDispatch, Active
  <2>2. SameTurns
    BY AnswerTypes
  <2>3. QED
    BY <1>2, <2>1, <2>2 DEF TurnStates
<1>13. QED
  BY <1>3, <1>4, <1>5, <1>6, <1>7, <1>8, <1>9, <1>10, <1>11, <1>12

\* A claim settles the turns that join the leader, and says whom they follow.
ClaimRows(t, M) ==
    /\ SameTurns /\ t \in Queued /\ M \subseteq Queued \ {t}
    /\ turns'[t].state = "dispatching"
    /\ turns'[t].leader = turns[t].leader /\ turns'[t].source = turns[t].source
    /\ turns'[t].steerText = turns[t].steerText
    /\ \A u \in M : /\ turns'[u].state = "completed" /\ turns'[u].leader = t
                    /\ turns'[u].source = turns[u].source /\ turns'[u].steerText = {}
    /\ \A u \in Ids \ (M \cup {t}) : turns'[u] = turns[u]

\* A claim writes the rows of the turn and of those that join it.
LEMMA ClaimStep ==
  ASSUME TypesInv, NEW t \in TurnIds, ClaimTurn(t)
  PROVE  \E M : ClaimRows(t, M)
<1>0. TurnsTypeOK /\ turns \in [Ids -> TurnRow] /\ \A u \in Ids : turns[u] \in TurnRow
  <2>1. TurnsTypeOK
    BY DEF TypesInv
  <2>2. QED
    BY <2>1, TurnsHaveRows
<1>1. SameTurns
  BY <1>0, DispatchTypes
<1>2. PICK M \in Followers(t) :
            turns' = [u \in Ids |->
              CASE u = t -> [turns[u] EXCEPT !.state = "dispatching", !.backoff = FALSE]
                [] u \in M -> [Final(turns[u], "completed") EXCEPT !.leader = t]
                [] OTHER -> turns[u]]
  BY DEF ClaimTurn
<1>3. t \in Queued /\ M \subseteq Queued \ {t} /\ t \in Ids /\ M \subseteq Ids
  <2>1. t \in Queued /\ t \in Ids
    BY DEF ClaimTurn, Queued
  <2>2. \A u \in M : u \in Queued /\ u > t
    BY DEF Followers
  <2>3. \A u \in M : u # t
    BY <2>2 DEF TurnIds
  <2>4. QED
    BY <2>1, <2>2, <2>3 DEF Queued
<1>4. turns'[t] = [turns[t] EXCEPT !.state = "dispatching", !.backoff = FALSE]
  BY <1>2, <1>3
<1>5. \A u \in M : turns'[u] = [Final(turns[u], "completed") EXCEPT !.leader = t]
  BY <1>2, <1>3
<1>6. \A u \in Ids \ (M \cup {t}) : turns'[u] = turns[u]
  BY <1>2, <1>3
<1>7. /\ turns'[t].state = "dispatching"
      /\ turns'[t].leader = turns[t].leader /\ turns'[t].source = turns[t].source
      /\ turns'[t].steerText = turns[t].steerText
  BY <1>0, <1>3, <1>4 DEF TurnRow
<1>8. ASSUME NEW u \in M
      PROVE  /\ turns'[u].state = "completed" /\ turns'[u].leader = t
             /\ turns'[u].source = turns[u].source /\ turns'[u].steerText = {}
  <2>1. t \in 0 .. MaxTurns /\ turns[u] \in TurnRow
    BY <1>0, <1>3 DEF TurnIds
  <2>2. turns'[u] = [Final(turns[u], "completed") EXCEPT !.leader = t]
    BY <1>5
  <2>3. /\ Final(turns[u], "completed") \in TurnRow
        /\ Final(turns[u], "completed").state = "completed"
        /\ Final(turns[u], "completed").source = turns[u].source
        /\ Final(turns[u], "completed").steerText = {}
    BY <2>1, SettledRow
  <2>4. QED
    BY <2>1, <2>2, <2>3, LedRow
<1>9. QED
  BY <1>1, <1>3, <1>6, <1>7, <1>8 DEF ClaimRows

\* A steer reserves the oldest turn and those that join it.
ReserveRows(t, w, M) ==
    /\ SameTurns /\ t \in Ids /\ w \in Queued /\ M \subseteq Queued \ {w} /\ t \notin Queued
    /\ turns'[t].state = turns[t].state
    /\ turns'[t].leader = turns[t].leader /\ turns'[t].source = turns[t].source
    /\ turns'[t].steerText = IF M = {} THEN turns[t].steerText ELSE {turns[u].says : u \in M \cup {w}}
    /\ \A u \in M : /\ turns'[u].state = turns[u].state /\ turns'[u].leader = w
                    /\ turns'[u].source = turns[u].source /\ turns'[u].steerText = turns[u].steerText
    /\ \A u \in Ids \ (M \cup {t}) : turns'[u] = turns[u]
    /\ \/ call # NoCall /\ UNCHANGED <<call, awaiting>>
       \/ /\ call = NoCall
          /\ Call("steer", controller.thread,
                  IF turns'[t].steerText = {} THEN {turns[w].says} ELSE turns'[t].steerText)

\* A reservation writes the rows that it reserves, and reserves waiting turns only.
LEMMA ReserveStep ==
  ASSUME TypesInv, Serving, NEW t \in TurnIds, NEW w \in TurnIds, ReserveControllerSteer(t, w)
  PROVE  \E M : ReserveRows(t, w, M)
<1>0. TurnsTypeOK /\ turns \in [Ids -> TurnRow] /\ \A u \in Ids : turns[u] \in TurnRow
  <2>1. TurnsTypeOK
    BY DEF TypesInv
  <2>2. QED
    BY <2>1, TurnsHaveRows
<1>1. SameTurns
  BY <1>0, AnswerTypes
<1>2. PICK M \in Followers(w) :
          LET text == IF M = {} THEN turns[t].steerText
                      ELSE {turns[u].says : u \in M \cup {w}}
          IN  /\ turns' = [u \in Ids |->
                    CASE u \in M -> [turns[u] EXCEPT !.leader = w]
                      [] u = t -> [turns[u] EXCEPT !.steerText = text]
                      [] OTHER -> turns[u]]
              /\ IF call = NoCall
                 THEN Call("steer", controller.thread,
                           IF text = {} THEN {turns[w].says} ELSE text)
                 ELSE UNCHANGED <<call, awaiting>>
  BY DEF ReserveControllerSteer
<1> DEFINE text == IF M = {} THEN turns[t].steerText ELSE {turns[u].says : u \in M \cup {w}}
<1>3. turns' = [u \in Ids |->
                    CASE u \in M -> [turns[u] EXCEPT !.leader = w]
                      [] u = t -> [turns[u] EXCEPT !.steerText = text]
                      [] OTHER -> turns[u]]
  BY <1>2
<1>4. /\ w \in Queued /\ M \subseteq Queued \ {w} /\ t \in Ids /\ t \notin Queued /\ M \subseteq Ids
      /\ w \in 0 .. MaxTurns
  <2>1. w \in Queued /\ t \in Active
    BY DEF ReserveControllerSteer, Running, Pending
  <2>2. QED
    BY <2>1 DEF Followers, Queued, Active, TurnIds
<1>5. \/ call # NoCall /\ UNCHANGED <<call, awaiting>>
      \/ /\ call = NoCall
         /\ Call("steer", controller.thread, IF text = {} THEN {turns[w].says} ELSE text)
  BY <1>2
<1>6. text = IF M = {} THEN turns[t].steerText ELSE {turns[u].says : u \in M \cup {w}}
  OBVIOUS
<1> HIDE DEF text
<1>7. turns'[t] = [turns[t] EXCEPT !.steerText = text]
  BY <1>3, <1>4
<1>8. \A u \in M : turns'[u] = [turns[u] EXCEPT !.leader = w]
  BY <1>3, <1>4
<1>9. \A u \in Ids \ (M \cup {t}) : turns'[u] = turns[u]
  BY <1>3, <1>4
<1>10. /\ turns'[t].state = turns[t].state
       /\ turns'[t].leader = turns[t].leader /\ turns'[t].source = turns[t].source
       /\ turns'[t].steerText = text
  BY <1>0, <1>4, <1>7 DEF TurnRow
<1>11. \A u \in M : /\ turns'[u].state = turns[u].state /\ turns'[u].leader = w
                    /\ turns'[u].source = turns[u].source /\ turns'[u].steerText = turns[u].steerText
  <2>1. ASSUME NEW u \in M
        PROVE  /\ turns'[u].state = turns[u].state /\ turns'[u].leader = w
               /\ turns'[u].source = turns[u].source /\ turns'[u].steerText = turns[u].steerText
    <3>1. turns[u] \in TurnRow /\ turns'[u] = [turns[u] EXCEPT !.leader = w]
      BY <1>0, <1>4, <1>8
    <3>2. QED
      BY <1>4, <3>1, LedRow
  <2>2. QED
    BY <2>1
<1>12. QED
  BY <1>1, <1>4, <1>5, <1>6, <1>9, <1>10, <1>11 DEF ReserveRows

\* A steer that was applied settles the turns it reserved.
AppliedRows(t) ==
    /\ SameTurns
    /\ \A u \in Reserved : /\ turns'[u].state = "completed" /\ turns'[u].leader = reservation
                           /\ turns'[u].source = turns[u].source /\ turns'[u].steerText = {}
    /\ \A u \in Ids \ Reserved : turns'[u] = turns[u]

\* One of unknown outcome gives them back, marked.
UnknownRows(t) ==
    /\ SameTurns
    /\ \A u \in Reserved : /\ turns'[u].state = turns[u].state /\ turns'[u].leader = NoTurn
                           /\ turns'[u].source = t /\ turns'[u].steerText = turns[u].steerText
    /\ \A u \in Ids \ Reserved : turns'[u] = turns[u]

\* The outcome of a steer settles the rows that it reserved or gives them back.
LEMMA SteerSteps ==
  ASSUME TypesInv, Serving, NEW t \in TurnIds
  PROVE  /\ SteerApplied(t) => AppliedRows(t)
         /\ SteerUnknown(t) => UnknownRows(t)
<1>0. TurnsTypeOK /\ RestTypeOK /\ turns \in [Ids -> TurnRow] /\ \A u \in Ids : turns[u] \in TurnRow
  <2>1. TurnsTypeOK
    BY DEF TypesInv
  <2>2. QED
    BY <2>1, TurnsHaveRows, TypeParts
<1>1. Reserved \subseteq Ids
  BY DEF Reserved, Queued
<1>2. ASSUME SteerApplied(t) PROVE AppliedRows(t)
  <2>1. SameTurns
    BY <1>0, <1>2, AnswerTypes
  <2>2. turns' = [u \in Ids |-> IF u \in Reserved
             THEN [Final(turns[u], "completed") EXCEPT !.leader = reservation, !.into = t] ELSE turns[u]]
    BY <1>2 DEF SteerApplied
  <2>3. ASSUME NEW u \in Reserved
        PROVE  /\ turns'[u].state = "completed" /\ turns'[u].leader = reservation
               /\ turns'[u].source = turns[u].source /\ turns'[u].steerText = {}
    <3>1. turns'[u] = [Final(turns[u], "completed") EXCEPT !.leader = reservation, !.into = t]
      BY <1>1, <2>2
    <3>2. /\ Final(turns[u], "completed") \in TurnRow
          /\ Final(turns[u], "completed").state = "completed"
          /\ Final(turns[u], "completed").source = turns[u].source
          /\ Final(turns[u], "completed").steerText = {}
      BY <1>0, <1>1, SettledRow
    <3>3. ASSUME NEW f \in TurnRow
          PROVE  /\ [f EXCEPT !.leader = reservation, !.into = t].state = f.state
                 /\ [f EXCEPT !.leader = reservation, !.into = t].leader = reservation
                 /\ [f EXCEPT !.leader = reservation, !.into = t].source = f.source
                 /\ [f EXCEPT !.leader = reservation, !.into = t].steerText = f.steerText
      BY DEF TurnRow
    <3>4. QED
      BY <3>1, <3>2, <3>3
  <2>4. \A u \in Ids \ Reserved : turns'[u] = turns[u]
    BY <2>2
  <2>5. QED
    BY <2>1, <2>3, <2>4 DEF AppliedRows
<1>3. ASSUME SteerUnknown(t) PROVE UnknownRows(t)
  <2>1. SameTurns
    BY <1>0, <1>3, AnswerTypes
  <2>2. turns' = [u \in Ids |-> IF u \in Reserved
             THEN [turns[u] EXCEPT !.source = t, !.leader = NoTurn] ELSE turns[u]]
    BY <1>3 DEF SteerUnknown
  <2>3. ASSUME NEW u \in Reserved
        PROVE  /\ turns'[u].state = turns[u].state /\ turns'[u].leader = NoTurn
               /\ turns'[u].source = t /\ turns'[u].steerText = turns[u].steerText
    <3>1. turns'[u] = [turns[u] EXCEPT !.source = t, !.leader = NoTurn]
      BY <1>1, <2>2
    <3>2. QED
      BY <1>0, <1>1, <3>1 DEF TurnRow
  <2>4. \A u \in Ids \ Reserved : turns'[u] = turns[u]
    BY <2>2
  <2>5. QED
    BY <2>1, <2>3, <2>4 DEF UnknownRows
<1>4. QED
  BY <1>2, <1>3

-----------------------------------------------------------------------------
(* What was asked has been heard: the invariant under each step *)

\* Types, the turn served, and what was heard: one inductive invariant
Good == TypesInv /\ Serving /\ HeardInv

\* Facts about turns that the steps below share
LEMMA GoodFacts ==
  ASSUME TypesInv
  PROVE  /\ TurnsTypeOK /\ RestTypeOK /\ NoTurn \notin Ids /\ NoTurn \notin TurnIds /\ Ids \subseteq TurnIds
         /\ \A u \in Ids : turns[u] \in TurnRow /\ turns[u].state \in TurnStates
         /\ Unsettled = Queued \cup Active /\ Queued \cap Active = {}
         /\ Queued \subseteq Waiting /\ Waiting \subseteq Unsettled /\ Unsettled \subseteq Ids
         /\ DOMAIN turns = Ids
<1>1. TurnsTypeOK /\ RestTypeOK
  BY TypeParts DEF TypesInv
<1>2. NoTurn \notin Ids /\ NoTurn \notin TurnIds /\ Ids \subseteq TurnIds /\ DOMAIN turns = Ids
  BY <1>1, TurnsHaveRows DEF TurnIds, NoTurn
<1>3. \A u \in Ids : turns[u] \in TurnRow /\ turns[u].state \in TurnStates
  BY <1>1, TurnsHaveRows DEF TurnRow
<1>4. Unsettled = Queued \cup Active /\ Queued \cap Active = {}
  BY <1>3 DEF Unsettled, Queued, Active, TurnStates
<1>5. Queued \subseteq Waiting /\ Waiting \subseteq Unsettled /\ Unsettled \subseteq Ids
  BY DEF Queued, Waiting, Unsettled
<1>6. QED
  BY <1>1, <1>2, <1>3, <1>4, <1>5

\* The words of a turn stay while the same turns follow it.
LEMMA WordsStay ==
  ASSUME SameTurns, NEW t \in Ids,
         \A u \in Ids \ {t} : turns'[u].leader = t <=> turns[u].leader = t
  PROVE  Burst(t)' = Burst(t) /\ Words(t)' = Words(t)
<1>1. Burst(t)' = Burst(t)
  BY DEF Burst, SameTurns
<1>2. Burst(t) \subseteq Ids
  BY DEF Burst
<1>3. Words(t)' = Words(t)
  BY <1>1, <1>2 DEF Words, SameTurns
<1>4. QED
  BY <1>1, <1>3

\* The threads that are kept are the live one and those of the turns to come.
LEMMA KeptThreads ==
  ASSUME TypesInv, TypesInv', NEW retired, KeepThreads(retired)
  PROVE  /\ \A u \in TurnIds : threads'[u] = threads[u] \/ threads'[u] = NoThread
         /\ \A u \in TurnIds : u \in Unsettled' \/ u = controller'.thread => threads'[u] = threads[u]
         /\ \A u \in TurnIds : u \notin Unsettled' /\ u # controller'.thread => threads'[u] = NoThread
         /\ \A u \in Unsettled' \cup {controller'.thread} : u \in ended \cup retired => u \in ended'
         /\ ended' \subseteq ended \cup retired
<1>1. DOMAIN turns' = Ids'
  <2>1. turns' \in Seq(TurnRow)
    BY DEF TypesInv, TurnsTypeOK, TurnRow
  <2>2. QED
    BY <2>1, LenProperties DEF Ids
<1>2. \A u : Known(u) <=> u = controller'.thread \/ u \in Unsettled'
  BY <1>1 DEF Known, Unsettled
<1>3. QED
  BY <1>2 DEF KeepThreads

\* Steps that touch nothing of this but the ends of a call.
LEMMA HeardQuiet ==
  ASSUME Good, TypesInv', Serving', SameTurns,
         \A u \in Ids : turns'[u].state = turns[u].state /\ turns'[u].leader = turns[u].leader,
         UNCHANGED <<controller, threads, ended, reservation>>,
         delivery'.state = "none" <=> delivery.state = "none",
         delivery'.kind = delivery.kind, delivery'.taken = delivery.taken,
         call' \in {call, NoCall}, awaiting' => awaiting, call'.status = "taken" => awaiting'
  PROVE  HeardInv'
<1>1. /\ Ids' = Ids /\ Unsettled' = Unsettled /\ Waiting' = Waiting /\ Active' = Active
      /\ \A kind : Delivering(kind)' = Delivering(kind)
  BY DEF SameTurns, Unsettled, Waiting, Active, Delivering
<1>2. \A t \in Ids : Words(t)' = Words(t)
  BY WordsStay
<1>3. Active \subseteq Ids /\ NoCall.status = "none" /\ Unsettled \subseteq Ids
  BY DEF Active, NoCall, Unsettled
<1>4. LeaderInv'
  BY <1>1, <1>3 DEF LeaderInv, Good, HeardInv
<1>5. LiveThreadInv' /\ ThreadsInv'
  BY <1>1, <1>3 DEF LiveThreadInv, ThreadsInv, Good, HeardInv
<1>6. CallInv'
  BY <1>1, <1>3 DEF CallInv, Good, HeardInv
<1>7. SendInv'
  BY <1>1, <1>2, <1>3 DEF SendInv, Good, HeardInv
<1>8. SpawnInv'
  BY <1>1, <1>2, <1>3 DEF SpawnInv, HasCandidate, Good, HeardInv
<1>9. TakenInv' /\ DeliveredInv'
  BY <1>1, <1>2, <1>3 DEF TakenInv, DeliveredInv, Good, HeardInv
<1>10. SubmittedBurstWasHeard'
  BY <1>1, <1>2 DEF SubmittedBurstWasHeard, Submitted, Good, HeardInv
<1>11. QED
  BY <1>4, <1>5, <1>6, <1>7, <1>8, <1>9, <1>10 DEF HeardInv

\* Without a steer under way no unsettled turn follows another.
LEMMA NoLeaders ==
  ASSUME LeaderInv, reservation = NoTurn
  PROVE  \A u \in Unsettled : turns[u].leader = NoTurn
BY DEF LeaderInv

\* A turn leaves its place: it is settled, or queued once more.
LEMMA HeardEnds ==
  ASSUME Good, TypesInv', Serving', NEW t \in Active, NEW state \in {"queued", "completed", "failed"},
         OneRow(t, state), reservation = NoTurn, reservation' = NoTurn, delivery' = Settled,
         ~awaiting', call' \in {call, NoCall}, call'.status # "taken",
         \A u \in TurnIds : threads'[u] = threads[u] \/ threads'[u] = NoThread,
         \A u \in TurnIds : u \in Unsettled' \/ u = controller'.thread => threads'[u] = threads[u],
         \A u \in Unsettled' : u \in ended => u \in ended',
         \/ controller'.thread = controller.thread /\ (state = "queued" => t \in Waiting)
         \/ /\ controller'.thread = NoTurn /\ turns[t].state = "submitted"
            /\ t = controller.thread /\ state = "queued" => t \in ended',
         turns[t].state = "dispatching" /\ Delivering("spawn") => state = "failed"
  PROVE  HeardInv'
<1>0. TypesInv /\ Serving /\ HeardInv
  BY DEF Good
<1> USE <1>0
<1>1. /\ Active = {t} /\ t \in Ids /\ Ids' = Ids /\ Active' = {}
      /\ Unsettled' = IF state = "queued" THEN Unsettled ELSE Unsettled \ {t}
      /\ Waiting' = Unsettled'
  <2>1. Active = {t} /\ t \in Ids /\ Ids' = Ids
    BY ServedTurn DEF OneRow, SameTurns
  <2>2. t \in Unsettled
    BY <2>1, GoodFacts
  <2>3. Active' = {}
    BY <2>1 DEF OneRow, Active
  <2>4. Unsettled' = IF state = "queued" THEN Unsettled ELSE Unsettled \ {t}
    BY <2>1, <2>2 DEF OneRow, Unsettled
  <2>5. Waiting' = Unsettled'
    <3>1. ASSUME NEW u \in Unsettled'
          PROVE  turns'[u].state = "queued"
      <4>1. CASE u = t
        BY <2>4, <3>1, <4>1 DEF OneRow
      <4>2. CASE u # t
        <5>1. u \in Queued /\ u \in Ids
          BY <2>1, <2>4, <3>1, <4>2, GoodFacts
        <5>2. QED
          BY <4>2, <5>1 DEF OneRow, Queued
      <4>3. QED
        BY <4>1, <4>2
    <3>2. QED
      BY <3>1 DEF Waiting
  <2>6. QED
    BY <2>1, <2>3, <2>4, <2>5
<1>2. NoCall.status = "none" /\ Settled.state = "none" /\ NoThread.status = "none" /\ Unsettled \subseteq Ids /\ Ids \subseteq TurnIds
  BY GoodFacts DEF NoCall, Settled, NoThread
<1>3. LeaderInv'
  <2>1. \A u \in Unsettled : turns[u].leader = NoTurn
    BY NoLeaders DEF HeardInv
  <2>2. \A u \in Unsettled : turns'[u].leader = NoTurn
    BY <2>1, <1>2 DEF OneRow
  <2>3. QED
    BY <1>1, <2>2 DEF LeaderInv
<1>4. LiveThreadInv'
  <2>1. CASE controller'.thread = controller.thread /\ (state = "queued" => t \in Waiting)
    <3>1. controller.thread # NoTurn => controller.thread \in Ids \ Waiting /\ threads[controller.thread].status # "none"
      BY DEF HeardInv, LiveThreadInv
    <3>2. controller.thread \notin Waiting => controller.thread \notin Waiting'
      BY <1>1, <2>1, GoodFacts
    <3>3. QED
      BY <1>1, <1>2, <2>1, <3>1, <3>2 DEF LiveThreadInv
  <2>2. CASE controller'.thread = NoTurn
    BY <2>2 DEF LiveThreadInv
  <2>3. QED
    BY <2>1, <2>2
<1>5. ThreadsInv'
  <2>1. \A u \in TurnIds \ Ids : threads'[u].status = "none"
    BY <1>2 DEF HeardInv, ThreadsInv
  <2>2. ASSUME NEW u \in Unsettled', threads'[u].status # "none"
        PROVE  u \in ended' \/ u = controller'.thread
    <3>1. u \in Unsettled /\ u \in TurnIds /\ threads[u].status # "none"
      BY <1>1, <1>2, <2>2
    <3>2. u \in ended \/ u = controller.thread \/ (turns[u].state = "dispatching" /\ Delivering("spawn"))
      BY <3>1 DEF HeardInv, ThreadsInv
    <3>3. CASE u \in ended
      BY <2>2, <3>3
    <3>4. CASE u = controller.thread /\ u \notin ended
      BY <1>1, <2>2, <3>1, <3>4, GoodFacts DEF HeardInv, LiveThreadInv
    <3>5. CASE turns[u].state = "dispatching" /\ Delivering("spawn")
      <4>1. u = t
        BY <1>1, <1>2, <3>1, <3>5 DEF Active
      <4>2. QED
        BY <1>1, <2>2, <3>5, <4>1
    <3>6. QED
      BY <3>2, <3>3, <3>4, <3>5
  <2>3. QED
    BY <1>1, <2>1, <2>2 DEF ThreadsInv
<1>6. CallInv'
  BY <1>1, <1>2 DEF CallInv, HeardInv
<1>7. SpawnInv'
  <2>1. SUFFICES ASSUME call'.status = "open", call'.kind = "spawn"
                 PROVE  SpawnInv'
    BY DEF SpawnInv
  <2>2. /\ call' = call /\ controller.thread = NoTurn /\ call.thread = t
        /\ turns[t].state = "dispatching" /\ Delivering("spawn")
    BY <1>1, <1>2, <2>1 DEF HeardInv, SpawnInv
  <2>3. state = "failed" /\ controller'.thread = NoTurn
    BY <2>2
  <2>4. QED
    BY <1>1, <2>2, <2>3 DEF SpawnInv, OneRow
<1>8. SendInv' /\ TakenInv' /\ DeliveredInv' /\ SubmittedBurstWasHeard'
  BY <1>1 DEF SendInv, TakenInv, DeliveredInv, SubmittedBurstWasHeard, Submitted, Active
<1>9. QED
  BY <1>3, <1>4, <1>5, <1>6, <1>7, <1>8 DEF HeardInv

\* A turn is submitted, or asked to go on.
LEMMA HeardSubmits ==
  ASSUME Good, TypesInv', Serving', NEW t \in Active, OneRow(t, "submitted"),
         UNCHANGED <<controller, threads, ended, reservation>>,
         ~Delivering("send")', ~Delivering("spawn")',
         reservation = NoTurn, Delivering("spawn") => t = controller.thread,
         controller.thread \notin ended => Words(t) \subseteq threads[controller.thread].heard,
         \/ /\ call' \in {call, NoCall} /\ call'.status # "taken"
            /\ call'.status = "open" => call'.kind \notin {"send", "spawn"}
         \/ call'.status = "open" /\ call'.kind = "correction" /\ call'.thread = controller.thread
  PROVE  HeardInv'
<1>0. TypesInv /\ Serving /\ HeardInv
  BY DEF Good
<1> USE <1>0
<1>1. /\ Active = {t} /\ t \in Ids /\ Ids' = Ids /\ Active' = {t} /\ Unsettled' = Unsettled
      /\ Waiting' \subseteq Waiting /\ Unsettled \subseteq Ids /\ Ids \subseteq TurnIds
  <2>1. Active = {t} /\ t \in Ids /\ Ids' = Ids /\ Unsettled \subseteq Ids /\ Ids \subseteq TurnIds
    BY ServedTurn, GoodFacts DEF OneRow, SameTurns
  <2>2. Active' = {t}
    BY <2>1 DEF OneRow, Active
  <2>3. t \in Unsettled
    BY <2>1, GoodFacts
  <2>4. Unsettled' = Unsettled
    BY <2>1, <2>3 DEF OneRow, Unsettled
  <2>5. Waiting' \subseteq Queued' /\ Queued' = Queued
    <3>1. Waiting' \subseteq Queued'
      <4>1. ASSUME NEW u \in Waiting', turns'[u].state # "queued"
            PROVE  FALSE
        <5>1. turns'[u].state = "dispatching" /\ u \in Ids'
          BY <4>1 DEF Waiting, Unsettled
        <5>2. u = t
          BY <2>2, <5>1 DEF Active
        <5>3. QED
          BY <5>1, <5>2 DEF OneRow
      <4>2. QED
        BY <4>1 DEF Waiting, Unsettled, Queued
    <3>2. Queued' = Queued
      BY <2>1 DEF OneRow, Queued, Active
    <3>3. QED
      BY <3>1, <3>2
  <2>6. QED
    BY <2>1, <2>2, <2>4, <2>5, GoodFacts
<1>2. NoCall.status = "none"
  BY DEF NoCall
<1>3. LeaderInv'
  <2>1. \A u \in Unsettled : turns[u].leader = NoTurn
    BY NoLeaders DEF HeardInv
  <2>2. \A u \in Unsettled : turns'[u].leader = NoTurn
    BY <1>1, <2>1 DEF OneRow
  <2>3. QED
    BY <1>1, <2>2 DEF LeaderInv
<1>4. LiveThreadInv'
  BY <1>1 DEF HeardInv, LiveThreadInv
<1>5. ThreadsInv'
  <2>1. ASSUME NEW u \in Unsettled, threads[u].status # "none"
        PROVE  u \in ended \/ u = controller.thread
    <3>1. u \in ended \/ u = controller.thread \/ (turns[u].state = "dispatching" /\ Delivering("spawn"))
      BY <2>1 DEF HeardInv, ThreadsInv
    <3>2. CASE turns[u].state = "dispatching" /\ Delivering("spawn")
      BY <1>1, <2>1, <3>2 DEF Active
    <3>3. QED
      BY <3>1, <3>2
  <2>2. QED
    BY <1>1, <2>1 DEF HeardInv, ThreadsInv
<1>6. CallInv'
  <2>1. controller.thread # NoTurn
    BY <1>1 DEF Serving, Idle, Dispatching, Answering, OneRow
  <2>2. QED
    BY <1>1, <1>2, <2>1 DEF HeardInv, CallInv, LiveThreadInv
<1>7. SpawnInv' /\ SendInv' /\ TakenInv' /\ DeliveredInv'
  BY <1>1, <1>2 DEF SpawnInv, SendInv, TakenInv, DeliveredInv
<1>8. SubmittedBurstWasHeard'
  <2>1. Words(t)' = Words(t)
    BY WordsStay DEF OneRow
  <2>2. QED
    BY <1>1, <2>1 DEF SubmittedBurstWasHeard, Submitted, Active
<1>9. QED
  BY <1>3, <1>4, <1>5, <1>6, <1>7, <1>8 DEF HeardInv

\* Steps that only move the fence, an acceptance or the end of a call
LEMMA HeardQuietSteps ==
  ASSUME Good, TypesInv', Serving',
         \/ (\E t \in TurnIds : \/ AcceptFinalization(t) \/ AdoptSubmittedFence(t)
                                \/ ReconciliationPending(t) \/ CallThrows(t)
                                \/ RecoverStaleDispatch(t) /\ delivery.state # "none")
         \/ Restart \/ CallDrops \/ UNCHANGED turnVars
  PROVE  HeardInv'
<1>0. TypesInv /\ Serving /\ HeardInv /\ RestTypeOK /\ turns \in Seq(TurnRow)
  BY GoodFacts DEF Good, TurnsTypeOK, TurnRow
<1> USE <1>0
<1>1. NoCall.status = "none" /\ (call.status = "taken" => awaiting)
  BY DEF NoCall, HeardInv, CallInv
<1> DEFINE Rest == /\ turns' = turns /\ UNCHANGED <<controller, threads, ended, reservation>>
                   /\ delivery'.state = "none" <=> delivery.state = "none"
                   /\ delivery'.kind = delivery.kind /\ delivery'.taken = delivery.taken
                   /\ call' \in {call, NoCall} /\ (awaiting' => awaiting)
                   /\ (call'.status = "taken" => awaiting')
<1>2. ASSUME Rest PROVE HeardInv'
  <2>1. SameTurns
    BY <1>2, UnchangedTurns
  <2>2. QED
    BY <1>2, <2>1, HeardQuiet
<1>3. ASSUME NEW t \in TurnIds, AcceptFinalization(t) PROVE Rest
  BY <1>1, <1>3 DEF AcceptFinalization, bbVars
<1>4. ASSUME NEW t \in TurnIds, AdoptSubmittedFence(t) PROVE Rest
  BY <1>1, <1>4 DEF AdoptSubmittedFence, bbVars
<1>5. ASSUME NEW t \in TurnIds, ReconciliationPending(t) PROVE Rest
  <2>1. /\ delivery' = [delivery EXCEPT !.attempts = delivery.attempts + 1]
        /\ UNCHANGED <<turns, controller, threads, ended, reservation, call, awaiting>>
    BY <1>5 DEF ReconciliationPending, bbVars
  <2>2. QED
    BY <1>1, <2>1 DEF RestTypeOK
<1>6. ASSUME NEW t \in TurnIds, CallThrows(t) PROVE Rest
  <2>1. /\ delivery' = [delivery EXCEPT !.state = "unknown"] /\ ~awaiting'
        /\ UNCHANGED <<turns, controller, threads, ended, reservation>>
        /\ call' \in {call, NoCall} /\ (call'.status # "taken")
    BY <1>1, <1>6 DEF CallThrows, Unawaited
  <2>2. delivery.state # "none"
    BY <1>6 DEF CallThrows, Serving, CallFits
  <2>3. QED
    BY <2>1, <2>2 DEF RestTypeOK
<1>7. ASSUME NEW t \in TurnIds, RecoverStaleDispatch(t), delivery.state # "none" PROVE Rest
  <2>1. /\ delivery' = [delivery EXCEPT !.state = "unknown"]
        /\ UNCHANGED <<turns, controller, threads, ended, reservation, call, awaiting>>
    BY <1>7 DEF RecoverStaleDispatch, bbVars
  <2>2. QED
    BY <1>1, <1>7, <2>1 DEF RestTypeOK
<1>8. CASE Restart
  <2>1. Rest
    BY <1>1, <1>8 DEF Restart, Unawaited
  <2>2. QED
    BY <1>2, <2>1
<1>9. CASE CallDrops
  <2>1. Rest
    BY <1>1, <1>9 DEF CallDrops, dispatchVars
  <2>2. QED
    BY <1>2, <2>1
<1>10. CASE UNCHANGED turnVars
  <2>1. Rest
    BY <1>1, <1>10 DEF turnVars, dispatchVars, bbVars
  <2>2. QED
    BY <1>2, <2>1
<1> HIDE DEF Rest
<1>11. QED
  BY <1>2, <1>3, <1>4, <1>5, <1>6, <1>7, <1>8, <1>9, <1>10

\* The turn served is settled, or goes back to the queue.
LEMMA HeardEndSteps ==
  ASSUME Good, TypesInv', Serving', NEW t \in TurnIds,
         \/ (\E backoff \in BOOLEAN : RequeueTurn(t, backoff))
         \/ RecoverStaleDispatch(t) /\ delivery.state = "none"
         \/ DeliveryUnresolved(t) \/ CompleteAccepted(t)
         \/ BeginControllerRecovery(t) \/ FailAndRetire(t, FALSE)
  PROVE  HeardInv'
<1>0. TypesInv /\ Serving /\ HeardInv /\ RestTypeOK
  BY GoodFacts DEF Good
<1> USE <1>0
<1>1. NoCall.status = "none" /\ (call.status = "taken" => awaiting) /\ Settled.state = "none"
  BY DEF NoCall, HeardInv, CallInv, Settled
<1>2. CASE (\E backoff \in BOOLEAN : RequeueTurn(t, backoff)) \/ (RecoverStaleDispatch(t) /\ delivery.state = "none")
  <2>1. OneRow(t, "queued")
    BY <1>2, OneRowSteps
  <2>2. /\ t \in Active /\ turns[t].state = "dispatching" /\ ~awaiting /\ delivery.state = "none"
        /\ UNCHANGED <<delivery, reservation, call, awaiting, threads, ended>>
        /\ controller' = WithoutToken(t)
    BY <1>2 DEF RequeueTurn, RecoverStaleDispatch, Claimed, Pending, Free, bbVars, dispatchVars
  <2>3. Dispatching(t) /\ reservation = NoTurn /\ delivery = Settled
    BY <2>2, ServedTurn DEF Dispatching
  <2>4. controller'.thread = controller.thread
    BY <2>2 DEF WithoutToken, RestTypeOK
  <2>5. t \in Waiting /\ ~Delivering("spawn")
    BY <2>2 DEF Waiting, Unsettled, Active, Delivering
  <2>6. QED
    BY <1>1, <2>1, <2>2, <2>3, <2>4, <2>5, HeardEnds
<1>3. CASE DeliveryUnresolved(t)
  <2>1. OneRow(t, "failed")
    BY <1>3, OneRowSteps
  <2>2. /\ t \in Active /\ turns[t].state = "dispatching" /\ ~awaiting /\ delivery' = Settled
        /\ UNCHANGED <<reservation, call, awaiting>> /\ KeepThreads({})
        /\ controller' = WithoutToken(t)
    BY <1>3 DEF DeliveryUnresolved, Unreconciled, Pending, Free
  <2>3. reservation = NoTurn
    BY <2>2, ServedTurn DEF Dispatching
  <2>4. controller'.thread = controller.thread
    BY <2>2 DEF WithoutToken, RestTypeOK
  <2>5. /\ \A u \in TurnIds : threads'[u] = threads[u] \/ threads'[u] = NoThread
        /\ \A u \in TurnIds : u \in Unsettled' \/ u = controller'.thread => threads'[u] = threads[u]
        /\ \A u \in Unsettled' : u \in ended => u \in ended'
    BY <2>2, KeptThreads
  <2>6. QED
    BY <1>1, <2>1, <2>2, <2>3, <2>4, <2>5, HeardEnds
<1>4. CASE CompleteAccepted(t)
  <2>1. OneRow(t, "completed")
    BY <1>4, OneRowSteps
  <2>2. /\ t \in Active /\ turns[t].state = "submitted" /\ ~awaiting /\ delivery' = Settled /\ accepted
        /\ UNCHANGED <<controller, reservation, call, awaiting>> /\ KeepThreads({})
    BY <1>4 DEF CompleteAccepted, Submitted, Free, Active
  <2>3. reservation = NoTurn
    BY <2>2, ServedTurn DEF Answering
  <2>5. /\ \A u \in TurnIds : threads'[u] = threads[u] \/ threads'[u] = NoThread
        /\ \A u \in TurnIds : u \in Unsettled' \/ u = controller'.thread => threads'[u] = threads[u]
        /\ \A u \in Unsettled' : u \in ended => u \in ended'
    BY <2>2, KeptThreads
  <2>6. QED
    BY <1>1, <2>1, <2>2, <2>3, <2>5, HeardEnds
<1>5. CASE BeginControllerRecovery(t)
  <2>1. OneRow(t, "queued")
    BY <1>5, OneRowSteps
  <2>2. /\ t \in Active /\ turns[t].state = "submitted" /\ ~awaiting' /\ delivery' = Settled
        /\ UNCHANGED reservation /\ KeepThreads({controller.thread}) /\ reservation = NoTurn
        /\ controller'.thread = NoTurn /\ call' \in {call, NoCall} /\ call'.status # "taken"
    <3>1. t \in Active /\ turns[t].state = "submitted" /\ reservation = NoTurn
      BY <1>5, RetiresLiveThread DEF Answering
    <3>2. /\ ~awaiting' /\ delivery' = Settled /\ UNCHANGED reservation /\ KeepThreads({controller.thread})
          /\ controller'.thread = NoTurn /\ call' \in {call, NoCall} /\ call'.status # "taken"
      BY <1>1, <1>5 DEF BeginControllerRecovery, RetireThread, Unawaited
    <3>3. QED
      BY <3>1, <3>2
  <2>3. /\ \A u \in TurnIds : threads'[u] = threads[u] \/ threads'[u] = NoThread
        /\ \A u \in TurnIds : u \in Unsettled' \/ u = controller'.thread => threads'[u] = threads[u]
        /\ \A u \in Unsettled' : u \in ended \cup {controller.thread} => u \in ended'
    BY <2>2, KeptThreads
  <2>4. t \in Unsettled'
    BY <2>1 DEF OneRow, Unsettled, SameTurns
  <2>5. QED
    BY <1>1, <2>1, <2>2, <2>3, <2>4, HeardEnds
<1>6. CASE FailAndRetire(t, FALSE)
  <2>1. OneRow(t, "failed")
    BY <1>6, OneRowSteps
  <2>2. /\ t \in Active /\ turns[t].state = "submitted" /\ ~awaiting' /\ delivery' = Settled
        /\ UNCHANGED <<reservation, call>> /\ KeepThreads({controller.thread}) /\ reservation = NoTurn
        /\ controller'.thread = NoTurn /\ call.status # "taken"
    <3>1. t \in Active /\ Answering(t) /\ turns[t].state = "submitted" /\ reservation = NoTurn
      BY <1>6, RetiresLiveThread DEF Answering
    <3>2. /\ ~awaiting /\ delivery.state = "none" /\ UNCHANGED <<delivery, reservation, call, awaiting>>
          /\ KeepThreads({controller.thread}) /\ controller'.thread = NoTurn
      BY <1>6 DEF FailAndRetire, RetireThread, Running, Pending, Free, dispatchVars
    <3>3. delivery = Settled
      BY <3>1, <3>2 DEF Answering
    <3>4. QED
      BY <1>1, <3>1, <3>2, <3>3
  <2>3. /\ \A u \in TurnIds : threads'[u] = threads[u] \/ threads'[u] = NoThread
        /\ \A u \in TurnIds : u \in Unsettled' \/ u = controller'.thread => threads'[u] = threads[u]
        /\ \A u \in Unsettled' : u \in ended => u \in ended'
    BY <2>2, KeptThreads
  <2>4. QED
    BY <1>1, <2>1, <2>2, <2>3, HeardEnds
<1>7. QED
  BY <1>2, <1>3, <1>4, <1>5, <1>6

\* The turn served is submitted: its words were taken by the thread that answers it.
LEMMA HeardSubmitSteps ==
  ASSUME Good, TypesInv', Serving', NEW t \in TurnIds,
         \/ CallReturns(t) /\ call.kind # "spawn"
         \/ MarkSubmitted(t) \/ ReconcileUnknownSend(t) \/ RequestCompletionContinuation(t)
  PROVE  HeardInv'
<1>0. TypesInv /\ Serving /\ HeardInv /\ RestTypeOK
  BY GoodFacts DEF Good
<1> USE <1>0
<1>1. /\ NoCall.status = "none" /\ (call.status = "taken" => awaiting) /\ Settled.state = "none"
      /\ ~Delivering("spawn") \/ ~Delivering("send")
  BY DEF NoCall, HeardInv, CallInv, Settled, Delivering
\* A turn that was submitted has been heard before.
<1>2. ASSUME t \in Active, turns[t].state = "submitted", controller.thread \notin ended
      PROVE  Words(t) \subseteq threads[controller.thread].heard
  BY <1>2 DEF HeardInv, SubmittedBurstWasHeard, Submitted, Active
<1>3. ASSUME delivery' = Settled
      PROVE  ~Delivering("send")' /\ ~Delivering("spawn")'
  BY <1>1, <1>3 DEF Delivering
<1>4. CASE CallReturns(t) /\ call.kind # "spawn"
  <2>1. /\ OneRow(t, "submitted") /\ t \in Active /\ awaiting /\ call.status = "taken"
        /\ call.kind \in {"send", "correction"} /\ call' = NoCall /\ delivery' = Settled
        /\ UNCHANGED <<controller, threads, ended, reservation>>
    BY <1>4, OneRowSteps DEF CallReturns, Answered, Unawaited, Submit
  <2>2. delivery.state = "intent" /\ delivery.kind = call.kind /\ delivery # Settled
    BY <1>1, <2>1 DEF Serving, CallFits
  <2>3. CASE call.kind = "send"
    <3>1. Delivering("send") /\ delivery.taken
      BY <2>1, <2>2, <2>3 DEF Delivering, HeardInv, TakenInv
    <3>2. controller.thread \notin ended => Words(t) \subseteq threads[controller.thread].heard
      BY <2>1, <3>1 DEF HeardInv, DeliveredInv
    <3>3. reservation = NoTurn
      BY <2>1, <2>2, <2>3, ServedTurn DEF Dispatching, Answering
    <3>4. QED
      BY <1>1, <1>3, <2>1, <3>1, <3>2, <3>3, HeardSubmits
  <2>4. CASE call.kind = "correction"
    <3>1. turns[t].state = "submitted" /\ reservation = NoTurn
      BY <2>1, <2>2, <2>4, ServedTurn DEF Dispatching, Answering
    <3>2. ~Delivering("spawn")
      BY <2>2, <2>4 DEF Delivering
    <3>3. QED
      BY <1>1, <1>2, <1>3, <2>1, <3>1, <3>2, HeardSubmits
  <2>5. QED
    BY <2>1, <2>3, <2>4
<1>5. CASE MarkSubmitted(t)
  <2>1. /\ OneRow(t, "submitted") /\ t \in Active /\ ~awaiting /\ delivery' = Settled
        /\ turns[t].state = "dispatching" /\ controller.thread = t /\ Delivering("spawn")
        /\ UNCHANGED <<controller, threads, ended, reservation, call>>
    BY <1>5, OneRowSteps DEF MarkSubmitted, Pending, Delivering, Free, Submit, bbVars
  <2>2. reservation = NoTurn /\ t # NoTurn
    BY <2>1, ServedTurn, GoodFacts DEF Dispatching
  <2>3. controller.thread \notin ended => Words(t) \subseteq threads[controller.thread].heard
    BY <2>1, <2>2 DEF HeardInv, DeliveredInv, LiveThreadInv
  <2>4. call.status = "open" => call.kind \notin {"send", "spawn"}
    BY <1>1, <2>1, <2>2 DEF HeardInv, SendInv, SpawnInv
  <2>5. QED
    BY <1>1, <1>3, <2>1, <2>2, <2>3, <2>4, HeardSubmits
<1>6. CASE ReconcileUnknownSend(t)
  <2>1. /\ OneRow(t, "submitted") /\ t \in Active /\ ~awaiting /\ delivery' = Settled
        /\ delivery.state = "unknown" /\ delivery.kind \in {"send", "correction"}
        /\ delivery.taken \/ delivery.kind = "correction"
        /\ UNCHANGED <<controller, threads, ended, reservation, call>>
    BY <1>6, OneRowSteps DEF ReconcileUnknownSend, Pending, Free, Submit, bbVars
  <2>2. reservation = NoTurn /\ (delivery.kind = "correction" => turns[t].state = "submitted")
    BY <1>1, <2>1, ServedTurn DEF Dispatching, Answering
  <2>3. controller.thread \notin ended => Words(t) \subseteq threads[controller.thread].heard
    BY <1>2, <2>1, <2>2 DEF HeardInv, DeliveredInv, Delivering
  <2>4. call.status = "open" => call.kind \notin {"send", "spawn"}
    BY <1>1, <2>1, <2>2 DEF HeardInv, SendInv, SpawnInv, Delivering
  <2>5. ~Delivering("spawn")
    BY <2>1 DEF Delivering
  <2>6. QED
    BY <1>1, <1>3, <2>1, <2>2, <2>3, <2>4, <2>5, HeardSubmits
<1>7. CASE RequestCompletionContinuation(t)
  <2>1. /\ OneRow(t, "submitted") /\ t \in Active /\ turns[t].state = "submitted"
        /\ delivery' = Intent("correction") /\ reservation = NoTurn /\ delivery.state = "none"
        /\ call'.status = "open" /\ call'.kind = "correction" /\ call'.thread = controller.thread
        /\ UNCHANGED <<controller, threads, ended, reservation>>
    BY <1>7, OneRowSteps DEF RequestCompletionContinuation, Running, Pending, Call
  <2>2. ~Delivering("send")' /\ ~Delivering("spawn")' /\ ~Delivering("spawn")
    BY <2>1 DEF Delivering, Intent, Settled
  <2>3. QED
    BY <1>2, <2>1, <2>2, HeardSubmits
<1>8. QED
  BY <1>4, <1>5, <1>6, <1>7

\* The facts about the constants of the tables that the steps below share
LEMMA NoneFacts ==
  /\ NoCall.status = "none" /\ NoCall.kind = "none" /\ NoCall.words = {} /\ NoThread.status = "none" /\ NoThread.heard = {}
  /\ Settled.state = "none" /\ ~Settled.taken
  /\ \A kind \in DispatchKinds : Intent(kind).state = "intent" /\ Intent(kind).kind = kind /\ ~Intent(kind).taken
BY DEF NoCall, NoThread, Settled, Intent

\* A claimed turn has made no call.
LEMMA HeardClaim ==
  ASSUME Good, TypesInv', Serving', NEW t \in TurnIds, ClaimTurn(t)
  PROVE  HeardInv'
<1>0. TypesInv /\ Serving /\ HeardInv /\ RestTypeOK
  BY GoodFacts DEF Good
<1> USE <1>0
<1>1. PICK M : ClaimRows(t, M)
  BY ClaimStep
<1>2. /\ Active = {} /\ call = NoCall /\ t \in Queued /\ KeepThreads({}) /\ call' = call
      /\ delivery' = delivery /\ reservation' = reservation /\ awaiting' = awaiting
  BY DEF ClaimTurn
<1>3. delivery = Settled /\ reservation = NoTurn
  <2>1. ASSUME NEW u \in Ids, Dispatching(u) \/ Answering(u) PROVE FALSE
    BY <1>2, <2>1 DEF Dispatching, Answering
  <2>2. Idle
    BY <2>1 DEF Serving
  <2>3. QED
    BY <2>2 DEF Idle
<1>4. controller'.thread = controller.thread
  BY DEF ClaimTurn, RestTypeOK
<1>5. /\ Ids' = Ids /\ t \in Ids /\ M \subseteq Ids /\ Unsettled' \subseteq Unsettled /\ Waiting' \subseteq Waiting
      /\ \A u \in Unsettled' : turns'[u].leader = turns[u].leader
      /\ \A u \in Ids' : turns'[u].state # "submitted"
  <2>1. Ids' = Ids /\ t \in Ids /\ M \subseteq Ids /\ M \subseteq Queued
    BY <1>1 DEF ClaimRows, SameTurns, Queued
  <2>2. ASSUME NEW u \in Unsettled'
        PROVE  u \in Unsettled /\ turns'[u].leader = turns[u].leader
    <3>1. u \in Ids /\ u \notin M
      BY <1>1, <2>1, <2>2 DEF ClaimRows, Unsettled
    <3>2. CASE u = t
      BY <1>1, <1>2, <2>1, <3>2, GoodFacts DEF ClaimRows
    <3>3. CASE u # t
      BY <1>1, <2>2, <3>1, <3>3 DEF ClaimRows, Unsettled
    <3>4. QED
      BY <3>2, <3>3
  <2>3. Unsettled \subseteq Waiting
    BY <1>2, GoodFacts
  <2>4. Waiting' \subseteq Unsettled'
    BY DEF Waiting
  <2>5. ASSUME NEW u \in Ids, turns'[u].state = "submitted"
        PROVE  FALSE
    <3>1. u \notin M \cup {t}
      BY <1>1, <2>5 DEF ClaimRows
    <3>2. QED
      BY <1>1, <1>2, <2>5, <3>1 DEF ClaimRows, Active
  <2>6. QED
    BY <2>1, <2>2, <2>3, <2>4, <2>5
<1>6. /\ \A u \in TurnIds : threads'[u] = threads[u] \/ threads'[u] = NoThread
      /\ \A u \in TurnIds : u \in Unsettled' \/ u = controller'.thread => threads'[u] = threads[u]
      /\ \A u \in Unsettled' : u \in ended => u \in ended'
  BY <1>2, KeptThreads
<1>7. /\ Ids \subseteq TurnIds /\ Unsettled \subseteq Ids
  BY GoodFacts
<1>8. LeaderInv'
  BY <1>3, <1>5, NoLeaders DEF LeaderInv, HeardInv
<1>9. LiveThreadInv'
  BY <1>4, <1>5, <1>6, <1>7 DEF LiveThreadInv, HeardInv
<1>10. ThreadsInv'
  <2>1. \A u \in TurnIds \ Ids : threads'[u].status = "none"
    BY <1>6, NoneFacts DEF HeardInv, ThreadsInv
  <2>2. \A u \in Unsettled' : threads[u].status # "none" => u \in ended \/ u = controller.thread
    BY <1>2, <1>3, <1>5, <1>7, NoneFacts DEF HeardInv, ThreadsInv, Delivering
  <2>3. QED
    BY <1>4, <1>5, <1>6, <1>7, <2>1, <2>2 DEF ThreadsInv
<1>11. CallInv' /\ SendInv' /\ SpawnInv' /\ TakenInv'
  BY <1>2, NoneFacts DEF CallInv, SendInv, SpawnInv, TakenInv
<1>12. DeliveredInv'
  BY <1>2, <1>3, NoneFacts DEF DeliveredInv, Delivering
<1>13. SubmittedBurstWasHeard'
  BY <1>5 DEF SubmittedBurstWasHeard, Submitted
<1>14. QED
  BY <1>8, <1>9, <1>10, <1>11, <1>12, <1>13 DEF HeardInv

\* A thread that is reset had heard nothing of a turn that was submitted.
LEMMA HeardReset ==
  ASSUME Good, TypesInv', Serving', ResetControllerThread
  PROVE  HeardInv'
<1>0. TypesInv /\ Serving /\ HeardInv /\ RestTypeOK
  BY GoodFacts DEF Good
<1> USE <1>0
<1>1. /\ turns' = turns /\ KeepThreads({controller.thread}) /\ controller'.thread = NoTurn
      /\ controller.thread # NoTurn /\ ~awaiting
      /\ UNCHANGED <<delivery, reservation, call, awaiting>>
      /\ Active = {} \/ (\E t \in Active : Claimed(t))
  BY DEF ResetControllerThread, dispatchVars, Free
<1>2. /\ delivery.state = "none"
      /\ \A u \in Ids : turns[u].state # "submitted"
  <2>1. CASE Active = {}
    <3>1. ASSUME NEW u \in Ids, Dispatching(u) \/ Answering(u) PROVE FALSE
      BY <2>1, <3>1 DEF Dispatching, Answering
    <3>2. Idle
      BY <3>1 DEF Serving
    <3>3. QED
      BY <2>1, <3>2, NoneFacts DEF Idle, Active
  <2>2. ASSUME NEW t \in Active, Claimed(t)
        PROVE  delivery.state = "none" /\ \A u \in Ids : turns[u].state # "submitted"
    <3>1. Active = {t} /\ turns[t].state = "dispatching" /\ delivery.state = "none"
      BY <2>2, ServedTurn DEF Claimed, Pending
    <3>2. QED
      BY <3>1 DEF Active
  <2>3. QED
    BY <1>1, <2>1, <2>2
<1>3. SameTurns /\ Ids' = Ids /\ Unsettled' = Unsettled
  <2>1. SameTurns
    BY <1>1, UnchangedTurns DEF TypesInv, TurnsTypeOK, TurnRow
  <2>2. QED
    BY <1>1, <2>1 DEF SameTurns, Unsettled
<1>4. /\ \A u \in TurnIds : threads'[u] = threads[u] \/ threads'[u] = NoThread
      /\ \A u \in TurnIds : u \in Unsettled' \/ u = controller'.thread => threads'[u] = threads[u]
      /\ \A u \in Unsettled' : u \in ended \cup {controller.thread} => u \in ended'
  BY <1>1, KeptThreads
<1>5. /\ Ids \subseteq TurnIds /\ Unsettled \subseteq Ids
  BY GoodFacts
<1>6. LeaderInv'
  BY <1>1, <1>3 DEF LeaderInv, HeardInv
<1>7. LiveThreadInv'
  BY <1>1 DEF LiveThreadInv
<1>8. ThreadsInv'
  <2>1. \A u \in TurnIds \ Ids : threads'[u].status = "none"
    BY <1>4, NoneFacts DEF HeardInv, ThreadsInv
  <2>2. \A u \in Unsettled : threads[u].status # "none" => u \in ended \cup {controller.thread}
    BY <1>2 DEF HeardInv, ThreadsInv, Delivering
  <2>3. QED
    BY <1>3, <1>4, <1>5, <2>1, <2>2 DEF ThreadsInv
<1>9. CallInv'
  BY <1>1, <1>3, <1>4, <1>5 DEF CallInv, HeardInv
<1>10. SendInv'
  BY <1>1, <1>2, <1>3 DEF SendInv, HeardInv, Delivering, Active
<1>11. SpawnInv' /\ TakenInv'
  BY <1>1 DEF SpawnInv, TakenInv, HeardInv, CallInv
<1>12. DeliveredInv'
  BY <1>1, <1>2 DEF DeliveredInv, Delivering
<1>13. SubmittedBurstWasHeard'
  BY <1>1, <1>2, <1>3 DEF SubmittedBurstWasHeard, Submitted
<1>14. QED
  BY <1>6, <1>7, <1>8, <1>9, <1>10, <1>11, <1>12, <1>13 DEF HeardInv

\* Steps that leave the table of turns alone keep its words and its states.
LEMMA TableStays ==
  ASSUME TypesInv, turns' = turns
  PROVE  /\ SameTurns /\ Ids' = Ids /\ Unsettled' = Unsettled /\ Active' = Active /\ Queued' = Queued
         /\ \A t \in Ids : Words(t)' = Words(t)
         /\ Active \subseteq Ids /\ Unsettled \subseteq Ids /\ Ids \subseteq TurnIds
         /\ (reservation' = reservation /\ LeaderInv => LeaderInv')
<1>1. SameTurns
  BY UnchangedTurns DEF TypesInv, TurnsTypeOK, TurnRow
<1>2. Ids' = Ids /\ Unsettled' = Unsettled /\ Active' = Active /\ Queued' = Queued
  BY <1>1 DEF SameTurns, Unsettled, Active, Queued
<1>3. \A t \in Ids : Words(t)' = Words(t)
  BY <1>1, WordsStay
<1>4. Active \subseteq Ids /\ Unsettled \subseteq Ids /\ Ids \subseteq TurnIds
  BY GoodFacts DEF Active
<1>5. reservation' = reservation /\ LeaderInv => LeaderInv'
  BY <1>2 DEF LeaderInv
<1>6. QED
  BY <1>1, <1>2, <1>3, <1>4, <1>5

\* A call that is made is one that the record before it allows.
LEMMA HeardDispatch ==
  ASSUME Good, TypesInv', Serving', NEW t \in TurnIds, SendTurn(t) \/ SpawnTurn(t)
  PROVE  HeardInv'
<1>0. TypesInv /\ Serving /\ HeardInv /\ RestTypeOK
  BY GoodFacts DEF Good
<1> USE <1>0
<1>1. /\ turns' = turns /\ UNCHANGED <<controller, threads, ended, reservation>>
      /\ t \in Active /\ turns[t].state = "dispatching" /\ delivery.state = "none"
      /\ call'.status = "open" /\ awaiting' /\ call'.words = Words(t)
      /\ ~delivery'.taken /\ delivery'.state = "intent"
  BY NoneFacts DEF SendTurn, SpawnTurn, Claimed, Pending, Call, DispatchKinds
<1>2. /\ Active = {t} /\ Active' = {t} /\ t \in Ids /\ Ids' = Ids /\ Unsettled' = Unsettled
      /\ Words(t)' = Words(t) /\ LeaderInv' /\ Waiting' \subseteq Waiting /\ turns'[t].state = "dispatching"
  <2>1. Active = {t} /\ t \in Ids
    BY <1>1, ServedTurn
  <2>2. Waiting' \subseteq Waiting
    BY <1>1, TableStays DEF Waiting
  <2>3. QED
    BY <1>1, <2>1, <2>2, TableStays DEF HeardInv
<1>3. \A u \in Unsettled : threads[u].status # "none" => u \in ended \/ u = controller.thread
  BY <1>1 DEF HeardInv, ThreadsInv, Delivering
<1>4. LiveThreadInv' /\ ThreadsInv' /\ TakenInv'
  BY <1>1, <1>2, <1>3 DEF HeardInv, LiveThreadInv, ThreadsInv, TakenInv
<1>5. SubmittedBurstWasHeard'
  BY <1>2 DEF SubmittedBurstWasHeard, Submitted, Active
<1>6. CASE SendTurn(t)
  <2>1. delivery'.kind = "send" /\ call'.kind = "send" /\ call'.thread = controller.thread /\ controller.thread # NoTurn
    BY <1>6, NoneFacts DEF SendTurn, Call, DispatchKinds
  <2>2. CallInv' /\ SendInv' /\ SpawnInv' /\ DeliveredInv'
    BY <1>1, <1>2, <2>1 DEF HeardInv, LiveThreadInv, CallInv, SendInv, SpawnInv, DeliveredInv, Delivering
  <2>3. QED
    BY <1>2, <1>4, <1>5, <2>2 DEF HeardInv
<1>7. CASE SpawnTurn(t)
  <2>1. /\ delivery'.kind = "spawn" /\ call'.kind = "spawn" /\ call'.thread = t /\ controller.thread = NoTurn
        /\ ~HasCandidate(t)
    BY <1>7, NoneFacts DEF SpawnTurn, Call, DispatchKinds, MaySpawn
  <2>2. t \in Unsettled /\ t # NoTurn
    BY <1>1, GoodFacts DEF TurnIds
  <2>3. CallInv' /\ SendInv' /\ SpawnInv'
    BY <1>1, <1>2, <2>1 DEF CallInv, SendInv, SpawnInv, Delivering, HasCandidate
  <2>4. DeliveredInv'
    BY <1>1, <1>2, <1>3, <2>1, <2>2 DEF DeliveredInv, Delivering
  <2>5. QED
    BY <1>2, <1>4, <1>5, <2>3, <2>4 DEF HeardInv
<1>8. QED
  BY <1>6, <1>7

\* A thread that was spawned becomes the live one.
LEMMA HeardAdopts ==
  ASSUME Good, TypesInv', Serving', NEW t \in TurnIds,
         AdoptThread(t) \/ (CallReturns(t) /\ call.kind = "spawn")
  PROVE  HeardInv'
<1>0. TypesInv /\ Serving /\ HeardInv /\ RestTypeOK
  BY GoodFacts DEF Good
<1> USE <1>0
<1>1. /\ turns' = turns /\ UNCHANGED <<threads, ended, reservation>> /\ t \in Active
      /\ controller'.thread = t
  <2>1. CASE AdoptThread(t)
    BY <2>1 DEF AdoptThread, bbVars
  <2>2. CASE CallReturns(t) /\ call.kind = "spawn"
    <3>1. /\ t \in Active /\ controller' = [thread |-> t, token |-> NoTurn]
          /\ UNCHANGED <<turns, ended, reservation, threads>>
      BY <2>2 DEF CallReturns
    <3>2. QED
      BY <3>1
  <2>3. QED
    BY <2>1, <2>2
<1>2. /\ Active = {t} /\ Active' = {t} /\ t \in Ids /\ Ids' = Ids /\ Unsettled' = Unsettled
      /\ Words(t)' = Words(t) /\ LeaderInv' /\ t \in Unsettled /\ t # NoTurn
  <2>1. Active = {t} /\ t \in Ids /\ t \in Unsettled /\ t # NoTurn
    BY <1>1, ServedTurn, GoodFacts
  <2>2. QED
    BY <1>1, <2>1, TableStays DEF HeardInv
<1>3. /\ turns[t].state = "dispatching" /\ controller.thread \in {NoTurn, t} /\ threads[t].status # "none"
      /\ delivery'.state # "none" /\ delivery'.kind = "spawn"
      /\ call' \in {call, NoCall}
      /\ call'.status # "taken" /\ (call'.status = "open" => call'.kind \notin {"send", "spawn"})
      /\ (t \notin ended => Words(t) \subseteq threads[t].heard)
  <2>1. CASE AdoptThread(t)
    <3>1. /\ turns[t].state = "dispatching" /\ HasCandidate(t) /\ controller.thread = NoTurn /\ ~awaiting
          /\ call' = call
          /\ delivery.state = "none" \/ delivery.kind = "spawn"
      BY <2>1 DEF AdoptThread, Free, MaySpawn, Pending, bbVars
    <3>2. delivery'.state # "none" /\ delivery'.kind = "spawn"
      BY <2>1, <3>1, NoneFacts DEF AdoptThread, DispatchKinds
    <3>3. threads[t].status # "none"
      BY <3>1 DEF HasCandidate
    <3>4. t \notin ended => Words(t) \subseteq threads[t].heard
      <4>1. CASE delivery.state = "none"
        BY <1>2, <3>1, <3>3, <4>1 DEF HeardInv, ThreadsInv, Delivering
      <4>2. CASE delivery.state # "none"
        BY <1>2, <3>1, <3>3, <4>2 DEF HeardInv, DeliveredInv, Delivering
      <4>3. QED
        BY <4>1, <4>2
    <3>5. call.status # "taken" /\ (call.status = "open" => call.kind \notin {"send", "spawn"})
      BY <1>2, <3>1 DEF HeardInv, CallInv, SendInv, SpawnInv, Delivering
    <3>6. QED
      BY <3>1, <3>2, <3>3, <3>4, <3>5
  <2>2. CASE CallReturns(t) /\ call.kind = "spawn"
    <3>1. /\ awaiting /\ call.status = "taken" /\ call' = NoCall /\ delivery' = delivery
          /\ delivery.state = "intent" /\ delivery.kind = "spawn"
      BY <2>2 DEF CallReturns, Answered, Unawaited, Serving, CallFits
    <3>2. delivery # Settled
      BY <3>1, NoneFacts
    <3>3. ~Answering(t)
      BY <3>1, <3>2 DEF Answering
    <3>4. Dispatching(t)
      BY <1>2, <3>3, ServedTurn
    <3>5. threads[t].status # "none"
      BY <1>2, <2>2, <3>1 DEF HeardInv, TakenInv
    <3>6. t \notin ended => Words(t) \subseteq threads[t].heard
      BY <1>2, <3>1, <3>5 DEF HeardInv, DeliveredInv, Delivering
    <3>7. turns[t].state = "dispatching" /\ controller.thread \in {NoTurn, t}
      BY <3>1, <3>2, <3>4 DEF Dispatching
    <3>8. QED
      BY <3>1, <3>5, <3>6, <3>7, NoneFacts
  <2>3. QED
    BY <2>1, <2>2
<1>4. LiveThreadInv'
  <2>1. t \notin Waiting'
    BY <1>1, <1>3 DEF Waiting
  <2>2. QED
    BY <1>1, <1>2, <1>3, <2>1 DEF LiveThreadInv
<1>5. ThreadsInv'
  <2>1. ASSUME NEW u \in Unsettled, threads[u].status # "none"
        PROVE  u \in ended \/ u = t
    <3>1. turns[u].state = "dispatching" => u = t
      BY <1>2, <2>1, GoodFacts DEF Active, Unsettled
    <3>2. u # NoTurn
      BY <2>1, GoodFacts
    <3>3. QED
      BY <1>3, <2>1, <3>1, <3>2 DEF HeardInv, ThreadsInv
  <2>2. QED
    BY <1>1, <1>2, <2>1 DEF ThreadsInv, HeardInv
<1>6. CallInv' /\ SendInv' /\ SpawnInv' /\ TakenInv'
  BY <1>1, <1>2, <1>3, NoneFacts DEF HeardInv, CallInv, SendInv, SpawnInv, TakenInv
<1>7. DeliveredInv'
  BY <1>1, <1>2, <1>3 DEF DeliveredInv, Delivering
<1>8. SubmittedBurstWasHeard'
  BY <1>1, <1>2, <1>3 DEF SubmittedBurstWasHeard, Submitted, Active
<1>9. QED
  BY <1>2, <1>4, <1>5, <1>6, <1>7, <1>8 DEF HeardInv

\* A thread that stops goes on having heard what it heard.
LEMMA HeardThreadStops ==
  ASSUME Good, TypesInv', Serving', NEW t \in TurnIds, NEW status \in {"idle", "error"}, ThreadStops(t, status)
  PROVE  HeardInv'
<1>0. TypesInv /\ Serving /\ HeardInv /\ RestTypeOK
  BY GoodFacts DEF Good
<1> USE <1>0
<1>1. /\ turns' = turns /\ UNCHANGED <<controller, ended, delivery, reservation, call, awaiting>>
      /\ threads' = [threads EXCEPT ![t].status = status] /\ threads[t].status = "active"
  BY DEF ThreadStops, dispatchVars
<1>2. \A u \in TurnIds : /\ threads'[u].heard = threads[u].heard
                         /\ threads'[u].status = IF u = t THEN status ELSE threads[u].status
                         /\ threads'[u].status = "none" <=> threads[u].status = "none"
  BY <1>1 DEF RestTypeOK
<1>3. /\ SameTurns /\ Ids' = Ids /\ Unsettled' = Unsettled /\ Active' = Active
      /\ \A u \in Ids : Words(u)' = Words(u)
      /\ Active \subseteq Ids /\ Unsettled \subseteq Ids /\ Ids \subseteq TurnIds /\ LeaderInv' /\ Waiting' = Waiting
  BY <1>1, TableStays DEF HeardInv, Waiting
<1>4. LiveThreadInv' /\ ThreadsInv' /\ CallInv'
  <2>1. LiveThreadInv'
    BY <1>1, <1>2, <1>3 DEF HeardInv, LiveThreadInv
  <2>2. ThreadsInv'
    BY <1>1, <1>2, <1>3 DEF HeardInv, ThreadsInv, Delivering
  <2>3. CallInv'
    BY <1>1, <1>2, <1>3 DEF HeardInv, CallInv
  <2>4. QED
    BY <2>1, <2>2, <2>3
<1>5. SendInv'
  BY <1>1, <1>3 DEF HeardInv, SendInv, Delivering
<1>6. SpawnInv'
  <2>1. SUFFICES ASSUME call.status = "open", call.kind = "spawn" PROVE SpawnInv'
    BY <1>1 DEF SpawnInv
  <2>2. call.thread \in Ids /\ controller.thread = NoTurn
    BY <2>1 DEF HeardInv, SpawnInv
  <2>3. ~HasCandidate(call.thread) => ~HasCandidate(call.thread)'
    BY <1>1, <1>2, <1>3, <2>2 DEF HasCandidate
  <2>4. QED
    BY <1>1, <1>3, <2>1, <2>2, <2>3 DEF HeardInv, SpawnInv, Delivering
<1>7. TakenInv' /\ DeliveredInv'
  <2>1. TakenInv'
    BY <1>1, <1>2, <1>3 DEF HeardInv, TakenInv
  <2>2. controller.thread \in TurnIds \/ controller.thread = NoTurn
    BY <1>3 DEF HeardInv, LiveThreadInv
  <2>3. Delivering("send") /\ Active # {} => controller.thread # NoTurn
    BY DEF Serving, Idle, Dispatching, Answering, Delivering, Settled
  <2>4. DeliveredInv'
    BY <1>1, <1>2, <1>3, <2>2, <2>3 DEF HeardInv, DeliveredInv, Delivering
  <2>5. QED
    BY <2>1, <2>4
<1>8. SubmittedBurstWasHeard'
  <2>1. ASSUME NEW u \in Ids, Submitted(u)
        PROVE  controller.thread \in TurnIds
    <3>1. Answering(u)
      BY <2>1, ServedTurn DEF Submitted, Active
    <3>2. QED
      BY <1>3, <3>1 DEF Answering, HeardInv, LiveThreadInv
  <2>2. \A u \in Ids : Submitted(u)' <=> Submitted(u)
    BY <1>1, <1>3 DEF Submitted
  <2>3. QED
    BY <1>1, <1>2, <1>3, <2>1, <2>2 DEF SubmittedBurstWasHeard, HeardInv
<1>9. QED
  BY <1>3, <1>4, <1>5, <1>6, <1>7, <1>8 DEF HeardInv

\* What BB takes for a call to a thread: it hears the words.  Nobody else does.
LEMMA LandedRows ==
  ASSUME Good, CallLands
  PROVE  /\ UNCHANGED <<turns, controller, reservation, awaiting>>
         /\ call.status = "open"
         /\ call' = IF awaiting THEN [call EXCEPT !.status = "taken"] ELSE NoCall
         /\ call'.status # "open"
         /\ call'.status # "none" => /\ awaiting /\ call'.status = "taken" /\ call'.kind = call.kind
                                     /\ call'.thread = call.thread /\ call'.words = call.words
         /\ delivery'.state = delivery.state /\ delivery'.kind = delivery.kind
         /\ delivery'.taken = (delivery.taken \/ (delivery.state # "none" /\ delivery.kind = call.kind))
         /\ ended' = IF call.kind = "spawn" THEN ended \ {call.thread} ELSE ended
         /\ \A u \in TurnIds \ {call.thread} : threads'[u] = threads[u]
         /\ call.kind # "spawn" => \/ threads' = threads
                                   \/ /\ call.thread \in TurnIds
                                      /\ threads'[call.thread].status = "active"
                                      /\ threads'[call.thread].heard = threads[call.thread].heard \cup call.words
         /\ call.kind = "spawn" /\ Active = {} => threads' = threads
         /\ call.kind = "spawn" /\ Active # {} =>
               /\ threads'[call.thread].status = "active"
               /\ threads'[call.thread].heard = call.words
         /\ call.kind # "spawn" /\ (call.thread \in Unsettled \/ call.thread = controller.thread) =>
               threads'[call.thread].heard = threads[call.thread].heard \cup call.words
<1>0. TypesInv /\ Serving /\ HeardInv /\ RestTypeOK
  BY GoodFacts DEF Good
<1> USE <1>0
<1>1. /\ UNCHANGED <<turns, controller, reservation, awaiting>> /\ call.status = "open"
      /\ call' = IF awaiting THEN [call EXCEPT !.status = "taken"] ELSE NoCall
      /\ ended' = IF call.kind = "spawn" THEN ended \ {call.thread} ELSE ended
      /\ delivery' = IF delivery.state # "none" /\ delivery.kind = call.kind
                     THEN [delivery EXCEPT !.taken = TRUE] ELSE delivery
  BY DEF CallLands
<1>2. threads' = IF ~Known(call.thread) THEN threads ELSE [threads EXCEPT ![call.thread] =
          [status |-> "active",
           heard |-> IF call.kind = "spawn" THEN call.words ELSE threads[call.thread].heard \cup call.words]]
  BY DEF CallLands
<1>3. /\ call'.status # "open"
      /\ call'.status # "none" => /\ awaiting /\ call'.status = "taken" /\ call'.kind = call.kind
                                  /\ call'.thread = call.thread /\ call'.words = call.words
  BY <1>1, NoneFacts DEF RestTypeOK
<1>4. /\ delivery'.state = delivery.state /\ delivery'.kind = delivery.kind
      /\ delivery'.taken = (delivery.taken \/ (delivery.state # "none" /\ delivery.kind = call.kind))
  BY <1>1 DEF RestTypeOK
<1>5. /\ Known(call.thread) <=> call.thread = controller.thread \/ call.thread \in Unsettled
      /\ controller.thread # NoTurn => controller.thread \in TurnIds
  BY <1>1, GoodFacts DEF Known, Unsettled, HeardInv, LiveThreadInv
<1>6. \A u \in TurnIds \ {call.thread} : threads'[u] = threads[u]
  BY <1>2 DEF RestTypeOK
<1>7. CASE call.kind = "spawn"
  <2>1. call.thread \in Ids /\ call.thread \in TurnIds /\ controller.thread = NoTurn /\ call.thread # NoTurn
    BY <1>1, <1>7, GoodFacts DEF HeardInv, SpawnInv
  <2>2. CASE Active = {}
    <3>1. ~Known(call.thread)
      BY <1>1, <1>5, <1>7, <2>1, <2>2 DEF HeardInv, SpawnInv, Unsettled
    <3>2. threads' = threads
      BY <1>2, <3>1
    <3>3. QED
      BY <1>1, <1>3, <1>4, <1>6, <1>7, <2>2, <3>2
  <2>3. CASE Active # {}
    <3>1. call.thread \in Active
      BY <1>1, <1>7, <2>3 DEF HeardInv, SpawnInv
    <3>2. Known(call.thread)
      BY <1>5, <3>1, GoodFacts
    <3>3. threads' = [threads EXCEPT ![call.thread] = [status |-> "active", heard |-> call.words]]
      BY <1>2, <1>7, <3>2
    <3>4. threads'[call.thread] = [status |-> "active", heard |-> call.words]
      BY <2>1, <3>3 DEF RestTypeOK
    <3>5. threads'[call.thread].status = "active" /\ threads'[call.thread].heard = call.words
      BY <3>4
    <3>6. QED
      BY <1>1, <1>3, <1>4, <1>6, <1>7, <2>3, <3>5
  <2>4. QED
    BY <2>2, <2>3
<1>8. CASE call.kind # "spawn"
  <2>1. call.thread \in Ids /\ call.thread \in TurnIds /\ call.thread # NoTurn
    BY <1>1, <1>8, GoodFacts DEF HeardInv, CallInv
  <2>2. CASE ~Known(call.thread)
    BY <1>1, <1>2, <1>3, <1>4, <1>5, <1>6, <1>8, <2>2
  <2>3. CASE Known(call.thread)
    <3>1. threads' = [threads EXCEPT ![call.thread] =
              [status |-> "active", heard |-> threads[call.thread].heard \cup call.words]]
      BY <1>2, <1>8, <2>3
    <3>2. threads'[call.thread] = [status |-> "active", heard |-> threads[call.thread].heard \cup call.words]
      BY <2>1, <3>1 DEF RestTypeOK
    <3>3. /\ threads'[call.thread].status = "active"
          /\ threads'[call.thread].heard = threads[call.thread].heard \cup call.words
      BY <3>2
    <3>4. QED
      BY <1>1, <1>3, <1>4, <1>6, <1>8, <2>1, <3>3
  <2>4. QED
    BY <2>2, <2>3
<1>9. QED
  BY <1>7, <1>8

\* A call that lands is heard by the thread that it is for.
LEMMA HeardLands ==
  ASSUME Good, TypesInv', Serving', CallLands
  PROVE  HeardInv'
<1>0. TypesInv /\ Serving /\ HeardInv /\ RestTypeOK
  BY GoodFacts DEF Good
<1> USE <1>0
<1>1. /\ UNCHANGED <<turns, controller, reservation, awaiting>> /\ call.status = "open"
      /\ call'.status # "open"
      /\ call'.status # "none" => /\ awaiting /\ call'.status = "taken" /\ call'.kind = call.kind
                                  /\ call'.thread = call.thread /\ call'.words = call.words
      /\ delivery'.state = delivery.state /\ delivery'.kind = delivery.kind
      /\ delivery'.taken = (delivery.taken \/ (delivery.state # "none" /\ delivery.kind = call.kind))
      /\ call' = IF awaiting THEN [call EXCEPT !.status = "taken"] ELSE NoCall
      /\ \A u \in TurnIds \ {call.thread} : threads'[u] = threads[u]
  BY LandedRows
<1>2. /\ SameTurns /\ Ids' = Ids /\ Unsettled' = Unsettled /\ Active' = Active
      /\ \A u \in Ids : Words(u)' = Words(u)
      /\ Active \subseteq Ids /\ Unsettled \subseteq Ids /\ Ids \subseteq TurnIds /\ LeaderInv' /\ Waiting' = Waiting
      /\ \A kind : Delivering(kind)' = Delivering(kind)
      /\ \A u \in Ids : Submitted(u)' = Submitted(u)
  BY <1>1, TableStays DEF HeardInv, Waiting, Delivering, Submitted
<1>3. CASE call.kind = "spawn"
  <2>1. /\ controller.thread = NoTurn /\ call.thread \in Ids /\ ended' = ended \ {call.thread}
        /\ Active = {} => threads' = threads
        /\ Active # {} => threads'[call.thread].status = "active" /\ threads'[call.thread].heard = call.words
    BY <1>1, <1>3, LandedRows DEF HeardInv, SpawnInv
  <2>2. CASE Active = {}
    <3>1. turns[call.thread].state = "failed"
      BY <1>1, <1>3, <2>2 DEF HeardInv, SpawnInv
    <3>2. call' = NoCall
      <4>1. Idle
        <5>1. ASSUME NEW u \in Ids, Dispatching(u) \/ Answering(u) PROVE FALSE
          BY <2>2, <5>1 DEF Dispatching, Answering
        <5>2. QED
          BY <5>1 DEF Serving
      <4>2. ~awaiting
        BY <1>3, <4>1, NoneFacts DEF Idle, Serving, CallFits
      <4>3. QED
        BY <1>1, <4>2
    <3>3. LiveThreadInv' /\ CallInv' /\ SendInv' /\ SpawnInv' /\ TakenInv' /\ DeliveredInv'
      BY <1>1, <1>2, <2>1, <2>2, <3>2, NoneFacts
         DEF LiveThreadInv, CallInv, SendInv, SpawnInv, TakenInv, DeliveredInv
    <3>4. ThreadsInv'
      <4>1. call.thread \notin Unsettled
        BY <3>1 DEF Unsettled
      <4>2. QED
        BY <1>1, <1>2, <2>1, <2>2, <4>1 DEF HeardInv, ThreadsInv
    <3>5. SubmittedBurstWasHeard'
      BY <1>2, <2>2 DEF SubmittedBurstWasHeard, Submitted, Active
    <3>6. QED
      BY <1>2, <3>3, <3>4, <3>5 DEF HeardInv
  <2>3. CASE Active # {}
    <3>1. /\ Active = {call.thread} /\ turns[call.thread].state = "dispatching" /\ Delivering("spawn")
          /\ call.words = Words(call.thread)
      BY <1>1, <1>3, <2>3 DEF HeardInv, SpawnInv
    <3>2. LiveThreadInv' /\ CallInv' /\ SendInv' /\ SpawnInv'
      BY <1>1, <1>2, <1>3, <2>1, NoneFacts DEF LiveThreadInv, CallInv, SendInv, SpawnInv
    <3>3. TakenInv'
      BY <1>1, <1>2, <1>3, <2>1, <2>3, <3>1 DEF TakenInv
    <3>4. DeliveredInv'
      BY <1>1, <1>2, <2>1, <2>3, <3>1 DEF DeliveredInv, Delivering
    <3>5. ThreadsInv'
      <4>1. \A u \in TurnIds \ Ids : threads'[u].status = "none"
        BY <1>1, <2>1 DEF HeardInv, ThreadsInv
      <4>2. ASSUME NEW u \in Unsettled, threads'[u].status # "none"
            PROVE  u \in ended' \/ u = controller'.thread \/ (turns'[u].state = "dispatching" /\ Delivering("spawn")')
        BY <1>1, <1>2, <2>1, <3>1, <4>2 DEF HeardInv, ThreadsInv
      <4>3. QED
        BY <1>2, <4>1, <4>2 DEF ThreadsInv
    <3>6. SubmittedBurstWasHeard'
      BY <1>2, <3>1 DEF SubmittedBurstWasHeard, Submitted, Active
    <3>7. QED
      BY <1>2, <3>2, <3>3, <3>4, <3>5, <3>6 DEF HeardInv
  <2>4. QED
    BY <2>2, <2>3
<1>4. CASE call.kind # "spawn"
  <2>1. /\ ended' = ended /\ call.thread \in Ids
        /\ call.thread \in Unsettled => threads[call.thread].status # "none"
        /\ \/ threads' = threads
           \/ /\ threads'[call.thread].status = "active"
              /\ threads'[call.thread].heard = threads[call.thread].heard \cup call.words
        /\ call.thread = controller.thread =>
              threads'[call.thread].heard = threads[call.thread].heard \cup call.words
    BY <1>1, <1>4, LandedRows DEF HeardInv, CallInv
  <2>2. /\ \A u \in TurnIds : threads[u].heard \subseteq threads'[u].heard
        /\ \A u \in TurnIds : threads[u].status # "none" => threads'[u].status # "none"
        /\ \A u \in Unsettled : threads'[u].status # "none" => threads[u].status # "none"
        /\ \A u \in TurnIds \ Ids : threads'[u].status = threads[u].status
    BY <1>1, <1>2, <2>1
  <2>3. LiveThreadInv' /\ ThreadsInv'
    <3>1. LiveThreadInv'
      BY <1>1, <1>2, <2>2 DEF HeardInv, LiveThreadInv
    <3>2. ThreadsInv'
      BY <1>1, <1>2, <2>1, <2>2 DEF HeardInv, ThreadsInv
    <3>3. QED
      BY <3>1, <3>2
  <2>4. CallInv' /\ SendInv' /\ SpawnInv'
    <3>1. CallInv'
      BY <1>1, <1>2, <2>1, <2>2 DEF HeardInv, CallInv
    <3>2. QED
      BY <1>1, <3>1 DEF SendInv, SpawnInv
  <2>5. TakenInv'
    <3>1. call'.status = "taken" /\ call'.kind = "send" => delivery'.taken
      BY <1>1 DEF Serving, CallFits
    <3>2. QED
      BY <1>1, <1>4, <3>1 DEF TakenInv
  <2>6. DeliveredInv'
    <3>1. ASSUME NEW t \in Active
          PROVE  t \in TurnIds /\ t \in Unsettled /\ Words(t)' = Words(t)
      BY <1>2, <3>1, GoodFacts
    <3>2. ASSUME NEW t \in Active, Delivering("send"), delivery'.taken, controller.thread \notin ended
          PROVE  Words(t) \subseteq threads'[controller.thread].heard
      <4>1. controller.thread \in TurnIds
        <5>1. controller.thread # NoTurn
          BY <3>2, ServedTurn, NoneFacts DEF Dispatching, Answering, Delivering
        <5>2. QED
          BY <1>2, <5>1 DEF HeardInv, LiveThreadInv
      <4>2. CASE delivery.taken
        BY <2>2, <3>2, <4>1, <4>2 DEF HeardInv, DeliveredInv
      <4>3. CASE ~delivery.taken
        <5>1. call.kind = "send"
          BY <1>1, <3>2, <4>3 DEF Delivering
        <5>2. call.thread = controller.thread /\ call.words = Words(t)
          BY <1>1, <5>1 DEF HeardInv, SendInv
        <5>3. QED
          BY <2>1, <5>2
      <4>4. QED
        BY <4>2, <4>3
    <3>3. ASSUME NEW t \in Active, Delivering("spawn"), threads'[t].status # "none", t \notin ended
          PROVE  Words(t) \subseteq threads'[t].heard
      BY <2>2, <3>1, <3>3 DEF HeardInv, DeliveredInv
    <3>4. QED
      BY <1>1, <1>2, <2>1, <3>1, <3>2, <3>3 DEF DeliveredInv
  <2>7. SubmittedBurstWasHeard'
    <3>1. ASSUME NEW u \in Ids, Submitted(u)
          PROVE  controller.thread \in TurnIds
      <4>1. Answering(u)
        BY <3>1, ServedTurn DEF Submitted, Active
      <4>2. QED
        BY <1>2, <4>1 DEF Answering, HeardInv, LiveThreadInv
    <3>2. QED
      BY <1>1, <1>2, <2>1, <2>2, <3>1 DEF SubmittedBurstWasHeard, HeardInv
  <2>8. QED
    BY <1>2, <2>3, <2>4, <2>5, <2>6, <2>7 DEF HeardInv
<1>5. QED
  BY <1>3, <1>4

\* A reservation takes its words from turns that wait.
LEMMA HeardReserve ==
  ASSUME Good, TypesInv', Serving', NEW t \in TurnIds, NEW w \in TurnIds, ReserveControllerSteer(t, w)
  PROVE  HeardInv'
<1>0. TypesInv /\ Serving /\ HeardInv /\ RestTypeOK
  BY GoodFacts DEF Good
<1> USE <1>0
<1>1. PICK M : ReserveRows(t, w, M)
  BY ReserveStep
<1>2. /\ t \in Active /\ turns[t].state = "submitted" /\ ~awaiting /\ delivery.state = "none"
      /\ reservation = NoTurn /\ reservation' = w /\ w # NoTurn
      /\ UNCHANGED <<controller, ended, delivery, threads>>
  BY GoodFacts DEF ReserveControllerSteer, Running, Pending, Free
<1>3. Active = {t} /\ t \in Ids /\ controller.thread # NoTurn
  BY <1>2, ServedTurn DEF Answering
<1>4. /\ Ids' = Ids /\ M \subseteq Ids /\ M \subseteq Queued /\ t \notin M /\ w # t
      /\ \A u \in Ids : /\ turns'[u].state = turns[u].state
                        /\ turns'[u].leader = IF u \in M THEN w ELSE turns[u].leader
  BY <1>1 DEF ReserveRows, SameTurns, Queued
<1>5. /\ Unsettled' = Unsettled /\ Active' = Active /\ Waiting' = Waiting
      /\ Unsettled \subseteq Ids /\ Queued \subseteq Unsettled
      /\ \A u \in Ids : Submitted(u)' = Submitted(u)
  BY <1>2, <1>4, GoodFacts DEF Unsettled, Active, Waiting, Submitted
<1>6. \A u \in Unsettled : turns[u].leader = NoTurn
  BY <1>2, NoLeaders DEF HeardInv
<1>7. Words(t)' = Words(t)
  <2>1. \A u \in Ids \ {t} : turns'[u].leader = t <=> turns[u].leader = t
    BY <1>3, <1>4, <1>5, <1>6, GoodFacts
  <2>2. QED
    BY <1>1, <1>3, <2>1, WordsStay DEF ReserveRows
<1>8. LeaderInv'
  BY <1>2, <1>4, <1>5, <1>6 DEF LeaderInv, Queued
<1>9. LiveThreadInv' /\ ThreadsInv'
  BY <1>2, <1>4, <1>5 DEF LiveThreadInv, ThreadsInv, HeardInv, Delivering
<1>10. /\ call.status = "open" => call.kind \notin {"send", "spawn"}
       /\ call.status # "taken"
  BY <1>2, <1>3 DEF HeardInv, SendInv, SpawnInv, CallInv, Delivering
<1>11. \/ UNCHANGED call
       \/ call'.status = "open" /\ call'.kind = "steer" /\ call'.thread = controller.thread
  BY <1>1 DEF ReserveRows, Call
<1>12. CallInv'
  BY <1>2, <1>3, <1>4, <1>5, <1>10, <1>11 DEF CallInv, HeardInv, LiveThreadInv
<1>13. SendInv' /\ SpawnInv' /\ TakenInv'
  BY <1>10, <1>11 DEF SendInv, SpawnInv, TakenInv
<1>14. DeliveredInv'
  BY <1>2 DEF DeliveredInv, Delivering
<1>15. SubmittedBurstWasHeard'
  <2>1. \A u \in Ids : Submitted(u) => u = t
    BY <1>3 DEF Submitted, Active
  <2>2. QED
    BY <1>2, <1>4, <1>5, <1>7, <2>1 DEF SubmittedBurstWasHeard, HeardInv
<1>16. QED
  BY <1>8, <1>9, <1>12, <1>13, <1>14, <1>15 DEF HeardInv

\* The outcome of a steer leaves what the answering thread has heard.
LEMMA HeardSteer ==
  ASSUME Good, TypesInv', Serving', NEW t \in TurnIds, SteerApplied(t) \/ SteerUnknown(t)
  PROVE  HeardInv'
<1>0. TypesInv /\ Serving /\ HeardInv /\ RestTypeOK
  BY GoodFacts DEF Good
<1> USE <1>0
<1>1. AppliedRows(t) \/ UnknownRows(t)
  BY SteerSteps
<1>2. /\ Submitted(t) /\ reservation' = NoTurn
      /\ delivery' = delivery /\ controller' = controller
      /\ call' \in {call, NoCall} /\ call'.status # "taken" /\ ~awaiting'
  BY NoneFacts DEF SteerApplied, SteerUnknown, Unawaited
<1>3. /\ Active = {t} /\ t \in Ids /\ controller.thread # NoTurn /\ turns[t].state = "submitted"
      /\ t \notin Queued /\ reservation # t /\ ~Delivering("send") /\ ~Delivering("spawn")
  <2>1. t \in Active /\ turns[t].state = "submitted"
    BY <1>2 DEF Submitted, Active
  <2>2. Answering(t) /\ Active = {t} /\ t \in Ids
    BY <2>1, ServedTurn
  <2>3. t \notin Queued /\ t # NoTurn
    BY <2>1, <2>2, GoodFacts
  <2>4. QED
    BY <2>1, <2>2, <2>3, NoneFacts DEF Answering, Delivering
<1>4. /\ Ids' = Ids /\ Reserved \subseteq Queued /\ t \notin Reserved /\ t \in Ids
      /\ \A u \in Ids \ Reserved : turns'[u] = turns[u]
      /\ \A u \in Reserved : turns'[u].state \in {"completed", turns[u].state} /\ turns'[u].leader \in {NoTurn, reservation}
      /\ \A u \in Reserved : turns'[u].state # "completed" => turns'[u].leader = NoTurn
  <2>1. Reserved \subseteq Queued /\ t \notin Reserved
    BY <1>3 DEF Reserved
  <2>2. \A u \in Reserved : turns[u].state = "queued"
    BY DEF Reserved, Queued
  <2>3. QED
    BY <1>1, <1>3, <2>1, <2>2 DEF AppliedRows, UnknownRows, SameTurns
<1>5. /\ Unsettled' \subseteq Unsettled /\ Waiting' \subseteq Waiting /\ Active' = {t}
      /\ Unsettled \subseteq Ids /\ Ids \subseteq TurnIds
      /\ \A u \in Unsettled' : turns'[u].state = turns[u].state /\ turns'[u].leader = NoTurn
      /\ \A u \in Ids : Submitted(u)' => u = t
  <2>1. Queued \subseteq Waiting /\ Queued \subseteq Unsettled /\ Unsettled \subseteq Ids /\ Queued \subseteq Ids /\ Ids \subseteq TurnIds
    BY GoodFacts
  <2>2. ASSUME NEW u \in Unsettled'
        PROVE  u \in Unsettled /\ turns'[u].state = turns[u].state /\ turns'[u].leader = NoTurn
    <3>1. u \in Ids /\ turns'[u].state \notin {"completed", "failed"}
      BY <1>4, <2>2 DEF Unsettled
    <3>2. CASE u \in Reserved
      BY <1>4, <2>1, <3>1, <3>2
    <3>3. CASE u \notin Reserved
      <4>1. turns'[u] = turns[u] /\ u \in Unsettled
        BY <1>4, <3>1, <3>3 DEF Unsettled
      <4>2. turns[u].leader # NoTurn => turns[u].leader = reservation /\ turns[u].state = "queued"
        BY <4>1 DEF HeardInv, LeaderInv
      <4>3. QED
        BY <3>1, <3>3, <4>1, <4>2 DEF Reserved, Queued
    <3>4. QED
      BY <3>2, <3>3
  <2>3. Waiting' \subseteq Waiting
    BY <1>2, <2>2 DEF Waiting
  <2>4. \A u \in Ids : u \in Active' <=> u = t
    <3>1. ASSUME NEW u \in Reserved PROVE turns'[u].state \notin {"dispatching", "submitted"}
      BY <1>4, <3>1 DEF Reserved, Queued
    <3>2. QED
      BY <1>3, <1>4, <3>1 DEF Active
  <2>5. Active' = {t}
    BY <1>3, <1>4, <2>4 DEF Active
  <2>6. \A u \in Ids : Submitted(u)' => u = t
    BY <2>5 DEF Submitted, Active
  <2>7. QED
    BY <2>1, <2>2, <2>3, <2>5, <2>6
<1>6. Words(t)' = Words(t)
  <2>1. SameTurns
    BY <1>1 DEF AppliedRows, UnknownRows
  <2>2. ASSUME NEW u \in Reserved PROVE turns[u].leader # t /\ turns'[u].leader # t
    <3>1. turns[u].leader \in {NoTurn, reservation} /\ t # NoTurn
      BY <1>3, <1>4, <2>2, GoodFacts DEF HeardInv, LeaderInv
    <3>2. QED
      BY <1>3, <1>4, <3>1
  <2>3. QED
    BY <1>3, <1>4, <2>1, <2>2, WordsStay
<1>7. /\ \A u \in TurnIds : threads'[u] = threads[u] \/ threads'[u] = NoThread
      /\ \A u \in TurnIds : u \in Unsettled' \/ u = controller'.thread => threads'[u] = threads[u]
      /\ \A u \in Unsettled' \cup {controller'.thread} : u \in ended => u \in ended'
  <2>1. CASE SteerApplied(t)
    <3>1. KeepThreads({})
      BY <2>1 DEF SteerApplied
    <3>2. QED
      BY <3>1, KeptThreads
  <2>2. CASE SteerUnknown(t)
    BY <2>2 DEF SteerUnknown
  <2>3. QED
    BY <2>1, <2>2
<1>8. LeaderInv'
  BY <1>5 DEF LeaderInv
<1>9. LiveThreadInv'
  BY <1>2, <1>4, <1>5, <1>7 DEF LiveThreadInv, HeardInv
<1>10. ThreadsInv'
  <2>1. \A u \in TurnIds \ Ids : threads'[u].status = "none"
    BY <1>7, NoneFacts DEF HeardInv, ThreadsInv
  <2>2. \A u \in Unsettled' : threads[u].status # "none" => u \in ended \/ u = controller.thread
    BY <1>3, <1>5 DEF HeardInv, ThreadsInv
  <2>3. QED
    BY <1>2, <1>4, <1>5, <1>7, <2>1, <2>2 DEF ThreadsInv
<1>11. call'.status = "open" => call' = call /\ call.kind \notin {"send", "spawn"}
  BY <1>2, <1>3, NoneFacts DEF HeardInv, SendInv, SpawnInv
<1>12. CallInv'
  BY <1>2, <1>4, <1>5, <1>7, <1>11, NoneFacts DEF CallInv, HeardInv
<1>13. SendInv' /\ SpawnInv' /\ TakenInv'
  BY <1>2, <1>11 DEF SendInv, SpawnInv, TakenInv
<1>14. DeliveredInv'
  BY <1>2, <1>3 DEF DeliveredInv, Delivering
<1>15. SubmittedBurstWasHeard'
  <2>1. controller.thread \in TurnIds
    BY <1>3, <1>5 DEF HeardInv, LiveThreadInv
  <2>2. QED
    BY <1>2, <1>3, <1>4, <1>5, <1>6, <1>7, <2>1 DEF SubmittedBurstWasHeard, HeardInv
<1>16. QED
  BY <1>8, <1>9, <1>10, <1>12, <1>13, <1>14, <1>15 DEF HeardInv

\* A replaced turn leaves its place; its replacement waits.
LEMMA HeardReplace ==
  ASSUME Good, TypesInv', Serving', NEW t \in TurnIds, FailAndRetire(t, TRUE),
         Appended(NewTurn(turns[t].says, t)), \A u \in Ids : turns'[u] = LeftRow(t, u)
  PROVE  HeardInv'
<1>0. TypesInv /\ Serving /\ HeardInv /\ RestTypeOK
  BY GoodFacts DEF Good
<1> USE <1>0
<1> DEFINE N == Len(turns) + 1
<1>1. /\ t \in Active /\ Active = {t} /\ turns[t].state = "submitted" /\ t \in Ids /\ reservation = NoTurn
      /\ controller.thread # NoTurn /\ delivery.state = "none" /\ ~awaiting
      /\ UNCHANGED <<delivery, reservation, call>> /\ KeepThreads({controller.thread})
      /\ controller'.thread = NoTurn
  <2>1. t \in Active /\ Answering(t) /\ reservation = NoTurn /\ controller.thread # NoTurn
    BY RetiresLiveThread
  <2>2. /\ delivery.state = "none" /\ ~awaiting /\ UNCHANGED <<delivery, reservation, call>>
        /\ KeepThreads({controller.thread}) /\ controller'.thread = NoTurn
    BY DEF FailAndRetire, RetireThread, Running, Pending, Free, dispatchVars
  <2>3. QED
    BY <2>1, <2>2, ServedTurn DEF Answering
<1>2. /\ turns'[N].state = "queued" /\ turns'[N].leader = NoTurn /\ Ids' = Ids \cup {N}
  <2>1. turns[t].says \in TurnIds /\ t \in 0 .. MaxTurns /\ TurnsTypeOK
    BY <1>1, GoodFacts DEF TurnRow, TurnIds
  <2>2. NewTurn(turns[t].says, t).state = "queued" /\ NewTurn(turns[t].says, t).leader = NoTurn
    BY <2>1, NewTurnRow
  <2>3. QED
    BY <2>2 DEF Appended
<1>3. N \notin Ids /\ N \in TurnIds /\ Ids' \subseteq TurnIds /\ Ids \subseteq TurnIds
  <2>1. N \notin Ids
    BY GoodFacts, TurnsHaveRows, TypeParts
  <2>2. Ids' \subseteq TurnIds
    <3>1. Len(turns') <= MaxTurns /\ Len(turns') \in Nat
      <4>1. TurnsTypeOK /\ TurnsTypeOK'
        BY DEF TypesInv
      <4>2. Len(turns) \in Nat
        BY <4>1, TurnsHaveRows
      <4>3. QED
        BY <4>1, <4>2 DEF TurnsTypeOK, Appended
    <3>2. QED
      BY <3>1, TurnsAssumption DEF Ids, TurnIds
  <2>3. QED
    BY <1>2, <2>1, <2>2
<1> HIDE DEF N
<1>4. \A u \in Ids : /\ u = t => turns'[u].state = "failed"
                     /\ u # t => turns'[u].state = turns[u].state
                     /\ u # t /\ turns[u].state # "completed" => turns'[u] = turns[u]
  <2>1. ASSUME NEW u \in Ids, u = t PROVE turns'[u].state = "failed"
    <3>1. turns[u] \in TurnRow /\ turns'[u] = Final(turns[u], "failed")
      BY <2>1, GoodFacts DEF LeftRow
    <3>2. QED
      BY <3>1, SettledRow
  <2>2. ASSUME NEW u \in Ids, u # t, turns[u].state # "completed" PROVE turns'[u] = turns[u]
    BY <2>2 DEF LeftRow
  <2>3. ASSUME NEW u \in Ids, u # t PROVE turns'[u].state = turns[u].state
    BY <2>3, GoodFacts DEF LeftRow, TurnRow
  <2>4. QED
    BY <2>1, <2>2, <2>3
<1>5. /\ Active' = {} /\ Unsettled' = (Unsettled \ {t}) \cup {N} /\ Unsettled \subseteq Ids
  <2>1. Active' = {}
    BY <1>1, <1>2, <1>4 DEF Active
  <2>2. Unsettled' = (Unsettled \ {t}) \cup {N}
    BY <1>1, <1>2, <1>3, <1>4 DEF Unsettled
  <2>3. QED
    BY <2>1, <2>2, GoodFacts
<1>6. LeaderInv'
  <2>1. \A u \in Unsettled : turns[u].leader = NoTurn
    BY <1>1, NoLeaders DEF HeardInv
  <2>2. \A u \in Unsettled \ {t} : turns'[u] = turns[u]
    BY <1>4, <1>5 DEF Unsettled
  <2>3. QED
    BY <1>2, <1>5, <2>1, <2>2 DEF LeaderInv
<1>7. /\ \A u \in TurnIds : threads'[u] = threads[u] \/ threads'[u] = NoThread
      /\ \A u \in TurnIds : u \in Unsettled' \/ u = controller'.thread => threads'[u] = threads[u]
      /\ \A u \in Unsettled' : u \in ended \cup {controller.thread} => u \in ended'
  BY <1>1, KeptThreads
<1>8. ThreadsInv'
  <2>1. \A u \in TurnIds \ Ids : threads'[u].status = "none"
    BY <1>7, NoneFacts DEF HeardInv, ThreadsInv
  <2>2. \A u \in Unsettled : threads[u].status # "none" => u \in ended \cup {controller.thread}
    BY <1>1 DEF HeardInv, ThreadsInv, Delivering
  <2>3. QED
    BY <1>2, <1>3, <1>5, <1>7, <2>1, <2>2 DEF ThreadsInv
<1>9. CallInv'
  BY <1>1, <1>2, <1>3, <1>5, <1>7 DEF CallInv, HeardInv
<1>10. LiveThreadInv' /\ SendInv' /\ SpawnInv' /\ TakenInv' /\ DeliveredInv'
  BY <1>1, <1>5 DEF LiveThreadInv, SendInv, SpawnInv, TakenInv, DeliveredInv, HeardInv, CallInv
<1>11. SubmittedBurstWasHeard'
  BY <1>5 DEF SubmittedBurstWasHeard, Submitted, Active
<1>12. QED
  BY <1>6, <1>8, <1>9, <1>10, <1>11 DEF HeardInv

\* A new message waits.
LEMMA HeardEnqueue ==
  ASSUME Good, TypesInv', Serving', EnqueueControllerTurn,
         Appended(NewTurn(Len(turns) + 1, NoTurn)), \A t \in Ids : turns'[t] = turns[t]
  PROVE  HeardInv'
<1>0. TypesInv /\ Serving /\ HeardInv /\ RestTypeOK
  BY GoodFacts DEF Good
<1> USE <1>0
<1> DEFINE N == Len(turns) + 1
<1>1. UNCHANGED <<controller, ended, delivery, reservation, threads, call, awaiting>>
  BY DEF EnqueueControllerTurn, dispatchVars, bbVars
<1>2. Ids' = Ids \cup {N} /\ N \notin Ids /\ Ids' \subseteq TurnIds /\ N \in TurnIds /\ Ids \subseteq TurnIds
  <2>1. Ids' = Ids \cup {N}
    BY DEF Appended
  <2>2. N \notin Ids
    BY GoodFacts, TurnsHaveRows, TypeParts
  <2>3. Ids' \subseteq TurnIds
    <3>1. Len(turns') <= MaxTurns /\ Len(turns') \in Nat
      <4>1. TurnsTypeOK /\ TurnsTypeOK'
        BY DEF TypesInv
      <4>2. Len(turns) \in Nat
        BY <4>1, TurnsHaveRows
      <4>3. QED
        BY <4>1, <4>2 DEF TurnsTypeOK, Appended
    <3>2. QED
      BY <3>1, TurnsAssumption DEF Ids, TurnIds
  <2>4. QED
    BY <2>1, <2>2, <2>3
<1>3. turns'[N].state = "queued" /\ turns'[N].leader = NoTurn
  <2>1. NoTurn \in 0 .. MaxTurns
    BY TurnsAssumption DEF NoTurn
  <2>2. QED
    BY <1>2, <2>1, GoodFacts, NewTurnRow DEF Appended
<1> HIDE DEF N
<1>4. /\ Unsettled' = Unsettled \cup {N} /\ Active' = Active /\ Waiting' = Waiting \cup {N}
      /\ Unsettled \subseteq Ids /\ Active \subseteq Ids
      /\ \A u \in Ids' : Submitted(u)' => u \in Ids /\ Submitted(u)
  <2>1. Unsettled' = Unsettled \cup {N}
    BY <1>2, <1>3 DEF Unsettled
  <2>2. Active' = Active
    BY <1>2, <1>3 DEF Active
  <2>3. Waiting' = Waiting \cup {N}
    BY <1>1, <1>2, <1>3, <2>1 DEF Waiting, Unsettled
  <2>4. QED
    BY <1>2, <1>3, <2>1, <2>2, <2>3 DEF Unsettled, Active, Submitted
<1>5. ASSUME NEW t \in Ids PROVE Words(t)' = Words(t)
  <2>1. t # NoTurn /\ t # N
    BY <1>2, GoodFacts
  <2>2. Burst(t)' = Burst(t) /\ Burst(t) \subseteq Ids
    BY <1>2, <1>3, <2>1 DEF Burst
  <2>3. QED
    BY <2>2 DEF Words
<1>6. LeaderInv' /\ LiveThreadInv' /\ ThreadsInv'
  <2>1. LeaderInv'
    BY <1>1, <1>2, <1>3, <1>4 DEF HeardInv, LeaderInv
  <2>2. LiveThreadInv'
    BY <1>1, <1>2, <1>4 DEF HeardInv, LiveThreadInv
  <2>3. ThreadsInv'
    BY <1>1, <1>2, <1>4 DEF HeardInv, ThreadsInv, Delivering
  <2>4. QED
    BY <2>1, <2>2, <2>3
<1>7. CallInv' /\ SendInv' /\ SpawnInv'
  <2>1. CallInv'
    BY <1>1, <1>2, <1>4 DEF HeardInv, CallInv
  <2>2. SendInv'
    BY <1>1, <1>4, <1>5 DEF HeardInv, SendInv, Delivering
  <2>3. SpawnInv'
    BY <1>1, <1>2, <1>4, <1>5 DEF HeardInv, SpawnInv, Delivering, HasCandidate
  <2>4. QED
    BY <2>1, <2>2, <2>3
<1>8. TakenInv' /\ DeliveredInv'
  BY <1>1, <1>4, <1>5 DEF HeardInv, TakenInv, DeliveredInv, Delivering
<1>9. SubmittedBurstWasHeard'
  BY <1>1, <1>2, <1>4, <1>5 DEF HeardInv, SubmittedBurstWasHeard
<1>10. QED
  BY <1>6, <1>7, <1>8, <1>9 DEF HeardInv

\* Every step of the conversation keeps the invariant.
LEMMA HeardStep ==
  ASSUME Good, TypesInv', Serving', TurnsKept, [TurnsNext]_turnVars
  PROVE  HeardInv'
<1>1. CASE EnqueueControllerTurn
  BY <1>1, EnqueueTypes, HeardEnqueue DEF Good
<1>2. ASSUME NEW t \in TurnIds, FailAndRetire(t, TRUE)
      PROVE  HeardInv'
  BY <1>2, ReplaceTypes, HeardReplace DEF Good
<1>3. ASSUME NEW t \in TurnIds,
             \/ ClaimTurn(t) \/ (\E backoff \in BOOLEAN : RequeueTurn(t, backoff)) \/ Dispatch(t)
             \/ AcceptFinalization(t) \/ (\E w \in TurnIds : ReserveControllerSteer(t, w))
             \/ (\E status \in {"idle", "error"} : ThreadStops(t, status))
      PROVE  HeardInv'
  BY <1>3, HeardClaim, HeardEndSteps, HeardDispatch, HeardAdopts, HeardQuietSteps, HeardReserve,
     HeardThreadStops DEF Dispatch
<1>4. ASSUME NEW t \in TurnIds, LoopStep(t)
      PROVE  HeardInv'
  BY <1>2, <1>4, HeardAdopts, HeardSubmitSteps, HeardQuietSteps, HeardEndSteps, HeardSteer DEF LoopStep
<1>5. CASE ResetControllerThread \/ CallLands \/ CallDrops \/ Restart \/ UNCHANGED turnVars
  BY <1>5, HeardReset, HeardLands, HeardQuietSteps
<1>6. CASE TurnsNext
  BY <1>1, <1>3, <1>4, <1>5, <1>6 DEF TurnsNext
<1>7. QED
  BY <1>5, <1>6

\* At first nothing was asked.
LEMMA HeardInit ==
  ASSUME TurnsInit
  PROVE  HeardInv
<1>1. Ids = {} /\ Unsettled = {} /\ Active = {}
  <2>1. Ids = {}
    BY DEF TurnsInit, Ids
  <2>2. QED
    BY <2>1 DEF Unsettled, Active
<1>2. /\ controller.thread = NoTurn /\ call = NoCall
      /\ \A u \in TurnIds : threads[u] = NoThread
  BY DEF TurnsInit
<1>3. LeaderInv /\ LiveThreadInv /\ ThreadsInv /\ DeliveredInv /\ SubmittedBurstWasHeard
  BY <1>1, <1>2, NoneFacts DEF LeaderInv, LiveThreadInv, ThreadsInv, DeliveredInv, SubmittedBurstWasHeard
<1>4. CallInv /\ SendInv /\ SpawnInv /\ TakenInv
  BY <1>1, <1>2, NoneFacts DEF CallInv, SendInv, SpawnInv, TakenInv
<1>5. QED
  BY <1>3, <1>4 DEF HeardInv

\* What a submitted turn and its burst say has reached the live thread, which is
\* to answer it, however answers to sends and spawns are lost, unless that thread
\* is a retired one that the turn has adopted again (bb-controller.ts).
THEOREM SubmittedBurstsWereHeard == TurnsSpec => []SubmittedBurstWasHeard
<1>1. TurnsInit => Good
  BY ServingInit, HeardInit DEF Good
<1>2. Good /\ [TurnsNext]_turnVars => Good'
  <2> SUFFICES ASSUME Good, [TurnsNext]_turnVars PROVE Good'
    OBVIOUS
  <2>1. TypesInv' /\ TurnsKept /\ Serving'
    BY TypesStep, ServingStep DEF Good
  <2>2. HeardInv'
    BY <2>1, HeardStep
  <2>3. QED
    BY <2>1, <2>2 DEF Good
<1>3. Good => SubmittedBurstWasHeard
  BY DEF Good, HeardInv
<1>4. QED
  BY <1>1, <1>2, <1>3, PTL DEF TurnsSpec

-----------------------------------------------------------------------------
(* What was said before is marked: the words of a turn that no steer ever    *)
(* carried are new to every thread but those the turn itself was handed to.  *)

\* What marked turns say
Marked == {turns[t].says : t \in {u \in Ids : turns[u].source # NoTurn}}
\* What a steer under way reserves
ReservedWords == IF reservation = NoTurn THEN {} ELSE {turns[u].says : u \in Reserved}
\* What a turn says that is neither marked nor reserved
Fresh(u) == Words(u) \ (Marked \cup ReservedWords)

\* Only messages that were sent are spoken of.
WordsInv ==
    /\ \A t \in Ids : turns[t].leader \in Ids \cup {NoTurn} /\ turns[t].steerText \subseteq Ids
    /\ \A T \in TurnIds : threads[T].heard \subseteq Ids
    /\ call.words \subseteq Ids

\* Fresh words are unheard: by the threads of other turns, but for the live
\* thread that was sent them; by what steers carry; and by a send under way,
\* as far as turns that still wait are concerned.
FreshInv ==
    /\ \A T \in TurnIds : \A u \in Unsettled \ {T} :
          u \in Waiting \/ T # controller.thread => threads[T].heard \cap Fresh(u) = {}
    /\ \A t \in Ids : \A u \in Unsettled : turns[t].steerText \cap Fresh(u) = {}
    /\ call.status # "none" /\ call.kind = "steer" => \A u \in Unsettled : call.words \cap Fresh(u) = {}
    /\ call.status = "open" /\ call.kind = "send" => \A u \in Waiting : call.words \cap Fresh(u) = {}
    /\ call.kind \in {"none", "correction"} => call.words = {}

\* The inductive part behind RepeatsAreMarked
RepeatInv == WordsInv /\ FreshInv /\ RepeatsAreMarked

\* A word that is not marked is said by one turn, of the same number.
LEMMA FreshWords ==
  ASSUME TypesInv, NEW u \in Ids, NEW m \in Words(u), m \notin Marked
  PROVE  m \in Ids /\ turns[m].says = m /\ (m = u \/ turns[m].leader = u)
<1>1. PICK x \in Burst(u) : turns[x].says = m
  BY DEF Words
<1>2. x \in Ids /\ (x = u \/ turns[x].leader = u)
  BY <1>1 DEF Burst
<1>3. turns[x].source = NoTurn
  BY <1>1, <1>2 DEF Marked
<1>4. turns[x].says = x
  BY <1>2, <1>3 DEF TypesInv, SaysInv
<1>5. QED
  BY <1>1, <1>2, <1>4

\* What is fresh of one turn is no word of another.
LEMMA FreshApart ==
  ASSUME TypesInv, LeaderInv, NEW u \in Unsettled, NEW v \in Unsettled, u # v
  PROVE  Fresh(u) \cap Words(v) = {}
<1> SUFFICES ASSUME NEW m \in Fresh(u), m \in Words(v) PROVE FALSE
  OBVIOUS
<1>1. m \in Words(u) /\ m \notin Marked /\ m \notin ReservedWords /\ u \in Ids /\ v \in Ids
  BY GoodFacts DEF Fresh
<1>2. m \in Ids /\ turns[m].says = m /\ (m = u \/ turns[m].leader = u) /\ (m = v \/ turns[m].leader = v)
  BY <1>1, FreshWords
<1>3. m \in {u, v} /\ turns[m].leader \in {u, v} /\ turns[m].leader # NoTurn /\ m \in Unsettled
  BY <1>1, <1>2, GoodFacts
<1>4. m \in Queued /\ reservation # NoTurn /\ turns[m].leader = reservation
  BY <1>1, <1>3 DEF LeaderInv, Queued
<1>5. m \in Reserved
  BY <1>4 DEF Reserved
<1>6. QED
  BY <1>1, <1>2, <1>4, <1>5 DEF ReservedWords

\* The words of turns are numbers of turns.
LEMMA WordsAreIds ==
  ASSUME TypesInv, NEW t \in Ids
  PROVE  Words(t) \subseteq Ids
<1>1. ASSUME NEW x \in Ids PROVE turns[x].says \in Ids
  <2>1. turns[x].says \in 1 .. x /\ Ids = 1 .. Len(turns) /\ Len(turns) \in Nat
    BY TurnsHaveRows DEF TypesInv, SaysInv
  <2>2. QED
    BY <2>1
<1>2. QED
  BY <1>1 DEF Words, Burst

\* Steps that hand no words to a thread, and under which what is fresh was so before.
LEMMA RepeatKeeps ==
  ASSUME Good, RepeatInv, Ids \subseteq Ids', Marked \subseteq Marked',
         \A u \in Ids' : /\ turns'[u].leader \in Ids' \cup {NoTurn}
                         /\ \/ turns'[u].steerText = {}
                            \/ u \in Ids /\ turns'[u].steerText \subseteq turns[u].steerText,
         \A T \in TurnIds : threads'[T].heard \subseteq threads[T].heard,
         \A u \in Unsettled' : \A m \in Fresh(u)' : \E v \in Unsettled : m \in Fresh(v),
         \A T \in TurnIds : \A u \in Unsettled' \ {T} : \A m \in Fresh(u)' :
             threads'[T].heard # {} /\ (u \in Waiting' \/ T # controller'.thread) =>
                 \E v \in Unsettled \ {T} : m \in Fresh(v) /\ (v \in Waiting \/ T # controller.thread),
         \/ call' = call /\ (call.status = "open" /\ call.kind = "send" =>
                                \A u \in Waiting' : u \in Waiting /\ Fresh(u)' \subseteq Fresh(u))
         \/ call'.words = {}
         \/ call'.kind = "spawn" /\ call'.words \subseteq Ids
  PROVE  RepeatInv'
<1>0. TypesInv /\ HeardInv /\ WordsInv /\ FreshInv /\ RepeatsAreMarked
  BY DEF Good, RepeatInv
<1> USE <1>0
<1>1. WordsInv'
  BY DEF WordsInv
<1>2. FreshInv'
  <2>1. \A T \in TurnIds : \A u \in Unsettled' \ {T} :
          u \in Waiting' \/ T # controller'.thread => threads'[T].heard \cap Fresh(u)' = {}
    <3>1. SUFFICES ASSUME NEW T \in TurnIds, NEW u \in Unsettled' \ {T}, u \in Waiting' \/ T # controller'.thread,
                          NEW m \in Fresh(u)', m \in threads'[T].heard
                   PROVE  FALSE
      OBVIOUS
    <3>2. PICK v \in Unsettled \ {T} : m \in Fresh(v) /\ (v \in Waiting \/ T # controller.thread)
      BY <3>1
    <3>3. m \in threads[T].heard
      BY <3>1
    <3>4. QED
      BY <3>2, <3>3 DEF FreshInv
  <2>2. \A t \in Ids' : \A u \in Unsettled' : turns'[t].steerText \cap Fresh(u)' = {}
    <3>1. SUFFICES ASSUME NEW t \in Ids', NEW u \in Unsettled', NEW m \in Fresh(u)', m \in turns'[t].steerText
                   PROVE  FALSE
      OBVIOUS
    <3>2. PICK v \in Unsettled : m \in Fresh(v)
      BY <3>1
    <3>3. t \in Ids /\ m \in turns[t].steerText
      BY <3>1
    <3>4. QED
      BY <3>2, <3>3 DEF FreshInv
  <2>3. call'.status # "none" /\ call'.kind = "steer" => \A u \in Unsettled' : call'.words \cap Fresh(u)' = {}
    <3>1. SUFFICES ASSUME call'.status # "none", call'.kind = "steer",
                          NEW u \in Unsettled', NEW m \in Fresh(u)', m \in call'.words
                   PROVE  FALSE
      OBVIOUS
    <3>2. PICK v \in Unsettled : m \in Fresh(v)
      BY <3>1
    <3>3. call' = call
      BY <3>1
    <3>4. QED
      BY <3>1, <3>2, <3>3 DEF FreshInv
  <2>4. call'.status = "open" /\ call'.kind = "send" => \A u \in Waiting' : call'.words \cap Fresh(u)' = {}
    BY DEF FreshInv
  <2>5. call'.kind \in {"none", "correction"} => call'.words = {}
    BY DEF FreshInv
  <2>6. QED
    BY <2>1, <2>2, <2>3, <2>4, <2>5 DEF FreshInv
<1>3. RepeatsAreMarked'
  <2>1. SUFFICES ASSUME call'.kind = "send", call'.status = "open",
                        NEW m \in call'.words \cap threads'[call'.thread].heard
                 PROVE  m \in Marked'
    BY DEF RepeatsAreMarked, Marked
  <2>2. call' = call
    BY <2>1
  <2>3. call.thread \in TurnIds
    BY <2>1, <2>2, GoodFacts DEF HeardInv, CallInv
  <2>4. m \in call.words \cap threads[call.thread].heard
    BY <2>1, <2>2, <2>3
  <2>5. m \in Marked
    BY <2>1, <2>2, <2>4 DEF RepeatsAreMarked, Marked
  <2>6. QED
    BY <2>5
<1>4. QED
  BY <1>1, <1>2, <1>3 DEF RepeatInv

\* Fresh words stay what they are under steps that move no turn to another one.
LEMMA FreshStays ==
  ASSUME SameTurns, \A u \in Ids : turns'[u].leader = turns[u].leader /\ turns'[u].source = turns[u].source,
         \/ reservation = NoTurn /\ reservation' = NoTurn
         \/ turns' = turns /\ reservation' = reservation
  PROVE  Marked' = Marked /\ \A u \in Ids : Fresh(u)' = Fresh(u)
<1>1. \A u \in Ids : Words(u)' = Words(u)
  BY WordsStay
<1>2. Marked' = Marked
  BY DEF Marked, SameTurns
<1>3. ReservedWords' = ReservedWords
  <2>1. CASE reservation = NoTurn /\ reservation' = NoTurn
    BY <2>1 DEF ReservedWords
  <2>2. CASE turns' = turns /\ reservation' = reservation
    <3>1. Reserved' = Reserved
      BY <2>2 DEF Reserved, Queued, SameTurns
    <3>2. QED
      BY <2>2, <3>1 DEF ReservedWords
  <2>3. QED
    BY <2>1, <2>2
<1>4. QED
  BY <1>1, <1>2, <1>3 DEF Fresh

\* Under a step that hands no words on, what is fresh stays unheard: no turn
\* gets new words, no thread hears more, and no thread becomes a stranger to its turn.
LEMMA RepeatStays ==
  ASSUME Good, RepeatInv, SameTurns,
         \A u \in Ids : /\ turns'[u].leader = turns[u].leader /\ turns'[u].source = turns[u].source
                        /\ turns'[u].steerText \subseteq turns[u].steerText,
         \/ reservation = NoTurn /\ reservation' = NoTurn
         \/ turns' = turns /\ reservation' = reservation,
         Unsettled' \subseteq Unsettled,
         \A T \in TurnIds : threads'[T].heard \subseteq threads[T].heard,
         \A T \in TurnIds : \A u \in Unsettled' \ {T} :
             threads'[T].heard # {} /\ (u \in Waiting' \/ T # controller'.thread) =>
                 u \in Waiting \/ T # controller.thread,
         \/ call' = call /\ (call.status = "open" /\ call.kind = "send" => Waiting' \subseteq Waiting)
         \/ call'.words = {}
         \/ call'.kind = "spawn" /\ call'.words \subseteq Ids
  PROVE  RepeatInv'
<1>1. Marked' = Marked /\ \A u \in Ids : Fresh(u)' = Fresh(u)
  BY FreshStays
<1>2. Ids' = Ids /\ Unsettled \subseteq Ids /\ Waiting' \subseteq Unsettled'
  BY GoodFacts DEF SameTurns, Good, Waiting
<1>3. \A u \in Ids' : turns'[u].leader \in Ids' \cup {NoTurn}
  BY <1>2 DEF RepeatInv, WordsInv
<1>4. \A u \in Unsettled' : Fresh(u)' = Fresh(u) /\ u \in Unsettled
  BY <1>1, <1>2
<1>5. QED
  BY <1>1, <1>2, <1>3, <1>4, RepeatKeeps

\* The call ends, and nothing else that matters here.
LEMMA RepeatQuietSteps ==
  ASSUME Good, RepeatInv,
         \/ (\E t \in TurnIds : \/ AcceptFinalization(t) \/ AdoptSubmittedFence(t)
                                \/ ReconciliationPending(t) \/ CallThrows(t)
                                \/ RecoverStaleDispatch(t) /\ delivery.state # "none"
                                \/ \E status \in {"idle", "error"} : ThreadStops(t, status))
         \/ Restart \/ CallDrops \/ UNCHANGED turnVars
  PROVE  RepeatInv'
<1>0. TypesInv /\ Serving /\ HeardInv /\ RestTypeOK
  BY GoodFacts DEF Good
<1> USE <1>0
<1> DEFINE Rest == /\ turns' = turns /\ UNCHANGED <<controller, reservation>>
                   /\ \A T \in TurnIds : threads'[T].heard = threads[T].heard
                   /\ delivery.state # "none" => delivery'.state # "none"
                   /\ call' \in {call, NoCall}
<1>1. ASSUME Rest PROVE RepeatInv'
  <2>1. /\ SameTurns /\ Unsettled' = Unsettled /\ Waiting' \subseteq Waiting
        /\ \A u \in Ids : turns'[u] = turns[u]
    BY <1>1, TableStays DEF Waiting
  <2>2. \/ call' = call /\ (call.status = "open" /\ call.kind = "send" => Waiting' \subseteq Waiting)
        \/ call'.words = {}
    BY <1>1, <2>1, NoneFacts
  <2>3. \A T \in TurnIds : \A u \in Unsettled' \ {T} :
             threads'[T].heard # {} /\ (u \in Waiting' \/ T # controller'.thread) =>
                 u \in Waiting \/ T # controller.thread
    BY <1>1, <2>1
  <2>4. QED
    BY <1>1, <2>1, <2>2, <2>3, RepeatStays
<1>2. ASSUME NEW t \in TurnIds, AcceptFinalization(t) \/ AdoptSubmittedFence(t) PROVE Rest
  BY <1>2 DEF AcceptFinalization, AdoptSubmittedFence, bbVars
<1>3. ASSUME NEW t \in TurnIds, ReconciliationPending(t) PROVE Rest
  <2>1. /\ delivery' = [delivery EXCEPT !.attempts = delivery.attempts + 1]
        /\ UNCHANGED <<turns, controller, threads, reservation, call>>
    BY <1>3 DEF ReconciliationPending, bbVars
  <2>2. QED
    BY <2>1 DEF RestTypeOK
<1>4. ASSUME NEW t \in TurnIds, CallThrows(t) PROVE Rest
  <2>1. /\ delivery' = [delivery EXCEPT !.state = "unknown"]
        /\ UNCHANGED <<turns, controller, threads, reservation>> /\ call' \in {call, NoCall}
    BY <1>4 DEF CallThrows, Unawaited
  <2>2. QED
    BY <2>1 DEF RestTypeOK
<1>5. ASSUME NEW t \in TurnIds, RecoverStaleDispatch(t), delivery.state # "none" PROVE Rest
  <2>1. /\ delivery' = [delivery EXCEPT !.state = "unknown"]
        /\ UNCHANGED <<turns, controller, threads, reservation, call>>
    BY <1>5 DEF RecoverStaleDispatch, bbVars
  <2>2. QED
    BY <2>1 DEF RestTypeOK
<1>6. ASSUME NEW t \in TurnIds, NEW status \in {"idle", "error"}, ThreadStops(t, status) PROVE Rest
  <2>1. /\ threads' = [threads EXCEPT ![t].status = status]
        /\ UNCHANGED <<turns, controller, delivery, reservation, call>>
    BY <1>6 DEF ThreadStops, dispatchVars
  <2>2. \A T \in TurnIds : threads'[T].heard = threads[T].heard
    BY <2>1 DEF RestTypeOK
  <2>3. QED
    BY <2>1, <2>2
<1>7. CASE Restart
  <2>1. Rest
    BY <1>7 DEF Restart, Unawaited
  <2>2. QED
    BY <1>1, <2>1
<1>8. CASE CallDrops
  <2>1. Rest
    BY <1>8 DEF CallDrops, dispatchVars
  <2>2. QED
    BY <1>1, <2>1
<1>9. CASE UNCHANGED turnVars
  <2>1. Rest
    BY <1>9 DEF turnVars, dispatchVars, bbVars
  <2>2. QED
    BY <1>1, <2>1
<1> HIDE DEF Rest
<1>10. QED
  BY <1>1, <1>2, <1>3, <1>4, <1>5, <1>6, <1>7, <1>8, <1>9

\* One turn changes its state: what that asks of the threads and of the call.
LEMMA RepeatOneRow ==
  ASSUME Good, TypesInv', RepeatInv, NEW t \in Active, NEW state \in {"queued", "submitted", "completed", "failed"},
         OneRow(t, state), reservation = NoTurn, reservation' = NoTurn,
         \A T \in TurnIds : threads'[T] = threads[T] \/ threads'[T] = NoThread,
         \/ controller'.thread = controller.thread /\ (state = "queued" => t \in Waiting)
         \/ /\ controller'.thread = NoTurn /\ controller.thread # NoTurn
            /\ controller.thread \notin Unsettled' => threads'[controller.thread] = NoThread,
         \/ call' = call /\ (call.status = "open" /\ call.kind = "send" => state # "queued" \/ t \in Waiting)
         \/ call'.words = {}
  PROVE  RepeatInv'
<1>0. TypesInv /\ Serving /\ HeardInv /\ RestTypeOK
  BY GoodFacts DEF Good
<1> USE <1>0
<1>1. /\ Active = {t} /\ t \in Ids /\ t \in Unsettled /\ Ids' = Ids /\ SameTurns
      /\ \A u \in Ids : /\ turns'[u].leader = turns[u].leader /\ turns'[u].source = turns[u].source
                        /\ turns'[u].steerText \subseteq turns[u].steerText
      /\ \A u \in Ids \ {t} : turns'[u] = turns[u]
      /\ turns'[t].state = state
  BY ServedTurn, GoodFacts DEF OneRow, SameTurns
<1>2. Unsettled' \subseteq Unsettled
  BY <1>1 DEF Unsettled
<1>3. /\ \A u \in Unsettled' \ {t} : u \in Waiting
      /\ t \in Waiting' => state = "queued"
      /\ Waiting' \subseteq Unsettled'
  BY <1>1, <1>2, GoodFacts DEF Waiting
<1>4. \A T \in TurnIds : threads'[T].heard \subseteq threads[T].heard
  BY NoneFacts
<1>5. ASSUME NEW T \in TurnIds, NEW u \in Unsettled' \ {T}, threads'[T].heard # {},
             u \in Waiting' \/ T # controller'.thread
      PROVE  u \in Waiting \/ T # controller.thread
  <2>1. CASE u # t
    BY <1>3, <2>1
  <2>2. CASE u = t /\ controller'.thread = controller.thread /\ (state = "queued" => t \in Waiting)
    BY <1>3, <1>5, <2>2
  <2>3. CASE /\ u = t /\ controller.thread # NoTurn
             /\ controller.thread \notin Unsettled' => threads'[controller.thread] = NoThread
    <3>1. controller.thread \notin Waiting
      BY <2>3 DEF HeardInv, LiveThreadInv
    <3>2. controller.thread \in Unsettled' => controller.thread = t
      BY <1>3, <3>1
    <3>3. threads'[controller.thread].heard = {} \/ controller.thread = t
      BY <2>3, <3>2, NoneFacts
    <3>4. QED
      BY <1>5, <2>3, <3>3
  <2>4. QED
    BY <2>1, <2>2, <2>3
<1>6. \/ call' = call /\ (call.status = "open" /\ call.kind = "send" => Waiting' \subseteq Waiting)
      \/ call'.words = {}
  BY <1>3
<1>7. QED
  BY <1>1, <1>2, <1>4, <1>5, <1>6, RepeatStays

\* The turn served is settled, or goes back to the queue.
LEMMA RepeatEndSteps ==
  ASSUME Good, TypesInv', RepeatInv, NEW t \in TurnIds,
         \/ (\E backoff \in BOOLEAN : RequeueTurn(t, backoff))
         \/ RecoverStaleDispatch(t) /\ delivery.state = "none"
         \/ DeliveryUnresolved(t) \/ CompleteAccepted(t)
         \/ BeginControllerRecovery(t) \/ FailAndRetire(t, FALSE)
  PROVE  RepeatInv'
<1>0. TypesInv /\ Serving /\ HeardInv /\ RestTypeOK
  BY GoodFacts DEF Good
<1> USE <1>0
<1>1. CASE (\E backoff \in BOOLEAN : RequeueTurn(t, backoff)) \/ (RecoverStaleDispatch(t) /\ delivery.state = "none")
  <2>1. OneRow(t, "queued")
    BY <1>1, OneRowSteps
  <2>2. /\ t \in Active /\ turns[t].state = "dispatching" /\ delivery.state = "none"
        /\ UNCHANGED <<reservation, call, threads>> /\ controller' = WithoutToken(t)
    BY <1>1 DEF RequeueTurn, RecoverStaleDispatch, Claimed, Pending, bbVars, dispatchVars
  <2>3. reservation = NoTurn /\ t \in Waiting
    BY <2>2, ServedTurn DEF Dispatching, Waiting, Unsettled, Active
  <2>4. controller'.thread = controller.thread
    BY <2>2 DEF WithoutToken, RestTypeOK
  <2>5. QED
    BY <2>1, <2>2, <2>3, <2>4, RepeatOneRow
<1>2. CASE DeliveryUnresolved(t)
  <2>1. OneRow(t, "failed")
    BY <1>2, OneRowSteps
  <2>2. /\ t \in Active /\ turns[t].state = "dispatching" /\ UNCHANGED <<reservation, call>> /\ KeepThreads({})
        /\ controller' = WithoutToken(t)
    BY <1>2 DEF DeliveryUnresolved, Unreconciled, Pending
  <2>3. reservation = NoTurn
    BY <2>2, ServedTurn DEF Dispatching
  <2>4. controller'.thread = controller.thread
    BY <2>2 DEF WithoutToken, RestTypeOK
  <2>5. \A u \in TurnIds : threads'[u] = threads[u] \/ threads'[u] = NoThread
    BY <2>2, KeptThreads
  <2>6. QED
    BY <2>1, <2>2, <2>3, <2>4, <2>5, RepeatOneRow
<1>3. CASE CompleteAccepted(t)
  <2>1. OneRow(t, "completed")
    BY <1>3, OneRowSteps
  <2>2. /\ t \in Active /\ turns[t].state = "submitted" /\ accepted
        /\ UNCHANGED <<controller, reservation, call>> /\ KeepThreads({})
    BY <1>3 DEF CompleteAccepted, Submitted, Active
  <2>3. reservation = NoTurn
    BY <2>2, ServedTurn DEF Answering
  <2>4. \A u \in TurnIds : threads'[u] = threads[u] \/ threads'[u] = NoThread
    BY <2>2, KeptThreads
  <2>5. QED
    BY <2>1, <2>2, <2>3, <2>4, RepeatOneRow
<1>4. ASSUME BeginControllerRecovery(t) \/ FailAndRetire(t, FALSE)
      PROVE  /\ t \in Active /\ turns[t].state = "submitted" /\ reservation = NoTurn /\ reservation' = NoTurn
             /\ controller.thread # NoTurn /\ controller'.thread = NoTurn
             /\ \A T \in TurnIds : threads'[T] = threads[T] \/ threads'[T] = NoThread
             /\ controller.thread \notin Unsettled' => threads'[controller.thread] = NoThread
             /\ call' \in {call, NoCall} /\ ~(call.status = "open" /\ call.kind = "send")
  <2>1. t \in Active /\ turns[t].state = "submitted" /\ reservation = NoTurn /\ controller.thread # NoTurn
    BY <1>4, RetiresLiveThread DEF Answering
  <2>2. /\ reservation' = reservation /\ KeepThreads({controller.thread}) /\ controller'.thread = NoTurn
        /\ call' \in {call, NoCall}
    BY <1>4 DEF BeginControllerRecovery, FailAndRetire, RetireThread, Unawaited, dispatchVars
  <2>3. controller.thread \in TurnIds
    BY <2>1, GoodFacts DEF HeardInv, LiveThreadInv
  <2>4. /\ \A u \in TurnIds : threads'[u] = threads[u] \/ threads'[u] = NoThread
        /\ \A u \in TurnIds : u \notin Unsettled' /\ u # controller'.thread => threads'[u] = NoThread
    BY <2>2, KeptThreads
  <2>5. ~(call.status = "open" /\ call.kind = "send")
    BY <2>1 DEF HeardInv, SendInv
  <2>6. QED
    BY <2>1, <2>2, <2>3, <2>4, <2>5
<1>5. CASE BeginControllerRecovery(t)
  <2>1. OneRow(t, "queued")
    BY <1>5, OneRowSteps
  <2>2. QED
    BY <1>4, <1>5, <2>1, RepeatOneRow, NoneFacts
<1>6. CASE FailAndRetire(t, FALSE)
  <2>1. OneRow(t, "failed")
    BY <1>6, OneRowSteps
  <2>2. QED
    BY <1>4, <1>6, <2>1, RepeatOneRow, NoneFacts
<1>7. QED
  BY <1>1, <1>2, <1>3, <1>5, <1>6

\* The turn served is submitted to the live thread.
LEMMA RepeatSubmitSteps ==
  ASSUME Good, TypesInv', RepeatInv, NEW t \in TurnIds,
         \/ CallReturns(t) /\ call.kind # "spawn"
         \/ MarkSubmitted(t) \/ ReconcileUnknownSend(t) \/ RequestCompletionContinuation(t)
  PROVE  RepeatInv'
<1>0. TypesInv /\ Serving /\ HeardInv /\ RestTypeOK
  BY GoodFacts DEF Good
<1> USE <1>0
<1>1. OneRow(t, "submitted")
  BY OneRowSteps
<1>2. /\ t \in Active /\ UNCHANGED <<controller, threads, reservation>>
      /\ call' = call \/ call'.words = {}
  <2>1. CASE CallReturns(t) /\ call.kind # "spawn"
    BY <2>1, NoneFacts DEF CallReturns, Answered, Unawaited
  <2>2. CASE MarkSubmitted(t)
    BY <2>2 DEF MarkSubmitted, Pending, bbVars
  <2>3. CASE ReconcileUnknownSend(t)
    BY <2>3 DEF ReconcileUnknownSend, Pending, bbVars
  <2>4. CASE RequestCompletionContinuation(t)
    BY <2>4 DEF RequestCompletionContinuation, Running, Pending, Call
  <2>5. QED
    BY <2>1, <2>2, <2>3, <2>4
<1>3. reservation = NoTurn
  <2>1. CASE CallReturns(t) /\ call.kind # "spawn"
    <3>1. delivery # Settled
      BY <2>1, NoneFacts DEF CallReturns, Answered, Serving, CallFits
    <3>2. QED
      BY <1>2, <3>1, ServedTurn DEF Dispatching, Answering
  <2>2. CASE MarkSubmitted(t)
    BY <1>2, <2>2, ServedTurn DEF MarkSubmitted, Dispatching
  <2>3. CASE ReconcileUnknownSend(t)
    <3>1. delivery # Settled
      BY <2>3, NoneFacts DEF ReconcileUnknownSend, Pending
    <3>2. QED
      BY <1>2, <3>1, ServedTurn DEF Dispatching, Answering
  <2>4. CASE RequestCompletionContinuation(t)
    BY <2>4 DEF RequestCompletionContinuation, Running
  <2>5. QED
    BY <2>1, <2>2, <2>3, <2>4
<1>4. QED
  BY <1>1, <1>2, <1>3, RepeatOneRow

\* A reset drops the live thread.
LEMMA RepeatReset ==
  ASSUME Good, TypesInv', RepeatInv, ResetControllerThread
  PROVE  RepeatInv'
<1>0. TypesInv /\ Serving /\ HeardInv /\ RestTypeOK
  BY GoodFacts DEF Good
<1> USE <1>0
<1>1. /\ turns' = turns /\ KeepThreads({controller.thread}) /\ UNCHANGED <<delivery, reservation, call>>
      /\ Active = {} \/ (\E t \in Active : Claimed(t))
  BY DEF ResetControllerThread, dispatchVars
<1>2. Unsettled \subseteq Waiting
  <2>1. ASSUME NEW t \in Active PROVE delivery.state = "none" /\ turns[t].state = "dispatching"
    BY <1>1, <2>1, ServedTurn DEF Claimed, Pending
  <2>2. QED
    BY <2>1, GoodFacts DEF Waiting
<1>3. SameTurns /\ Unsettled' = Unsettled /\ Waiting' = Waiting /\ \A u \in Ids : turns'[u] = turns[u]
  BY <1>1, TableStays DEF Waiting
<1>4. \A T \in TurnIds : threads'[T].heard \subseteq threads[T].heard
  <2>1. \A u \in TurnIds : threads'[u] = threads[u] \/ threads'[u] = NoThread
    BY <1>1, KeptThreads
  <2>2. QED
    BY <2>1, NoneFacts
<1>5. \A u \in Unsettled' : u \in Waiting
  BY <1>2, <1>3
<1>6. QED
  BY <1>1, <1>3, <1>4, <1>5, RepeatStays

\* A dispatch carries the words of its own turn, and a new thread is its own.
LEMMA RepeatDispatch ==
  ASSUME Good, TypesInv', RepeatInv, NEW t \in TurnIds,
         Dispatch(t) \/ (CallReturns(t) /\ call.kind = "spawn")
  PROVE  RepeatInv'
<1>0. TypesInv /\ Serving /\ HeardInv /\ RestTypeOK
  BY GoodFacts DEF Good
<1> USE <1>0
<1>1. /\ turns' = turns /\ UNCHANGED <<threads, reservation>> /\ t \in Active
      /\ delivery.state # "none" => delivery'.state # "none"
      /\ controller'.thread \in {t, controller.thread}
  <2>1. CASE SendTurn(t) \/ SpawnTurn(t)
    BY <2>1, NoneFacts DEF SendTurn, SpawnTurn, Claimed, Pending, DispatchKinds
  <2>2. CASE AdoptThread(t)
    BY <2>2 DEF AdoptThread, bbVars
  <2>3. CASE CallReturns(t) /\ call.kind = "spawn"
    <3>1. /\ t \in Active /\ controller' = [thread |-> t, token |-> NoTurn]
          /\ UNCHANGED <<turns, reservation, threads, delivery>>
      BY <2>3 DEF CallReturns
    <3>2. QED
      BY <3>1
  <2>4. QED
    BY <2>1, <2>2, <2>3 DEF Dispatch
<1>2. /\ SameTurns /\ Ids' = Ids /\ Unsettled' = Unsettled /\ Waiting' \subseteq Waiting /\ t \in Ids
      /\ \A u \in Ids : turns'[u] = turns[u]
  BY <1>1, TableStays DEF Waiting
<1>3. \A u \in Ids : Fresh(u)' = Fresh(u)
  BY <1>1, <1>2, FreshStays
<1>4. CASE ~SendTurn(t)
  <2>1. controller.thread \in {NoTurn, t} \/ controller' = controller
    <3>1. CASE SpawnTurn(t) \/ AdoptThread(t)
      BY <3>1 DEF SpawnTurn, AdoptThread, MaySpawn
    <3>2. CASE CallReturns(t) /\ call.kind = "spawn"
      <4>1. delivery.kind = "spawn" /\ delivery.state = "intent"
        BY <3>2 DEF CallReturns, Answered, Serving, CallFits
      <4>2. Dispatching(t)
        BY <1>1, <4>1, ServedTurn, NoneFacts DEF Answering
      <4>3. QED
        BY <4>1, <4>2, NoneFacts DEF Dispatching
    <3>3. QED
      BY <1>4, <3>1, <3>2 DEF Dispatch
  <2>2. \A T \in TurnIds : T # controller'.thread => T # controller.thread
    BY <1>1, <2>1, GoodFacts
  <2>3. \/ call' = call
        \/ call'.words = {}
        \/ call'.kind = "spawn" /\ call'.words \subseteq Ids
    <3>1. CASE SpawnTurn(t)
      BY <1>2, <3>1, WordsAreIds DEF SpawnTurn, Call
    <3>2. CASE AdoptThread(t)
      BY <3>2 DEF AdoptThread, bbVars
    <3>3. CASE CallReturns(t) /\ call.kind = "spawn"
      BY <3>3, NoneFacts DEF CallReturns, Answered, Unawaited
    <3>4. QED
      BY <1>4, <3>1, <3>2, <3>3 DEF Dispatch
  <2>4. QED
    BY <1>1, <1>2, <2>2, <2>3, RepeatStays
<1>5. CASE SendTurn(t)
  <2>1. /\ controller' = controller /\ reservation' = reservation
        /\ turns[t].state = "dispatching" /\ delivery.state = "none" /\ delivery'.state = "intent"
        /\ call'.kind = "send" /\ call'.status = "open" /\ call'.thread = controller.thread
        /\ call'.words = Words(t) /\ controller.thread # NoTurn
    BY <1>5, NoneFacts DEF SendTurn, Call, Claimed, Pending, DispatchKinds
  <2>2. Active = {t} /\ t \in Unsettled /\ t \in Waiting /\ reservation = NoTurn
    <3>1. Active = {t} /\ Dispatching(t) /\ t \in Unsettled
      BY <1>1, <2>1, ServedTurn, GoodFacts
    <3>2. QED
      BY <2>1, <3>1 DEF Dispatching, Waiting
  <2>3. controller.thread # t /\ controller.thread \in TurnIds
    BY <2>1, <2>2, GoodFacts DEF HeardInv, LiveThreadInv
  <2>4. Words(t) \cap threads[controller.thread].heard \subseteq Marked
    <3>1. threads[controller.thread].heard \cap Fresh(t) = {}
      BY <2>2, <2>3 DEF RepeatInv, FreshInv
    <3>2. ReservedWords = {}
      BY <2>2 DEF ReservedWords
    <3>3. QED
      BY <3>1, <3>2 DEF Fresh
  <2>5. WordsInv'
    <3>1. Words(t) \subseteq Ids
      BY <1>2, WordsAreIds
    <3>2. QED
      BY <1>1, <1>2, <2>1, <3>1 DEF RepeatInv, WordsInv
  <2>6. \A u \in Waiting' : u # t /\ u \in Unsettled
    <3>1. t \notin Waiting'
      BY <1>1, <2>1 DEF Waiting
    <3>2. QED
      BY <1>2, <3>1 DEF Waiting
  <2>7. FreshInv'
    <3>1. \A u \in Waiting' : Words(t) \cap Fresh(u)' = {}
      <4>1. ASSUME NEW u \in Waiting' PROVE Words(t) \cap Fresh(u)' = {}
        <5>1. u # t /\ u \in Unsettled /\ u \in Ids
          BY <2>6, <4>1, GoodFacts
        <5>2. Fresh(u) \cap Words(t) = {}
          BY <2>2, <5>1, FreshApart DEF HeardInv
        <5>3. QED
          BY <1>3, <5>1, <5>2
      <4>2. QED
        BY <4>1
    <3>2. \A T \in TurnIds : \A u \in Unsettled' \ {T} :
            u \in Waiting' \/ T # controller'.thread => threads'[T].heard \cap Fresh(u)' = {}
      BY <1>1, <1>2, <1>3, <2>1, GoodFacts DEF RepeatInv, FreshInv
    <3>3. \A v \in Ids' : \A u \in Unsettled' : turns'[v].steerText \cap Fresh(u)' = {}
      BY <1>1, <1>2, <1>3, GoodFacts DEF RepeatInv, FreshInv
    <3>4. QED
      BY <2>1, <3>1, <3>2, <3>3 DEF FreshInv
  <2>8. RepeatsAreMarked'
    BY <1>1, <1>2, <2>1, <2>4 DEF RepeatsAreMarked, Marked
  <2>9. QED
    BY <2>5, <2>7, <2>8 DEF RepeatInv
<1>6. QED
  BY <1>4, <1>5

\* A claim gives a turn the words of those that join it, which were as fresh.
LEMMA RepeatClaim ==
  ASSUME Good, TypesInv', RepeatInv, NEW t \in TurnIds, ClaimTurn(t)
  PROVE  RepeatInv'
<1>0. TypesInv /\ Serving /\ HeardInv /\ RestTypeOK
  BY GoodFacts DEF Good
<1> USE <1>0
<1>1. PICK M : ClaimRows(t, M)
  BY ClaimStep
<1>2. /\ Active = {} /\ call = NoCall /\ call' = call /\ t \in Queued /\ KeepThreads({})
      /\ controller'.thread = controller.thread /\ reservation' = reservation
  BY DEF ClaimTurn, RestTypeOK
<1>3. reservation = NoTurn
  <2>1. ASSUME NEW u \in Ids, Dispatching(u) \/ Answering(u) PROVE FALSE
    BY <1>2, <2>1 DEF Dispatching, Answering
  <2>2. QED
    BY <2>1 DEF Serving, Idle
<1>4. /\ Ids' = Ids /\ t \in Ids /\ M \subseteq Ids /\ M \subseteq Queued \ {t} /\ Queued \subseteq Waiting
      /\ Unsettled = Queued /\ Unsettled \subseteq Ids /\ Ids \subseteq TurnIds /\ Queued \subseteq Unsettled
      /\ \A u \in Ids : turns'[u].says = turns[u].says /\ turns'[u].source = turns[u].source
      /\ \A u \in Ids \ M : turns'[u].leader = turns[u].leader
      /\ \A u \in M : turns'[u].leader = t /\ turns'[u].state = "completed"
  <2>1. Ids' = Ids /\ t \in Ids /\ M \subseteq Queued \ {t} /\ Queued \subseteq Ids
    BY <1>1 DEF ClaimRows, SameTurns, Queued
  <2>2. \A u \in Ids : turns'[u].says = turns[u].says /\ turns'[u].source = turns[u].source
    BY <1>1, <2>1 DEF ClaimRows, SameTurns
  <2>3. QED
    BY <1>1, <1>2, <2>1, <2>2, GoodFacts DEF ClaimRows
<1>5. Unsettled' \subseteq Unsettled \ M
  <2>1. SUFFICES ASSUME NEW u \in Unsettled' PROVE u \in Unsettled /\ u \notin M
    OBVIOUS
  <2>2. u \in Ids /\ u \notin M
    BY <1>4 DEF Unsettled
  <2>3. u = t \/ turns'[u] = turns[u]
    BY <1>1, <2>2 DEF ClaimRows
  <2>4. QED
    BY <1>2, <1>4, <2>2, <2>3 DEF Unsettled
<1>6. Marked' = Marked /\ ReservedWords = {} /\ ReservedWords' = {}
  BY <1>2, <1>3, <1>4 DEF Marked, ReservedWords
<1>7. ASSUME NEW u \in Unsettled', NEW m \in Fresh(u)'
      PROVE  \E v \in Unsettled : m \in Fresh(v) /\ (v = u \/ v \in M)
  <2>1. m \notin Marked /\ m \in Words(u)' /\ u \in Ids
    BY <1>4, <1>5, <1>6, <1>7 DEF Fresh
  <2>2. PICK x \in Burst(u)' : turns'[x].says = m
    BY <2>1 DEF Words
  <2>3. x \in Ids /\ turns[x].says = m /\ (x = u \/ turns'[x].leader = u)
    BY <1>4, <2>1, <2>2 DEF Burst
  <2>4. CASE x \in M
    <3>1. m \in Words(x) /\ x \in Unsettled
      BY <1>4, <2>3, <2>4 DEF Words, Burst
    <3>2. QED
      BY <1>6, <2>1, <2>4, <3>1 DEF Fresh
  <2>5. CASE x \notin M
    <3>1. x = u \/ turns[x].leader = u
      BY <1>4, <2>3, <2>5
    <3>2. m \in Words(u)
      BY <2>3, <3>1 DEF Words, Burst
    <3>3. QED
      BY <1>5, <1>6, <2>1, <3>2 DEF Fresh
  <2>6. QED
    BY <2>4, <2>5
<1>8. /\ \A T \in TurnIds : threads'[T] = threads[T] \/ threads'[T] = NoThread
      /\ \A T \in TurnIds : T \notin Unsettled' /\ T # controller'.thread => threads'[T] = NoThread
  BY <1>2, KeptThreads
<1>9. \A T \in TurnIds : threads'[T].heard \subseteq threads[T].heard
  BY <1>8, NoneFacts
<1>10. ASSUME NEW T \in TurnIds, NEW u \in Unsettled' \ {T}, NEW m \in Fresh(u)', threads'[T].heard # {}
       PROVE  \E v \in Unsettled \ {T} : m \in Fresh(v) /\ (v \in Waiting \/ T # controller.thread)
  <2>1. PICK v \in Unsettled : m \in Fresh(v) /\ (v = u \/ v \in M)
    BY <1>7, <1>10
  <2>2. T \notin M
    <3>1. T \in Waiting => T # controller'.thread
      BY <1>2, GoodFacts DEF HeardInv, LiveThreadInv
    <3>2. QED
      BY <1>4, <1>5, <1>8, <1>10, <3>1, NoneFacts
  <2>3. QED
    BY <1>4, <2>1, <2>2
<1>11. \A u \in Ids' : /\ turns'[u].leader \in Ids' \cup {NoTurn}
                       /\ turns'[u].steerText = {} \/ turns'[u].steerText \subseteq turns[u].steerText
  <2>1. \A u \in Ids' : turns'[u].leader \in Ids' \cup {NoTurn}
    BY <1>4 DEF RepeatInv, WordsInv
  <2>2. \A u \in Ids' : turns'[u].steerText = {} \/ turns'[u].steerText \subseteq turns[u].steerText
    BY <1>1, <1>4 DEF ClaimRows
  <2>3. QED
    BY <2>1, <2>2
<1>12. call'.words = {}
  BY <1>2, NoneFacts
<1>13. \A u \in Unsettled' : \A m \in Fresh(u)' : \E v \in Unsettled : m \in Fresh(v)
  BY <1>7
<1>14. QED
  BY <1>4, <1>6, <1>9, <1>10, <1>11, <1>12, <1>13, RepeatKeeps

\* A steer carries words that it takes out of what is fresh.
LEMMA RepeatReserve ==
  ASSUME Good, TypesInv', RepeatInv, NEW t \in TurnIds, NEW w \in TurnIds, ReserveControllerSteer(t, w)
  PROVE  RepeatInv'
<1>0. TypesInv /\ Serving /\ HeardInv /\ RestTypeOK
  BY GoodFacts DEF Good
<1> USE <1>0
<1>1. PICK M : ReserveRows(t, w, M)
  BY ReserveStep
<1>2. /\ delivery' = delivery /\ reservation = NoTurn /\ reservation' = w /\ w # NoTurn
      /\ UNCHANGED <<controller, threads>>
  BY GoodFacts DEF ReserveControllerSteer, Running
<1>3. /\ Ids' = Ids /\ t \in Ids /\ w \in Queued /\ M \subseteq Queued \ {w} /\ t \notin M /\ Queued \subseteq Ids
      /\ \A u \in Ids : /\ turns'[u].state = turns[u].state /\ turns'[u].says = turns[u].says
                        /\ turns'[u].source = turns[u].source
      /\ \A u \in Ids \ M : turns'[u].leader = turns[u].leader
      /\ \A u \in M : turns'[u].leader = w
      /\ \A u \in Ids \ {t} : turns'[u].steerText = turns[u].steerText
      /\ turns'[t].steerText = IF M = {} THEN turns[t].steerText ELSE {turns[u].says : u \in M \cup {w}}
  <2>1. /\ Ids' = Ids /\ t \in Ids /\ w \in Queued /\ M \subseteq Queued \ {w} /\ t \notin M /\ Queued \subseteq Ids
    BY <1>1 DEF ReserveRows, SameTurns, Queued
  <2>2. \A u \in Ids : /\ turns'[u].state = turns[u].state /\ turns'[u].says = turns[u].says
                        /\ turns'[u].source = turns[u].source
    BY <1>1, <2>1 DEF ReserveRows, SameTurns
  <2>3. \A u \in Ids \ {t} : turns'[u].steerText = turns[u].steerText
    BY <1>1, <2>1 DEF ReserveRows
  <2>4. QED
    BY <1>1, <2>1, <2>2, <2>3 DEF ReserveRows
<1>4. /\ Unsettled' = Unsettled /\ Waiting' = Waiting /\ Queued' = Queued
      /\ Unsettled \subseteq Ids /\ Waiting \subseteq Unsettled /\ Queued \subseteq Unsettled
  BY <1>2, <1>3, GoodFacts DEF Unsettled, Waiting, Queued
<1>5. Marked' = Marked /\ ReservedWords = {}
  BY <1>2, <1>3 DEF Marked, ReservedWords
<1> DEFINE steered == {turns[u].says : u \in M \cup {w}}
<1>6. steered \subseteq ReservedWords' /\ steered \subseteq Ids /\ turns[w].says \in steered
  <2>1. \A u \in M \cup {w} : u \in Reserved' /\ u \in Ids /\ turns'[u].says = turns[u].says
    BY <1>2, <1>3, <1>4 DEF Reserved
  <2>2. \A u \in Ids : turns[u].says \in Ids
    <3>1. ASSUME NEW u \in Ids PROVE turns[u].says \in Ids
      <4>1. turns[u].says \in Words(u)
        BY DEF Words, Burst
      <4>2. QED
        BY <4>1, WordsAreIds
    <3>2. QED
      BY <3>1
  <2>3. QED
    BY <1>2, <2>1, <2>2 DEF ReservedWords
<1> HIDE DEF steered
<1>7. ASSUME NEW u \in Unsettled PROVE Fresh(u)' \subseteq Fresh(u)
  <2>1. SUFFICES ASSUME NEW m \in Words(u)', m \notin Marked, m \notin ReservedWords' PROVE m \in Words(u)
    BY <1>5 DEF Fresh
  <2>2. PICK x \in Burst(u)' : turns'[x].says = m
    BY <2>1 DEF Words
  <2>3. x \in Ids /\ turns[x].says = m /\ (x = u \/ turns'[x].leader = u)
    BY <1>3, <1>4, <2>2 DEF Burst
  <2>4. x \notin M
    BY <1>6, <2>1, <2>3 DEF steered
  <2>5. QED
    BY <1>3, <2>3, <2>4 DEF Words, Burst
<1>8. ASSUME NEW u \in Unsettled PROVE Fresh(u)' \cap steered = {}
  BY <1>6 DEF Fresh
<1>9. turns'[t].steerText \subseteq turns[t].steerText \/ turns'[t].steerText = steered
  BY <1>3 DEF steered
<1>10. \/ call' = call /\ call # NoCall
       \/ call'.kind = "steer" /\ (call'.words = turns'[t].steerText \/ call'.words \subseteq steered)
  <2>1. CASE call # NoCall /\ UNCHANGED <<call, awaiting>>
    BY <2>1
  <2>2. CASE Call("steer", controller.thread,
                  IF turns'[t].steerText = {} THEN {turns[w].says} ELSE turns'[t].steerText)
    <3>1. /\ call'.kind = "steer"
          /\ call'.words = IF turns'[t].steerText = {} THEN {turns[w].says} ELSE turns'[t].steerText
      BY <2>2 DEF Call
    <3>2. {turns[w].says} \subseteq steered
      BY <1>6
    <3>3. QED
      BY <3>1, <3>2
  <2>3. QED
    BY <1>1, <2>1, <2>2 DEF ReserveRows
<1>11. turns'[t].steerText \subseteq Ids /\ \A u \in Unsettled : turns'[t].steerText \cap Fresh(u)' = {}
  BY <1>3, <1>6, <1>7, <1>8, <1>9 DEF RepeatInv, WordsInv, FreshInv
<1>12. WordsInv'
  <2>1. call'.words \subseteq Ids
    BY <1>6, <1>10, <1>11 DEF RepeatInv, WordsInv
  <2>2. \A u \in Ids' : turns'[u].leader \in Ids' \cup {NoTurn}
    BY <1>3 DEF RepeatInv, WordsInv
  <2>3. \A u \in Ids' : turns'[u].steerText \subseteq Ids'
    BY <1>3, <1>11 DEF RepeatInv, WordsInv
  <2>4. QED
    BY <1>2, <1>3, <2>1, <2>2, <2>3 DEF RepeatInv, WordsInv
<1>13. FreshInv'
  <2>1. \A T \in TurnIds : \A u \in Unsettled' \ {T} :
            u \in Waiting' \/ T # controller'.thread => threads'[T].heard \cap Fresh(u)' = {}
    BY <1>2, <1>4, <1>7 DEF RepeatInv, FreshInv
  <2>2. \A v \in Ids' : \A u \in Unsettled' : turns'[v].steerText \cap Fresh(u)' = {}
    BY <1>3, <1>4, <1>7, <1>11 DEF RepeatInv, FreshInv
  <2>3. call'.kind = "steer" /\ call'.status # "none" => \A u \in Unsettled' : call'.words \cap Fresh(u)' = {}
    BY <1>4, <1>7, <1>8, <1>10, <1>11 DEF RepeatInv, FreshInv
  <2>4. /\ call'.status = "open" /\ call'.kind = "send" => \A u \in Waiting' : call'.words \cap Fresh(u)' = {}
        /\ call'.kind \in {"none", "correction"} => call'.words = {}
    BY <1>4, <1>7, <1>10 DEF RepeatInv, FreshInv
  <2>5. QED
    BY <2>1, <2>2, <2>3, <2>4 DEF FreshInv
<1>14. RepeatsAreMarked'
  <2>1. RepeatsAreMarked
    BY DEF RepeatInv
  <2>2. call'.kind = "send" => call' = call
    BY <1>10
  <2>3. QED
    BY <1>2, <1>3, <2>1, <2>2 DEF RepeatsAreMarked
<1>15. QED
  BY <1>12, <1>13, <1>14 DEF RepeatInv

\* A steer settles what it reserved, or marks it.
LEMMA RepeatSteer ==
  ASSUME Good, TypesInv', RepeatInv, NEW t \in TurnIds, SteerApplied(t) \/ SteerUnknown(t)
  PROVE  RepeatInv'
<1>0. TypesInv /\ Serving /\ HeardInv /\ RestTypeOK
  BY GoodFacts DEF Good
<1> USE <1>0
<1>1. /\ t \in Ids /\ t # NoTurn /\ reservation' = NoTurn
      /\ delivery' = delivery /\ controller' = controller
      /\ call' \in {call, NoCall}
      /\ reservation # NoTurn => reservation \in Reserved
  <2>1. Submitted(t) /\ t # NoTurn
    BY GoodFacts DEF SteerApplied, SteerUnknown
  <2>2. Answering(t)
    BY <2>1, ServedTurn DEF Submitted, Active
  <2>3. QED
    BY <2>1, <2>2 DEF SteerApplied, SteerUnknown, Unawaited, Submitted, Answering, Reserved
<1>2. /\ Ids' = Ids /\ Reserved \subseteq Queued /\ Reserved \subseteq Ids
      /\ \A u \in Ids \ Reserved : turns'[u] = turns[u]
      /\ \A u \in Ids : /\ turns'[u].says = turns[u].says
                        /\ turns[u].source # NoTurn => turns'[u].source # NoTurn
      /\ \A u \in Ids : turns'[u].steerText = {} \/ turns'[u].steerText = turns[u].steerText
      /\ \A u \in Reserved : turns'[u].leader \in {reservation, NoTurn}
      /\ \/ \A u \in Reserved : /\ turns'[u].state = "completed" /\ turns'[u].leader = reservation
                                /\ turns'[u].source = turns[u].source
         \/ \A u \in Reserved : turns'[u].source # NoTurn /\ turns'[u].state = turns[u].state
  <2>1. Reserved \subseteq Queued /\ Reserved \subseteq Ids
    BY DEF Reserved, Queued
  <2>2. CASE AppliedRows(t)
    BY <1>1, <2>1, <2>2 DEF AppliedRows, SameTurns
  <2>3. CASE UnknownRows(t)
    BY <1>1, <2>1, <2>3 DEF UnknownRows, SameTurns
  <2>4. QED
    BY <2>2, <2>3, SteerSteps
<1>3. Unsettled' \subseteq Unsettled /\ Unsettled \subseteq Ids /\ Waiting' \subseteq Waiting /\ Waiting' \subseteq Unsettled'
  <2>1. Unsettled \subseteq Ids /\ Queued \subseteq Unsettled /\ Queued \subseteq Waiting
    BY GoodFacts
  <2>2. ASSUME NEW u \in Unsettled' PROVE u \in Unsettled /\ (u \in Waiting' => u \in Waiting)
    <3>1. CASE u \in Reserved
      BY <1>2, <2>1, <3>1
    <3>2. CASE u \notin Reserved
      <4>1. u \in Ids /\ turns'[u] = turns[u]
        BY <1>2, <2>2, <3>2 DEF Unsettled
      <4>2. QED
        BY <1>1, <2>2, <4>1 DEF Unsettled, Waiting
    <3>3. QED
      BY <3>1, <3>2
  <2>3. Waiting' \subseteq Unsettled'
    BY DEF Waiting
  <2>4. QED
    BY <2>1, <2>2, <2>3
<1>4. Marked \subseteq Marked'
  BY <1>2 DEF Marked
<1>5. ASSUME NEW u \in Unsettled', NEW m \in Fresh(u)'
      PROVE  m \in Fresh(u)
  <2>1. m \notin Marked' /\ m \notin Marked /\ m \in Words(u)' /\ u \in Ids /\ u # NoTurn
    BY <1>3, <1>4, <1>5, GoodFacts DEF Fresh
  <2>2. PICK x \in Burst(u)' : turns'[x].says = m
    BY <2>1 DEF Words
  <2>3. x \in Ids /\ turns[x].says = m /\ (x = u \/ turns'[x].leader = u) /\ turns'[x].source = NoTurn
    BY <1>2, <2>1, <2>2 DEF Burst, Marked
  <2>4. x \notin Reserved
    <3>1. SUFFICES ASSUME x \in Reserved PROVE FALSE
      OBVIOUS
    <3>2. \A y \in Reserved : turns'[y].state = "completed" /\ turns'[y].leader = reservation
      BY <1>2, <2>3, <3>1
    <3>3. u \notin Reserved
      BY <1>5, <3>2 DEF Unsettled
    <3>4. QED
      BY <1>1, <2>1, <2>3, <3>1, <3>2, <3>3
  <2>5. m \in Words(u)
    BY <1>2, <2>3, <2>4 DEF Words, Burst
  <2>6. m \notin ReservedWords
    <3>1. SUFFICES ASSUME NEW y \in Reserved, turns[y].says = m PROVE FALSE
      BY DEF ReservedWords
    <3>2. turns'[y].source = NoTurn /\ y \in Ids
      BY <1>2, <2>1, <3>1 DEF Marked
    <3>3. turns[y].source = NoTurn /\ turns[x].source = NoTurn
      BY <1>2, <2>3, <3>2
    <3>4. turns[y].says = y /\ turns[x].says = x
      BY <2>3, <3>2, <3>3 DEF TypesInv, SaysInv
    <3>5. QED
      BY <2>3, <2>4, <3>1, <3>4
  <2>7. QED
    BY <2>1, <2>5, <2>6 DEF Fresh
<1>6. \A T \in TurnIds : threads'[T].heard \subseteq threads[T].heard
  <2>1. CASE SteerApplied(t)
    <3>1. KeepThreads({})
      BY <2>1 DEF SteerApplied
    <3>2. \A T \in TurnIds : threads'[T] = threads[T] \/ threads'[T] = NoThread
      BY <3>1, KeptThreads
    <3>3. QED
      BY <3>2, NoneFacts
  <2>2. CASE SteerUnknown(t)
    BY <2>2 DEF SteerUnknown
  <2>3. QED
    BY <2>1, <2>2
<1>7. \A u \in Ids' : /\ turns'[u].leader \in Ids' \cup {NoTurn}
                      /\ turns'[u].steerText = {} \/ turns'[u].steerText \subseteq turns[u].steerText
  <2>1. \A u \in Ids' : turns'[u].leader \in Ids' \cup {NoTurn}
    <3>1. \A u \in Ids : turns[u].leader \in Ids \cup {NoTurn}
      BY DEF RepeatInv, WordsInv
    <3>2. reservation \in Ids \cup {NoTurn}
      BY <1>1, <1>2
    <3>3. QED
      BY <1>2, <3>1, <3>2
  <2>2. \A u \in Ids' : turns'[u].steerText = {} \/ turns'[u].steerText \subseteq turns[u].steerText
    BY <1>2
  <2>3. QED
    BY <2>1, <2>2
<1>8. \/ call' = call /\ (call.status = "open" /\ call.kind = "send" =>
                                \A u \in Waiting' : u \in Waiting /\ Fresh(u)' \subseteq Fresh(u))
      \/ call'.words = {}
  BY <1>1, <1>3, <1>5, NoneFacts
<1>9. \A u \in Unsettled' : \A m \in Fresh(u)' : \E v \in Unsettled : m \in Fresh(v)
  BY <1>3, <1>5
<1>10. \A T \in TurnIds : \A u \in Unsettled' \ {T} : \A m \in Fresh(u)' :
             threads'[T].heard # {} /\ (u \in Waiting' \/ T # controller'.thread) =>
                 \E v \in Unsettled \ {T} : m \in Fresh(v) /\ (v \in Waiting \/ T # controller.thread)
  BY <1>1, <1>3, <1>5
<1>11. QED
  BY <1>2, <1>4, <1>6, <1>7, <1>8, <1>9, <1>10, RepeatKeeps

\* A thread hears what a call carries: words of the turn it is for, or of a
\* steer, and these are fresh of no other turn.
LEMMA RepeatLands ==
  ASSUME Good, TypesInv', RepeatInv, CallLands
  PROVE  RepeatInv'
<1>0. TypesInv /\ Serving /\ HeardInv /\ RestTypeOK /\ WordsInv /\ FreshInv /\ RepeatsAreMarked
  BY GoodFacts DEF Good, RepeatInv
<1> USE <1>0
<1>1. /\ UNCHANGED <<turns, controller, reservation>> /\ call.status = "open"
      /\ call'.status # "open"
      /\ call' = NoCall \/ (call'.kind = call.kind /\ call'.words = call.words)
      /\ delivery'.state = delivery.state
      /\ \A T \in TurnIds \ {call.thread} : threads'[T] = threads[T]
      /\ call.kind # "spawn" => \/ threads' = threads
                                \/ threads'[call.thread].heard = threads[call.thread].heard \cup call.words
      /\ call.kind = "spawn" /\ Active = {} => threads' = threads
      /\ call.kind = "spawn" /\ Active # {} => threads'[call.thread].heard = call.words
  <2>1. call' = NoCall \/ (call'.kind = call.kind /\ call'.words = call.words)
    <3>1. call' = IF awaiting THEN [call EXCEPT !.status = "taken"] ELSE NoCall
      BY LandedRows
    <3>2. [call EXCEPT !.status = "taken"].kind = call.kind /\ [call EXCEPT !.status = "taken"].words = call.words
      BY DEF RestTypeOK
    <3>3. QED
      BY <3>1, <3>2
  <2>2. QED
    BY <2>1, LandedRows
<1>2. /\ SameTurns /\ Ids' = Ids /\ Unsettled' = Unsettled /\ Waiting' = Waiting
      /\ \A u \in Ids : turns'[u] = turns[u]
      /\ Unsettled \subseteq Ids /\ Ids \subseteq TurnIds
  BY <1>1, TableStays DEF Waiting
<1>3. Marked' = Marked /\ \A u \in Ids : Fresh(u)' = Fresh(u)
  BY <1>1, <1>2, FreshStays
<1>4. call'.words = {} \/ (call'.kind = call.kind /\ call'.words = call.words)
  BY <1>1, NoneFacts
<1>5. \A T \in TurnIds : threads'[T].heard \subseteq threads[T].heard \cup call.words
  <2>1. ASSUME NEW T \in TurnIds PROVE threads'[T].heard \subseteq threads[T].heard \cup call.words
    BY <1>1
  <2>2. QED
    BY <2>1
<1>6. WordsInv'
  BY <1>1, <1>2, <1>4, <1>5 DEF WordsInv
<1>7. ASSUME NEW T \in TurnIds, NEW u \in Unsettled \ {T}, u \in Waiting \/ T # controller.thread,
             T = call.thread, threads'[T] # threads[T]
      PROVE  call.words \cap Fresh(u) = {}
  <2>1. CASE call.kind = "send"
    <3>1. CASE u \in Waiting
      BY <1>1, <2>1, <3>1 DEF FreshInv
    <3>2. CASE u \notin Waiting
      <4>1. u \in Active
        BY <3>2, GoodFacts
      <4>2. QED
        BY <1>1, <1>7, <2>1, <3>2, <4>1 DEF HeardInv, SendInv
    <3>3. QED
      BY <3>1, <3>2
  <2>2. CASE call.kind = "spawn"
    <3>1. Active # {}
      BY <1>1, <1>7, <2>2
    <3>2. call.thread \in Active /\ call.words = Words(call.thread)
      BY <1>1, <2>2, <3>1 DEF HeardInv, SpawnInv
    <3>3. T \in Unsettled /\ u # T
      BY <1>7, <3>2, GoodFacts
    <3>4. QED
      BY <1>7, <3>2, <3>3, FreshApart DEF HeardInv
  <2>3. CASE call.kind = "steer"
    BY <1>1, <2>3 DEF FreshInv
  <2>4. CASE call.kind \in {"none", "correction"}
    BY <2>4 DEF FreshInv
  <2>5. QED
    BY <2>1, <2>2, <2>3, <2>4 DEF RestTypeOK, DispatchKinds
<1>8. FreshInv'
  <2>1. ASSUME NEW T \in TurnIds, NEW u \in Unsettled \ {T}, u \in Waiting \/ T # controller.thread
        PROVE  threads'[T].heard \cap Fresh(u) = {}
    <3>1. threads[T].heard \cap Fresh(u) = {}
      BY <2>1 DEF FreshInv
    <3>2. CASE threads'[T] = threads[T]
      BY <3>1, <3>2
    <3>3. CASE threads'[T] # threads[T]
      BY <1>1, <1>5, <1>7, <2>1, <3>1, <3>3
    <3>4. QED
      BY <3>2, <3>3
  <2>2. \A v \in Ids : \A u \in Unsettled : turns[v].steerText \cap Fresh(u) = {}
    BY DEF FreshInv
  <2>3. /\ call'.status # "none" /\ call'.kind = "steer" => \A u \in Unsettled : call'.words \cap Fresh(u) = {}
        /\ call'.kind \in {"none", "correction"} => call'.words = {}
    BY <1>1, <1>4, NoneFacts DEF FreshInv
  <2>4. QED
    BY <1>1, <1>2, <1>3, <2>1, <2>2, <2>3 DEF FreshInv
<1>9. RepeatsAreMarked'
  BY <1>1 DEF RepeatsAreMarked
<1>10. QED
  BY <1>6, <1>8, <1>9 DEF RepeatInv

\* A replacement repeats what the turn said that it replaces, marked, and takes
\* over the words of its burst; the threads that heard them are gone.
LEMMA RepeatReplace ==
  ASSUME Good, TypesInv', RepeatInv, NEW t \in TurnIds, FailAndRetire(t, TRUE),
         Appended(NewTurn(turns[t].says, t)), \A u \in Ids : turns'[u] = LeftRow(t, u)
  PROVE  RepeatInv'
<1>0. TypesInv /\ Serving /\ HeardInv /\ RestTypeOK /\ WordsInv /\ FreshInv
  BY GoodFacts DEF Good, RepeatInv
<1> USE <1>0
<1> DEFINE N == Len(turns) + 1
<1>1. /\ t \in Active /\ Active = {t} /\ turns[t].state = "submitted" /\ t \in Ids /\ t # NoTurn
      /\ reservation = NoTurn /\ controller.thread # NoTurn
      /\ UNCHANGED <<reservation, call>> /\ KeepThreads({controller.thread}) /\ controller'.thread = NoTurn
  <2>1. t \in Active /\ Answering(t) /\ reservation = NoTurn /\ controller.thread # NoTurn
    BY RetiresLiveThread
  <2>2. /\ UNCHANGED <<reservation, call>> /\ KeepThreads({controller.thread}) /\ controller'.thread = NoTurn
    BY DEF FailAndRetire, RetireThread, dispatchVars
  <2>3. QED
    BY <2>1, <2>2, ServedTurn, GoodFacts DEF Answering
<1>2. /\ turns'[N].state = "queued" /\ turns'[N].leader = NoTurn /\ turns'[N].source = t
      /\ turns'[N].steerText = {} /\ turns'[N].says = turns[t].says /\ Ids' = Ids \cup {N}
  <2>1. turns[t].says \in TurnIds /\ t \in 0 .. MaxTurns /\ TurnsTypeOK
    BY <1>1, GoodFacts DEF TurnRow, TurnIds
  <2>2. /\ NewTurn(turns[t].says, t).state = "queued" /\ NewTurn(turns[t].says, t).leader = NoTurn
        /\ NewTurn(turns[t].says, t).source = t /\ NewTurn(turns[t].says, t).says = turns[t].says
        /\ NewTurn(turns[t].says, t).steerText = {}
    BY <2>1, NewTurnRow
  <2>3. QED
    BY <2>2 DEF Appended
<1>3. N \notin Ids /\ N # NoTurn
  BY GoodFacts, TurnsHaveRows, TypeParts DEF NoTurn
<1> HIDE DEF N
<1>4. ASSUME NEW u \in Ids
      PROVE  /\ turns'[u].says = turns[u].says /\ turns'[u].source = turns[u].source
             /\ turns'[u].leader = turns[u].leader \/ (turns'[u].leader = N /\ turns[u].leader = t)
             /\ turns'[u].steerText = {} \/ turns'[u].steerText = turns[u].steerText
             /\ u = t => turns'[u].state = "failed"
             /\ u # t => turns'[u].state = turns[u].state
  <2>1. turns[u] \in TurnRow /\ turns'[u] = LeftRow(t, u)
    BY GoodFacts
  <2>2. CASE u = t
    <3>1. turns'[u] = Final(turns[u], "failed")
      BY <2>1, <2>2 DEF LeftRow
    <3>2. QED
      BY <2>1, <2>2, <3>1, SettledRow
  <2>3. CASE u # t /\ turns[u].leader = t /\ turns[u].state = "completed"
    <3>1. turns'[u] = [turns[u] EXCEPT !.leader = N]
      BY <2>1, <2>3 DEF LeftRow, N
    <3>2. QED
      BY <2>1, <2>3, <3>1 DEF TurnRow
  <2>4. CASE u # t /\ ~(turns[u].leader = t /\ turns[u].state = "completed")
    BY <2>1, <2>4 DEF LeftRow
  <2>5. QED
    BY <2>2, <2>3, <2>4
<1>5. Marked \cup {turns[t].says} \subseteq Marked' /\ ReservedWords = {} /\ ReservedWords' = {}
  <2>1. \A u \in Ids : turns'[u].says = turns[u].says /\ turns'[u].source = turns[u].source
    BY <1>4
  <2>2. Marked \subseteq Marked'
    BY <1>2, <2>1 DEF Marked
  <2>3. turns[t].says \in Marked'
    BY <1>1, <1>2 DEF Marked
  <2>4. QED
    BY <1>1, <2>2, <2>3 DEF ReservedWords
<1>6. Unsettled' = (Unsettled \ {t}) \cup {N} /\ Unsettled \subseteq Ids /\ Unsettled \ {t} \subseteq Waiting
  <2>1. Unsettled' = (Unsettled \ {t}) \cup {N}
    BY <1>1, <1>2, <1>3, <1>4 DEF Unsettled
  <2>2. QED
    BY <1>1, <2>1, GoodFacts
<1>7. ASSUME NEW u \in Unsettled', NEW m \in Fresh(u)'
      PROVE  \E v \in Unsettled : m \in Fresh(v) /\ (v = u \/ (u = N /\ v = t))
  <2>1. m \notin Marked /\ m # turns[t].says /\ m \in Words(u)'
    BY <1>5, <1>7 DEF Fresh
  <2>2. PICK x \in Burst(u)' : turns'[x].says = m
    BY <2>1 DEF Words
  <2>3. x \in Ids /\ turns[x].says = m /\ (x = u \/ turns'[x].leader = u)
    <3>1. x # N
      BY <1>2, <2>1, <2>2
    <3>2. x \in Ids' /\ (x = u \/ turns'[x].leader = u)
      BY <1>2, <1>6, <2>2 DEF Burst
    <3>3. QED
      BY <1>2, <1>4, <2>2, <3>1, <3>2
  <2>4. CASE u = N
    <3>1. turns'[x].leader = N
      BY <1>3, <2>3, <2>4
    <3>2. turns[x].leader \in Ids \cup {NoTurn}
      BY <2>3 DEF WordsInv
    <3>3. turns[x].leader = t
      BY <1>3, <1>4, <2>3, <3>1, <3>2
    <3>4. m \in Words(t) /\ t \in Unsettled
      BY <1>1, <2>3, <3>3, GoodFacts DEF Words, Burst
    <3>5. QED
      BY <1>5, <2>1, <2>4, <3>4 DEF Fresh
  <2>5. CASE u # N
    <3>1. u \in Unsettled /\ u \in Ids
      BY <1>6, <2>5
    <3>2. x = u \/ turns[x].leader = u
      BY <1>3, <1>4, <2>3, <3>1
    <3>3. m \in Words(u)
      BY <2>3, <3>2 DEF Words, Burst
    <3>4. QED
      BY <1>5, <2>1, <3>1, <3>3 DEF Fresh
  <2>6. QED
    BY <2>4, <2>5
<1>8. /\ \A T \in TurnIds : threads'[T] = threads[T] \/ threads'[T] = NoThread
      /\ \A T \in TurnIds : T \notin Unsettled' /\ T # controller'.thread => threads'[T] = NoThread
  BY <1>1, KeptThreads
<1>9. \A T \in TurnIds : threads'[T].heard \subseteq threads[T].heard
  BY <1>8, NoneFacts
<1>10. ASSUME NEW T \in TurnIds, NEW u \in Unsettled' \ {T}, NEW m \in Fresh(u)', threads'[T].heard # {}
       PROVE  \E v \in Unsettled \ {T} : m \in Fresh(v) /\ (v \in Waiting \/ T # controller.thread)
  <2>1. PICK v \in Unsettled : m \in Fresh(v) /\ (v = u \/ (u = N /\ v = t))
    BY <1>7, <1>10
  <2>2. T \in Unsettled'
    BY <1>1, <1>8, <1>10, GoodFacts, NoneFacts
  <2>3. T # t
    BY <1>1, <1>3, <1>6, <2>2
  <2>4. T # controller.thread
    <3>1. controller.thread \in Ids /\ controller.thread \notin Waiting
      BY <1>1 DEF HeardInv, LiveThreadInv
    <3>2. QED
      BY <1>3, <1>6, <2>2, <3>1
  <2>5. QED
    BY <2>1, <2>3, <2>4
<1>11. \A u \in Ids' : /\ turns'[u].leader \in Ids' \cup {NoTurn}
                       /\ \/ turns'[u].steerText = {}
                          \/ u \in Ids /\ turns'[u].steerText \subseteq turns[u].steerText
  <2>1. ASSUME NEW u \in Ids
        PROVE  /\ turns'[u].leader \in Ids' \cup {NoTurn}
               /\ turns'[u].steerText = {} \/ turns'[u].steerText \subseteq turns[u].steerText
    BY <1>2, <1>4, <2>1 DEF WordsInv
  <2>2. QED
    BY <1>2, <2>1
<1>12. ~(call.status = "open" /\ call.kind = "send")
  BY <1>1 DEF HeardInv, SendInv
<1>13. \A u \in Unsettled' : \A m \in Fresh(u)' : \E v \in Unsettled : m \in Fresh(v)
  BY <1>7
<1>14. Ids \subseteq Ids' /\ Marked \subseteq Marked' /\ call' = call
  BY <1>1, <1>2, <1>5
<1>15. QED
  BY <1>9, <1>10, <1>11, <1>12, <1>13, <1>14, RepeatKeeps

\* A message that has just been sent has been heard by nobody.
LEMMA RepeatEnqueue ==
  ASSUME Good, TypesInv', RepeatInv, EnqueueControllerTurn,
         Appended(NewTurn(Len(turns) + 1, NoTurn)), \A t \in Ids : turns'[t] = turns[t]
  PROVE  RepeatInv'
<1>0. TypesInv /\ Serving /\ HeardInv /\ RestTypeOK /\ WordsInv /\ FreshInv /\ RepeatsAreMarked
  BY GoodFacts DEF Good, RepeatInv
<1> USE <1>0
<1>n. PICK N : N = Len(turns) + 1
  OBVIOUS
<1>1. UNCHANGED <<controller, delivery, reservation, threads, call>>
  BY DEF EnqueueControllerTurn, dispatchVars, bbVars
<1>2. Ids' = Ids \cup {N} /\ N \notin Ids /\ N # NoTurn
  BY <1>n, GoodFacts, TurnsHaveRows, TypeParts DEF Appended, NoTurn
<1>3. /\ turns'[N].state = "queued" /\ turns'[N].leader = NoTurn /\ turns'[N].source = NoTurn
      /\ turns'[N].steerText = {} /\ turns'[N].says = N
  <2>1. NoTurn \in 0 .. MaxTurns /\ N \in TurnIds
    <3>1. TurnsTypeOK /\ TurnsTypeOK'
      BY DEF TypesInv
    <3>2. Len(turns) \in Nat
      BY <3>1, TurnsHaveRows
    <3>3. Len(turns') <= MaxTurns
      BY <3>1 DEF TurnsTypeOK
    <3>4. QED
      BY <1>n, <3>2, <3>3, TurnsAssumption DEF Appended, NoTurn, TurnIds
  <2>2. /\ NewTurn(N, NoTurn).state = "queued" /\ NewTurn(N, NoTurn).leader = NoTurn
        /\ NewTurn(N, NoTurn).source = NoTurn /\ NewTurn(N, NoTurn).says = N
        /\ NewTurn(N, NoTurn).steerText = {}
    BY <2>1, GoodFacts, NewTurnRow
  <2>3. QED
    BY <1>n, <2>2 DEF Appended
<1>4. /\ Unsettled' = Unsettled \cup {N} /\ Waiting' = Waiting \cup {N} /\ Queued' = Queued \cup {N}
      /\ Unsettled \subseteq Ids /\ Waiting \subseteq Unsettled
  <2>1. Unsettled' = Unsettled \cup {N}
    BY <1>2, <1>3 DEF Unsettled
  <2>2. Waiting' = Waiting \cup {N}
    BY <1>1, <1>2, <1>3, <2>1 DEF Waiting, Unsettled
  <2>3. Queued' = Queued \cup {N}
    BY <1>2, <1>3 DEF Queued
  <2>4. QED
    BY <2>1, <2>2, <2>3, GoodFacts
<1>5. Marked' = Marked
  BY <1>2, <1>3 DEF Marked
<1>6. ReservedWords \subseteq ReservedWords'
  <2>1. Reserved \subseteq Reserved' /\ Reserved \subseteq Ids
    BY <1>1, <1>2, <1>4 DEF Reserved, Queued
  <2>2. QED
    BY <1>1, <2>1 DEF ReservedWords
<1>7. ASSUME NEW u \in Ids PROVE Fresh(u)' \subseteq Fresh(u)
  <2>1. Burst(u)' = Burst(u) /\ Burst(u) \subseteq Ids
    BY <1>2, <1>3, GoodFacts DEF Burst
  <2>2. Words(u)' = Words(u)
    BY <2>1 DEF Words
  <2>3. QED
    BY <1>5, <1>6, <2>2 DEF Fresh
<1>8. Fresh(N)' \subseteq {N}
  <2>1. \A u \in Ids : turns'[u].leader # N
    BY <1>2 DEF WordsInv
  <2>2. Burst(N)' = {N}
    BY <1>2, <1>3, <2>1 DEF Burst
  <2>3. QED
    BY <1>3, <2>2 DEF Fresh, Words
<1>9. /\ \A T \in TurnIds : threads[T].heard \cap Fresh(N)' = {}
      /\ \A u \in Ids : turns[u].steerText \cap Fresh(N)' = {}
      /\ call.words \cap Fresh(N)' = {}
  BY <1>2, <1>8 DEF WordsInv
<1>10. WordsInv'
  BY <1>1, <1>2, <1>3 DEF WordsInv
<1>11. FreshInv'
  <2>1. ASSUME NEW T \in TurnIds, NEW u \in Unsettled' \ {T}, u \in Waiting' \/ T # controller.thread
        PROVE  threads[T].heard \cap Fresh(u)' = {}
    <3>1. CASE u = N
      BY <1>9, <3>1
    <3>2. CASE u # N
      <4>1. u \in Unsettled \ {T} /\ u \in Ids /\ (u \in Waiting \/ T # controller.thread)
        BY <1>4, <2>1, <3>2
      <4>2. threads[T].heard \cap Fresh(u) = {}
        BY <4>1 DEF FreshInv
      <4>3. QED
        BY <1>7, <4>1, <4>2
    <3>3. QED
      BY <3>1, <3>2
  <2>2. ASSUME NEW v \in Ids', NEW u \in Unsettled' PROVE turns'[v].steerText \cap Fresh(u)' = {}
    <3>1. CASE v = N
      BY <1>3, <3>1
    <3>2. CASE v \in Ids /\ u = N
      BY <1>9, <3>2
    <3>3. CASE v \in Ids /\ u \in Unsettled /\ u \in Ids
      BY <1>7, <3>3 DEF FreshInv
    <3>4. QED
      BY <1>2, <1>4, <2>2, <3>1, <3>2, <3>3
  <2>3. call.status # "none" /\ call.kind = "steer" => \A u \in Unsettled' : call.words \cap Fresh(u)' = {}
    <3>1. ASSUME call.status # "none", call.kind = "steer", NEW u \in Unsettled
          PROVE  call.words \cap Fresh(u)' = {}
      <4>1. call.words \cap Fresh(u) = {}
        BY <3>1 DEF FreshInv
      <4>2. QED
        BY <1>4, <1>7, <3>1, <4>1
    <3>2. QED
      BY <1>4, <1>9, <3>1
  <2>4. call.status = "open" /\ call.kind = "send" => \A u \in Waiting' : call.words \cap Fresh(u)' = {}
    <3>1. ASSUME call.status = "open", call.kind = "send", NEW u \in Waiting
          PROVE  call.words \cap Fresh(u)' = {}
      <4>1. call.words \cap Fresh(u) = {}
        BY <3>1 DEF FreshInv
      <4>2. QED
        BY <1>4, <1>7, <3>1, <4>1
    <3>2. QED
      BY <1>4, <1>9, <3>1
  <2>5. call.kind \in {"none", "correction"} => call.words = {}
    BY DEF FreshInv
  <2>6. QED
    BY <1>1, <2>1, <2>2, <2>3, <2>4, <2>5 DEF FreshInv
<1>12. RepeatsAreMarked'
  BY <1>1, <1>2 DEF RepeatsAreMarked
<1>13. QED
  BY <1>10, <1>11, <1>12 DEF RepeatInv

\* Every step of the conversation keeps fresh words fresh.
LEMMA RepeatStep ==
  ASSUME Good, TypesInv', RepeatInv, [TurnsNext]_turnVars
  PROVE  RepeatInv'
<1>1. CASE EnqueueControllerTurn
  BY <1>1, EnqueueTypes, RepeatEnqueue DEF Good
<1>2. ASSUME NEW t \in TurnIds, FailAndRetire(t, TRUE)
      PROVE  RepeatInv'
  BY <1>2, ReplaceTypes, RepeatReplace DEF Good
<1>3. ASSUME NEW t \in TurnIds,
             \/ ClaimTurn(t) \/ (\E backoff \in BOOLEAN : RequeueTurn(t, backoff)) \/ Dispatch(t)
             \/ AcceptFinalization(t) \/ (\E w \in TurnIds : ReserveControllerSteer(t, w))
             \/ (\E status \in {"idle", "error"} : ThreadStops(t, status))
      PROVE  RepeatInv'
  BY <1>3, RepeatClaim, RepeatEndSteps, RepeatDispatch, RepeatQuietSteps, RepeatReserve
<1>4. ASSUME NEW t \in TurnIds, LoopStep(t)
      PROVE  RepeatInv'
  BY <1>2, <1>4, RepeatDispatch, RepeatSubmitSteps, RepeatQuietSteps, RepeatEndSteps, RepeatSteer DEF LoopStep
<1>5. CASE ResetControllerThread \/ CallLands \/ CallDrops \/ Restart \/ UNCHANGED turnVars
  BY <1>5, RepeatReset, RepeatLands, RepeatQuietSteps
<1>6. CASE TurnsNext
  BY <1>1, <1>3, <1>4, <1>5, <1>6 DEF TurnsNext
<1>7. QED
  BY <1>5, <1>6

\* At first nothing was said.
LEMMA RepeatInit ==
  ASSUME TurnsInit
  PROVE  RepeatInv
<1>1. Ids = {} /\ Unsettled = {}
  <2>1. Ids = {}
    BY DEF TurnsInit, Ids
  <2>2. QED
    BY <2>1 DEF Unsettled
<1>2. call = NoCall /\ \A u \in TurnIds : threads[u] = NoThread
  BY DEF TurnsInit
<1>3. QED
  BY <1>1, <1>2, NoneFacts DEF RepeatInv, WordsInv, FreshInv, RepeatsAreMarked, Waiting

\* A send tells a thread a second time only what a turn with a mark says: one
\* whose steer had an unknown outcome, or a replacement.
THEOREM RepeatsWereMarked == TurnsSpec => []RepeatsAreMarked
<1>1. TurnsInit => Good /\ RepeatInv
  BY ServingInit, HeardInit, RepeatInit DEF Good
<1>2. Good /\ RepeatInv /\ [TurnsNext]_turnVars => (Good /\ RepeatInv)'
  <2> SUFFICES ASSUME Good, RepeatInv, [TurnsNext]_turnVars PROVE Good' /\ RepeatInv'
    OBVIOUS
  <2>1. TypesInv' /\ TurnsKept /\ Serving'
    BY TypesStep, ServingStep DEF Good
  <2>2. HeardInv' /\ RepeatInv'
    BY <2>1, HeardStep, RepeatStep
  <2>3. QED
    BY <2>1, <2>2 DEF Good
<1>3. RepeatInv => RepeatsAreMarked
  BY DEF RepeatInv
<1>4. QED
  BY <1>1, <1>2, <1>3, PTL DEF TurnsSpec
=============================================================================
