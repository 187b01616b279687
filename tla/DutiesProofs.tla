---------------------------- MODULE DutiesProofs ----------------------------
(***************************************************************************)
(* What Duties keeps for every number of heads, turns, calls, tools,       *)
(* inspections and terms.  A behaviour of Duties is one of ReviewLane, of  *)
(* ToolReceipts and of Connectors at once, of which two stand still: each  *)
(* has its own inductive invariant (that of ReviewLane is in               *)
(* ReviewLaneProofs).                                                      *)
(***************************************************************************)
EXTENDS Duties, ReviewLaneProofs

-----------------------------------------------------------------------------
(* Connectors *)

\* A request is with the provider while it is claimed, and not asked again.
RunningIsClaimed == \A t \in broker.running : broker.requests[t] = "claimed"
UnclaimedIsNotAsked == \A t \in Fences : broker.requests[t] = "none" => broker.asked[t] = 0

\* An inspection works under a term, and the receipt it carries is the broker's.
InspectionsHaveTerms == \A i \in Inspectors : inspectors[i].at # "idle" => inspectors[i].fence # 0
RepliesAreReceipts ==
    \A i \in Inspectors :
        inspectors[i].at # "idle" /\ inspectors[i].reply \in {"succeeded", "failed"} =>
            broker.requests[inspectors[i].fence] = inspectors[i].reply

ConnectorsInv ==
    /\ ConnectorsTypeOK
    /\ RunningIsClaimed
    /\ UnclaimedIsNotAsked
    /\ InspectionsHaveTerms
    /\ RepliesAreReceipts
    /\ ReceiptsAgree

LEMMA ConnectorsInitially == ConnectorsInit => ConnectorsInv
BY ConnectorsAssumption
   DEF ConnectorsInit, ConnectorsInv, ConnectorsTypeOK, RunningIsClaimed, UnclaimedIsNotAsked,
       InspectionsHaveTerms, RepliesAreReceipts, ReceiptsAgree, Fences, Outcomes, Replies, Idle,
       Inspections, Books

\* What an inspection may be, when these are the requests.
Sound(r, requests) ==
    /\ r \in Inspections
    /\ r.at # "idle" => r.fence # 0
    /\ r.at # "idle" /\ r.reply \in {"succeeded", "failed"} => requests[r.fence] = r.reply

LEMMA IdleIsSound == ASSUME NEW requests PROVE Sound(Idle, requests)
BY ConnectorsAssumption DEF Sound, Idle, Inspections, Replies, Outcomes

LEMMA AllAreSound ==
    ConnectorsInv => \A i \in Inspectors : Sound(inspectors[i], broker.requests)
BY DEF ConnectorsInv, ConnectorsTypeOK, InspectionsHaveTerms, RepliesAreReceipts, Sound

LEMMA SoundInspections ==
    ASSUME \A i \in Inspectors : Sound(inspectors'[i], broker'.requests),
           \E f : inspectors' = [i \in Inspectors |-> f[i]]
    PROVE  /\ inspectors' \in [Inspectors -> Inspections]
           /\ InspectionsHaveTerms' /\ RepliesAreReceipts'
BY DEF InspectionsHaveTerms, RepliesAreReceipts, Sound

\* Receipts are never taken back, so what is sound stays so.
ReceiptsStay ==
    \A t \in Fences : broker.requests[t] \in {"succeeded", "failed"} =>
        broker'.requests[t] = broker.requests[t]

LEMMA StaysSound ==
    ASSUME ReceiptsStay, NEW r, Sound(r, broker.requests)
    PROVE  Sound(r, broker'.requests)
BY ConnectorsAssumption DEF ReceiptsStay, Sound, Inspections, Fences

\* Where an inspection is, it goes on to a sound one.
LEMMA OneInspection ==
    ASSUME ConnectorsInv, ReceiptsStay, NEW i \in Inspectors, NEW r, Sound(r, broker'.requests),
           inspectors' = [inspectors EXCEPT ![i] = r]
    PROVE  /\ inspectors' \in [Inspectors -> Inspections]
           /\ InspectionsHaveTerms' /\ RepliesAreReceipts'
<1>1. inspectors' = [j \in Inspectors |-> IF j = i THEN r ELSE inspectors[j]]
  BY DEF ConnectorsInv, ConnectorsTypeOK
<1>2. \A j \in Inspectors : Sound(inspectors'[j], broker'.requests)
  BY <1>1, AllAreSound, StaysSound
<1>3. \E f : inspectors' = [j \in Inspectors |-> f[j]]
  <2> WITNESS [j \in Inspectors |-> IF j = i THEN r ELSE inspectors[j]]
  <2> QED
    BY <1>1
<1> QED
  BY <1>2, <1>3, SoundInspections

\* What is around the inspections changes the lease, the turn or the binding, and may
\* take inspections away.
LEMMA SurroundingsStep ==
    ASSUME ConnectorsInv, LeaseIsLost \/ AdoptTurn \/ TurnEnds \/ ReconcileEnrollment
    PROVE  ConnectorsInv'
<1>1. UNCHANGED <<operations, proofs, broker>>
  BY DEF LeaseIsLost, AdoptTurn, TurnEnds, ReconcileEnrollment
<1>2. \/ UNCHANGED inspectors
      \/ inspectors' = [i \in Inspectors |-> Idle]
  BY DEF LeaseIsLost, AdoptTurn, TurnEnds, ReconcileEnrollment
<1>3. /\ inspectors' \in [Inspectors -> Inspections]
      /\ InspectionsHaveTerms' /\ RepliesAreReceipts'
  <2>1. CASE UNCHANGED inspectors
    BY <1>1, <2>1 DEF ConnectorsInv, ConnectorsTypeOK, InspectionsHaveTerms, RepliesAreReceipts
  <2>2. CASE inspectors' = [i \in Inspectors |-> Idle]
    <3>1. \A i \in Inspectors : Sound(inspectors'[i], broker'.requests)
      BY <2>2, IdleIsSound
    <3>2. \E f : inspectors' = [i \in Inspectors |-> f[i]]
      <4> WITNESS [i \in Inspectors |-> Idle]
      <4> QED
        BY <2>2
    <3> QED
      BY <3>1, <3>2, SoundInspections
  <2> QED
    BY <1>2, <2>1, <2>2
<1>4. /\ authority' \in [term : Fences, carries : Fences, open : BOOLEAN]
      /\ binding' \in {"verified", "active", "revoked"}
  <2>1. /\ authority \in [term : Fences, carries : Fences, open : BOOLEAN]
        /\ binding \in {"verified", "active", "revoked"}
    BY DEF ConnectorsInv, ConnectorsTypeOK
  <2>2. authority.term < MaxFences => authority.term + 1 \in Fences
    BY <2>1, ConnectorsAssumption DEF Fences
  <2>3. \/ authority.term < MaxFences /\ authority' = [authority EXCEPT !.term = authority.term + 1]
        \/ authority' = [authority EXCEPT !.carries = authority.term]
        \/ authority' = [authority EXCEPT !.open = FALSE]
        \/ UNCHANGED authority
    BY DEF LeaseIsLost, AdoptTurn, TurnEnds, ReconcileEnrollment
  <2>4. binding' \in {"verified", "active", "revoked"}
    BY <2>1 DEF LeaseIsLost, AdoptTurn, TurnEnds, ReconcileEnrollment
  <2> QED
    BY <2>1, <2>2, <2>3, <2>4
<1> QED
  BY <1>1, <1>3, <1>4
     DEF ConnectorsInv, ConnectorsTypeOK, RunningIsClaimed, UnclaimedIsNotAsked, ReceiptsAgree

\* The steps of an inspection, as what it becomes.
LEMMA InspectionForms ==
    ASSUME ConnectorsInv, NEW i \in Inspectors,
           \/ Inspect(i) \/ PrepareOperation(i) \/ AttestExecutorFence(i) \/ GiveUp(i)
           \/ Receive(i) \/ CompleteOperation(i)
    PROVE  \E r : Sound(r, broker.requests) /\ inspectors' = [inspectors EXCEPT ![i] = r]
<1> DEFINE old == inspectors[i]
<1>1. /\ Sound(old, broker.requests) /\ old \in Inspections /\ inspectors \in [Inspectors -> Inspections]
      /\ authority.term \in Fences
  BY AllAreSound DEF ConnectorsInv, ConnectorsTypeOK, Sound
<1>2. CASE inspectors' = [inspectors EXCEPT ![i] = Idle]
  BY <1>2, IdleIsSound
<1>3. ASSUME NEW step \in {"attest", "send"}, old.at # "idle", Steps(i, step)
      PROVE  \E r : Sound(r, broker.requests) /\ inspectors' = [inspectors EXCEPT ![i] = r]
  <2> WITNESS [old EXCEPT !.at = step]
  <2> QED
    BY <1>1, <1>3 DEF Sound, Inspections, Steps
<1>4. CASE Inspect(i)
  <2> DEFINE r == [Idle EXCEPT !.at = "ready", !.fence = authority.term]
  <2>1. inspectors' = [inspectors EXCEPT ![i] = r]
    BY <1>4 DEF Inspect
  <2>2. Idle \in Inspections /\ Idle.reply = "none"
    BY IdleIsSound DEF Sound, Idle
  <2>3. r.fence = authority.term /\ r.reply = "none"
    BY <2>2 DEF Inspections
  <2>4. r \in Inspections
    <3>1. authority.term \in 0 .. MaxFences
      BY <1>1, ConnectorsAssumption DEF Fences
    <3> QED
      BY <2>2, <3>1 DEF Inspections
  <2>5. Sound(r, broker.requests)
    BY <1>1, <2>3, <2>4, ConnectorsAssumption DEF Sound, Fences
  <2> QED
    BY <2>1, <2>5
<1>5. CASE Receive(i)
  <2> DEFINE r == [old EXCEPT !.at = "complete", !.ready = Ready]
  <2>1. old.at # "idle" /\ inspectors' = [inspectors EXCEPT ![i] = r]
    BY <1>1, <1>5 DEF Receive
  <2>2. /\ r.at = "complete" /\ r.fence = old.fence /\ r.reply = old.reply
    BY <1>1 DEF Inspections
  <2>3. r \in Inspections
    <3>1. Ready \in BOOLEAN
      BY DEF Ready
    <3> HIDE DEF old
    <3> QED
      BY <1>1, <3>1 DEF Inspections
  <2>4. Sound(r, broker.requests)
    BY <1>1, <2>1, <2>2, <2>3 DEF Sound
  <2> QED
    BY <2>1, <2>4
<1> QED
  BY <1>2, <1>3, <1>4, <1>5
     DEF PrepareOperation, AttestExecutorFence, GiveUp, CompleteOperation, Leaves

\* Hanoon's side of an inspection: it asks nothing of the broker but to take a fence.
LEMMA InspectionStep ==
    ASSUME ConnectorsInv, NEW i \in Inspectors,
           Inspect(i) \/ PrepareOperation(i) \/ AttestExecutorFence(i) \/ GiveUp(i) \/ Receive(i)
    PROVE  ConnectorsInv'
<1> DEFINE t == inspectors[i].fence
<1>1. broker \in Books /\ (inspectors[i].at # "idle" => t \in Fences)
  BY AllAreSound, ConnectorsAssumption DEF ConnectorsInv, ConnectorsTypeOK, Sound, Inspections, Fences
<1>2. \/ UNCHANGED broker
      \/ t \in Fences /\ broker' = [broker EXCEPT !.fence = t]
  BY <1>1 DEF Inspect, PrepareOperation, AttestExecutorFence, GiveUp, Receive
<1>3. broker' \in Books /\ UNCHANGED <<broker.requests, broker.running, broker.asked>>
  BY <1>1, <1>2, ConnectorsAssumption DEF Books, Fences
<1>4. /\ inspectors' \in [Inspectors -> Inspections]
      /\ InspectionsHaveTerms' /\ RepliesAreReceipts'
  <2>1. PICK r : Sound(r, broker.requests) /\ inspectors' = [inspectors EXCEPT ![i] = r]
    BY InspectionForms
  <2> QED
    BY <1>3, <2>1, OneInspection DEF ReceiptsStay
<1>5. operations' \in [Fences -> {"none", "prepared", "ambiguous", "completed"}]
  <2>1. operations \in [Fences -> {"none", "prepared", "ambiguous", "completed"}]
    BY DEF ConnectorsInv, ConnectorsTypeOK
  <2>2. \/ UNCHANGED operations
        \/ \E v \in {"prepared", "ambiguous", operations[t]} :
              t \in Fences /\ operations' = [operations EXCEPT ![t] = v]
    BY <1>1, <2>1 DEF Inspect, PrepareOperation, AttestExecutorFence, GiveUp, Receive, MarkAmbiguous
  <2> QED
    BY <2>1, <2>2
<1>6. UNCHANGED <<authority, binding, proofs>>
  BY DEF Inspect, PrepareOperation, AttestExecutorFence, GiveUp, Receive
<1> QED
  BY <1>3, <1>4, <1>5, <1>6
     DEF ConnectorsInv, ConnectorsTypeOK, RunningIsClaimed, UnclaimedIsNotAsked, ReceiptsAgree

\* The receipt that is copied is the broker's, and no other was copied.
LEMMA CompletionStep ==
    ASSUME ConnectorsInv, NEW i \in Inspectors, CompleteOperation(i)
    PROVE  ConnectorsInv'
<1> DEFINE t == inspectors[i].fence
           reply == inspectors[i].reply
<1>1. /\ t \in Fences /\ reply \in Replies
      /\ reply \in {"succeeded", "failed"} => broker.requests[t] = reply
      /\ operations \in [Fences -> {"none", "prepared", "ambiguous", "completed"}]
      /\ proofs \in [Fences -> Outcomes] /\ binding \in {"verified", "active", "revoked"}
  BY AllAreSound, ConnectorsAssumption
     DEF ConnectorsInv, ConnectorsTypeOK, Sound, Inspections, Fences, CompleteOperation
<1>2. UNCHANGED <<authority, broker>>
  BY DEF CompleteOperation
<1>3. /\ inspectors' \in [Inspectors -> Inspections]
      /\ InspectionsHaveTerms' /\ RepliesAreReceipts'
  <2>1. PICK r : Sound(r, broker.requests) /\ inspectors' = [inspectors EXCEPT ![i] = r]
    BY InspectionForms
  <2> QED
    BY <1>2, <2>1, OneInspection DEF ReceiptsStay
<1>4. /\ operations' \in [Fences -> {"none", "prepared", "ambiguous", "completed"}]
      /\ binding' \in {"verified", "active", "revoked"}
  BY <1>1 DEF CompleteOperation, MarkAmbiguous
<1>5. \/ UNCHANGED proofs
      \/ proofs' = [proofs EXCEPT ![t] = "none"]
      \/ /\ reply # "unreceipted" /\ SoleOutcome(t)
         /\ proofs' = [proofs EXCEPT ![t] = reply]
  BY DEF CompleteOperation
<1>6. proofs' \in [Fences -> Outcomes]
  BY <1>1, <1>5 DEF Outcomes, Replies
<1>7. ReceiptsAgree'
  BY <1>1, <1>2, <1>5 DEF ConnectorsInv, ReceiptsAgree, SoleOutcome, Outcomes, Replies
<1> QED
  BY <1>2, <1>3, <1>4, <1>6, <1>7
     DEF ConnectorsInv, ConnectorsTypeOK, RunningIsClaimed, UnclaimedIsNotAsked

\* A claim makes a row where there is none, and asks the provider only then.
LEMMA ClaimStep ==
    ASSUME ConnectorsInv, NEW i \in Inspectors, ClaimRequest(i)
    PROVE  ConnectorsInv'
<1> DEFINE t == inspectors[i].fence
           Answered(reply) == [inspectors[i] EXCEPT !.at = "await", !.reply = reply]
<1>1. /\ t \in Fences /\ Sound(inspectors[i], broker.requests) /\ broker \in Books
      /\ UNCHANGED <<authority, binding, operations, proofs>>
  BY AllAreSound, ConnectorsAssumption
     DEF ConnectorsInv, ConnectorsTypeOK, Sound, Inspections, Fences, ClaimRequest
<1>2. ASSUME NEW reply \in Replies,
             reply \in {"succeeded", "failed"} => broker'.requests[t] = reply
      PROVE  Sound(Answered(reply), broker'.requests)
  <2>1. /\ Answered(reply).fence = t /\ Answered(reply).reply = reply
        /\ Answered(reply) \in Inspections
    BY <1>1, <1>2 DEF Sound, Inspections
  <2>2. t # 0
    BY <1>1 DEF Fences
  <2> HIDE DEF Answered
  <2> QED
    BY <1>2, <2>1, <2>2 DEF Sound
<1>3. \/ UNCHANGED broker
      \/ /\ broker.requests[t] = "none"
         /\ \E v \in {"failed", "claimed"} : broker' = [broker EXCEPT !.requests[t] = v]
      \/ /\ broker.requests[t] = "none"
         /\ broker' = [broker EXCEPT !.requests[t] = "claimed", !.running = @ \cup {t}, !.asked[t] = @ + 1]
  BY DEF ClaimRequest, ClaimOf
<1>4. \E reply \in Replies :
         /\ reply \in {"succeeded", "failed"} => broker'.requests[t] = reply
         /\ inspectors' = [inspectors EXCEPT ![i] = Answered(reply)]
  <2>1. \E reply \in Replies :
           /\ Answers(i, reply)
           /\ reply \in {"succeeded", "failed"} => broker'.requests[t] = reply
    BY <1>1 DEF ClaimRequest, ClaimOf, Replies, Outcomes, Books
  <2> QED
    BY <2>1 DEF Answers
<1>5. \/ UNCHANGED broker
      \/ /\ broker' \in Books /\ broker.requests[t] = "none"
         /\ \E v \in {"failed", "claimed"} : broker'.requests = [broker.requests EXCEPT ![t] = v]
         /\ \/ UNCHANGED <<broker.running, broker.asked>>
            \/ /\ broker'.requests[t] = "claimed"
               /\ broker'.running = broker.running \cup {t}
               /\ broker'.asked = [broker.asked EXCEPT ![t] = broker.asked[t] + 1]
  <2>1. ASSUME NEW v \in {"failed", "claimed"}
        PROVE  LET b == [broker EXCEPT !.requests[t] = v]
               IN  /\ b \in Books /\ b.requests = [broker.requests EXCEPT ![t] = v]
                   /\ b.running = broker.running /\ b.asked = broker.asked
    BY <1>1 DEF Books, Outcomes
  <2>2. ASSUME NEW b \in Books
        PROVE  LET d == [[b EXCEPT !.running = b.running \cup {t}] EXCEPT !.asked[t] = b.asked[t] + 1]
               IN  /\ d \in Books /\ d.requests = b.requests /\ d.running = b.running \cup {t}
                   /\ d.asked = [b.asked EXCEPT ![t] = b.asked[t] + 1]
    <3> DEFINE e == [b EXCEPT !.running = b.running \cup {t}]
    <3>1. /\ e \in Books /\ e.requests = b.requests /\ e.running = b.running \cup {t}
          /\ e.asked = b.asked
      BY <1>1, <2>2 DEF Books
    <3> HIDE DEF e
    <3>2. LET d == [e EXCEPT !.asked[t] = b.asked[t] + 1]
          IN  /\ d \in Books /\ d.requests = e.requests /\ d.running = e.running
              /\ d.asked = [e.asked EXCEPT ![t] = b.asked[t] + 1]
      BY <1>1, <2>2, <3>1 DEF Books
    <3> QED
      BY <3>1, <3>2 DEF e
  <2>3. CASE \E v \in {"failed", "claimed"} : broker' = [broker EXCEPT !.requests[t] = v]
    BY <1>1, <1>3, <2>1, <2>3
  <2>4. CASE /\ broker.requests[t] = "none"
             /\ broker' = [broker EXCEPT !.requests[t] = "claimed", !.running = @ \cup {t}, !.asked[t] = @ + 1]
    <3> DEFINE b == [broker EXCEPT !.requests[t] = "claimed"]
    <3>1. /\ b \in Books /\ b.requests = [broker.requests EXCEPT ![t] = "claimed"]
          /\ b.running = broker.running /\ b.asked = broker.asked
      BY <2>1
    <3>2. broker' = [[b EXCEPT !.running = b.running \cup {t}] EXCEPT !.asked[t] = b.asked[t] + 1]
      BY <2>4, <3>1
    <3>3. b.requests[t] = "claimed"
      BY <1>1, <3>1 DEF Books
    <3> HIDE DEF b
    <3> QED
      BY <2>2, <2>4, <3>1, <3>2, <3>3
  <2> QED
    BY <1>3, <2>3, <2>4
<1>6. ReceiptsStay
  BY <1>1, <1>5 DEF ReceiptsStay, Books
<1>7. /\ inspectors' \in [Inspectors -> Inspections]
      /\ InspectionsHaveTerms' /\ RepliesAreReceipts'
  BY <1>2, <1>4, <1>6, OneInspection
<1>8. broker' \in Books
  BY <1>1, <1>5
<1>9. RunningIsClaimed' /\ UnclaimedIsNotAsked'
  BY <1>1, <1>5 DEF ConnectorsInv, RunningIsClaimed, UnclaimedIsNotAsked, Books
<1>10. ReceiptsAgree'
  BY <1>1, <1>5 DEF ConnectorsInv, ConnectorsTypeOK, ReceiptsAgree, UnclaimedIsNotAsked, Books, Outcomes
<1> QED
  BY <1>1, <1>7, <1>8, <1>9, <1>10 DEF ConnectorsInv, ConnectorsTypeOK

\* The answer of the provider, and what is left of it when the broker stops.
LEMMA BrokerStep ==
    ASSUME ConnectorsInv, (\E t \in Fences : CompleteRequest(t)) \/ BrokerRestarts
    PROVE  ConnectorsInv'
<1>1. /\ UNCHANGED <<authority, binding, operations, proofs>> /\ broker \in Books
      /\ inspectors \in [Inspectors -> Inspections]
  BY DEF ConnectorsInv, ConnectorsTypeOK, CompleteRequest, BrokerRestarts
<1>2. /\ broker' \in Books /\ UNCHANGED broker.asked
      /\ \A t \in broker'.running : t \in broker.running /\ broker'.requests[t] = broker.requests[t]
      /\ \A t \in Fences : broker'.requests[t] = "none" => broker.requests[t] = "none"
      /\ ReceiptsStay
  <2>1. CASE BrokerRestarts
    BY <1>1, <2>1 DEF BrokerRestarts, Books, Outcomes, ReceiptsStay
  <2>2. ASSUME NEW t \in Fences, CompleteRequest(t)
        PROVE  <1>2
    <3>1. PICK outcome \in {"failed", "claimed", "succeeded"} :
             broker' = [broker EXCEPT !.running = @ \ {t}, !.requests[t] = outcome]
      BY <2>2 DEF CompleteRequest
    <3>2. broker.requests[t] = "claimed"
      BY <2>2 DEF CompleteRequest, ConnectorsInv, RunningIsClaimed
    <3> QED
      BY <1>1, <3>1, <3>2 DEF Books, Outcomes, ReceiptsStay
  <2> QED
    BY <2>1, <2>2
<1>3. /\ inspectors' \in [Inspectors -> Inspections]
      /\ InspectionsHaveTerms' /\ RepliesAreReceipts'
  <2>1. CASE BrokerRestarts
    <3>1. UNCHANGED inspectors
      BY <2>1 DEF BrokerRestarts
    <3>2. \A i \in Inspectors : Sound(inspectors'[i], broker'.requests)
      BY <1>2, <3>1, AllAreSound, StaysSound
    <3> QED
      BY <1>1, <3>1, <3>2 DEF Sound, InspectionsHaveTerms, RepliesAreReceipts
  <2>2. ASSUME NEW t \in Fences, CompleteRequest(t)
        PROVE  <1>3
    <3> DEFINE Told(i) == /\ inspectors[i].at = "await" /\ inspectors[i].fence = t
                          /\ inspectors[i].reply = "none"
    <3>1. PICK outcome \in {"failed", "claimed", "succeeded"} :
             /\ broker' = [broker EXCEPT !.running = @ \ {t}, !.requests[t] = outcome]
             /\ inspectors' = [i \in Inspectors |->
                    IF Told(i)
                    THEN [inspectors[i] EXCEPT !.reply = IF outcome = "claimed" THEN "unreceipted" ELSE outcome]
                    ELSE inspectors[i]]
      BY <2>2 DEF CompleteRequest
    <3>2. broker'.requests[t] = outcome
      BY <1>1, <3>1 DEF Books
    <3>3. ASSUME NEW i \in Inspectors
          PROVE  Sound(inspectors'[i], broker'.requests)
      <4>1. Sound(inspectors[i], broker.requests)
        BY AllAreSound
      <4>2. CASE Told(i)
        BY <3>1, <3>2, <4>1, <4>2 DEF Sound, Inspections, Replies, Outcomes
      <4>3. CASE ~Told(i)
        BY <1>2, <3>1, <4>1, <4>3, StaysSound
      <4> QED
        BY <4>2, <4>3
    <3>4. \E f : inspectors' = [i \in Inspectors |-> f[i]]
      <4> WITNESS [i \in Inspectors |->
              IF Told(i)
              THEN [inspectors[i] EXCEPT !.reply = IF outcome = "claimed" THEN "unreceipted" ELSE outcome]
              ELSE inspectors[i]]
      <4> QED
        BY <3>1
    <3> QED
      BY <3>3, <3>4, SoundInspections
  <2> QED
    BY <2>1, <2>2
<1>4. RunningIsClaimed' /\ UnclaimedIsNotAsked'
  BY <1>1, <1>2 DEF ConnectorsInv, RunningIsClaimed, UnclaimedIsNotAsked
<1>5. ReceiptsAgree'
  BY <1>1, <1>2 DEF ConnectorsInv, ConnectorsTypeOK, ReceiptsAgree, ReceiptsStay, Outcomes
<1> QED
  BY <1>1, <1>2, <1>3, <1>4, <1>5 DEF ConnectorsInv, ConnectorsTypeOK

LEMMA ConnectorsStep == ConnectorsInv /\ [ConnectorsNext]_connectorVars => ConnectorsInv'
<1> SUFFICES ASSUME ConnectorsInv, [ConnectorsNext]_connectorVars PROVE ConnectorsInv'
  OBVIOUS
<1>1. CASE UNCHANGED connectorVars
  BY <1>1 DEF connectorVars, ConnectorsInv, ConnectorsTypeOK, RunningIsClaimed, UnclaimedIsNotAsked,
              InspectionsHaveTerms, RepliesAreReceipts, ReceiptsAgree
<1>2. CASE ConnectorsNext
  BY <1>2, SurroundingsStep, InspectionStep, CompletionStep, ClaimStep, BrokerStep DEF ConnectorsNext
<1> QED
  BY <1>1, <1>2

-----------------------------------------------------------------------------
(* Tools *)

Live(t) == dialog[t].state \in {"queued", "submitted"}
Finished(t) == dialog[t].state \in {"completed", "failed"}
Fresh(c) == calls[c].at # "free" /\ calls[c].claim = "fresh"

\* A call is of a turn that there is.  Only a fresh one acts; one that is not found
\* a receipt, of its turn or of the one that it repeats.
CallsHaveTurns ==
    \A c \in Calls : calls[c].at # "free" =>
        /\ calls[c].turn # NoTurn /\ dialog[calls[c].turn].state # "none"
        /\ calls[c].at \in {"act", "publish"} => calls[c].claim = "fresh"
        /\ calls[c].claim # "fresh" =>
              \/ receipts[calls[c].turn][calls[c].tool] # "none"
              \/ dialog[calls[c].turn].source # NoTurn

\* A fresh call holds the receipt of its turn and tool, or has been told off by
\* another, and is the only one that does.
FreshHoldsReceipt == \A c \in Calls : Fresh(c) => Receipt(calls[c]) \in {"started", "unknown"}
OneFreshCall ==
    \A c, d \in Calls :
        Fresh(c) /\ Fresh(d) /\ calls[c].turn = calls[d].turn /\ calls[c].tool = calls[d].tool => c = d

\* An act needs a receipt, and each but one was refused afterwards.
ActsArePaid ==
    \A t \in Turns, a \in Tools :
        /\ acts[t][a] <= 1 + refused[t][a]
        /\ receipts[t][a] = "none" => acts[t][a] = 0 /\ refused[t][a] = 0
        /\ receipts[t][a] = "refused" => acts[t][a] <= refused[t][a]
UnactedIsPaid ==
    \A c \in Calls : Fresh(c) /\ calls[c].at \in {"scope", "act"} =>
        acts[calls[c].turn][calls[c].tool] <= refused[calls[c].turn][calls[c].tool]

\* Turns are taken in order: one that is to come has no receipts.
TurnsAreInOrder ==
    /\ \A t, w \in Turns : t < w /\ dialog[w].state # "none" => dialog[t].state # "none"
    /\ \A t \in Turns, a \in Tools : dialog[t].state = "none" => receipts[t][a] = "none"
    /\ \A t, w \in Turns : t < w /\ Live(t) =>
          /\ dialog[w].state # "submitted"
          /\ \A a \in Tools : receipts[w][a] = "none"

\* The message that a steer reserves waits behind the turn.
WaitingIsLater ==
    \A t \in Turns : Live(t) /\ dialog[t].steer = "owner" =>
        /\ dialog[t].waiting \in Turns /\ t < dialog[t].waiting
        /\ dialog[dialog[t].waiting].state # "none"

\* A turn that repeats another has receipts of its own only for what the other,
\* which is over, did not claim or gave back.
RepeatsClaimWhatIsFree ==
    \A w \in Turns, a \in Tools : dialog[w].source # NoTurn /\ receipts[w][a] # "none" =>
        Finished(dialog[w].source) /\ receipts[dialog[w].source][a] \in {"none", "refused"}

\* A turn that repeats another comes after it.
RepeatsAreLater ==
    \A w \in Turns : dialog[w].source # NoTurn => dialog[w].source < w /\ dialog[w].state # "none"

ReceiptsInv ==
    /\ ReceiptsTypeOK
    /\ CallsHaveTurns /\ FreshHoldsReceipt /\ OneFreshCall
    /\ ActsArePaid /\ UnactedIsPaid
    /\ TurnsAreInOrder /\ WaitingIsLater /\ RepeatsAreLater /\ RepeatsClaimWhatIsFree
    /\ NothingActsBehindTheAnswer

LEMMA TurnFacts ==
    /\ Turns = 1 .. MaxTurns /\ MaxTurns \in Nat /\ 0 \notin Turns /\ NoTurn = 0
    /\ \A t \in Turns : t \in Nat
    /\ NoCall \in CallRows /\ NoCall.at = "free"
    /\ \A state \in TurnStates, s \in 0 .. MaxTurns : NewTurn(state, s) \in TurnRows
BY ReceiptsAssumption
   DEF Turns, NoTurn, NoCall, CallRows, Stages, Claims, NewTurn, TurnRows, TurnStates, Steers

LEMMA ReceiptsInitially == ReceiptsInit => ReceiptsInv
<1> SUFFICES ASSUME ReceiptsInit PROVE ReceiptsInv
  OBVIOUS
<1>1. \A t \in Turns : /\ dialog[t] \in TurnRows /\ dialog[t].state = "none"
                       /\ ~dialog[t].accepted /\ dialog[t].source = NoTurn
  BY TurnFacts DEF ReceiptsInit, NewTurn, TurnStates
<1>2. \A c \in Calls : calls[c] \in CallRows /\ calls[c].at = "free"
  BY TurnFacts DEF ReceiptsInit
<1>3. ReceiptsTypeOK
  <2>1. dialog \in [Turns -> TurnRows] /\ calls \in [Calls -> CallRows]
    BY <1>1, <1>2 DEF ReceiptsInit
  <2>2. /\ receipts \in [Turns -> [Tools -> Receipts]]
        /\ acts \in [Turns -> [Tools -> 0 .. MaxActs]]
        /\ refused \in [Turns -> [Tools -> Nat]]
    BY ReceiptsAssumption DEF ReceiptsInit, Receipts
  <2>3. profile \in Profiles /\ speaker \in BOOLEAN /\ term \in 1 .. MaxTerms
    <3>1. profile \in Profiles /\ speaker = FALSE /\ term = 1
      BY DEF ReceiptsInit
    <3>2. 1 \in 1 .. MaxTerms
      BY ReceiptsAssumption
    <3> QED
      BY <3>1, <3>2
  <2> QED
    BY <2>1, <2>2, <2>3 DEF ReceiptsTypeOK
<1> QED
  BY <1>1, <1>2, <1>3
     DEF ReceiptsInit, ReceiptsInv, CallsHaveTurns, FreshHoldsReceipt, OneFreshCall, Fresh, ActsArePaid,
         UnactedIsPaid, TurnsAreInOrder, Live, WaitingIsLater, RepeatsAreLater,
         RepeatsClaimWhatIsFree, NothingActsBehindTheAnswer

\* Calls stay as they are, but for their thread, or are gone with the process.
CallsStay ==
    \A c \in Calls :
        \/ calls'[c].at = "free"
        \/ /\ calls'[c].at = calls[c].at /\ calls'[c].turn = calls[c].turn
           /\ calls'[c].tool = calls[c].tool /\ calls'[c].claim = calls[c].claim

\* Turns go on: a new one comes last, one is submitted when none before it lives, one
\* that repeats another has no receipts yet, and one that is answered has none open.
Proceeds(t) ==
    LET r == dialog'[t]
    IN  /\ dialog[t].state # "none" /\ r.state # "none"
        /\ Finished(t) => r.state \in {"completed", "failed"}
        /\ r.state = "submitted" =>
              \/ dialog[t].state = "submitted"
              \/ dialog[t].state = "queued" /\ \A u \in Turns : u < t => ~Live(u)
        /\ \/ r.source = dialog[t].source
           \/ /\ \A a \in Tools : receipts[t][a] = "none"
              /\ r.source # NoTurn /\ r.source < t
        /\ r.accepted => dialog[t].accepted \/ \A a \in Tools : receipts[t][a] # "started"
ComesLast(t) ==
    LET r == dialog'[t]
    IN  /\ dialog[t].state = "none" /\ \A u \in Turns : u < t => dialog[u].state # "none"
        /\ r.state = "queued" /\ ~r.accepted
        /\ r.source # NoTurn => r.source < t
WaitsForALaterOne(t) ==
    LET r == dialog'[t]
    IN  r.state \in {"queued", "submitted"} /\ r.steer = "owner" =>
            /\ r.waiting \in Turns /\ t < r.waiting
            /\ dialog[r.waiting].state # "none"
TurnsGoOn ==
    \A t \in Turns :
        \/ dialog'[t] = dialog[t]
        \/ (Proceeds(t) \/ ComesLast(t)) /\ WaitsForALaterOne(t)

LEMMA TurnStep ==
    ASSUME ReceiptsInv, ReceiptsTypeOK', UNCHANGED <<receipts, acts, refused>>, CallsStay, TurnsGoOn
    PROVE  ReceiptsInv'
<1>1. \A t \in Turns :
          /\ dialog[t] \in TurnRows /\ dialog'[t] \in TurnRows /\ t \in Nat
          /\ dialog[t].state # "none" => dialog'[t].state # "none"
          /\ Finished(t) => dialog'[t].state \in {"completed", "failed"}
          /\ dialog'[t].state \in {"queued", "submitted"} => Live(t) \/ dialog[t].state = "none"
          /\ dialog'[t].source # dialog[t].source => \A a \in Tools : receipts[t][a] = "none"
          /\ dialog[t].source # NoTurn /\ dialog[t].state # "none" => dialog'[t].source # NoTurn
          /\ dialog'[t].source # NoTurn => dialog'[t].source < t /\ dialog'[t].state # "none"
  <2> SUFFICES ASSUME NEW t \in Turns PROVE <1>1!(t)
    OBVIOUS
  <2>1. dialog[t] \in TurnRows /\ dialog'[t] \in TurnRows /\ t \in Nat
    BY TurnFacts DEF ReceiptsInv, ReceiptsTypeOK
  <2>2. /\ dialog[t].state = "none" => \A a \in Tools : receipts[t][a] = "none"
        /\ dialog[t].source # NoTurn => dialog[t].source < t /\ dialog[t].state # "none"
    BY DEF ReceiptsInv, TurnsAreInOrder, RepeatsAreLater
  <2>3. CASE dialog'[t] = dialog[t]
    BY <2>1, <2>2, <2>3 DEF Live, Finished, TurnRows, TurnStates
  <2>4. CASE Proceeds(t)
    BY <2>1, <2>2, <2>4 DEF Proceeds, Live, Finished, TurnRows, TurnStates
  <2>5. CASE ComesLast(t)
    BY <2>1, <2>2, <2>5 DEF ComesLast, Live, Finished
  <2> QED
    BY <2>3, <2>4, <2>5 DEF TurnsGoOn
<1>2. \A c \in Calls : calls'[c].at # "free" =>
          /\ calls[c].at # "free" /\ calls[c].turn \in Turns /\ calls[c].tool \in Tools
          /\ calls'[c].at = calls[c].at /\ calls'[c].turn = calls[c].turn
          /\ calls'[c].tool = calls[c].tool /\ calls'[c].claim = calls[c].claim
  BY TurnFacts DEF ReceiptsInv, CallsHaveTurns, ReceiptsTypeOK, CallRows, CallsStay
<1>3. CallsHaveTurns'
  BY <1>1, <1>2 DEF ReceiptsInv, CallsHaveTurns
<1>4. FreshHoldsReceipt' /\ OneFreshCall' /\ UnactedIsPaid'
  BY <1>2 DEF ReceiptsInv, FreshHoldsReceipt, OneFreshCall, UnactedIsPaid, Fresh, Receipt
<1>5. ActsArePaid'
  BY DEF ReceiptsInv, ActsArePaid
<1>6. TurnsAreInOrder'
  <2>1. ASSUME NEW t \in Turns, NEW w \in Turns, t < w, dialog'[w].state # "none"
        PROVE  dialog'[t].state # "none"
    BY <1>1, <2>1 DEF ReceiptsInv, TurnsAreInOrder, TurnsGoOn, Proceeds, ComesLast
  <2>2. ASSUME NEW t \in Turns, NEW w \in Turns, t < w, Live(t)'
        PROVE  dialog'[w].state # "submitted" /\ \A a \in Tools : receipts[w][a] = "none"
    <3>1. CASE Live(t)
      BY <1>1, <2>2, <3>1 DEF ReceiptsInv, TurnsAreInOrder, TurnsGoOn, Proceeds, ComesLast, Live
    <3>2. CASE dialog[t].state = "none"
      BY <1>1, <2>2, <3>2 DEF ReceiptsInv, TurnsAreInOrder, TurnsGoOn, Proceeds, ComesLast, Live
    <3> QED
      BY <1>1, <2>2, <3>1, <3>2 DEF Live
  <2> QED
    BY <1>1, <2>1, <2>2 DEF ReceiptsInv, TurnsAreInOrder, Live
<1>7. WaitingIsLater'
  <2> SUFFICES ASSUME NEW t \in Turns, Live(t)', dialog'[t].steer = "owner"
               PROVE  WaitingIsLater!(t)'
    BY DEF WaitingIsLater
  <2>1. dialog'[t].waiting \in Turns /\ t < dialog'[t].waiting /\ dialog[dialog'[t].waiting].state # "none"
    BY DEF ReceiptsInv, WaitingIsLater, TurnsGoOn, WaitsForALaterOne, Live
  <2> QED
    BY <1>1, <2>1
<1>8. RepeatsAreLater'
  BY <1>1 DEF RepeatsAreLater
<1>9. RepeatsClaimWhatIsFree'
  <2> SUFFICES ASSUME NEW w \in Turns, NEW a \in Tools, dialog'[w].source # NoTurn,
                      receipts[w][a] # "none"
               PROVE  /\ dialog'[dialog'[w].source].state \in {"completed", "failed"}
                      /\ receipts[dialog'[w].source][a] \in {"none", "refused"}
    BY DEF RepeatsClaimWhatIsFree, Finished
  <2>1. dialog'[w].source = dialog[w].source
    BY <1>1
  <2>2. dialog[w].source \in Turns
    <3>1. dialog[w].source \in 0 .. MaxTurns
      BY <1>1 DEF TurnRows
    <3> QED
      BY <2>1, <3>1, TurnFacts
  <2> QED
    BY <1>1, <2>1, <2>2 DEF ReceiptsInv, RepeatsClaimWhatIsFree, Finished
<1>10. NothingActsBehindTheAnswer'
  <2> SUFFICES ASSUME NEW c \in Calls, Fresh(c)', dialog'[calls'[c].turn].accepted
               PROVE  receipts[calls'[c].turn][calls'[c].tool] = "unknown"
    BY DEF NothingActsBehindTheAnswer, Fresh, Receipt
  <2> DEFINE t == calls[c].turn
  <2>1. /\ Fresh(c) /\ t \in Turns /\ calls[c].tool \in Tools
        /\ calls'[c].turn = t /\ calls'[c].tool = calls[c].tool
    BY <1>2 DEF Fresh
  <2>2. dialog[t].state # "none"
    BY <2>1 DEF ReceiptsInv, CallsHaveTurns, Fresh
  <2>3. dialog[t].accepted \/ \A a \in Tools : receipts[t][a] # "started"
    BY <2>1, <2>2 DEF TurnsGoOn, Proceeds, ComesLast
  <2> QED
    BY <2>1, <2>3 DEF ReceiptsInv, FreshHoldsReceipt, NothingActsBehindTheAnswer, Fresh, Receipt
<1> QED
  BY <1>3, <1>4, <1>5, <1>6, <1>7, <1>8, <1>9, <1>10 DEF ReceiptsInv

LEMMA OneRow ==
    ASSUME ReceiptsTypeOK, NEW t \in Turns, NEW r \in TurnRows, dialog' = [dialog EXCEPT ![t] = r]
    PROVE  /\ dialog' \in [Turns -> TurnRows] /\ dialog'[t] = r
           /\ \A u \in Turns \ {t} : dialog'[u] = dialog[u]
BY DEF ReceiptsTypeOK

LEMMA TwoRows ==
    ASSUME ReceiptsTypeOK, NEW t \in Turns, NEW w \in Turns, t # w, NEW r \in TurnRows, NEW q \in TurnRows,
           dialog' = [[dialog EXCEPT ![w] = q] EXCEPT ![t] = r]
    PROVE  /\ dialog' \in [Turns -> TurnRows] /\ dialog'[t] = r /\ dialog'[w] = q
           /\ \A u \in Turns \ {t, w} : dialog'[u] = dialog[u]
BY DEF ReceiptsTypeOK

\* A turn that lives is steered, answered, put back or ended.
LEMMA OneTurn ==
    ASSUME ReceiptsInv, NEW t \in Turns, NEW r \in TurnRows, dialog' = [dialog EXCEPT ![t] = r],
           Live(t), r.state = dialog[t].state \/ r.state \in {"queued", "completed", "failed"},
           r.source = dialog[t].source,
           r.accepted => dialog[t].accepted \/ \A a \in Tools : receipts[t][a] # "started",
           r.steer = "owner" => \/ dialog[t].steer = "owner" /\ r.waiting = dialog[t].waiting
                                \/ /\ r.waiting \in Turns /\ t < r.waiting
                                   /\ dialog[r.waiting].state # "none",
           calls' \in [Calls -> CallRows], CallsStay, speaker' \in BOOLEAN,
           UNCHANGED <<profile, term, receipts, acts, refused>>
    PROVE  ReceiptsInv'
<1>1. ReceiptsTypeOK /\ dialog[t] \in TurnRows
  BY DEF ReceiptsInv, ReceiptsTypeOK
<1>2. /\ dialog' \in [Turns -> TurnRows] /\ dialog'[t] = r
      /\ \A u \in Turns \ {t} : dialog'[u] = dialog[u]
  BY <1>1, OneRow
<1>3. ReceiptsTypeOK'
  BY <1>1, <1>2 DEF ReceiptsTypeOK
<1>4. Proceeds(t)
  BY <1>2 DEF Proceeds, Live, Finished
<1>5. WaitsForALaterOne(t)
  BY <1>2 DEF WaitsForALaterOne, ReceiptsInv, WaitingIsLater
<1> QED
  BY <1>2, <1>3, <1>4, <1>5, TurnStep DEF TurnsGoOn

LEMMA CallsStayOrGo ==
    ASSUME ReceiptsInv
    PROVE  /\ calls' = calls => calls' \in [Calls -> CallRows] /\ CallsStay
           /\ RetireThread => calls' \in [Calls -> CallRows] /\ CallsStay /\ speaker' \in BOOLEAN
           /\ calls' = [c \in Calls |-> NoCall] => calls' \in [Calls -> CallRows] /\ CallsStay
<1>1. calls \in [Calls -> CallRows]
  BY DEF ReceiptsInv, ReceiptsTypeOK
<1>2. ASSUME calls' = calls PROVE calls' \in [Calls -> CallRows] /\ CallsStay
  BY <1>1, <1>2 DEF CallsStay
<1>3. ASSUME RetireThread PROVE calls' \in [Calls -> CallRows] /\ CallsStay /\ speaker' \in BOOLEAN
  <2>1. \A c \in Calls : [calls[c] EXCEPT !.spoken = FALSE] \in CallRows
    BY <1>1 DEF CallRows
  <2> QED
    BY <1>1, <1>3, <2>1 DEF RetireThread, CallsStay, CallRows
<1>4. ASSUME calls' = [c \in Calls |-> NoCall] PROVE calls' \in [Calls -> CallRows] /\ CallsStay
  BY <1>4, TurnFacts DEF CallsStay
<1> QED
  BY <1>2, <1>3, <1>4

\* Turns that arrive, and the lease.
LEMMA ArrivalStep ==
    ASSUME ReceiptsInv, UNCHANGED profile,
           \/ \E t \in Turns : OwnerWrites(t) \/ Submit(t)
           \/ LeaseIsTakenOver
    PROVE  ReceiptsInv'
<1>0. ReceiptsTypeOK
  BY DEF ReceiptsInv
<1>1. ASSUME NEW t \in Turns, OwnerWrites(t) PROVE ReceiptsInv'
  <2> DEFINE r == NewTurn("queued", NoTurn)
  <2>1. r \in TurnRows /\ r.state = "queued" /\ r.source = NoTurn /\ r.steer = "none" /\ ~r.accepted
    BY TurnFacts DEF NewTurn, TurnStates
  <2>2. dialog' = [dialog EXCEPT ![t] = r] /\ UNCHANGED <<speaker, term, receipts, calls, acts, refused>>
    BY <1>1 DEF OwnerWrites
  <2> HIDE DEF r
  <2>3. /\ dialog' \in [Turns -> TurnRows] /\ dialog'[t] = r
        /\ \A u \in Turns \ {t} : dialog'[u] = dialog[u]
    BY <1>0, <2>1, <2>2, OneRow
  <2>4. ReceiptsTypeOK'
    BY <1>0, <2>2, <2>3 DEF ReceiptsTypeOK
  <2>5. ComesLast(t) /\ WaitsForALaterOne(t)
    BY <1>1, <2>1, <2>3 DEF ComesLast, WaitsForALaterOne, OwnerWrites
  <2> QED
    BY <2>2, <2>3, <2>4, <2>5, TurnStep DEF CallsStay, TurnsGoOn
<1>2. ASSUME NEW t \in Turns, Submit(t) PROVE ReceiptsInv'
  <2> DEFINE r == [dialog[t] EXCEPT !.state = "submitted", !.term = term]
  <2>1. dialog[t] \in TurnRows /\ term \in 0 .. MaxTerms
    BY <1>0 DEF ReceiptsTypeOK
  <2>2. dialog' = [dialog EXCEPT ![t] = r]
    BY <1>0, <1>2 DEF Submit, ReceiptsTypeOK
  <2>3. /\ r \in TurnRows /\ r.state = "submitted" /\ r.source = dialog[t].source
        /\ r.accepted = dialog[t].accepted /\ r.steer = dialog[t].steer /\ r.waiting = dialog[t].waiting
    BY <2>1 DEF TurnRows, TurnStates
  <2> HIDE DEF r
  <2>4. /\ dialog' \in [Turns -> TurnRows] /\ dialog'[t] = r
        /\ \A u \in Turns \ {t} : dialog'[u] = dialog[u]
    BY <1>0, <2>2, <2>3, OneRow
  <2>5. ReceiptsTypeOK'
    BY <1>0, <1>2, <2>4 DEF ReceiptsTypeOK, Submit
  <2>6. \A u \in Turns : ~Submitted(u) /\ (u < t => ~Live(u))
    BY <1>2, TurnFacts DEF Submit, Submitted, Live
  <2>7. Proceeds(t) /\ WaitsForALaterOne(t)
    BY <1>2, <2>3, <2>4, <2>6
       DEF Proceeds, WaitsForALaterOne, Submit, Live, Finished, ReceiptsInv, WaitingIsLater
  <2> QED
    BY <1>2, <2>4, <2>5, <2>7, TurnStep DEF Submit, CallsStay, TurnsGoOn
<1>3. CASE LeaseIsTakenOver
  <2>1. calls' \in [Calls -> CallRows] /\ CallsStay
    BY <1>3, CallsStayOrGo DEF LeaseIsTakenOver
  <2>2. ReceiptsTypeOK'
    BY <1>0, <1>3, <2>1, ReceiptsAssumption DEF LeaseIsTakenOver, ReceiptsTypeOK
  <2> QED
    BY <1>3, <2>1, <2>2, TurnStep DEF LeaseIsTakenOver, TurnsGoOn
<1> QED
  BY <1>1, <1>2, <1>3

\* The turn in hand.
LEMMA SteeringStep ==
    ASSUME ReceiptsInv, UNCHANGED profile, NEW t \in Turns,
           \/ AdoptSubmittedTurnFence(t)
           \/ \E w \in Turns : ReserveControllerSteer(t, w)
           \/ ClaimControllerSupervisorSteer(t) \/ SettleControllerSupervisorSteer(t)
           \/ ProposeFinalization(t)
    PROVE  ReceiptsInv'
<1>1. /\ ReceiptsTypeOK /\ dialog[t] \in TurnRows /\ term \in 0 .. MaxTerms /\ speaker \in BOOLEAN
      /\ calls \in [Calls -> CallRows] /\ t \in Nat
  BY TurnFacts DEF ReceiptsInv, ReceiptsTypeOK
<1>2. dialog[t].state = "submitted" /\ UNCHANGED <<speaker, term, receipts, calls, acts, refused>>
  BY DEF AdoptSubmittedTurnFence, ReserveControllerSteer, ClaimControllerSupervisorSteer,
         SettleControllerSupervisorSteer, ProposeFinalization, Open, Answering, Submitted
<1>3. calls' \in [Calls -> CallRows] /\ CallsStay
  BY <1>2, CallsStayOrGo
<1>4. ASSUME NEW r \in TurnRows, dialog' = [dialog EXCEPT ![t] = r], r.state = dialog[t].state,
             r.source = dialog[t].source,
             r.accepted => dialog[t].accepted \/ \A a \in Tools : receipts[t][a] # "started",
             r.steer = "owner" => \/ dialog[t].steer = "owner" /\ r.waiting = dialog[t].waiting
                                  \/ /\ r.waiting \in Turns /\ t < r.waiting
                                     /\ dialog[r.waiting].state # "none"
      PROVE  ReceiptsInv'
  BY <1>1, <1>2, <1>3, <1>4, OneTurn DEF Live
<1>5. CASE AdoptSubmittedTurnFence(t)
  <2> DEFINE r == [dialog[t] EXCEPT !.term = term]
  <2>1. dialog' = [dialog EXCEPT ![t] = r]
    BY <1>1, <1>5 DEF AdoptSubmittedTurnFence, ReceiptsTypeOK
  <2>2. r \in TurnRows /\ r.state = dialog[t].state /\ r.source = dialog[t].source
        /\ r.accepted = dialog[t].accepted /\ r.steer = dialog[t].steer /\ r.waiting = dialog[t].waiting
    BY <1>1 DEF TurnRows
  <2> HIDE DEF r
  <2> QED
    BY <1>4, <2>1, <2>2
<1>6. ASSUME NEW w \in Turns, ReserveControllerSteer(t, w) PROVE ReceiptsInv'
  <2> DEFINE n == dialog[t].upsets + 1
             r == [dialog[t] EXCEPT !.steer = "owner", !.waiting = w, !.upsets = n]
  <2>1. dialog' = [dialog EXCEPT ![t] = r]
    BY <1>1, <1>6 DEF ReserveControllerSteer, ReceiptsTypeOK
  <2>2. n \in 0 .. MaxUpsets /\ w \in 0 .. MaxTurns /\ "owner" \in Steers
    <3>1. dialog[t].upsets \in 0 .. MaxUpsets /\ dialog[t].upsets < MaxUpsets /\ MaxUpsets \in Nat
      BY <1>1, <1>6, ReceiptsAssumption DEF ReserveControllerSteer, TurnRows
    <3>2. w \in 0 .. MaxTurns
      BY TurnFacts
    <3> QED
      BY <3>1, <3>2 DEF Steers
  <2>3. r \in TurnRows /\ r.state = dialog[t].state /\ r.source = dialog[t].source
        /\ r.accepted = dialog[t].accepted /\ r.waiting = w
    BY <1>1, <2>2 DEF TurnRows
  <2>4. t < w /\ dialog[w].state # "none"
    <3>1. w \in Nat /\ dialog[w].state = "queued"
      BY <1>6, TurnFacts DEF ReserveControllerSteer
    <3>2. ~(w < t)
      BY <1>2, <3>1 DEF ReceiptsInv, TurnsAreInOrder, Live
    <3> QED
      BY <1>1, <1>2, <3>1, <3>2
  <2> HIDE DEF r
  <2> QED
    BY <1>4, <2>1, <2>3, <2>4
<1>7. CASE ClaimControllerSupervisorSteer(t)
  <2> DEFINE n == dialog[t].upsets + 1
             r == [dialog[t] EXCEPT !.steer = "supervisor", !.upsets = n]
  <2>1. dialog' = [dialog EXCEPT ![t] = r]
    BY <1>1, <1>7 DEF ClaimControllerSupervisorSteer, ReceiptsTypeOK
  <2>2. n \in 0 .. MaxUpsets /\ "supervisor" \in Steers
    BY <1>1, <1>7, ReceiptsAssumption DEF ClaimControllerSupervisorSteer, TurnRows, Steers
  <2>3. r \in TurnRows /\ r.state = dialog[t].state /\ r.source = dialog[t].source
        /\ r.accepted = dialog[t].accepted /\ r.steer = "supervisor"
    BY <1>1, <2>2 DEF TurnRows
  <2> HIDE DEF r
  <2> QED
    BY <1>4, <2>1, <2>3
<1>8. CASE SettleControllerSupervisorSteer(t)
  <2> DEFINE r == [dialog[t] EXCEPT !.steer = "none"]
  <2>1. dialog' = [dialog EXCEPT ![t] = r]
    BY <1>1, <1>8 DEF SettleControllerSupervisorSteer, ReceiptsTypeOK
  <2>2. r \in TurnRows /\ r.state = dialog[t].state /\ r.source = dialog[t].source
        /\ r.accepted = dialog[t].accepted /\ r.steer = "none"
    BY <1>1 DEF TurnRows, Steers
  <2> HIDE DEF r
  <2> QED
    BY <1>4, <2>1, <2>2
<1>9. CASE ProposeFinalization(t)
  <2> DEFINE r == [dialog[t] EXCEPT !.accepted = TRUE]
  <2>1. dialog' = [dialog EXCEPT ![t] = r] /\ \A a \in Tools : receipts[t][a] # "started"
    BY <1>1, <1>9 DEF ProposeFinalization, ReceiptsTypeOK
  <2>2. r \in TurnRows /\ r.state = dialog[t].state /\ r.source = dialog[t].source
        /\ r.steer = dialog[t].steer /\ r.waiting = dialog[t].waiting
    BY <1>1 DEF TurnRows
  <2> HIDE DEF r
  <2> QED
    BY <1>4, <2>1, <2>2
<1> QED
  BY <1>5, <1>6, <1>7, <1>8, <1>9

LEMMA EndingStep ==
    ASSUME ReceiptsInv, UNCHANGED profile, NEW t \in Turns, CompleteFromFinalization(t) \/ Rerun(t)
    PROVE  ReceiptsInv'
<1>1. /\ ReceiptsTypeOK /\ dialog[t] \in TurnRows /\ speaker \in BOOLEAN /\ calls \in [Calls -> CallRows]
  BY DEF ReceiptsInv, ReceiptsTypeOK
<1>2. dialog[t].state = "submitted" /\ UNCHANGED <<term, receipts, acts, refused>>
  BY DEF CompleteFromFinalization, Rerun, Open, Answering, Submitted
<1>3. calls' \in [Calls -> CallRows] /\ CallsStay /\ speaker' \in BOOLEAN
  BY <1>1, CallsStayOrGo DEF CompleteFromFinalization, Rerun
<1>4. \E r \in TurnRows :
          /\ dialog' = [dialog EXCEPT ![t] = r] /\ r.state \in {"completed", "queued"}
          /\ r.source = dialog[t].source /\ r.accepted = dialog[t].accepted
          /\ r.steer = dialog[t].steer /\ r.waiting = dialog[t].waiting
  <2>1. CASE CompleteFromFinalization(t)
    <3> DEFINE r == [dialog[t] EXCEPT !.state = "completed", !.upsets = 0]
    <3>1. dialog' = [dialog EXCEPT ![t] = r]
      BY <1>1, <2>1 DEF CompleteFromFinalization, ReceiptsTypeOK
    <3>2. r \in TurnRows
      <4>1. 0 \in 0 .. MaxUpsets /\ "completed" \in TurnStates
        BY ReceiptsAssumption DEF TurnStates
      <4> QED
        BY <1>1, <4>1 DEF TurnRows
    <3> WITNESS r \in TurnRows
    <3> QED
      BY <1>1, <3>1 DEF TurnRows
  <2>2. CASE Rerun(t)
    <3> DEFINE n == dialog[t].upsets + 1
               r == [dialog[t] EXCEPT !.state = "queued", !.term = 0, !.upsets = n]
    <3>1. dialog' = [dialog EXCEPT ![t] = r]
      BY <1>1, <2>2 DEF Rerun, ReceiptsTypeOK
    <3>2. r \in TurnRows
      <4>1. dialog[t].upsets \in 0 .. MaxUpsets /\ dialog[t].upsets < MaxUpsets /\ MaxUpsets \in Nat
        BY <1>1, <2>2, ReceiptsAssumption DEF Rerun, TurnRows
      <4>2. n \in 0 .. MaxUpsets /\ 0 \in 0 .. MaxTerms /\ "queued" \in TurnStates
        BY <4>1, ReceiptsAssumption DEF TurnStates
      <4> QED
        BY <1>1, <4>2 DEF TurnRows
    <3> WITNESS r \in TurnRows
    <3> QED
      BY <1>1, <3>1 DEF TurnRows
  <2> QED
    BY <2>1, <2>2
<1> QED
  BY <1>2, <1>3, <1>4, OneTurn DEF Live

\* A message that waited is answered as a part of the turn, or is to repeat it.
LEMMA SteerSettlementStep ==
    ASSUME ReceiptsInv, UNCHANGED profile, NEW t \in Turns, SettleControllerSteer(t)
    PROVE  ReceiptsInv'
<1> DEFINE w == dialog[t].waiting
           Noted(turns) == dialog' = [turns EXCEPT ![t].steer = "none", ![t].waiting = NoTurn]
           r == [dialog[t] EXCEPT !.steer = "none", !.waiting = NoTurn]
<1>1. /\ ReceiptsTypeOK /\ dialog \in [Turns -> TurnRows] /\ dialog[t] \in TurnRows /\ t \in Nat
  BY TurnFacts DEF ReceiptsInv, ReceiptsTypeOK
<1>2. /\ dialog[t].state = "submitted" /\ UNCHANGED <<speaker, term, receipts, calls, acts, refused>>
      /\ Noted(dialog) \/ Noted([dialog EXCEPT ![w].state = "completed"])
                       \/ Noted([dialog EXCEPT ![w].source = t])
  BY DEF SettleControllerSteer, Open, Answering, Submitted
<1>3. w \in Turns /\ t < w /\ dialog[w].state # "none" /\ dialog[w] \in TurnRows /\ w \in Nat
  BY <1>1, <1>2, TurnFacts DEF SettleControllerSteer, ReceiptsInv, WaitingIsLater, Live
<1>4. dialog[w].state # "submitted" /\ \A a \in Tools : receipts[w][a] = "none"
  BY <1>2, <1>3 DEF ReceiptsInv, TurnsAreInOrder, Live
<1>5. /\ r \in TurnRows /\ r.state = dialog[t].state /\ r.source = dialog[t].source
      /\ r.accepted = dialog[t].accepted /\ r.steer = "none"
  <2>1. 0 \in 0 .. MaxTurns /\ NoTurn = 0
    BY ReceiptsAssumption DEF NoTurn
  <2> QED
    BY <1>1, <2>1 DEF TurnRows, Steers
<1>6. calls' \in [Calls -> CallRows] /\ CallsStay
  BY <1>2, CallsStayOrGo
<1>7. CASE Noted(dialog)
  <2>1. dialog' = [dialog EXCEPT ![t] = r]
    BY <1>1, <1>7
  <2>2. speaker' \in BOOLEAN
    BY <1>1, <1>2 DEF ReceiptsTypeOK
  <2> HIDE DEF r
  <2> QED
    BY <1>2, <1>5, <1>6, <2>1, <2>2, OneTurn DEF Live
<1>8. ASSUME NEW q \in TurnRows, dialog' = [[dialog EXCEPT ![w] = q] EXCEPT ![t] = r],
             \/ q.state = "completed" /\ q.source = dialog[w].source
             \/ q.state = dialog[w].state /\ q.source = t,
             q.accepted = dialog[w].accepted, q.steer = dialog[w].steer, q.waiting = dialog[w].waiting
      PROVE  ReceiptsInv'
  <2> HIDE DEF r, w
  <2>1. /\ dialog' \in [Turns -> TurnRows] /\ dialog'[t] = r /\ dialog'[w] = q
        /\ \A u \in Turns \ {t, w} : dialog'[u] = dialog[u]
    BY <1>1, <1>3, <1>5, <1>8, TwoRows
  <2>2. ReceiptsTypeOK'
    BY <1>1, <1>2, <2>1 DEF ReceiptsTypeOK
  <2>3. Proceeds(t) /\ WaitsForALaterOne(t)
    BY <1>2, <1>5, <2>1 DEF Proceeds, WaitsForALaterOne, Finished
  <2>4. Proceeds(w)
    BY <1>3, <1>4, <1>8, <2>1, TurnFacts DEF Proceeds, Finished
  <2>5. WaitsForALaterOne(w)
    <3>1. ~(q.state \in {"queued", "submitted"} /\ q.steer = "owner") \/ Live(w)
      BY <1>8 DEF Live
    <3>2. Live(w) /\ dialog[w].steer = "owner" =>
              /\ dialog[w].waiting \in Turns /\ w < dialog[w].waiting
              /\ dialog[dialog[w].waiting].state # "none"
      BY <1>3 DEF ReceiptsInv, WaitingIsLater
    <3> QED
      BY <1>8, <2>1, <3>1, <3>2 DEF WaitsForALaterOne
  <2> QED
    BY <1>2, <1>6, <2>1, <2>2, <2>3, <2>4, <2>5, TurnStep DEF TurnsGoOn
<1>9. CASE Noted([dialog EXCEPT ![w].state = "completed"])
  <2> DEFINE q == [dialog[w] EXCEPT !.state = "completed"]
  <2>1. dialog' = [[dialog EXCEPT ![w] = q] EXCEPT ![t] = r]
    <3> DEFINE turns == [dialog EXCEPT ![w] = q]
    <3>1. turns = [dialog EXCEPT ![w].state = "completed"]
      BY <1>1
    <3>2. turns \in [Turns -> TurnRows] /\ turns[t] = dialog[t]
      BY <1>1, <1>3 DEF TurnRows, TurnStates
    <3> HIDE DEF turns
    <3>3. dialog' = [turns EXCEPT ![t] = [turns[t] EXCEPT !.steer = "none", !.waiting = NoTurn]]
      BY <1>9, <3>1, <3>2
    <3> QED
      BY <3>2, <3>3 DEF turns
  <2>2. /\ q \in TurnRows /\ q.state = "completed" /\ q.source = dialog[w].source
        /\ q.accepted = dialog[w].accepted /\ q.steer = dialog[w].steer /\ q.waiting = dialog[w].waiting
    BY <1>3 DEF TurnRows, TurnStates
  <2> HIDE DEF q, r, w
  <2> QED
    BY <1>8, <2>1, <2>2
<1>10. CASE Noted([dialog EXCEPT ![w].source = t])
  <2> DEFINE q == [dialog[w] EXCEPT !.source = t]
  <2>1. dialog' = [[dialog EXCEPT ![w] = q] EXCEPT ![t] = r]
    <3> DEFINE turns == [dialog EXCEPT ![w] = q]
    <3>1. turns = [dialog EXCEPT ![w].source = t]
      BY <1>1
    <3>2. turns \in [Turns -> TurnRows] /\ turns[t] = dialog[t]
      <4>1. t \in 0 .. MaxTurns /\ w # t
        BY <1>1, <1>3, TurnFacts
      <4> QED
        BY <1>1, <1>3, <4>1 DEF TurnRows
    <3> HIDE DEF turns
    <3>3. dialog' = [turns EXCEPT ![t] = [turns[t] EXCEPT !.steer = "none", !.waiting = NoTurn]]
      BY <1>10, <3>1, <3>2
    <3> QED
      BY <3>2, <3>3 DEF turns
  <2>2. /\ q \in TurnRows /\ q.state = dialog[w].state /\ q.source = t
        /\ q.accepted = dialog[w].accepted /\ q.steer = dialog[w].steer /\ q.waiting = dialog[w].waiting
    <3>1. t \in 0 .. MaxTurns
      BY TurnFacts
    <3> QED
      BY <1>3, <3>1 DEF TurnRows
  <2> HIDE DEF q, r, w
  <2> QED
    BY <1>8, <2>1, <2>2
<1> QED
  BY <1>2, <1>7, <1>9, <1>10

LEMMA FailureStep ==
    ASSUME ReceiptsInv, UNCHANGED profile, NEW t \in Turns, FailAndRetire(t)
    PROVE  ReceiptsInv'
<1> DEFINE r == [dialog[t] EXCEPT !.state = "failed", !.term = 0, !.upsets = 0]
           failed == [dialog EXCEPT ![t].state = "failed", ![t].term = 0, ![t].upsets = 0]
<1>1. /\ ReceiptsTypeOK /\ dialog \in [Turns -> TurnRows] /\ dialog[t] \in TurnRows /\ t \in Nat
  BY TurnFacts DEF ReceiptsInv, ReceiptsTypeOK
<1>2. dialog[t].state = "submitted" /\ UNCHANGED <<term, receipts, acts, refused>> /\ RetireThread
  BY DEF FailAndRetire, Open, Answering, Submitted
<1>3. calls' \in [Calls -> CallRows] /\ CallsStay /\ speaker' \in BOOLEAN
  BY <1>2, CallsStayOrGo
<1>4. failed = [dialog EXCEPT ![t] = r]
  BY <1>1
<1>5. /\ r \in TurnRows /\ r.state = "failed" /\ r.source = dialog[t].source
      /\ r.accepted = dialog[t].accepted /\ r.steer = dialog[t].steer /\ r.waiting = dialog[t].waiting
  <2>1. 0 \in 0 .. MaxTerms /\ 0 \in 0 .. MaxUpsets /\ "failed" \in TurnStates
    BY ReceiptsAssumption DEF TurnStates
  <2> QED
    BY <1>1, <2>1 DEF TurnRows
<1>6. CASE dialog' = failed
  <2>1. dialog' = [dialog EXCEPT ![t] = r]
    BY <1>4, <1>6
  <2> HIDE DEF r, failed
  <2> QED
    BY <1>2, <1>3, <1>5, <2>1, OneTurn DEF Live
<1>7. ASSUME NEW u \in Turns, dialog[u].state = "none", \A v \in Turns : v < u => dialog[v].state # "none",
             dialog' = [failed EXCEPT ![u] = NewTurn("queued", t)]
      PROVE  ReceiptsInv'
  <2> DEFINE q == NewTurn("queued", t)
  <2>1. q \in TurnRows /\ q.state = "queued" /\ q.source = t /\ q.steer = "none" /\ ~q.accepted
    <3>1. t \in 0 .. MaxTurns
      BY TurnFacts
    <3> QED
      BY <3>1, TurnFacts DEF NewTurn, TurnStates
  <2>2. dialog' = [[dialog EXCEPT ![t] = r] EXCEPT ![u] = q]
    BY <1>4, <1>7
  <2>3. u # t /\ u \in Nat
    BY <1>2, <1>7, TurnFacts
  <2>4. t < u
    BY <1>1, <1>2, <1>7, <2>3 DEF ReceiptsInv, TurnsAreInOrder
  <2> HIDE DEF q, r, failed
  <2>5. /\ dialog' \in [Turns -> TurnRows] /\ dialog'[t] = r /\ dialog'[u] = q
        /\ \A v \in Turns \ {t, u} : dialog'[v] = dialog[v]
    BY <1>1, <1>5, <2>1, <2>2, <2>3, TwoRows
  <2>6. ReceiptsTypeOK'
    BY <1>1, <1>2, <1>3, <2>5 DEF ReceiptsTypeOK
  <2>7. Proceeds(t) /\ WaitsForALaterOne(t)
    BY <1>2, <1>5, <2>5 DEF Proceeds, WaitsForALaterOne, Finished
  <2>8. ComesLast(u) /\ WaitsForALaterOne(u)
    BY <1>7, <2>1, <2>4, <2>5 DEF ComesLast, WaitsForALaterOne
  <2> QED
    BY <1>2, <1>3, <2>5, <2>6, <2>7, <2>8, TurnStep DEF TurnsGoOn
<1> QED
  BY <1>6, <1>7 DEF FailAndRetire

\* A call writes at one turn and tool, and of the rows of turns only that they were touched.
Elsewhere(t, a) ==
    \A u \in Turns, b \in Tools : u # t \/ b # a =>
        /\ receipts'[u][b] = receipts[u][b]
        /\ acts'[u][b] = acts[u][b] /\ refused'[u][b] = refused[u][b]
DialogStays ==
    \A u \in Turns :
        /\ dialog'[u].state = dialog[u].state /\ dialog'[u].accepted = dialog[u].accepted
        /\ dialog'[u].source = dialog[u].source /\ dialog'[u].steer = dialog[u].steer
        /\ dialog'[u].waiting = dialog[u].waiting

\* What is left of the call, if anything, is still one of that turn and tool.
IsOf(call, t, a) == call.turn = t /\ call.tool = a
CallGoesOn(c, t, a) ==
    LET call == calls'[c]
    IN  call.at # "free" =>
            /\ IsOf(call, t, a) /\ dialog[t].state # "none"
            /\ call.at \in {"act", "publish"} => call.claim = "fresh"
            /\ call.claim # "fresh" => receipts'[t][a] # "none" \/ dialog[t].source # NoTurn
            /\ call.claim = "fresh" =>
                  /\ receipts'[t][a] \in {"started", "unknown"}
                  /\ dialog[t].accepted => receipts'[t][a] = "unknown"
                  /\ call.at \in {"scope", "act"} => acts'[t][a] <= refused'[t][a]
                  /\ \A d \in Calls \ {c} : ~(Fresh(d) /\ IsOf(calls[d], t, a))
OthersGoOn(c, t, a) ==
    \A d \in Calls \ {c} : Fresh(d) /\ IsOf(calls[d], t, a) =>
        /\ receipts'[t][a] \in {"started", "unknown"}
        /\ dialog[t].accepted => receipts'[t][a] = "unknown"
        /\ acts'[t][a] = acts[t][a] /\ refused'[t][a] = refused[t][a]
ReceiptGoesOn(t, a) ==
    /\ acts'[t][a] <= 1 + refused'[t][a]
    /\ receipts'[t][a] = "none" => acts'[t][a] = 0 /\ refused'[t][a] = 0
    /\ receipts'[t][a] = "refused" => acts'[t][a] <= refused'[t][a]
    /\ receipts'[t][a] # receipts[t][a] => dialog[t].state = "submitted" /\ receipts'[t][a] # "none"
    /\ receipts[t][a] = "none" /\ receipts'[t][a] # "none" /\ dialog[t].source # NoTurn =>
          /\ Finished(dialog[t].source)
          /\ receipts[dialog[t].source][a] \in {"none", "refused"}

LEMMA CallFacts ==
    ASSUME ReceiptsInv, NEW c \in Calls
    PROVE  /\ calls[c] \in CallRows /\ calls[c].tool \in Tools
           /\ calls[c].at # "free" =>
                 /\ calls[c].turn \in Turns /\ dialog[calls[c].turn].state # "none"
                 /\ acts[calls[c].turn][calls[c].tool] \in 0 .. MaxActs
                 /\ refused[calls[c].turn][calls[c].tool] \in Nat
                 /\ Receipt(calls[c]) \in Receipts
                 /\ calls[c].claim = "fresh" => Receipt(calls[c]) \in {"started", "unknown"}
<1>1. calls[c] \in CallRows
  BY DEF ReceiptsInv, ReceiptsTypeOK
<1>2. calls[c].tool \in Tools /\ calls[c].turn \in 0 .. MaxTurns
  BY <1>1 DEF CallRows
<1>3. ASSUME calls[c].at # "free" PROVE calls[c].turn \in Turns /\ dialog[calls[c].turn].state # "none"
  BY <1>2, <1>3, TurnFacts DEF ReceiptsInv, CallsHaveTurns
<1> QED
  BY <1>1, <1>2, <1>3 DEF ReceiptsInv, ReceiptsTypeOK, Receipt, FreshHoldsReceipt, Fresh

LEMMA CallStep ==
    ASSUME ReceiptsInv, ReceiptsTypeOK', NEW c \in Calls, NEW t \in Turns, NEW a \in Tools,
           DialogStays, Elsewhere(t, a), \A d \in Calls \ {c} : calls'[d] = calls[d],
           CallGoesOn(c, t, a), OthersGoOn(c, t, a), ReceiptGoesOn(t, a)
    PROVE  ReceiptsInv'
<1>1. \A u \in Turns, b \in Tools :
          \/ receipts'[u][b] = receipts[u][b]
          \/ dialog[u].state = "submitted" /\ receipts'[u][b] # "none"
  <2> SUFFICES ASSUME NEW u \in Turns, NEW b \in Tools
               PROVE  \/ receipts'[u][b] = receipts[u][b]
                      \/ dialog[u].state = "submitted" /\ receipts'[u][b] # "none"
    OBVIOUS
  <2>1. CASE u = t /\ b = a
    BY <2>1 DEF ReceiptGoesOn
  <2>2. CASE u # t \/ b # a
    BY <2>2 DEF Elsewhere
  <2> QED
    BY <2>1, <2>2
<1>2. \A d \in Calls : /\ calls[d] \in CallRows /\ calls[d].tool \in Tools
                       /\ calls[d].at # "free" => calls[d].turn \in Turns
  BY CallFacts
<1>3. \A u \in Turns : dialog[u] \in TurnRows /\ (dialog[u].source # NoTurn => dialog[u].source \in Turns)
  <2> SUFFICES ASSUME NEW u \in Turns PROVE <1>3!(u)
    OBVIOUS
  <2>1. dialog[u] \in TurnRows
    BY DEF ReceiptsInv, ReceiptsTypeOK
  <2>2. dialog[u].source \in 0 .. MaxTurns
    BY <2>1 DEF TurnRows
  <2> QED
    BY <2>1, <2>2, TurnFacts
<1>4. CallsHaveTurns'
  <2> SUFFICES ASSUME NEW d \in Calls, calls'[d].at # "free" PROVE CallsHaveTurns!(d)'
    BY DEF CallsHaveTurns
  <2>1. CASE d = c
    BY <2>1, TurnFacts DEF CallGoesOn, IsOf, DialogStays
  <2>2. CASE d # c
    BY <1>1, <1>2, <2>2 DEF ReceiptsInv, CallsHaveTurns, DialogStays
  <2> QED
    BY <2>1, <2>2
<1>5. ASSUME NEW d \in Calls, Fresh(d)'
      PROVE  /\ Receipt(calls[d])' \in {"started", "unknown"}
             /\ dialog'[calls'[d].turn].accepted => Receipt(calls[d])' = "unknown"
             /\ calls'[d].at \in {"scope", "act"} =>
                   acts'[calls'[d].turn][calls'[d].tool] <= refused'[calls'[d].turn][calls'[d].tool]
  <2>1. CASE d = c
    BY <1>5, <2>1 DEF CallGoesOn, IsOf, DialogStays, Fresh, Receipt
  <2>2. CASE d # c
    <3>1. calls'[d] = calls[d] /\ Fresh(d) /\ calls[d].turn \in Turns /\ calls[d].tool \in Tools
      BY <1>2, <1>5, <2>2 DEF Fresh
    <3>2. /\ receipts[calls[d].turn][calls[d].tool] \in {"started", "unknown"}
          /\ dialog[calls[d].turn].accepted => receipts[calls[d].turn][calls[d].tool] = "unknown"
          /\ calls[d].at \in {"scope", "act"} =>
                acts[calls[d].turn][calls[d].tool] <= refused[calls[d].turn][calls[d].tool]
      BY <3>1 DEF ReceiptsInv, FreshHoldsReceipt, NothingActsBehindTheAnswer, UnactedIsPaid, Fresh, Receipt
    <3>3. CASE IsOf(calls[d], t, a)
      BY <2>2, <3>1, <3>2, <3>3 DEF OthersGoOn, IsOf, DialogStays, Receipt
    <3>4. CASE ~IsOf(calls[d], t, a)
      BY <3>1, <3>2, <3>4 DEF Elsewhere, IsOf, DialogStays, Receipt
    <3> QED
      BY <3>3, <3>4
  <2> QED
    BY <2>1, <2>2
<1>6. FreshHoldsReceipt' /\ UnactedIsPaid' /\ NothingActsBehindTheAnswer'
  BY <1>5 DEF FreshHoldsReceipt, UnactedIsPaid, NothingActsBehindTheAnswer, Fresh
<1>7. OneFreshCall'
  <2> SUFFICES ASSUME NEW d \in Calls, NEW e \in Calls, d # e, Fresh(d)', Fresh(e)',
                      calls'[d].turn = calls'[e].turn, calls'[d].tool = calls'[e].tool
               PROVE  FALSE
    BY DEF OneFreshCall
  <2>1. CASE d # c /\ e # c
    BY <2>1 DEF ReceiptsInv, OneFreshCall, Fresh
  <2>2. CASE d = c
    BY <2>2 DEF CallGoesOn, IsOf, Fresh
  <2>3. CASE e = c
    BY <2>3 DEF CallGoesOn, IsOf, Fresh
  <2> QED
    BY <2>1, <2>2, <2>3
<1>8. ActsArePaid'
  BY DEF ReceiptsInv, ActsArePaid, Elsewhere, ReceiptGoesOn
<1>9. TurnsAreInOrder' /\ WaitingIsLater' /\ RepeatsAreLater'
  <2>1. ASSUME NEW u \in Turns, NEW b \in Tools, receipts'[u][b] # "none", receipts[u][b] = "none"
        PROVE  dialog[u].state = "submitted"
    BY <1>1, <2>1
  <2>2. RepeatsAreLater'
    BY DEF ReceiptsInv, RepeatsAreLater, DialogStays
  <2>3. WaitingIsLater'
    BY DEF ReceiptsInv, WaitingIsLater, DialogStays, Live
  <2>4. TurnsAreInOrder'
    BY <2>1 DEF ReceiptsInv, TurnsAreInOrder, DialogStays, Live
  <2> QED
    BY <2>2, <2>3, <2>4
<1>10. RepeatsClaimWhatIsFree'
  <2> SUFFICES ASSUME NEW w \in Turns, NEW b \in Tools, dialog[w].source # NoTurn, receipts'[w][b] # "none"
               PROVE  /\ Finished(dialog[w].source)
                      /\ receipts'[dialog[w].source][b] \in {"none", "refused"}
    BY <1>3 DEF RepeatsClaimWhatIsFree, Finished, DialogStays
  <2>1. /\ Finished(dialog[w].source)
        /\ receipts[dialog[w].source][b] \in {"none", "refused"}
    <3>1. CASE receipts[w][b] # "none"
      BY <3>1 DEF ReceiptsInv, RepeatsClaimWhatIsFree
    <3>2. CASE receipts[w][b] = "none"
      BY <3>2 DEF Elsewhere, ReceiptGoesOn
    <3> QED
      BY <3>1, <3>2
  <2> QED
    BY <1>1, <1>3, <2>1 DEF Finished
<1> QED
  BY <1>4, <1>6, <1>7, <1>8, <1>9, <1>10 DEF ReceiptsInv

LEMMA PutWhatIsThere ==
    ASSUME ReceiptsTypeOK, NEW t \in Turns, NEW a \in Tools
    PROVE  /\ Put(receipts, t, a, receipts[t][a]) = receipts
           /\ Put(acts, t, a, acts[t][a]) = acts
           /\ Put(refused, t, a, refused[t][a]) = refused
BY DEF ReceiptsTypeOK, Put

LEMMA CallWritten ==
    ASSUME ReceiptsTypeOK, NEW c \in Calls, NEW r \in CallRows, calls' = [calls EXCEPT ![c] = r]
    PROVE  /\ calls' \in [Calls -> CallRows] /\ calls'[c] = r
           /\ \A d \in Calls \ {c} : calls'[d] = calls[d]
BY DEF ReceiptsTypeOK

\* A call that has its claim becomes r, and leaves v, m and n at its turn and tool.
Becomes(c, t, a, r, v, m, n) ==
    /\ calls[c].at # "free" /\ t = calls[c].turn /\ a = calls[c].tool
    /\ r \in CallRows /\ calls' = [calls EXCEPT ![c] = r]
    /\ r.at # "free" =>
          /\ r.turn = t /\ r.tool = a /\ r.claim = calls[c].claim
          /\ r.at \in {"act", "publish"} => r.claim = "fresh"
          /\ r.at \in {"scope", "act"} => calls[c].at \in {"scope", "act"}
    /\ v \in Receipts /\ receipts' = Put(receipts, t, a, v)
    /\ m \in 0 .. MaxActs /\ acts' = Put(acts, t, a, m)
    /\ n \in Nat /\ refused' = Put(refused, t, a, n)
    /\ \/ v = receipts[t][a]
       \/ /\ dialog[t].state = "submitted" /\ receipts[t][a] # "none" /\ v # "none"
          /\ \/ v = "unknown"
             \/ calls[c].claim = "fresh" /\ r.at = "free"
    /\ calls[c].claim # "fresh" \/ r.at \in {"scope", "act"} =>
          m = acts[t][a] /\ n = refused[t][a]
    /\ m <= 1 + n
    /\ v = "refused" => m <= n

LEMMA OwnStep ==
    ASSUME ReceiptsInv, NEW c \in Calls, NEW t, NEW a, NEW r, NEW v, NEW m, NEW n,
           Becomes(c, t, a, r, v, m, n),
           dialog' \in [Turns -> TurnRows], DialogStays, UNCHANGED <<profile, speaker, term>>
    PROVE  ReceiptsInv'
<1> USE DEF Becomes
<1>1. /\ ReceiptsTypeOK /\ receipts \in [Turns -> [Tools -> Receipts]]
      /\ acts \in [Turns -> [Tools -> 0 .. MaxActs]] /\ refused \in [Turns -> [Tools -> Nat]]
  BY DEF ReceiptsInv, ReceiptsTypeOK
<1>2. t \in Turns /\ a \in Tools /\ dialog[t].state # "none"
  BY CallFacts
<1>3. /\ receipts' \in [Turns -> [Tools -> Receipts]] /\ receipts'[t][a] = v
      /\ acts' \in [Turns -> [Tools -> 0 .. MaxActs]] /\ acts'[t][a] = m
      /\ refused' \in [Turns -> [Tools -> Nat]] /\ refused'[t][a] = n
      /\ Elsewhere(t, a)
  <2>1. receipts' \in [Turns -> [Tools -> Receipts]] /\ receipts'[t][a] = v
        /\ \A u \in Turns, b \in Tools : u # t \/ b # a => receipts'[u][b] = receipts[u][b]
    BY <1>1, <1>2 DEF Put
  <2>2. acts' \in [Turns -> [Tools -> 0 .. MaxActs]] /\ acts'[t][a] = m
        /\ \A u \in Turns, b \in Tools : u # t \/ b # a => acts'[u][b] = acts[u][b]
    BY <1>1, <1>2 DEF Put
  <2>3. refused' \in [Turns -> [Tools -> Nat]] /\ refused'[t][a] = n
        /\ \A u \in Turns, b \in Tools : u # t \/ b # a => refused'[u][b] = refused[u][b]
    BY <1>1, <1>2 DEF Put
  <2> QED
    BY <2>1, <2>2, <2>3 DEF Elsewhere
<1>4. /\ calls' \in [Calls -> CallRows] /\ calls'[c] = r
      /\ \A d \in Calls \ {c} : calls'[d] = calls[d]
  BY <1>1, CallWritten
<1>5. ReceiptsTypeOK'
  BY <1>1, <1>3, <1>4 DEF ReceiptsTypeOK
<1>6. calls[c].claim = "fresh" =>
          /\ receipts[t][a] \in {"started", "unknown"}
          /\ dialog[t].accepted => receipts[t][a] = "unknown"
          /\ calls[c].at \in {"scope", "act"} => acts[t][a] <= refused[t][a]
          /\ \A d \in Calls \ {c} : ~(Fresh(d) /\ IsOf(calls[d], t, a))
  BY DEF ReceiptsInv, FreshHoldsReceipt, NothingActsBehindTheAnswer, UnactedIsPaid, OneFreshCall,
         Fresh, Receipt, IsOf
<1>7. calls[c].claim # "fresh" => receipts[t][a] # "none" \/ dialog[t].source # NoTurn
  BY DEF ReceiptsInv, CallsHaveTurns
<1>8. CallGoesOn(c, t, a)
  BY <1>2, <1>3, <1>4, <1>6, <1>7 DEF CallGoesOn, IsOf
<1>9. OthersGoOn(c, t, a)
  <2> SUFFICES ASSUME NEW d \in Calls \ {c}, Fresh(d), IsOf(calls[d], t, a)
               PROVE  OthersGoOn(c, t, a)!(d)!2
    BY DEF OthersGoOn
  <2>1. calls[c].claim # "fresh"
    BY <1>6
  <2>2. /\ receipts[t][a] \in {"started", "unknown"}
        /\ dialog[t].accepted => receipts[t][a] = "unknown"
    BY DEF ReceiptsInv, FreshHoldsReceipt, NothingActsBehindTheAnswer, Fresh, Receipt, IsOf
  <2> QED
    BY <1>3, <2>1, <2>2
<1>10. ReceiptGoesOn(t, a)
  <2>1. v = "none" => m = 0 /\ n = 0
    BY <1>2, <1>6 DEF ReceiptsInv, ActsArePaid
  <2> QED
    BY <1>3, <2>1 DEF ReceiptGoesOn
<1> QED
  BY <1>2, <1>3, <1>4, <1>5, <1>8, <1>9, <1>10, CallStep

\* The scope is read, or the call is refused.
LEMMA ScopeStep ==
    ASSUME ReceiptsInv, UNCHANGED profile, NEW c \in Calls, ResolveScope(c)
    PROVE  ReceiptsInv'
<1> DEFINE call == calls[c]
           t == call.turn
           a == call.tool
<1>1. /\ call \in CallRows /\ call.at = "scope" /\ t \in Turns /\ a \in Tools
      /\ acts[t][a] \in 0 .. MaxActs /\ refused[t][a] \in Nat /\ receipts[t][a] \in Receipts
      /\ dialog' \in [Turns -> TurnRows] /\ DialogStays
      /\ UNCHANGED <<profile, speaker, term, acts, refused>>
  BY CallFacts DEF ResolveScope, Receipt, DialogStays, ReceiptsInv, ReceiptsTypeOK
<1>2. /\ acts' = Put(acts, t, a, acts[t][a]) /\ refused' = Put(refused, t, a, refused[t][a])
      /\ receipts' = receipts => receipts' = Put(receipts, t, a, receipts[t][a])
  BY <1>1, PutWhatIsThere DEF ReceiptsInv
<1>3. /\ acts[t][a] <= 1 + refused[t][a]
      /\ receipts[t][a] = "refused" => acts[t][a] <= refused[t][a]
      /\ call.claim = "fresh" => acts[t][a] <= refused[t][a]
  BY <1>1 DEF ReceiptsInv, ActsArePaid, UnactedIsPaid, Fresh
<1>4. CASE calls' = [calls EXCEPT ![c].at = IF call.claim = "fresh" THEN "act" ELSE "settle",
                                  ![c].term = term] /\ UNCHANGED receipts
  <2> DEFINE step == IF call.claim = "fresh" THEN "act" ELSE "settle"
             r == [call EXCEPT !.at = step, !.term = term]
  <2>1. calls' = [calls EXCEPT ![c] = r]
    BY <1>4 DEF ReceiptsInv, ReceiptsTypeOK
  <2>2. /\ r \in CallRows /\ r.turn = t /\ r.tool = a /\ r.claim = call.claim
        /\ r.at \in {"act", "publish"} => r.claim = "fresh"
    <3>1. term \in 0 .. MaxTerms /\ step \in Stages
      BY DEF ReceiptsInv, ReceiptsTypeOK, Stages
    <3> QED
      BY <1>1, <3>1 DEF CallRows
  <2>3. Becomes(c, t, a, r, receipts[t][a], acts[t][a], refused[t][a])
    <3> HIDE DEF r
    <3> QED
      BY <1>1, <1>2, <1>3, <1>4, <2>1, <2>2 DEF Becomes
  <2> QED
    BY <1>1, <2>3, OwnStep
<1>5. CASE Release(c)
  <2>1. calls' = [calls EXCEPT ![c] = NoCall] /\ NoCall \in CallRows /\ NoCall.at = "free"
    BY <1>5, TurnFacts DEF Release, Ends
  <2>2. CASE Released(call)
    <3>1. /\ receipts' = Put(receipts, t, a, "refused") /\ "refused" \in Receipts
          /\ dialog[t].state = "submitted" /\ call.claim = "fresh" /\ receipts[t][a] # "none"
      BY <1>5, <2>2
         DEF Release, Released, Write, Receipts, Receipt, FencedTurn, Open, Answering, Submitted
    <3>2. Becomes(c, t, a, NoCall, "refused", acts[t][a], refused[t][a])
      BY <1>1, <1>2, <1>3, <2>1, <3>1 DEF Becomes
    <3> QED
      BY <1>1, <3>2, OwnStep
  <2>3. CASE ~Released(call)
    <3>1. Becomes(c, t, a, NoCall, receipts[t][a], acts[t][a], refused[t][a])
      BY <1>1, <1>2, <1>3, <1>5, <2>1, <2>3 DEF Becomes, Release
    <3> QED
      BY <1>1, <3>1, OwnStep
  <2> QED
    BY <2>2, <2>3
<1> QED
  BY <1>4, <1>5 DEF ResolveScope

\* A call acts, ends, records what it did, or is refused to.
LEMMA ActStep ==
    ASSUME ReceiptsInv, UNCHANGED profile, NEW c \in Calls, ActLocally(c) \/ ActOnBb(c) \/ Publish(c)
    PROVE  ReceiptsInv'
<1> DEFINE call == calls[c]
           t == call.turn
           a == call.tool
           Moved(step) == [call EXCEPT !.at = step]
<1>1. /\ call \in CallRows /\ call.at \in {"act", "publish"} /\ t \in Turns /\ a \in Tools
      /\ acts[t][a] \in 0 .. MaxActs /\ refused[t][a] \in Nat /\ receipts[t][a] \in Receipts
      /\ dialog' \in [Turns -> TurnRows] /\ DialogStays
      /\ UNCHANGED <<profile, speaker, term>> /\ call.at # "free"
  BY CallFacts DEF ActLocally, ActOnBb, Publish, Receipt, DialogStays, ReceiptsInv, ReceiptsTypeOK
<1>2. /\ acts' = acts => acts' = Put(acts, t, a, acts[t][a])
      /\ refused' = refused => refused' = Put(refused, t, a, refused[t][a])
      /\ receipts' = receipts => receipts' = Put(receipts, t, a, receipts[t][a])
  BY <1>1, PutWhatIsThere DEF ReceiptsInv
<1>3. /\ acts[t][a] <= 1 + refused[t][a] /\ call.claim = "fresh"
      /\ receipts[t][a] \in {"started", "unknown"}
      /\ call.at = "act" => acts[t][a] <= refused[t][a]
  BY <1>1 DEF ReceiptsInv, CallsHaveTurns, FreshHoldsReceipt, ActsArePaid, UnactedIsPaid, Fresh, Receipt
<1>4. /\ NoCall \in CallRows /\ NoCall.at = "free"
      /\ Ends(c) => calls' = [calls EXCEPT ![c] = NoCall]
  BY TurnFacts DEF Ends
<1>5. ASSUME NEW step \in {"publish", "settle"}
      PROVE  /\ Moved(step) \in CallRows /\ Moved(step).at = step /\ Moved(step).turn = t
             /\ Moved(step).tool = a /\ Moved(step).claim = "fresh"
             /\ Move(c, step) => calls' = [calls EXCEPT ![c] = Moved(step)]
  BY <1>1, <1>3 DEF CallRows, Stages, Move, ReceiptsInv, ReceiptsTypeOK
<1>6. ASSUME acts[t][a] < MaxActs, Acts(call), call.at = "act"
      PROVE  /\ acts[t][a] + 1 \in 0 .. MaxActs /\ acts' = Put(acts, t, a, acts[t][a] + 1)
             /\ acts[t][a] + 1 <= 1 + refused[t][a]
  BY <1>1, <1>3, <1>6, ReceiptsAssumption DEF Acts
<1> HIDE DEF Moved
<1>7. CASE ActLocally(c)
  <2>1. CASE Acts(call) /\ Move(c, "settle") /\ acts[t][a] < MaxActs /\ UNCHANGED receipts
    <3>1. Becomes(c, t, a, Moved("settle"), receipts[t][a], acts[t][a] + 1, refused[t][a])
      BY <1>1, <1>2, <1>3, <1>5, <1>6, <1>7, <2>1 DEF Becomes, ActLocally
    <3> QED
      BY <1>1, <3>1, OwnStep
  <2>2. CASE Ends(c) /\ UNCHANGED <<acts, receipts>>
    <3>1. Becomes(c, t, a, NoCall, receipts[t][a], acts[t][a], refused[t][a])
      BY <1>1, <1>2, <1>3, <1>4, <1>7, <2>2 DEF Becomes, ActLocally
    <3> QED
      BY <1>1, <3>1, OwnStep
  <2>3. CASE Ends(c) /\ UNCHANGED acts /\ FencedTurn(call) /\ Receipt(call) = "started"
             /\ Write(call, "failed")
    <3>1. /\ receipts' = Put(receipts, t, a, "failed") /\ "failed" \in Receipts
          /\ dialog[t].state = "submitted"
      BY <2>3 DEF Write, Receipts, FencedTurn, Open, Answering, Submitted
    <3>2. Becomes(c, t, a, NoCall, "failed", acts[t][a], refused[t][a])
      BY <1>1, <1>2, <1>3, <1>4, <1>7, <2>3, <3>1 DEF Becomes, ActLocally
    <3> QED
      BY <1>1, <3>2, OwnStep
  <2> QED
    BY <1>7, <2>1, <2>2, <2>3 DEF ActLocally
<1>8. CASE ActOnBb(c)
  <2>1. CASE Acts(call) /\ Move(c, "publish") /\ acts[t][a] < MaxActs
    <3>1. Becomes(c, t, a, Moved("publish"), receipts[t][a], acts[t][a] + 1, refused[t][a])
      BY <1>1, <1>2, <1>3, <1>5, <1>6, <1>8, <2>1 DEF Becomes, ActOnBb
    <3> QED
      BY <1>1, <3>1, OwnStep
  <2>2. CASE Acts(call) /\ Ends(c) /\ acts[t][a] < MaxActs
    <3>1. Becomes(c, t, a, NoCall, receipts[t][a], acts[t][a] + 1, refused[t][a])
      BY <1>1, <1>2, <1>3, <1>4, <1>6, <1>8, <2>2 DEF Becomes, ActOnBb
    <3> QED
      BY <1>1, <3>1, OwnStep
  <2>3. CASE Ends(c) /\ UNCHANGED acts
    <3>1. Becomes(c, t, a, NoCall, receipts[t][a], acts[t][a], refused[t][a])
      BY <1>1, <1>2, <1>3, <1>4, <1>8, <2>3 DEF Becomes, ActOnBb
    <3> QED
      BY <1>1, <3>1, OwnStep
  <2> QED
    BY <1>8, <2>1, <2>2, <2>3 DEF ActOnBb
<1>9. CASE Publish(c)
  <2>1. CASE Move(c, "settle") /\ UNCHANGED <<receipts, refused>>
    <3>1. Becomes(c, t, a, Moved("settle"), receipts[t][a], acts[t][a], refused[t][a])
      BY <1>1, <1>2, <1>3, <1>5, <1>9, <2>1 DEF Becomes, Publish
    <3> QED
      BY <1>1, <3>1, OwnStep
  <2>2. CASE Ends(c) /\ UNCHANGED <<receipts, refused>>
    <3>1. Becomes(c, t, a, NoCall, receipts[t][a], acts[t][a], refused[t][a])
      BY <1>1, <1>2, <1>3, <1>4, <1>9, <2>2 DEF Becomes, Publish
    <3> QED
      BY <1>1, <3>1, OwnStep
  <2>3. CASE /\ Ends(c) /\ Released(call) /\ Write(call, "refused")
             /\ refused' = Put(refused, t, a, refused[t][a] + 1)
    <3>1. /\ receipts' = Put(receipts, t, a, "refused") /\ "refused" \in Receipts
          /\ dialog[t].state = "submitted" /\ refused[t][a] + 1 \in Nat
          /\ acts[t][a] <= refused[t][a] + 1 /\ acts[t][a] <= 1 + (refused[t][a] + 1)
      BY <1>1, <1>3, <2>3 DEF Write, Receipts, Released, FencedTurn, Open, Answering, Submitted
    <3>2. Becomes(c, t, a, NoCall, "refused", acts[t][a], refused[t][a] + 1)
      BY <1>1, <1>2, <1>3, <1>4, <1>9, <2>3, <3>1 DEF Becomes, Publish
    <3> QED
      BY <1>1, <3>2, OwnStep
  <2> QED
    BY <1>9, <2>1, <2>2, <2>3 DEF Publish, Release
<1> QED
  BY <1>7, <1>8, <1>9

\* The receipt is settled with the evidence.
LEMMA SettlementStep ==
    ASSUME ReceiptsInv, UNCHANGED profile, NEW c \in Calls, SettleToolReceipt(c)
    PROVE  ReceiptsInv'
<1> DEFINE call == calls[c]
           t == call.turn
           a == call.tool
<1>1. /\ call \in CallRows /\ call.at # "free" /\ t \in Turns /\ a \in Tools
      /\ acts[t][a] \in 0 .. MaxActs /\ refused[t][a] \in Nat /\ receipts[t][a] \in Receipts
      /\ UNCHANGED <<profile, speaker, term, acts, refused>>
  BY CallFacts DEF SettleToolReceipt, Receipt
<1>2. dialog' \in [Turns -> TurnRows] /\ DialogStays
  <2>1. dialog \in [Turns -> TurnRows] /\ dialog[t] \in TurnRows
    BY <1>1 DEF ReceiptsInv, ReceiptsTypeOK
  <2>2. CASE UNCHANGED dialog
    BY <2>1, <2>2 DEF DialogStays
  <2>3. CASE dialog' = [dialog EXCEPT ![t].touched = TRUE]
    <3> DEFINE r == [dialog[t] EXCEPT !.touched = TRUE]
    <3>1. dialog' = [dialog EXCEPT ![t] = r]
      BY <2>1, <2>3
    <3>2. /\ r \in TurnRows /\ r.state = dialog[t].state /\ r.source = dialog[t].source
          /\ r.accepted = dialog[t].accepted /\ r.steer = dialog[t].steer /\ r.waiting = dialog[t].waiting
      BY <2>1 DEF TurnRows
    <3> HIDE DEF r
    <3> QED
      BY <1>1, <2>1, <3>1, <3>2 DEF DialogStays
  <2> QED
    BY <2>2, <2>3 DEF SettleToolReceipt
<1>3. /\ acts' = Put(acts, t, a, acts[t][a]) /\ refused' = Put(refused, t, a, refused[t][a])
      /\ receipts' = receipts => receipts' = Put(receipts, t, a, receipts[t][a])
  BY <1>1, PutWhatIsThere DEF ReceiptsInv
<1>4. /\ acts[t][a] <= 1 + refused[t][a]
      /\ receipts[t][a] = "refused" => acts[t][a] <= refused[t][a]
  BY <1>1 DEF ReceiptsInv, ActsArePaid
<1>5. NoCall \in CallRows /\ NoCall.at = "free" /\ calls' = [calls EXCEPT ![c] = NoCall]
  BY TurnFacts DEF SettleToolReceipt, Ends
<1>6. CASE UNCHANGED receipts
  <2>1. Becomes(c, t, a, NoCall, receipts[t][a], acts[t][a], refused[t][a])
    BY <1>1, <1>3, <1>4, <1>5, <1>6 DEF Becomes
  <2> QED
    BY <1>1, <1>2, <2>1, OwnStep
<1>7. ASSUME NEW v \in {"completed", "unknown"}, Write(call, v), FencedTurn(call),
             receipts[t][a] # "none", v = "unknown" \/ call.claim = "fresh"
      PROVE  ReceiptsInv'
  <2>1. receipts' = Put(receipts, t, a, v) /\ v \in Receipts /\ dialog[t].state = "submitted"
    BY <1>7 DEF Write, Receipts, FencedTurn, Open, Answering, Submitted
  <2>2. Becomes(c, t, a, NoCall, v, acts[t][a], refused[t][a])
    BY <1>1, <1>3, <1>4, <1>5, <1>7, <2>1 DEF Becomes
  <2> QED
    BY <1>1, <1>2, <2>2, OwnStep
<1> QED
  BY <1>6, <1>7 DEF SettleToolReceipt, Receipt

\* A claim: a fresh one takes a receipt that is free, here and where the turn repeats
\* another.
LEMMA ClaimToolStep ==
    ASSUME ReceiptsInv, UNCHANGED profile, NEW c \in Calls, NEW a \in Tools, ClaimToolReceipt(c, a)
    PROVE  ReceiptsInv'
<1> DEFINE Claimed(t, claim) == [at |-> "scope", turn |-> t, tool |-> a, spoken |-> TRUE,
                                 term |-> term, claim |-> claim]
<1>1. PICK t \in Turns, claim \in Claims :
          /\ calls[c].at = "free" /\ dialog[t].state = "submitted" /\ ~dialog[t].accepted
          /\ claim = "fresh" <=> Known(t, a) \in {"none", "refused"}
          /\ receipts' = IF claim = "fresh" THEN Put(receipts, t, a, "started") ELSE receipts
          /\ calls' = [calls EXCEPT ![c] = Claimed(t, claim)]
          /\ UNCHANGED <<profile, dialog, speaker, term, acts, refused>>
  BY DEF ClaimToolReceipt, Claims, Open, Answering, Submitted
<1> DEFINE r == Claimed(t, claim)
           s == dialog[t].source
<1>2. /\ ReceiptsTypeOK /\ dialog \in [Turns -> TurnRows] /\ dialog[t] \in TurnRows /\ DialogStays
      /\ receipts \in [Turns -> [Tools -> Receipts]] /\ term \in 0 .. MaxTerms
      /\ acts[t][a] \in Nat /\ refused[t][a] \in Nat
  BY <1>1 DEF ReceiptsInv, ReceiptsTypeOK, DialogStays
<1>3. /\ r \in CallRows /\ r.at = "scope" /\ r.turn = t /\ r.tool = a /\ r.claim = claim
  <2>1. t \in 0 .. MaxTurns
    BY TurnFacts
  <2> QED
    BY <1>1, <1>2, <2>1 DEF CallRows, Stages
<1>4. /\ calls' \in [Calls -> CallRows] /\ calls'[c] = r
      /\ \A d \in Calls \ {c} : calls'[d] = calls[d]
  <2> HIDE DEF r
  <2> QED
    BY <1>1, <1>2, <1>3, CallWritten DEF r
<1> HIDE DEF r, Claimed
<1>5. /\ receipts' \in [Turns -> [Tools -> Receipts]]
      /\ receipts'[t][a] = IF claim = "fresh" THEN "started" ELSE receipts[t][a]
      /\ Elsewhere(t, a)
  BY <1>1, <1>2 DEF Put, Receipts, Elsewhere
<1>6. ReceiptsTypeOK'
  BY <1>1, <1>2, <1>4, <1>5 DEF ReceiptsTypeOK
<1>7. /\ acts[t][a] <= 1 + refused[t][a]
      /\ receipts[t][a] = "none" => acts[t][a] = 0 /\ refused[t][a] = 0
      /\ receipts[t][a] = "refused" => acts[t][a] <= refused[t][a]
  BY DEF ReceiptsInv, ActsArePaid
<1>8. claim = "fresh" =>
          /\ receipts[t][a] \in {"none", "refused"}
          /\ receipts[t][a] = "none" /\ s # NoTurn => receipts[s][a] \in {"none", "refused"}
  BY <1>1, <1>2 DEF Known
<1>9. claim # "fresh" => receipts[t][a] # "none" \/ s # NoTurn
  BY <1>1, <1>2 DEF Known
<1>10. s # NoTurn => Finished(s)
  <2> SUFFICES ASSUME s # NoTurn PROVE Finished(s)
    OBVIOUS
  <2>1. s \in 0 .. MaxTurns /\ s < t
    BY <1>2 DEF TurnRows, ReceiptsInv, RepeatsAreLater
  <2>2. s \in Turns
    BY <2>1, TurnFacts
  <2>3. dialog[s].state # "none" /\ ~Live(s)
    BY <1>1, <2>1, <2>2 DEF ReceiptsInv, TurnsAreInOrder, Live
  <2>4. dialog[s].state \in TurnStates
    BY <1>2, <2>2 DEF TurnRows
  <2> QED
    BY <2>3, <2>4 DEF TurnStates, Live, Finished
<1>11. \A d \in Calls : Fresh(d) /\ IsOf(calls[d], t, a) => receipts[t][a] \in {"started", "unknown"}
  BY DEF ReceiptsInv, FreshHoldsReceipt, Receipt, IsOf
<1>12. CallGoesOn(c, t, a)
  BY <1>1, <1>2, <1>3, <1>4, <1>5, <1>7, <1>8, <1>9, <1>11 DEF CallGoesOn, IsOf
<1>13. OthersGoOn(c, t, a)
  BY <1>1, <1>5, <1>8, <1>11 DEF OthersGoOn
<1>14. ReceiptGoesOn(t, a)
  BY <1>1, <1>2, <1>5, <1>7, <1>8, <1>10 DEF ReceiptGoesOn
<1> QED
  BY <1>2, <1>4, <1>5, <1>6, <1>12, <1>13, <1>14, CallStep

LEMMA ReceiptsStep == ReceiptsInv /\ [ReceiptsNext]_receiptVars => ReceiptsInv'
<1> SUFFICES ASSUME ReceiptsInv, [ReceiptsNext]_receiptVars PROVE ReceiptsInv'
  OBVIOUS
<1>1. CASE UNCHANGED receiptVars
  <2>1. ReceiptsTypeOK' /\ CallsStay /\ TurnsGoOn
    BY <1>1 DEF receiptVars, ReceiptsInv, ReceiptsTypeOK, CallsStay, TurnsGoOn
  <2> QED
    BY <1>1, <2>1, TurnStep DEF receiptVars
<1>2. CASE ReceiptsNext
  <2>1. UNCHANGED profile /\ profile \subseteq Tools
    BY <1>2, ReceiptsAssumption DEF ReceiptsNext, ReceiptsInv, ReceiptsTypeOK
  <2> QED
    BY <1>2, <2>1, ArrivalStep, SteeringStep, SteerSettlementStep, EndingStep, FailureStep,
       ClaimToolStep, ScopeStep, ActStep, SettlementStep
       DEF ReceiptsNext
<1> QED
  BY <1>1, <1>2

\* The acts of a turn that repeats another are not those of the other.
LEMMA ReceiptsPay == ReceiptsInv => ActsAtMostOnce
<1> SUFFICES ASSUME ReceiptsInv, NEW t \in Turns, NEW a \in Tools
             PROVE  LET Sum(f) == f[t][a] + (IF dialog[t].source = NoTurn THEN 0
                                                                       ELSE f[dialog[t].source][a])
                    IN  Sum(acts) <= 1 + Sum(refused)
  BY DEF ActsAtMostOnce
<1> DEFINE s == dialog[t].source
<1>1. \A u \in Turns : acts[u][a] \in Nat /\ refused[u][a] \in Nat
  BY DEF ReceiptsInv, ReceiptsTypeOK
<1>2. \A u \in Turns : /\ acts[u][a] <= 1 + refused[u][a]
                       /\ receipts[u][a] = "none" => acts[u][a] = 0 /\ refused[u][a] = 0
                       /\ receipts[u][a] = "refused" => acts[u][a] <= refused[u][a]
  BY DEF ReceiptsInv, ActsArePaid
<1>3. CASE s = NoTurn
  BY <1>1, <1>2, <1>3
<1>4. CASE s # NoTurn
  <2>1. s \in Turns
    <3>1. dialog[t] \in TurnRows
      BY DEF ReceiptsInv, ReceiptsTypeOK
    <3>2. s \in 0 .. MaxTurns
      BY <3>1 DEF TurnRows
    <3> QED
      BY <1>4, <3>2, TurnFacts
  <2>2. receipts[t][a] = "none" \/ receipts[s][a] \in {"none", "refused"}
    BY <1>4 DEF ReceiptsInv, RepeatsClaimWhatIsFree
  <2>3. /\ acts[t][a] \in Nat /\ refused[t][a] \in Nat /\ acts[s][a] \in Nat /\ refused[s][a] \in Nat
        /\ acts[t][a] + acts[s][a] <= 1 + (refused[t][a] + refused[s][a])
    BY <1>1, <1>2, <2>1, <2>2
  <2> QED
    BY <1>4, <2>3
<1> QED
  BY <1>3, <1>4

\* Only a turn that failed puts its message back, and it was untouched.
LEMMA PutsBackUntouched ==
    ASSUME ReceiptsInv, [ReceiptsNext]_receiptVars, NEW s \in Turns, PutsBack(s)
    PROVE  Untouched(s)
<1>1. /\ dialog \in [Turns -> TurnRows] /\ dialog[s] \in TurnRows
      /\ dialog[s].state = "submitted" /\ dialog'[s].state = "failed"
  BY DEF ReceiptsInv, ReceiptsTypeOK, PutsBack
<1>2. \A t \in Turns : dialog[t].state = "none" => dialog[t].source # s
  BY TurnFacts DEF ReceiptsInv, RepeatsAreLater
<1>3. PICK t \in Turns : FailAndRetire(t)
  <2>1. dialog' # dialog
    BY <1>1
  <2>2. ~LeaseIsTakenOver
    BY <2>1 DEF LeaseIsTakenOver
  <2>3. ASSUME NEW t \in Turns PROVE ~(OwnerWrites(t) \/ Submit(t))
    BY <1>1 DEF OwnerWrites, Submit
  <2>4. ASSUME NEW t \in Turns, NEW w \in Turns PROVE ~ReserveControllerSteer(t, w)
    BY <1>1 DEF ReserveControllerSteer, TurnRows
  <2>5. ASSUME NEW t \in Turns
        PROVE  ~(\/ AdoptSubmittedTurnFence(t) \/ ClaimControllerSupervisorSteer(t)
                 \/ SettleControllerSupervisorSteer(t) \/ ProposeFinalization(t))
    BY <1>1 DEF AdoptSubmittedTurnFence, ClaimControllerSupervisorSteer,
                SettleControllerSupervisorSteer, ProposeFinalization, TurnRows
  <2>6. ASSUME NEW t \in Turns PROVE ~SettleControllerSteer(t)
    BY <1>1 DEF SettleControllerSteer, TurnRows
  <2>7. ASSUME NEW t \in Turns PROVE ~(CompleteFromFinalization(t) \/ Rerun(t))
    BY <1>1 DEF CompleteFromFinalization, Rerun, TurnRows
  <2>8. ASSUME NEW c \in Calls
        PROVE  ~(\/ \E a \in profile : ClaimToolReceipt(c, a)
                 \/ ResolveScope(c) \/ ActLocally(c) \/ ActOnBb(c) \/ Publish(c))
    BY <2>1 DEF ClaimToolReceipt, ResolveScope, ActLocally, ActOnBb, Publish
  <2>9. ASSUME NEW c \in Calls PROVE ~SettleToolReceipt(c)
    BY <1>1 DEF SettleToolReceipt, TurnRows
  <2> QED
    BY <2>1, <2>2, <2>3, <2>4, <2>5, <2>6, <2>7, <2>8, <2>9 DEF ReceiptsNext, receiptVars
<1>4. dialog[t].state = "submitted"
  BY <1>3 DEF FailAndRetire, Open, Answering, Submitted
<1> DEFINE failed == [dialog EXCEPT ![t].state = "failed", ![t].term = 0, ![t].upsets = 0]
<1>5. /\ \A u \in Turns \ {t} : failed[u] = dialog[u]
      /\ failed[t].source = dialog[t].source
  BY <1>1 DEF TurnRows
<1>6. dialog' # failed
  BY <1>2, <1>4, <1>5 DEF PutsBack
<1> HIDE DEF failed
<1>7. Untouched(t) /\ \E u \in Turns : dialog[u].state = "none" /\ \A v \in Turns \ {t, u} : dialog'[v] = dialog[v]
  <2>1. DOMAIN failed = Turns
    BY <1>1 DEF failed
  <2> QED
    BY <1>3, <1>5, <1>6, <2>1 DEF FailAndRetire, failed
<1>8. s = t
  BY <1>1, <1>7
<1> QED
  BY <1>7, <1>8

LEMMA ReceiptsPutBack ==
    ASSUME ReceiptsInv, NEW s \in Turns, Untouched(s)
    PROVE  /\ \A a \in Tools : acts[s][a] = 0
           /\ \A c \in Calls : calls[c].turn = s => calls[c].at = "free"
<1>1. \A a \in Tools : acts[s][a] = 0
  BY DEF ReceiptsInv, ActsArePaid, Untouched
<1>2. ASSUME NEW c \in Calls, calls[c].turn = s, calls[c].at # "free" PROVE FALSE
  BY <1>2, CallFacts DEF ReceiptsInv, CallsHaveTurns, Untouched, Receipt
<1> QED
  BY <1>1, <1>2

-----------------------------------------------------------------------------
(* Duties *)

LEMMA DutiesImplementReviews == DutiesSpec => ReviewSpec
<1>1. DutiesInit => ReviewInit
  BY DEF DutiesInit
<1>2. [DutiesNext]_dutiesVars => [ReviewNext]_reviewVars
  BY DEF DutiesNext, dutiesVars
<1> QED
  BY <1>1, <1>2, PTL DEF DutiesSpec, ReviewSpec

LEMMA DutiesImplementTools == DutiesSpec => ReceiptsSpec
<1>1. DutiesInit => ReceiptsInit
  BY DEF DutiesInit
<1>2. [DutiesNext]_dutiesVars => [ReceiptsNext]_receiptVars
  BY DEF DutiesNext, dutiesVars
<1> QED
  BY <1>1, <1>2, PTL DEF DutiesSpec, ReceiptsSpec

LEMMA DutiesImplementConnectors == DutiesSpec => ConnectorsSpec
<1>1. DutiesInit => ConnectorsInit
  BY DEF DutiesInit
<1>2. [DutiesNext]_dutiesVars => [ConnectorsNext]_connectorVars
  BY DEF DutiesNext, dutiesVars
<1> QED
  BY <1>1, <1>2, PTL DEF DutiesSpec, ConnectorsSpec

\* The inductive invariant of the connectors.
THEOREM ConnectorsInvariant == ConnectorsSpec => []ConnectorsInv
BY ConnectorsInitially, ConnectorsStep, PTL DEF ConnectorsSpec

\* The inductive invariant of the tools.
THEOREM ReceiptsInvariant == ReceiptsSpec => []ReceiptsInv
BY ReceiptsInitially, ReceiptsStep, PTL DEF ReceiptsSpec

\* The rows of the review, of the turns with their receipts and calls, and of the
\* operations with their proofs stay what their columns admit.
THEOREM DutiesTypes == DutiesSpec => []DutiesTypeOK
<1> DEFINE DutyIsOne == duty \in {"reviews", "tools", "connectors"}
<1>1. DutiesInit => DutyIsOne
  BY DEF DutiesInit
<1>2. DutyIsOne /\ [DutiesNext]_dutiesVars => DutyIsOne'
  BY DEF DutiesNext, dutiesVars
<1>3. DutyIsOne /\ ReviewTypeOK /\ ReceiptsTypeOK /\ ConnectorsTypeOK => DutiesTypeOK
  BY DEF DutiesTypeOK
<1>4. (ReceiptsInv => ReceiptsTypeOK) /\ (ConnectorsInv => ConnectorsTypeOK)
  BY DEF ReceiptsInv, ConnectorsInv
<1> HIDE DEF DutyIsOne
<1>5. DutiesSpec => []DutyIsOne
  BY <1>1, <1>2, PTL DEF DutiesSpec
<1> QED
  BY <1>3, <1>4, <1>5, DutiesImplementReviews, DutiesImplementTools, DutiesImplementConnectors,
     ReviewTypes, ReceiptsInvariant, ConnectorsInvariant, PTL

\* A provider is asked once for an operation, and what Hanoon has recorded of it is
\* the broker's receipt, whatever is lost or restarted between them.
THEOREM AgreementTheorem == DutiesSpec => []ReceiptsAgree
<1>1. ConnectorsInv => ReceiptsAgree
  BY DEF ConnectorsInv
<1> QED
  BY <1>1, DutiesImplementConnectors, ConnectorsInvariant, PTL

\* Identical calls act once in a turn and in the one that it repeats, but for those
\* that acted on BB and were then refused to record it.
THEOREM ActsTheorem == DutiesSpec => []ActsAtMostOnce
BY DutiesImplementTools, ReceiptsInvariant, ReceiptsPay, PTL

\* A call that may still act when the answer is accepted has been told, by another of
\* its kind, that its outcome is unknown.
THEOREM AnswerTheorem == DutiesSpec => []NothingActsBehindTheAnswer
<1>1. ReceiptsInv => NothingActsBehindTheAnswer
  BY DEF ReceiptsInv
<1> QED
  BY <1>1, DutiesImplementTools, ReceiptsInvariant, PTL

\* A message is put back only from a turn that did nothing and of which no call runs.
THEOREM RequeueTheorem == DutiesSpec => RequeuedTurnDidNothing
<1> DEFINE Nothing ==
        \A s \in Turns : PutsBack(s) =>
            /\ \A a \in Tools : acts[s][a] = 0
            /\ \A c \in Calls : calls[c].turn = s => calls[c].at = "free"
<1>1. ReceiptsInv /\ [ReceiptsNext]_receiptVars => Nothing
  BY PutsBackUntouched, ReceiptsPutBack
<1>2. ReceiptsSpec => [][Nothing]_receiptVars
  BY <1>1, ReceiptsInvariant, PTL DEF ReceiptsSpec
<1> QED
  BY <1>2, DutiesImplementTools, PTL DEF RequeuedTurnDidNothing
=============================================================================
