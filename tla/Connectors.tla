----------------------------- MODULE Connectors -----------------------------
(***************************************************************************)
(* Protected connectors: the agent asks about a project at a provider, and *)
(* the credential is in a broker, another process.  An inspection prepares *)
(* an operation in Hanoon's database, has the broker attest the fence, and *)
(* sends the request; the broker claims it, asks the provider and keeps a  *)
(* receipt, which Hanoon copies.  Everything between two awaits is a step. *)
(* The operations of a turn on a binding differ in the executor term they  *)
(* were prepared under, and are named by it.  Policy, topology and grants  *)
(* may change at the broker, and the deadline of a request may pass, at    *)
(* any time: a check of them may go either way.                            *)
(***************************************************************************)
EXTENDS Integers

CONSTANTS
    Inspectors,         \* inspections that run at a time
    MaxFences           \* bound: terms of the executor lease

ASSUME ConnectorsAssumption == MaxFences \in Nat \ {0}

VARIABLES
    authority,          \* term of the executor lease, and the turn that inspects
    binding,            \* Hanoon's projection of the binding
    operations,         \* table credential_connector_operations
    proofs,             \* outcomes in credential_connector_receipts
    inspectors,         \* inspections that run
    broker              \* what the broker holds

connectorVars == <<authority, binding, operations, proofs, inspectors, broker>>

Fences == 1 .. MaxFences
Outcomes == {"none", "succeeded", "failed"}
\* The broker answers with its receipt, or with a failure that has none.
Replies == Outcomes \cup {"unreceipted"}
Inspections == [at : {"idle", "ready", "attest", "send", "await", "complete"},
                fence : 0 .. MaxFences, ready : BOOLEAN, reply : Replies]
Idle == [at |-> "idle", fence |-> 0, ready |-> FALSE, reply |-> "none"]

\* The broker keeps the fence, a row per request and what it asked of the provider.
Books == [fence : 0 .. MaxFences, requests : [Fences -> Outcomes \cup {"claimed"}],
          running : SUBSET Fences, asked : [Fences -> Nat]]

ConnectorsTypeOK ==
    /\ authority \in [term : Fences, carries : Fences, open : BOOLEAN]
    /\ binding \in {"verified", "active", "revoked"}
    /\ operations \in [Fences -> {"none", "prepared", "ambiguous", "completed"}]
    /\ proofs \in [Fences -> Outcomes]
    /\ inspectors \in [Inspectors -> Inspections]
    /\ broker \in Books

ConnectorsInit ==
    /\ authority = [term |-> 1, carries |-> 1, open |-> TRUE]
    /\ binding = "verified"
    /\ operations = [t \in Fences |-> "none"]
    /\ proofs = [t \in Fences |-> "none"]
    /\ inspectors = [i \in Inspectors |-> Idle]
    /\ broker = [fence |-> 0, requests |-> [t \in Fences |-> "none"],
                 running |-> {}, asked |-> [t \in Fences |-> 0]]

-----------------------------------------------------------------------------
(* The surroundings *)

LeaseIsLost ==
    /\ authority.term < MaxFences
    /\ authority' = [authority EXCEPT !.term = @ + 1]
    /\ \/ UNCHANGED inspectors
       \/ inspectors' = [i \in Inspectors |-> Idle]     \* the process dies
    /\ UNCHANGED <<binding, operations, proofs, broker>>

AdoptTurn ==
    /\ authority.open
    /\ authority' = [authority EXCEPT !.carries = authority.term]
    /\ UNCHANGED <<binding, operations, proofs, inspectors, broker>>

TurnEnds ==
    /\ authority' = [authority EXCEPT !.open = FALSE]
    /\ UNCHANGED <<binding, operations, proofs, inspectors, broker>>

Authorized(fence) == authority.open /\ authority.carries = authority.term /\ fence = authority.term

ReconcileEnrollment ==
    /\ Authorized(authority.term)
    /\ \E state \in {"verified", "active", "revoked"} : binding' = state
    /\ UNCHANGED <<authority, operations, proofs, inspectors, broker>>

-----------------------------------------------------------------------------
(* The inspection *)

Ready == binding # "revoked"
Leaves(i) == inspectors' = [inspectors EXCEPT ![i] = Idle]
Steps(i, step) == inspectors' = [inspectors EXCEPT ![i].at = step]

\* The binding is read, and then the readiness of everything else awaited.
Inspect(i) ==
    /\ inspectors[i].at = "idle" /\ Authorized(authority.term) /\ Ready
    /\ inspectors' = [inspectors EXCEPT ![i] =
                         [Idle EXCEPT !.at = "ready", !.fence = authority.term]]
    /\ UNCHANGED <<authority, binding, operations, proofs, broker>>

\* An operation that is there is taken up again; one that is complete is replayed.
PrepareOperation(i) ==
    LET t == inspectors[i].fence
    IN  /\ inspectors[i].at = "ready"
        /\ \/ /\ Authorized(t) /\ Ready /\ operations[t] # "completed"
              /\ operations' = [operations EXCEPT ![t] = IF @ = "none" THEN "prepared" ELSE @]
              /\ Steps(i, "attest")
           \/ Leaves(i) /\ UNCHANGED operations       \* denied, or replayed
        /\ UNCHANGED <<authority, binding, proofs, broker>>

\* The broker takes a fence that is not older than the one it has.
AttestExecutorFence(i) ==
    LET t == inspectors[i].fence
    IN  /\ inspectors[i].at = "attest"
        /\ \/ /\ t >= broker.fence
              /\ broker' = [broker EXCEPT !.fence = t]
              /\ Steps(i, "send") \/ Leaves(i)         \* its answer may be lost
           \/ Leaves(i) /\ UNCHANGED broker
        /\ UNCHANGED <<authority, binding, operations, proofs>>

MarkAmbiguous(t) ==
    operations' = IF Authorized(t) /\ operations[t] = "prepared"
                  THEN [operations EXCEPT ![t] = "ambiguous"] ELSE operations

\* No answer came in time.  The broker may go on, or may not have heard of it.
GiveUp(i) ==
    /\ inspectors[i].at \in {"send", "await"}
    /\ MarkAmbiguous(inspectors[i].fence) /\ Leaves(i)
    /\ UNCHANGED <<authority, binding, proofs, broker>>

Receive(i) ==
    /\ inspectors[i].at = "await" /\ inspectors[i].reply # "none"
    /\ inspectors' = [inspectors EXCEPT ![i].at = "complete", ![i].ready = Ready]
    /\ UNCHANGED <<authority, binding, operations, proofs, broker>>

\* A turn has one evidence row for its profile, of the operation that wrote it.
SoleOutcome(t) == \A u \in Fences \ {t} : proofs[u] = "none"

\* The receipt is copied, with the one outcome that the turn's profile may have:
\* a second one throws.  A success makes the binding active, whatever it is by now.
CompleteOperation(i) ==
    LET t == inspectors[i].fence
        reply == inspectors[i].reply
        Settles(state, outcome) ==
            /\ operations' = [operations EXCEPT ![t] = state]
            /\ proofs' = [proofs EXCEPT ![t] = outcome]
            /\ binding' = IF outcome = "succeeded" THEN "active" ELSE binding
    IN  /\ inspectors[i].at = "complete" /\ Leaves(i)
        /\ \/ /\ inspectors[i].ready /\ Authorized(t) /\ operations[t] # "completed"
              /\ \/ reply = "unreceipted" /\ Settles("ambiguous", "none")
                 \/ reply # "unreceipted" /\ SoleOutcome(t) /\ Settles("completed", reply)
           \/ ~inspectors[i].ready /\ MarkAmbiguous(t) /\ UNCHANGED <<proofs, binding>>
           \/ UNCHANGED <<operations, proofs, binding>>     \* it is not ready, stale, or replayed
        /\ UNCHANGED <<authority, broker>>

-----------------------------------------------------------------------------
(* The broker *)

Answers(i, reply) == inspectors' = [inspectors EXCEPT ![i].at = "await", ![i].reply = reply]

\* Mutated form of ClaimOf: a request without a receipt is taken for a new one.
ClaimUnlessUnanswered(t) == IF broker.requests[t] = "claimed" THEN "none" ELSE broker.requests[t]

\* The row that is there for a request, by its operation.
ClaimOf(t) == broker.requests[t]

\* A request is claimed once: one that is there is answered with its receipt, or
\* not at all.  A claim that is refused has a receipt too, unless it cannot be written.
ClaimRequest(i) ==
    LET t == inspectors[i].fence
        request == ClaimOf(t)
    IN  /\ inspectors[i].at = "send"
        /\ \/ Answers(i, "unreceipted") /\ UNCHANGED broker      \* denied, or claimed before
           \/ /\ request \in {"succeeded", "failed"}
              /\ Answers(i, request) /\ UNCHANGED broker
           \/ /\ request = "none"
              /\ \/ /\ Answers(i, "failed")
                    /\ broker' = [broker EXCEPT !.requests[t] = "failed"]
                 \/ /\ Answers(i, "unreceipted")
                    /\ broker' = [broker EXCEPT !.requests[t] = "claimed"]
                 \/ /\ broker.fence = t
                    /\ Answers(i, "none")
                    /\ broker' = [broker EXCEPT !.requests[t] = "claimed",
                                                !.running = @ \cup {t},
                                                !.asked[t] = @ + 1]
        /\ UNCHANGED <<authority, binding, operations, proofs>>

\* The provider has answered.  A success is one only if everything that allowed
\* the request still holds.
CompleteRequest(t) ==
    LET Tell(reply) ==
            inspectors' = [i \in Inspectors |->
                IF inspectors[i].at = "await" /\ inspectors[i].fence = t /\ inspectors[i].reply = "none"
                THEN [inspectors[i] EXCEPT !.reply = reply] ELSE inspectors[i]]
        Records(outcome) ==
            /\ broker' = [broker EXCEPT !.running = @ \ {t}, !.requests[t] = outcome]
            /\ Tell(IF outcome = "claimed" THEN "unreceipted" ELSE outcome)
    IN  /\ t \in broker.running
        /\ \/ Records("failed")
           \/ Records("claimed")        \* the receipt cannot be written
           \/ broker.fence = t /\ Records("succeeded")
        /\ UNCHANGED <<authority, binding, operations, proofs>>

\* Requests that were claimed when the broker stopped have failed: reconcileInterruptedRequests
BrokerRestarts ==
    /\ broker' = [broker EXCEPT !.running = {},
                     !.requests = [t \in Fences |->
                         IF broker.requests[t] = "claimed" THEN "failed" ELSE broker.requests[t]]]
    /\ UNCHANGED <<authority, binding, operations, proofs, inspectors>>

-----------------------------------------------------------------------------
ConnectorsNext ==
    \/ LeaseIsLost \/ AdoptTurn \/ TurnEnds \/ ReconcileEnrollment \/ BrokerRestarts
    \/ \E i \in Inspectors :
          \/ Inspect(i) \/ PrepareOperation(i) \/ AttestExecutorFence(i) \/ ClaimRequest(i)
          \/ GiveUp(i) \/ Receive(i) \/ CompleteOperation(i)
    \/ \E t \in Fences : CompleteRequest(t)

ConnectorsSpec == ConnectorsInit /\ [][ConnectorsNext]_connectorVars

-----------------------------------------------------------------------------
(* Properties. *)

\* However often an operation is taken up again, by whichever inspection, after lost
\* answers and restarts on both sides, its provider is asked once; what Hanoon has
\* recorded of it is what the broker has; and a turn has one outcome to cite
\* (claimRequest, completeOperation, appendUniversalConnectorOutcome).
ReceiptsAgree ==
    /\ \A t \in Fences : broker.asked[t] <= 1
    /\ \A t \in Fences : proofs[t] # "none" => broker.requests[t] = proofs[t]
    /\ \A t \in Fences, u \in Fences :
          proofs[t] # "none" /\ proofs[u] # "none" => t = u
=============================================================================
